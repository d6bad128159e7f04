CONSTANTS
    v1 = v1
    v2 = v2
    Missing = Missing
    Unreachable = Unreachable
    Val <- MCVal
    Foreign <- MCForeign
    MaxPublish = 2
    MayJoinUnreachable = FALSE
SPECIFICATION Spec
INVARIANT JoinNeverPartial
INVARIANT RoundTrip
