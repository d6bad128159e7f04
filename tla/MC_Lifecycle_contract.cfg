CONSTANTS
    p1 = p1
    p2 = p2
    NoProc = NoProc
    Proc <- MCProc
    NBootstrap = 2
    MaxStarts = 2
SPECIFICATION Spec
INVARIANT NoLeakOnFailedStart
