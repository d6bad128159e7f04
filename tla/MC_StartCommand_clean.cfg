CONSTANTS
    Joins <- MCJoins
SPECIFICATION Spec
INVARIANT CleanEnd
