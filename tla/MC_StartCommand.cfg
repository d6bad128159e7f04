CONSTANTS
    Joins <- MCJoins
SPECIFICATION Spec
INVARIANT ExitZeroMeansClean
