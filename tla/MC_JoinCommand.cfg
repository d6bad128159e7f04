CONSTANTS
    j1 = j1
    j2 = j2
    Cmd <- MCCmd
    NoCmd = NoCmd
    MaxSignals = 2
    SigBuffer = 1
SPECIFICATION Spec
PROPERTY SignalEndsCommand
