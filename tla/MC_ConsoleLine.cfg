CONSTANTS
    Width <- MCWidthAscii
    RuneWidth <- MCRuneAscii
    MaxRunes = 8
SPECIFICATION Spec
PROPERTY ImplementsLiveSpec
