CONSTANTS
    GoSrc <- MCGoSrc
    RootDirs <- MCRootDirs
    Existing <- MCExisting
    Assets <- MCAssets
    MaxAttempts = 3
SPECIFICATION Spec
INVARIANT NeverClobbers
INVARIANT CreatedTreeComplete
