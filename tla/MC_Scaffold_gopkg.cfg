CONSTANTS
    GoSrc <- MCGoSrc
    RootDirs <- MCRootDirs
    Existing <- MCExisting
    Assets <- MCAssets
    MaxAttempts = 1
SPECIFICATION Spec
INVARIANT GoPkgIsImportPath
