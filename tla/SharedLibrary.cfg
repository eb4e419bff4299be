CONSTANTS
    Objects = {o1, o2}
    Tokens <- MCTokens
    Dirs <- MCDirs
    RootDir = RootDir
    NoDir = NoDir
    Null = Null
    Junk = Junk
    DefaultPrefix <- Prefix
    DefaultSuffix <- Suffix
    Names <- MCNames
    Paths <- MCPaths
    Loadable <- MCLoadable
    DirtyHeap = FALSE
    MaxOpens = 2
    d1 = d1
SPECIFICATION Spec
SYMMETRY Symmetry
INVARIANT TypeOK
INVARIANT HandlesCounted
INVARIANT LoadedPathStable
INVARIANT FilePathRebuilt
PROPERTY LoadFailureHarmless
CHECK_DEADLOCK FALSE
