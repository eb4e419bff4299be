CONSTANTS
    Objects = {o1, o2}
    Tokens <- MCTokens
    Dirs <- MCDirs
    RootDir = RootDir
    NoDir = NoDir
    Null = Null
    Junk = Junk
    DefaultPrefix <- Prefix
    DefaultSuffix <- Suffix
    Names <- MCNames
    Paths <- MCPaths
    Loadable <- MCLoadable
    DirtyHeap = TRUE
    MaxOpens = 2
    d1 = d1
SPECIFICATION Spec
SYMMETRY Symmetry
INVARIANT HandleNullUnlessLoaded
CHECK_DEADLOCK FALSE
