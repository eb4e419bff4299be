CONSTANTS
    Names <- MCNames
    Inodes <- MCInodes
    RootDir = root
    Outside = out
    None = None
    InitKind <- MCKind
    InitChild <- SmallerChild
    root = root
    a = a
    aa = aa
    aaf = aaf
    link = link
    out = out
    outf = outf
    f = f
    new1 = new1
    new2 = new2
    new3 = new3
    new4 = new4
    Procs = {p1, p2, p3}
    MakePaths <- Refill
    RemovePaths <- WholeTree
    Failures = FALSE
SPECIFICATION HistorySpec
INVARIANT RetryRemoves
PROPERTY EveryCallEnds
CHECK_DEADLOCK FALSE
