CONSTANTS
    Names <- MCNames
    Inodes <- MCInodes
    RootDir = root
    Outside = out
    None = None
    InitKind <- MCKind
    InitChild <- MCChild
    root = root
    a = a
    aa = aa
    aaf = aaf
    link = link
    out = out
    outf = outf
    f = f
    new1 = new1
    new2 = new2
    new3 = new3
    new4 = new4
    Procs = {p1, p2, p3}
    MakePaths <- Crossing
    RemovePaths <- TreeAndSubtree
    Failures = TRUE
SPECIFICATION Spec
SYMMETRY Symmetry
INVARIANT TypeOK
INVARIANT MadePathStands
INVARIANT MakersNeverClash
INVARIANT RemovedIsGone
INVARIANT RemovedByOne
INVARIANT OutsideKept
INVARIANT StreamsClosed
CHECK_DEADLOCK FALSE
