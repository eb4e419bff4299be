CONSTANTS
    Threads = {t1, t2, t3}
    Writes = {w1}
    Backend = "cxx11"
    Half = 1
    MaxStores = 2
    Args <- MCArgs
    BitOr <- SignedOr
    BitAnd <- SignedAnd
    BitXor <- SignedXor
SPECIFICATION MCSpec
SYMMETRY Symmetry
INVARIANT TypeOK
INVARIANT AcquireSeesRelease
CHECK_DEADLOCK FALSE
