CONSTANTS
    Threads = {t1, t2, t3}
    Writes = {w1, w2}
    Backend = "cxx11"
    Half = 4
    Refs = {r1, r2, r3}
    NoThread = NoThread
    MaxStores = 4
SPECIFICATION FairSpec
INVARIANT TypeOK
INVARIANT CountIsHeld
INVARIANT NoUseAfterFree
INVARIANT DestroyedOnce
INVARIANT DestroyerSeesUses
PROPERTY EventuallyDestroyed
CHECK_DEADLOCK FALSE
