CONSTANTS
    Threads = {t1, t2}
    Writers = {t1}
    Adders = {t1}
    Modulus = 3
SPECIFICATION Spec
INVARIANT TypeOK
INVARIANT NoLostUpdate
PROPERTY IsAtomic
CHECK_DEADLOCK FALSE
