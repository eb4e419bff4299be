CONSTANTS
    Threads = {t1, t2}
    Writers = {}
    Adders = {t1, t2}
    Modulus = 4
SPECIFICATION Spec
INVARIANT NoLostUpdate
CHECK_DEADLOCK FALSE
