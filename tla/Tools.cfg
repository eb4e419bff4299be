CONSTANTS
    Tags = {t1, t2}
    Tokens = {a, b}
    a = a
    b = b
    Literals <- MCLiterals
    Reserved <- MCReserved
    NameOf <- MCNameOf
    MaxLen = 2
    MaxNames = 3
    Anys = {x, y}
    Holders = {h1, h2, h3}
    Unmade = Unmade
    Null = Null
SPECIFICATION Spec
SYMMETRY Symmetry
INVARIANT TypeOK
INVARIANT TagsNameThemselves
INVARIANT HoldersOwnedOnce
INVARIANT CastPointersLive
CHECK_DEADLOCK FALSE
