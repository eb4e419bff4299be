CONSTANTS
    Unix = TRUE
    Gcc = FALSE
    Msvc = FALSE
    Inputs <- SomeInputs
SPECIFICATION Spec
INVARIANT TypeOK
INVARIANT OneBackEnd
INVARIANT SameAsFresh
INVARIANT ResetIsFresh
