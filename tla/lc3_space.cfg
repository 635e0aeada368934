\* A program ends: deadlock is not checked.
SPECIFICATION Spec
CHECK_DEADLOCK FALSE
CONSTANTS
    Sources <- OtherRegister
    Assembled <- NoPrograms
    Extensions <- Prefixed
INVARIANT
    MeansTheSame
