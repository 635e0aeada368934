\* A program ends: deadlock is not checked.
SPECIFICATION Spec
CHECK_DEADLOCK FALSE
CONSTANTS
    Sources <- DeclaredLater
    Assembled <- NoPrograms
    Extensions <- Prefixed
INVARIANT
    HeapHoldsInitialValues
