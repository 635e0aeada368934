\* A program ends: deadlock is not checked.
SPECIFICATION Spec
CHECK_DEADLOCK FALSE
CONSTANTS
    Sources <- WellBehaved
    Assembled <- Assembly
    Extensions <- Prefixed
INVARIANTS
    TypeOK
    WordsMeanTheirLines
    MeansTheSame
    StaysInItsVariables
PROPERTY
    RunsToHalt
