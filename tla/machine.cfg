\* A machine stops: deadlock is not checked.
SPECIFICATION ViewSpec
CHECK_DEADLOCK FALSE
CONSTANTS
    CommandLines <- Lines
    Chars <- Keys
    Numbers <- Typing
    MaxConsole = 5
    Views <- ViewsOf
INVARIANTS
    TypeOK
    EndsAsRecorded
PROPERTIES
    ImplementsVm
    EveryProgramEnds
