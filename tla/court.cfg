CONSTANTS
    t1 = t1
    t2 = t2
    t3 = t3
    t4 = t4
    t5 = t5
    t6 = t6
    Threads = {t1, t2, t3, t4, t5, t6}
    MaxPlayers = 3
    NoThread = NoThread
SPECIFICATION Spec
SYMMETRY Symmetry
INVARIANTS
    TypeOK
    SlotsConserved
    NoOverCapacity
    RefereeFirst
    NoSignalStolen
    ResetWhenEmpty
PROPERTY NoEntryDuringMatch
CHECK_DEADLOCK FALSE
