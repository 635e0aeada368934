CONSTANTS
    NumFrames = 7
    FirstFrame = 3
    NumVpns = 4
    FirstCodeVpn = 1
    CodeSize = 1
    HeapSize = 1
    ChunkPages = 2
    NumWords = 2
    MaxPrograms = 2
    BrkVpns = {2, 3}
    BrkAccess = {1, 3}
    JumpVpns = {1, 2}
    EdgeVpns = {1, 3}
    DataVpns = {0, 2, 3}
    Image <- DistinctImage
    PageWords = 2048
    MemWords = 65535
SPECIFICATION Spec
INVARIANTS
    TypeOK
    NoFrameShared
    BitmapExact
    RunsItsOwnTable
    DeadHoldNothing
PROPERTY ImplementsSpaces
