CONSTANTS
    NumFrames = 32
    FirstFrame = 3
    NumVpns = 32
    FirstCodeVpn = 6
    CodeSize = 2
    HeapSize = 2
    ChunkPages = 2
    NumWords = 65536
    MaxPrograms = 8
    BrkVpns = {}
    BrkAccess = {}
    JumpVpns = {}
    EdgeVpns = {}
    DataVpns = {}
    Image <- DistinctImage
    PageWords = 2048
    MemWords = 65535
SPECIFICATION CooperativeSpec
INVARIANTS
    DeadHoldNothing
    ImagesInPlace
PROPERTY EveryoneIsServed
