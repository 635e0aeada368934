CONSTANTS
    MaxDepth = 2
    Magnitudes = {1001}
    Garbage = {9}
    IntLimit = 1024
    ReadLimit = 1000
SPECIFICATION FairSpec
INVARIANTS
    TypeOK
    InOrderResult
    InOrderTraversal
    ParentsOutliveChildren
    NobodyReadsForEver
PROPERTY TreeFinishes
