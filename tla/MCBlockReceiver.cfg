SPECIFICATION MCSpec
CONSTANTS
    A = A
    C = C
    x = x
    y = y
    Root = Root
    None = None
    Block <- MCBlock
    Chunk <- MCChunk
    Body <- MCBody
    Rank <- MCRank
    BlockDepth = 2
    MaxNesting = 2
    Asking = TRUE
    MakesWbp = FALSE
    MaxSent = 6
    MaxOthers = 1
    MaxRemovals = 1
INVARIANTS
    TypeOK
    StoreIntegrity
    PointersKept
    ReceiverInv
CHECK_DEADLOCK FALSE
