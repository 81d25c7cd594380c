SPECIFICATION Spec
CONSTANTS
    A = A
    B = B
    C = C
    w = w
    x = x
    y = y
    z = z
    Root = Root
    None = None
    Block <- DeepBlock
    Chunk <- DeepChunk
    Body <- DeepBody
    Rank <- DeepRank
    BlockDepth = 3
    Window = 1
    MayBreak <- OnlyA
    MayVanish <- OnlyC
    MaxNesting = 2
    Asking = TRUE
    MakesWbp = TRUE
    WriterDies = TRUE
    MaxOthers = 1
    MaxRemovals = 1
INVARIANTS
    DeliveredPrefix
    StoreSound
PROPERTY
    Terminates
