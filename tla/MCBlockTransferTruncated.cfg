SPECIFICATION Spec
CONSTANTS
    A = A
    B = B
    C = C
    w = w
    x = x
    y = y
    z = z
    Root = Root
    None = None
    Block <- SmallBlock
    Chunk <- SmallChunk
    Body <- SmallBody
    Rank <- SmallRank
    BlockDepth = 2
    Window = 1
    MayBreak <- NoBlock
    MayVanish <- NoBlock
    MaxNesting = 2
    Asking = FALSE
    MakesWbp = TRUE
    WriterDies = TRUE
    MaxOthers = 0
    MaxRemovals = 0
INVARIANT
    DeliveredExact
