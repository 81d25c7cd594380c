SPECIFICATION Spec
CONSTANTS
    A = A
    B = B
    C = C
    w = w
    x = x
    y = y
    z = z
    Root = Root
    None = None
    Block <- SmallBlock
    Chunk <- SmallChunk
    Body <- SmallBody
    Rank <- SmallRank
    BlockDepth = 2
    Window = 1
    MayBreak <- NoBlock
    MayVanish <- NoBlock
    MaxNesting = 2
    Asking = TRUE
    MakesWbp = TRUE
    WriterDies = FALSE
    MaxOthers = 1
    MaxRemovals = 1
INVARIANTS
    DeliveredExact
    InStep
    RacesCostNothing
    FailsForAReason
PROPERTIES
    Terminates
    KeepsPromise
