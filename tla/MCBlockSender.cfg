SPECIFICATION FairSpec
CONSTANTS
    A = A
    B = B
    C = C
    D = D
    w = w
    x = x
    y = y
    z = z
    Root = Root
    None = None
    Block <- MCBlock
    Chunk <- MCChunk
    Body <- MCBody
    Rank <- MCRank
    BlockDepth = 3
    Window = 2
    MayBreak <- MCMayBreak
    MayVanish <- MCMayVanish
INVARIANTS
    TypeOK
    NoIntersection
    TerminatorsComplete
    FramingInv
    DropsOnlyWhatWasAsked
    StopsAtTheRequest
PROPERTIES
    StreamEnds
CHECK_DEADLOCK FALSE
