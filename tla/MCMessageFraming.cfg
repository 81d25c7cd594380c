SPECIFICATION Spec
CONSTANTS
    Index = {0, 1, 2, 3}
    Piece = {"a", "b", "c", "d"}
    Script <- MCScript
    Receiver <- MCReceiver
    MaxSkips = 1
    MaxSignals = 2
    MaxInFlight = 2
    Work <- MCWork
    MaxAsks = 1
    None = None
INVARIANTS
    ParsedAsSent
    PauseHolds
PROPERTY Completes
CHECK_DEADLOCK FALSE
