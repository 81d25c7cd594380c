SPECIFICATION Spec
CONSTANTS
    Proc = {p1, p2}
    Block = {"D", "X", "Z"}
    Shape = {"file", "coarse", "fine"}
    File = "file"
    Layout <- MCLayout
    None = None
    MaxRemovals = 1
    MaxCrashes = 1
SYMMETRY Interchangeable
CONSTRAINT Bounds
INVARIANTS
    FinalWhole
    NotLost
    CopiesExact
    NoLitter
PROPERTY IsAtomicStore
CHECK_DEADLOCK FALSE
