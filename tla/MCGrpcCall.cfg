SPECIFICATION Spec
CONSTANTS
    A = A
    C = C
    Block <- MCBlock
    Held <- MCBlock
    Script <- MCScript
    Payload = 2
    Room = 1
    Modes <- Served
INVARIANTS
    TypeOK
    RequestsKept
    KeptInv
PROPERTIES
    RequestDirectionEnds
    CallCompletes
