SPECIFICATION Spec
CONSTANTS
    E = E
    S = S
    M = M
    L = L
    Key = Key
    Other = Other
    None = None
    Nothing = Nothing
    Refused = Refused
    Type = {Key, Other}
    NodeType = Key
    MaxHashes = 2
    MaxLevels = 3
    Places <- MCPlaces
    Radix = 4
    HashLength = 2
    TypeLength = 2
    Content <- MCContent
    Form <- MCForm
    Parses <- MCParses
INVARIANTS
    ContextIsNearest
    BuiltExact
    SplitExact
    SplitMatchesBuild
    FractalAgrees
    Regenerated
    RoundTrip
CHECK_DEADLOCK FALSE
