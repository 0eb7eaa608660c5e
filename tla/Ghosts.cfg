SPECIFICATION LayerSpec
CONSTANTS
    NX = 2
    NY = 2
    NZ = 1
    Tags = {"a", "b"}
    Bonds <- OneBond
    L = 4
    LayerWidth = 1
    MaxBond = 2
    MaxMoves = 1
    Steps <- EastAndSouth
    Anchors <- NearCorners
    NOT_LOCAL = NOT_LOCAL
INVARIANTS
    LayerTypeOK
    OneCopyOfEach
    GhostsAreCurrent
    UpdatesFitLists
    LayerComplete
    BondsComplete
PROPERTY RoundCompletes
