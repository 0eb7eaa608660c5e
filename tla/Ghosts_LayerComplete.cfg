SPECIFICATION LayerSpec
CONSTANTS
    NX = 2
    NY = 1
    NZ = 1
    Tags = {"a", "b"}
    Bonds <- NoBonds
    L = 5
    LayerWidth = 2
    MaxBond = 0
    MaxMoves = 0
    Steps <- EastAndWest
    Anchors <- Anywhere
    NOT_LOCAL = NOT_LOCAL
INVARIANT LayerComplete
