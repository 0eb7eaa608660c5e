SPECIFICATION Spec
CONSTANTS
    NGlobal = 3
    NPlaces = 2
    Sizes = {1, 2}
    Movable <- FewMovable
    Group = {1, 2}
    NOT_LOCAL = NOT_LOCAL
    Triples <- Tuples
    NO_ANGLE = NO_ANGLE
    MaxAngles = 2
INVARIANTS
    TypeOK
    GroupsFollow
    TableCurrent
PROPERTY ImplementsState
