SPECIFICATION Spec
CONSTANTS
    NX = 2
    NY = 2
    NZ = 1
    Tags = {"a", "b"}
    BondTags = {"ab"}
    Members <- OneBond
    Motions <- FewForTheOther
    NOT_LOCAL = NOT_LOCAL
INVARIANTS
    TypeOK
    OneOwner
    RtagsConsistent
    BondTablesConsistent
    MessagesMatch
    BondsFollowParticles
