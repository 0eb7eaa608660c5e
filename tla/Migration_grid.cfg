SPECIFICATION Spec
CONSTANTS
    NX = 2
    NY = 3
    NZ = 1
    Tags = {"a"}
    BondTags = {}
    Members <- NoBond
    Motions <- FacesAndEdges
    NOT_LOCAL = NOT_LOCAL
INVARIANTS
    EveryParticleHome
PROPERTY MigrationCompletes
