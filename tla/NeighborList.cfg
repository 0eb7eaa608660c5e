SPECIFICATION Spec
CONSTANTS
    NX = 2
    NY = 1
    NZ = 1
    Tags = {0, 1}
    Bonds = {}
    L = 13
    Cutoffs <- NarrowAndWide
    Periods <- EveryStepOrTwo
    Exclusions <- OnePair
    Places <- AboutTheBoundary
    Moves <- Approaching
    NOT_LOCAL = NOT_LOCAL
INVARIANTS
    TypeOK
    ListComplete
    ExcludedNeverListed
    RanksAgree
    ChecksSameParticles
PROPERTY StepCompletes
