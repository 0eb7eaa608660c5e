SPECIFICATION Spec
CONSTANTS
  NGlobal = 2
  NTypes = 1
  NOT_LOCAL = NOT_LOCAL
  MaxBonds = 3
  MaxCount = 6
INVARIANT CountIsNumberOfBonds
