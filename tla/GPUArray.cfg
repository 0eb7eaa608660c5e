SPECIFICATION Spec
CONSTANTS
  Arrays = {"a1", "a2"}
  Val = {0}
  Zero = 0
  Junk = junk
  Sizes = {1, 3}
  Widths = {1}
  Heights = {1}
  Align = 2
  CUDA = TRUE
  MaxAlloc = 2
INVARIANTS TypeOK Coherent HandleOnGoodCopy
PROPERTY ImplementsMemory
