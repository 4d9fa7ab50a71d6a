CONSTANTS
  Thread = {t1, t2}
  Creator = {t1}
  Value = {v1, v2, v3}
  MaxKeys = 2
  MallocFails = TRUE
  NULL = NULL
SPECIFICATION Spec
INVARIANTS UsesItsSlot OneOwner
PROPERTY ImplementsLocalStore
SYMMETRY ValueSymmetry
CHECK_DEADLOCK FALSE
