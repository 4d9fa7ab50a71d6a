CONSTANTS
  Thread = {t1, t2}
  Creator = {t1, t2}
  Value = {v1, v2, v3}
  MaxKeys = 2
  MallocFails = FALSE
  NULL = NULL
SPECIFICATION Spec
INVARIANT UsesItsSlot
CHECK_DEADLOCK FALSE
