SPECIFICATION Spec
CONSTANTS
  Key = {k1, k2, k3}
  Value = {v1, v2}
  None = None
  Size = 2
  Expiry = {0, 1}
  MaxTime = 3
  MaxGen = 2
INVARIANTS
  LenIsExact
PROPERTIES
  IsObjectCache
CHECK_DEADLOCK TRUE
