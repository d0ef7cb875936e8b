SPECIFICATION FairSpec
CONSTANTS
  Callers = {p1, p2}
  Databases = {r1, r2}
  MaxVersion = 2
  None = None
INVARIANTS
  NotOlder
PROPERTIES
  CatchesUp
