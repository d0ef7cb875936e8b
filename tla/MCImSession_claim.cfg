SPECIFICATION Spec
CONSTANTS
  Node = {n1, n2}
  Session = {s1, s2}
  Receivers <- Both
  MaxMessages = 2
  MaxLeaves = 1
  MaxEnds = 1
  MaxCrashes = 1
  MaxErrors = 1
  MaxEvictions = 1
  s1 = s1
  s2 = s2
  None = None
SYMMETRY Symmetry
INVARIANTS
  RowBacked
  ClaimHeld
CHECK_DEADLOCK FALSE
