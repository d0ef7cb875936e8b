SPECIFICATION Spec
CONSTANTS
  Node = {n1, n2}
  Session = {s1}
  Receivers <- One
  MaxMessages = 2
  MaxLeaves = 1
  MaxEnds = 0
  MaxCrashes = 0
  MaxErrors = 0
  MaxEvictions = 0
  s1 = s1
  s2 = s2
  None = None
SYMMETRY Symmetry
INVARIANTS
  OneNode
CHECK_DEADLOCK FALSE
