SPECIFICATION FairSpec
CONSTANTS
  Program <- MCProgram
  MaxSuspends = 3
  None = None
INVARIANTS
  NeverTwice
PROPERTIES
  ResumesInPlace
  Ends
