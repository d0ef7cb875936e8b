SPECIFICATION GrpcSpec
CONSTANTS
  Calls = {c1, c2}
  NForms = 2
  NConvs = 2
  NCalls = 2
  MaxRequests = 2
INVARIANTS
  PanicNeedsRace
  RefusedWhileClosing
  WaitsOnBridge
  StillFound
PROPERTIES
  ActionTaken
  BrokenEnds
CHECK_DEADLOCK FALSE
