SPECIFICATION CcSpec
CONSTANTS
  NJoins = 2
  NDialogs = 2
  MaxConsumers = 2
  MaxLosses = 1
INVARIANTS
  PanicNeedsInterrupt
  HandBackHeard
PROPERTIES
  EventsHeeded
CHECK_DEADLOCK FALSE
