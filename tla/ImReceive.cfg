SPECIFICATION FairSpec
CONSTANTS
  Handler = {1, 2, 3}
  Triggers = {"cmd"}
  Collects = {"main"}
  Kind = {"customer", "command", "operator"}
  MaxMessages = 2
  MaxSuspends = 1
  None = None
INVARIANTS
  Listens
  InOrder
  Fresh
PROPERTIES
  Answered
CHECK_DEADLOCK FALSE
