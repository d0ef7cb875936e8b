SPECIFICATION Spec
CONSTANTS
  Sender = {"schema", "hook", "off", "loop"}
  EventsBuffer = 1
  MaxExecutes = 3
  ApiFlow = {"hook"}
  MaxCommands = 7
INVARIANTS
  RepliesMatch
  ChannelOnce
  NoExecuteAfterHangup
PROPERTIES
  HandlerEnds
  
CHECK_DEADLOCK FALSE
