\* Two bots of a thread and the connection each may get.
SPECIFICATION MCSpec
CONSTANTS
  Threads = {t1}
  Subs = {b1, b2}
  Conns = {c1, c2}
  First = c1
  MaxEvents = 3
  NoConn = NoConn
  NoSession = NoSession
INVARIANTS
  OneSchemaPerSession
  NoLostWakeup
  SuspendedIsCancelled
PROPERTIES
  BrokenStops
CHECK_DEADLOCK FALSE
