SPECIFICATION MCSpec
CONSTANTS
  MaxConns = 3
  MaxAttempts = 2
  MaxFaults = 1
  Readers = {r1, r2}
  LastVersion = 2
  Absent = {1}
INVARIANTS
  Listening
  FreshFlights
PROPERTIES
  CallHandled
  CaughtUp
CHECK_DEADLOCK FALSE
