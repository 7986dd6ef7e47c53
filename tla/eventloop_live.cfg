\* A loop that may be stopped and run again, two connections.
SPECIFICATION FairSpec
CONSTANTS
  Conn = {c1, c2}
  NULL = NULL
  NListen = 2
  MaxBacklog = 1
PROPERTIES
  NoStarvation
  RunStops
CHECK_DEADLOCK FALSE
