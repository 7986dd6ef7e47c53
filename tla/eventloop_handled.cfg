\* http_poll's return value.
SPECIFICATION Spec
CONSTANTS
  Conn = {c1, c2}
  NULL = NULL
  NListen = 1
  MaxBacklog = 1
INVARIANTS
  EventsHandled
CHECK_DEADLOCK FALSE
