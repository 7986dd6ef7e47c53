\* A client that pipelines, half closes and disappears; memory may run out.
SPECIFICATION Spec
CONSTANTS
  Requests <- EveryKind
  MaxRequests = 3
  MaxInFlight = 2
  RecvMax = 3
  SendBuf = 2
  HdrLen = 2
  RespLen = 3
  AllocFails = TRUE
INVARIANTS
  CleanBetweenCalls
  OnlyTheLastCloses
  StreamInOrder
  AnsweredInOrder
PROPERTIES
  ImplementsExchange
CHECK_DEADLOCK FALSE
