\* A client that waits for each answer before it issues the next request.
SPECIFICATION FairSpec
CONSTANTS
  Requests <- EveryKind
  MaxRequests = 3
  MaxInFlight = 1
  RecvMax = 3
  SendBuf = 2
  HdrLen = 2
  RespLen = 3
  AllocFails = FALSE
INVARIANTS
  EachAnswerIsToItsRequest
PROPERTIES
  CloseOnlyWhenAnnounced
  EveryRequestIsAnswered
CHECK_DEADLOCK FALSE
