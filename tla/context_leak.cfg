\* One request.
SPECIFICATION Spec
CONSTANTS
  MAX_LISTENERS = 1
  INITIAL_ROUTE_CAPACITY = 1
  Descriptors <- Fds
  Patterns <- Paths
  MaxRoutes = 1
  MaxServing = 1
  MaxRequests = 1
  MaxConnections = 1
INVARIANTS
  FreesAllResources
CHECK_DEADLOCK FALSE
