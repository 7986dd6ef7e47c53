\* Two requests over one connection, two listeners, allocations that fail.
SPECIFICATION Spec
CONSTANTS
  MAX_LISTENERS = 2
  INITIAL_ROUTE_CAPACITY = 1
  Descriptors <- Fds
  Patterns <- Paths
  MaxRoutes = 3
  MaxServing = 1
  MaxRequests = 2
  MaxConnections = 1
INVARIANTS
  MemoryIsSafe
  LossesAreExcused
  DescriptorsAreOwned
  RoutesAreKept
  CountersAddUp
CHECK_DEADLOCK FALSE
