\* Three connections and one listener; everything may happen.
SPECIFICATION Spec
CONSTANTS
  Conn = {c1, c2, c3}
  NULL = NULL
  NListen = 1
  MaxBacklog = 1
INVARIANTS
  NothingDangles
  NothingLost
  DescriptorsAccounted
  IndexIsOffByTheAccepted
SYMMETRY Symmetry
CHECK_DEADLOCK FALSE
