\* Five embedders, room for up to five items.
SPECIFICATION Spec
CONSTANTS
  MaxCount = 3
  Usage <- Embedders
  Lower <- LowerCase
  CJSON_CIRCULAR_LIMIT = 1
INVARIANTS
  ListsAreLinked
  EachHasOneOwner
  NothingDangles
  CompareIsEquality
  CopyIsFaithful
PROPERTIES
  ImplementsItemTree
CHECK_DEADLOCK FALSE
