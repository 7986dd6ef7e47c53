\* Every helper over small inputs; words of five bits.
SPECIFICATION Spec
CONSTANTS
  SIZE_MAX = 31
  Initial = 3
  MaxBlock = 15
  IntMax = 2500
  DelaysMs <- DelayValues
  Starts <- StartTimes
  MaxSec = 4
  Pieces <- PieceValues
  MaxPieces <- PieceBounds
  CJSON_NESTING_LIMIT = 3
  INT_MAX = 60
INVARIANTS
  CopyStaysInside
  TimesAreExact
  UrlRoundTrip
  EscapedIsJSON
  ParseStaysInside
  PrintedIsParsed
  MinifyKeepsValue
PROPERTIES
  DoublingGrows
  AppendReturns
CHECK_DEADLOCK FALSE
