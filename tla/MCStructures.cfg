SPECIFICATION Spec
CONSTANTS
  w1 = w1
  w2 = w2
  w3 = w3
  x1 = x1
  x2 = x2
  Bytes32 = {w1, w2, w3}
  Zero = w3
  Element = {x1, x2}
  ToBytes32 <- Conversion
  Capacity = 3
  NoValue = NoValue
  TraceKey = {0, 1, 2, 3, 4, 5, 6}
  TraceValue = {1, 2}
  MaxTrace = 7
  Word = {0, 1, 2}
  MaxLen = 5
  MaxCopy = 5
  MaxFlags = 5
INVARIANTS
  SortRight
  SearchRight
  CopyRight
  ProofsSound
PROPERTIES
  SetIsSet
  MapIsMap
  LookupsRight
CHECK_DEADLOCK FALSE
