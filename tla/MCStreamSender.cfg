SPECIFICATION Spec
CONSTANTS
  More = 4
  Limit = 32
  MaxBytes = 3
  MaxPayload = 4
  RecvMaxSize = 8
  Unitsizes = {1, 2, 3}
  Values = {0, 1}
  CallSizes = {2, 3, 6}
  MaxGiven = 7
  AcceptLists <- Frontends
  SupportedLists <- Plugins
CHECK_DEADLOCK FALSE
INVARIANTS
  HelloIsIntersection
  
  DecodesToGiven
  PositionIsTrue
  NothingLost
  ChunksFit
