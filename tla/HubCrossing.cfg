SPECIFICATION Spec
CONSTANTS
  Sends <- FiveSends
  BufferSize = 2
  Kinds = {"reg"}
  MaxRequests = 1
  MaxErrors = 0
  Crossing = TRUE
INVARIANTS
  ResponseMatches
CHECK_DEADLOCK FALSE
