SPECIFICATION Spec
CONSTANTS
  Sends <- FiveSends
  BufferSize = 2
  Kinds = {"app", "reg", "data"}
  MaxRequests = 2
  MaxErrors = 1
  Crossing = FALSE
INVARIANTS
  TypeOK ResponseMatches FramesWhole NoFrameLost
PROPERTIES
  GardServed RequestReturns
CHECK_DEADLOCK FALSE
