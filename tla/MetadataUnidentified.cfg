SPECIFICATION Spec
CONSTANTS
  PoolSize = 3
  FullLen = 2
  MaxUsers = 2
  FaceIds = {1}
  HasIdentifiedCb = TRUE
  HasUnidentifiedCb = TRUE
  NoBuf = NoBuf
  Clobbered = Clobbered
INVARIANT UnidentifiedHaveNoFaceId
CHECK_DEADLOCK FALSE
