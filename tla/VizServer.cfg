SPECIFICATION Spec
CONSTANTS
  Threads = {t1, t2}
  Versions = {0, 1, 2}
  Size <- SizeOf
  Frames <- MixedFrames
INVARIANTS
  TypeOK ProfilesCurrent BoxesOfOneMessage
PROPERTIES
  NamedIfKnown BoxesGo
