SPECIFICATION Spec
CONSTANTS
  Threads = {t1, t2}
  Generators = {g1, g2}
  MaxFailures = 2
  NoThread = NoThread
INVARIANTS
  TypeOK RunningStreams
PROPERTIES
  ReleasedIdle IsSwitch GeneratorsEnd
