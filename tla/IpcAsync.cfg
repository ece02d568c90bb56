SPECIFICATION Spec
CONSTANTS
  Clients = {c1, c2}
  Kinds = {"update", "list", "generate"}
  NoClient = NoClient
INVARIANTS
  TypeOK
  OwnAnswer
  AtMostOnce
PROPERTIES
  PollsAgain
CHECK_DEADLOCK FALSE
