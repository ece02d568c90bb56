SPECIFICATION Spec
CONSTANTS
  Clients = {c1, c2, c3}
  Kinds = {"list"}
  NoClient = NoClient
PROPERTIES
  ServesRequests
  ClientsEnd
CHECK_DEADLOCK FALSE
