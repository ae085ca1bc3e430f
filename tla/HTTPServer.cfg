CONSTANTS
  Workers = {w1, w2}
  Clients = {c1, c2}
  Port = Port
  Paths = {"/health", "/v1/completions"}
  None = None
SPECIFICATION FairSpec
INVARIANTS StopDrains OneLateConnection
PROPERTIES WaitingIsResolved StopWaitsForClientsOnly
CHECK_DEADLOCK FALSE
