CONSTANTS
  Workers = {w1}
  Clients = {c1}
  Port = Port
  Paths = {"/health"}
  None = None
SPECIFICATION FairSpec
PROPERTY PortIsServed
CHECK_DEADLOCK FALSE
