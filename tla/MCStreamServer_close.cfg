SPECIFICATION Spec
CONSTANTS
  Clients = {c1}
  MaxConnections = 1
  Capacity = 2
  Sources = {"custom"}
  MaxBatch = 2
  MaxMessages = 3
CHECK_DEADLOCK FALSE
INVARIANT CloseNotMissed
