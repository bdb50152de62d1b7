SPECIFICATION FairSpec
CONSTANTS
  Clients = {c1}
  MaxConnections = 1
  Capacity = 1
  Sources = {"periodic", "iterator", "custom"}
  MaxBatch = 2
  MaxMessages = 2
CHECK_DEADLOCK FALSE
PROPERTIES ShutdownStops  GoneLeaves
