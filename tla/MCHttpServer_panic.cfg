SPECIFICATION Spec
CONSTANTS
  Streams = {s1, s2}
  MaxConnections = 1
  RequestLimit = 2
  MaxClients = 2
INVARIANT ActiveIsCurrent
