CONSTANTS
  Requests = {r1, r2, r3}
  Streams = {s1, s2}
  MaxAttempts = 2
  MaxSize = 2
  MaxConnections = 2
  RequestLimit = 2
  None = None
  Idle = Idle
  Closed = Closed
SPECIFICATION Spec
SYMMETRY Symmetry
CHECK_DEADLOCK FALSE
INVARIANTS OwnAnswer OneExchange IInv
PROPERTY AttemptRunsOnce
