SPECIFICATION FairSpec
CHECK_DEADLOCK FALSE
CONSTANTS
  Tasks = {t1, t2}
  Permits = {p1, p2}
  Conns = {c1, c2, c3, c4}
  Requests = {r1, r2}
  Streams = {s1, s2}
  None = None
  Idle = Idle
  Closed = Closed
PROPERTIES CallReturns RequestEnds
