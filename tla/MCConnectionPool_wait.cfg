SPECIFICATION Spec
CONSTANTS
  Tasks = {t1, t2}
  Permits = {p1}
  Conns = {c1, c2, c3}
  MaxRetries = 1
  MaxPreheat = 0
  None = None
  Idle = Idle
  Closed = Closed
INVARIANT NoWaitBesideIdle
