SPECIFICATION Spec
CONSTANTS
  Tasks = {t1, t2, t3}
  Permits = {p1, p2}
  Conns = {c1, c2, c3, c4, c5}
  MaxRetries = 2
  MaxPreheat = 2
  None = None
  Idle = Idle
  Closed = Closed
SYMMETRY Symmetry
INVARIANTS
  PermitConservation
  StatsBound
  RoomToReturn
  IdleClean
  IInv
PROPERTY Refines
