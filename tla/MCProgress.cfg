SPECIFICATION FairSpec
CHECK_DEADLOCK FALSE
CONSTANTS
  Processes = {b1, b2}
  Inodes = {i1, i2, i3, f}
  Regular = {f}
  Absent = Absent
  None = None
  Pipes = {p1, p2}
  Servers = {good, other}
  Clients = {c1, c2}
  Instances = {j1, j2}
  Trusted = {good}
  Callers = {b1, b2}
PROPERTIES ChannelsEnd CallsEnd ServerServes
