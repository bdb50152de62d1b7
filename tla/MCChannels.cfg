SPECIFICATION PartsSpec
CHECK_DEADLOCK FALSE
CONSTANTS
  Clients = {"c1", "c2"}
  MaxConnections = 2
  Capacity = 2
  Sources = {"custom", "iterator"}
  MaxBatch = 2
  MaxMessages = 3
  Pipes = {p1, p2, p3}
  PipeCapacity = 1
  QueueCapacity = 1
  Processes = {p1, p2, p3}
  Overwriters = {p1, p2, p3}
  Reclaimers = {p1, p2, p3}
  MaxBinders = 1
  Inodes = {i1, i2, i3, i4, f}
  Regular = {f}
  Absent = Absent
  None = None
  Servers = {good, other}
  PipeClients = {p1, p2, p3}
  Instances = {j1, j2, j3, j4}
  Trusted = {good}
  Ways = {"json", "process_json", "lines", "lines_timeout", "text", "text_timeout"}
  MaxRetries = 1
  RetryDelay = 1
  Timeout = 3
  LinesCap = 2
  TextCap = 4
  MaxLines = 2
  MaxTime = 6
  Late = 1
  Conversations <- MCConversations
  MaxHeaderSize = 9
  MaxRequestSize = 12
  Responses <- MCResponses
  MaxBody = 2
  MaxRead = 3
SYMMETRY Symmetry
INVARIANTS
  CleanIsRead NothingLost
  NamesOwned  PermitsReturn LinesRead RequestsAsSent ResponsesWhole
 
