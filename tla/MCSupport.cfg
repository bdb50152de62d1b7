SPECIFICATION PartsSpec
CHECK_DEADLOCK FALSE
CONSTANTS
  Threshold = 4
  Recovery = 8
  MaxFailures = 9
  Configs <- MCConfigs
  Step = 6000
  MaxBatch = 4
  MaxLimit = 3
  Callers = {1, 2, 3}
  Asked <- Counts
  MaxSize = 2
  Calls = {t1, t2, t3}
  Methods = {"get"}
  Statuses = {"ok"}
  ErrorTypes = {"io"}
  None = None
  Latencies = {1, 3, 4}
  MaxSamples = 3
  WindowSize = 2
  MaxWindows = 3
  MaxRecords = 4
  MaxClock = 3
  Users = {t1, t2, t3}
  Parsers = {1, 2, 3, 4, 5}
  MaxCacheSize = 2
  NoParser = NoParser
  Requests <- MCRequests
  MaxEntries = 2
  Lifetime = 0
  MaxPuts = 3
  MaxTime = 1
SYMMETRY Symmetry
INVARIANTS
  OpenHasCause LeavesAlone
   BatchesWhole  CachesSound
 
