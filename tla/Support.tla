------------------------------ MODULE Support -------------------------------
(***************************************************************************)
(* What stands beside the pool and the exchange of a client, and is safe   *)
(* for any values of the constants: the circuit breaker and the retry      *)
(* executor, batches of requests and of connections, the counters of the   *)
(* metrics, the caches.  They share no state.                              *)
(***************************************************************************)
EXTENDS CircuitBreaker, Sequences

CONSTANTS
  Configs, Step,                              \* RetryBackoff
  MaxBatch, MaxLimit,                         \* PutBatch
  Callers, Asked, MaxSize,                    \* ConnectionBatch
  Calls, Methods, Statuses, ErrorTypes, None, \* Metrics
  Users, Parsers, MaxCacheSize, NoParser,     \* ParserCache
  Latencies, MaxSamples, WindowSize, MaxWindows, MaxRecords, MaxClock, \* MetricsWindows
  Requests, MaxEntries, Lifetime, MaxPuts, MaxTime \* ResponseCache

VARIABLES
  config, retries, retry_pc, error, slept,    \* RetryBackoff
  size, limit, pending, running, send, effect, responses, next, batch, \* PutBatch
  free, idle, task, caller, joined,           \* ConnectionBatch
  pc, method, outcome, counter, by,           \* Metrics
  samples, latest, from, windows, starts, now, failed, \* MetricsWindows
  parsers, has, alive,                        \* ParserCache
  cache, clock, puts, answer                  \* ResponseCache

Retry     == INSTANCE RetryBackoff WITH state <- retries, pc <- retry_pc
Put       == INSTANCE PutBatch WITH state <- batch
Batch     == INSTANCE ConnectionBatch WITH Count <- Asked, call <- caller
Collector == INSTANCE Metrics
Windows   == INSTANCE MetricsWindows WITH MaxTime <- MaxClock, clock <- now
Parser    == INSTANCE ParserCache
Response  == INSTANCE ResponseCache

-----------------------------------------------------------------------------
(* The whole wait of an execute is at most the longest delay with its      *)
(* jitter for each attempt but one, and max_attempts bounds the attempts;  *)
(* every retry waits for at least the base delay, or the maximum; and      *)
(* there is a delay for every preset, and for every configuration of the   *)
(* builder but one: decorrelated jitter with a base above the maximum.     *)
DelaysBounded == Retry!IInv /\ Retry!DelaysBounded

(* A batch of PUTs that succeeds has one response per request, the nth to  *)
(* the nth; a request does not run next to one of a later chunk, no chunk  *)
(* is begun after an error, and none is running when the call returns.  A  *)
(* call of get_connections returns all it was asked for or keeps none, and *)
(* whatever tasks outlive it, no permit of the pool is lost.               *)
BatchesWhole ==
  /\ Put!IInv /\ Put!BatchesWhole
  /\ Batch!IInv /\ Batch!BatchesWhole

(* Every request that has started is active, successful or failed, every   *)
(* failed one is in the errors, and the maps have every answer and error   *)
(* once, and of a method's requests at least one and no more than there    *)
(* were.  The samples of a tracker are the last ones recorded and bounded, *)
(* a percentile is a sample its share does not exceed, no request is       *)
(* counted in two windows, and the health is that of the worst issue.      *)
MetricsTrue ==
  /\ Collector!IInv /\ Collector!Balanced /\ Collector!MapsCounted
  /\ Windows!IInv /\ Windows!PercentileCovers /\ Windows!WindowsRecent /\ Windows!HealthIsWorst

(* No parser is used by two threads, or idle twice, or both, and there are *)
(* never more idle than the limit, so that warm_up does not underflow.  A  *)
(* cached answer is the latest one of the same request and not expired,    *)
(* the entry of a key is its latest response, and the cache of responses   *)
(* does not grow beyond its limit.                                         *)
CachesSound ==
  /\ Parser!IInv /\ Parser!OneUser /\ Parser!WithinLimit
  /\ Response!IInv /\ Response!AnswerIsLatest /\ Response!EntryIsLatest
  /\ Response!Bounded

(* A put removes at most one entry, and none younger than one it keeps.    *)
EvictsOldest == Response!EvictsOldest
=============================================================================
