----------------------------- MODULE MCSupport -----------------------------
(***************************************************************************)
(* What stands beside the pool and the exchange of a client: the circuit   *)
(* breaker and the retry executor, batches of requests and of connections, *)
(* the metrics, the caches.  The parts do not share state.  A behaviour    *)
(* picks one of them at the start and is a behaviour of that part; the     *)
(* variables of the others stay as they are.  Threads are interchangeable. *)
(***************************************************************************)
EXTENDS Support, RetryConfigs, FiniteSets, TLC

VARIABLE part  \* the part that runs

BreakerVars  == <<state, failures, last, since, call>>
RetryVars    == <<config, retries, retry_pc, error, slept>>
PutVars      == <<size, limit, pending, running, send, effect, responses, next, batch>>
BatchVars    == <<free, idle, task, caller, joined>>
MetricsVars  == <<pc, method, outcome, counter, by>>
WindowVars   == <<samples, latest, from, windows, starts, now, failed>>
ParserVars   == <<parsers, has, alive>>
ResponseVars == <<cache, clock, puts, answer>>

-----------------------------------------------------------------------------
(* The values of the constants that a configuration cannot write down.     *)
MCConfigs == AllConfigs

(* Two calls for one connection of the two there may be, and one for more. *)
Counts == <<1, 1, 3>>

(* The same resource, with headers that matter and headers that do not,    *)
(* and another one.                                                        *)
H(n, v) == [name |-> n, value |-> v]
SomeRequests == {
  [path |-> "a", headers |-> <<>>],
  [path |-> "a", headers |-> <<H("date", 1)>>],
  [path |-> "a", headers |-> <<H("accept", 1)>>],
  [path |-> "b", headers |-> <<H("accept", 1), H("etag", 1)>>]}
MCRequests == SomeRequests

ASSUME PartsAssumption ==
  Retry!Parameters /\ Retry!BaseBelowMax /\ Put!Parameters /\ Batch!Parameters
  /\ Collector!Parameters /\ Windows!Parameters /\ Parser!Parameters /\ Response!Parameters

Symmetry == Permutations(Calls)

-----------------------------------------------------------------------------
(* A part that does not run has one initial state.                         *)
Start ==
  /\ part \in {"breaker", "retry", "put", "batch", "metrics", "windows", "parser", "response"}
  /\ Init
  /\ Retry!Init /\ (part # "retry" => config = Config(2, 10, 100, Fixed, "none", FALSE))
  /\ Put!Init /\ (part # "put" => size = 0 /\ limit = 0)
  /\ Batch!Init /\ Collector!Init /\ Windows!Init /\ Parser!Init /\ Response!Init

Move ==
  \/ part = "breaker" /\ Next
     /\ UNCHANGED <<part, RetryVars, PutVars, BatchVars, MetricsVars,
                    WindowVars, ParserVars, ResponseVars>>
  \/ part = "retry" /\ Retry!Next
     /\ UNCHANGED <<part, BreakerVars, PutVars, BatchVars, MetricsVars,
                    WindowVars, ParserVars, ResponseVars>>
  \/ part = "put" /\ Put!Next
     /\ UNCHANGED <<part, BreakerVars, RetryVars, BatchVars, MetricsVars,
                    WindowVars, ParserVars, ResponseVars>>
  \/ part = "batch" /\ Batch!Next
     /\ UNCHANGED <<part, BreakerVars, RetryVars, PutVars, MetricsVars,
                    WindowVars, ParserVars, ResponseVars>>
  \/ part = "metrics" /\ Collector!Next
     /\ UNCHANGED <<part, BreakerVars, RetryVars, PutVars, BatchVars,
                    WindowVars, ParserVars, ResponseVars>>
  \/ part = "windows" /\ Windows!Next
     /\ UNCHANGED <<part, BreakerVars, RetryVars, PutVars, BatchVars,
                    MetricsVars, ParserVars, ResponseVars>>
  \/ part = "parser" /\ Parser!Next
     /\ UNCHANGED <<part, BreakerVars, RetryVars, PutVars, BatchVars,
                    MetricsVars, WindowVars, ResponseVars>>
  \/ part = "response" /\ Response!Next
     /\ UNCHANGED <<part, BreakerVars, RetryVars, PutVars, BatchVars,
                    MetricsVars, WindowVars, ParserVars>>

PartsSpec ==
  Start /\ [][Move]_<<part, BreakerVars, RetryVars, PutVars, BatchVars, MetricsVars, WindowVars,
                     ParserVars, ResponseVars>>
=============================================================================
