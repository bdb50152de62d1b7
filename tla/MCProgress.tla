----------------------------- MODULE MCProgress -----------------------------
(***************************************************************************)
(* What must come to an end in the parts around the pool: a call of bind,  *)
(* a connect, a dropped pipe, the reading of a stream or of a response, a  *)
(* call for several connections, retries, an open breaker; and in the HTTP *)
(* server its connections, the wait in its backlog and its shutdown.  The  *)
(* parts do not share state.  A behaviour picks one of them at the start   *)
(* and is a behaviour of that part, under its fairness; the variables of   *)
(* the others stay as they are.                                            *)
(***************************************************************************)
EXTENDS RetryConfigs, Sequences, FiniteSets

CONSTANTS Processes, Inodes, Regular, Absent, None, Pipes, Servers, Clients, Instances, Trusted, Callers

VARIABLES
  part,                                                       \* the part that runs
  path, at_path, own, live, seen, guard, attempted,           \* UnixListener
  stream, dirty, flush, unread, peer, pump, queue, working, threads, refused,  \* PipeStream
  owner, user, pending, streams, client,                      \* PipeListener
  way, at, tries, lines, link, taken, got, clock, since, last, cause,          \* StreamReader
  sent, arrived, closed, pos, phase, head, left, body, empty,       \* ResponseReader
  free, idle, task, call, joined,                             \* ConnectionBatch
  config, retries, pc, error, slept,                          \* RetryBackoff
  breaker, failures, failed, age, probe,                      \* CircuitBreaker
  loop, signalled, backlog, permits, stats, connection, errored, served, gone, panics  \* HttpServer

UnixVars == <<path, at_path, own, live, seen, guard, attempted>>
PipeVars == <<stream, dirty, flush, unread, peer, pump, queue, working, threads, refused>>
ListenerVars == <<owner, user, pending, streams, client>>
ReaderVars == <<way, at, tries, lines, link, taken, got, clock, since, last, cause>>
ResponseVars == <<sent, arrived, closed, pos, phase, head, left, body, empty>>
BatchVars == <<free, idle, task, call, joined>>
RetryVars == <<config, retries, pc, error, slept>>
BreakerVars == <<breaker, failures, failed, age, probe>>
ServerVars == <<loop, signalled, backlog, permits, stats, connection, errored, served, gone, panics>>

Encoder == INSTANCE ResponseEncoder

Unix == INSTANCE UnixListener WITH
  Overwriters <- Processes, Reclaimers <- Processes, MaxBinders <- 1, pc <- at_path
Pipe == INSTANCE PipeStream WITH Capacity <- 1, QueueCapacity <- 1
Listener == INSTANCE PipeListener
Reader == INSTANCE StreamReader WITH
  Ways <- {"json", "lines_timeout", "text_timeout"}, MaxRetries <- 2, RetryDelay <- 1,
  Timeout <- 3, LinesCap <- 2, TextCap <- 4, MaxLines <- 1, MaxTime <- 16, Late <- 1
Response == INSTANCE ResponseReader WITH
  Responses <- Encoder!All, MaxBody <- 2, MaxRead <- 3
Batch == INSTANCE ConnectionBatch WITH Count <- [c \in Callers |-> 2], MaxSize <- 2
Retry == INSTANCE RetryBackoff WITH
  Configs <- Built({0, 1, 4}, {2}), Step <- 1, state <- retries
Breaker == INSTANCE CircuitBreaker WITH
  Threshold <- 4, Recovery <- 8, MaxFailures <- 9,
  state <- breaker, last <- failed, since <- age, call <- probe
Server == INSTANCE HttpServer WITH
  Streams <- Callers, MaxConnections <- 1, RequestLimit <- 1, MaxClients <- 3,
  free <- permits, task <- connection

ASSUME PartsAssumption ==
  Unix!Parameters /\ Pipe!Parameters /\ Listener!Parameters /\ Reader!Parameters
  /\ Response!Parameters /\ Batch!Parameters /\ Retry!Parameters

-----------------------------------------------------------------------------
(* A part that does not run has one initial state.                         *)
Init ==
  /\ part \in {"unix", "pipe", "listener", "reader", "response", "batch", "retry", "breaker",
               "server"}
  /\ Unix!Init /\ (part # "unix" => path = Absent)
  /\ Pipe!Init /\ Listener!Init
  /\ Reader!Init /\ (part # "reader" => way = "json")
  /\ Response!Init /\ (part # "response" => sent = Encoder!Encode(<<>>, <<>>))
  /\ Batch!Init
  /\ Retry!Init /\ (part # "retry" => config = Config(0, 2, 2, Fixed, "none", FALSE))
  /\ Breaker!Init /\ Server!Init

Next ==
  \/ part = "unix" /\ Unix!Next
     /\ UNCHANGED <<part, PipeVars, ListenerVars, ReaderVars, ResponseVars,
                    BatchVars, RetryVars, BreakerVars, ServerVars>>
  \/ part = "pipe" /\ Pipe!Next
     /\ UNCHANGED <<part, UnixVars, ListenerVars, ReaderVars, ResponseVars,
                    BatchVars, RetryVars, BreakerVars, ServerVars>>
  \/ part = "listener" /\ Listener!Next
     /\ UNCHANGED <<part, UnixVars, PipeVars, ReaderVars, ResponseVars,
                    BatchVars, RetryVars, BreakerVars, ServerVars>>
  \/ part = "reader" /\ Reader!Next
     /\ UNCHANGED <<part, UnixVars, PipeVars, ListenerVars, ResponseVars,
                    BatchVars, RetryVars, BreakerVars, ServerVars>>
  \/ part = "response" /\ Response!Next
     /\ UNCHANGED <<part, UnixVars, PipeVars, ListenerVars, ReaderVars,
                    BatchVars, RetryVars, BreakerVars, ServerVars>>
  \/ part = "batch" /\ Batch!Next
     /\ UNCHANGED <<part, UnixVars, PipeVars, ListenerVars, ReaderVars,
                    ResponseVars, RetryVars, BreakerVars, ServerVars>>
  \/ part = "retry" /\ Retry!Next
     /\ UNCHANGED <<part, UnixVars, PipeVars, ListenerVars, ReaderVars,
                    ResponseVars, BatchVars, BreakerVars, ServerVars>>
  \/ part = "breaker" /\ Breaker!Next
     /\ UNCHANGED <<part, UnixVars, PipeVars, ListenerVars, ReaderVars,
                    ResponseVars, BatchVars, RetryVars, ServerVars>>
  \/ part = "server" /\ Server!Next
     /\ UNCHANGED <<part, UnixVars, PipeVars, ListenerVars, ReaderVars,
                    ResponseVars, BatchVars, RetryVars, BreakerVars>>

vars == <<part, UnixVars, PipeVars, ListenerVars, ReaderVars, ResponseVars, BatchVars,
          RetryVars, BreakerVars, ServerVars>>

Spec == Init /\ [][Next]_vars

-----------------------------------------------------------------------------
(* Fairness, part by part.                                                 *)

(* A process that does not crash goes on with its system calls.            *)
UnixFairness == \A p \in Processes : WF_UnixVars(part = "unix" /\ Unix!Work(p))

(* The threads run, a flush returns when it can, and the peers read.       *)
PipeFairness ==
  /\ WF_PipeVars(part = "pipe" /\ Pipe!TakeJob)
  /\ \A p \in Pipes :
       /\ WF_PipeVars(part = "pipe" /\ Pipe!JobEnds(p))
       /\ WF_PipeVars(part = "pipe" /\ Pipe!FlushReturns(p))
       /\ WF_PipeVars(part = "pipe" /\ Pipe!PeerReads(p))

(* The accept loop runs, an accepted connection ends, and a client that is *)
(* told to try again does so every five milliseconds: often enough to find *)
(* an instance that is free again and again.                               *)
ListenerFairness ==
  /\ \A s \in Servers :
       /\ WF_ListenerVars(part = "listener" /\ Listener!Accept(s))
       /\ \A i \in Instances : WF_ListenerVars(part = "listener" /\ Listener!CloseStream(s, i))
  /\ \A c \in Clients :
       SF_ListenerVars(part = "listener" /\ (Listener!Open(c) \/ Listener!NotFound(c)))

(* Time passes, and a timer that has fired is seen, because select prefers *)
(* no branch; nothing is asked of the server or of the connection.         *)
ReaderFairness ==
  /\ WF_ReaderVars(part = "reader" /\ Reader!Tick)
  /\ SF_ReaderVars(part = "reader" /\ Reader!TimeUp)
  /\ WF_ReaderVars(part = "reader" /\ Reader!RequestTimeout)

(* The task that reads is polled.                                          *)
ResponseFairness == WF_ResponseVars(part = "response" /\ Response!Step)

(* The tasks run, a connect returns, and the caller is polled.             *)
BatchFairness ==
  /\ \A t \in Batch!Tasks : WF_BatchVars(part = "batch" /\ Batch!TaskStep(t))
  /\ \A c \in Callers : WF_BatchVars(part = "batch" /\ Batch!CallStep(c))

(* The operation returns, and a sleep ends.                                *)
RetryFairness ==
  /\ WF_RetryVars(part = "retry" /\ Retry!Attempt)
  /\ WF_RetryVars(part = "retry" /\ (Retry!Succeeds \/ Retry!Fails))
  /\ WF_RetryVars(part = "retry" /\ (Retry!GivesUp \/ Retry!Sleeps \/ Retry!Panics))

(* Time passes, and somebody calls again.                                  *)
BreakerFairness ==
  /\ WF_BreakerVars(part = "breaker" /\ Breaker!Probe)
  /\ WF_BreakerVars(part = "breaker" /\ Breaker!Tick)

(* A task that nothing else moves is moved by its timer.  A serve future   *)
(* that is not cancelled is polled, and accept does not fail for ever.     *)
ServerFairness ==
  /\ WF_ServerVars(part = "server" /\ Server!AcquirePermit)
  /\ SF_ServerVars(part = "server" /\ Server!Accept)
  /\ WF_ServerVars(part = "server" /\ Server!ShutdownSeen)
  /\ WF_ServerVars(part = "server" /\ (Server!Drained \/ Server!DrainTimeout))
  /\ \A c \in Callers : WF_ServerVars(part = "server" /\ Server!TimedStep(c))

FairSpec ==
  /\ Spec
  /\ UnixFairness /\ PipeFairness /\ ListenerFairness /\ ReaderFairness
  /\ ResponseFairness /\ BatchFairness /\ RetryFairness /\ BreakerFairness
  /\ ServerFairness

-----------------------------------------------------------------------------
(* Every call of bind returns: a stale socket is replaced, anything else   *)
(* refused, and the loop does not go on for ever.  A client of a pipe that *)
(* finds every instance busy does not wait for ever.  If the peers read,   *)
(* every dropped end of a pipe closes, through the queue, a thread of its  *)
(* own or a flush task.                                                    *)
ChannelsEnd == Unix!BindEnds /\ Listener!OpenEnds /\ Pipe!DroppedCloses

(* With a timeout, reading a stream ends although the server is silent or  *)
(* never accepts, in every phase.  A response without a length ends with a *)
(* silence although the server never closes, and any other once everything *)
(* is there or the connection ends.  Callers that hold what the others     *)
(* wait for do not wait for ever, nor do the tasks a failed call leaves    *)
(* behind.  Every execute ends, and an open breaker is tried again.        *)
CallsEnd ==
  /\ part = "reader" => Reader!CallEnds
  /\ Response!ReadingEnds
  /\ Batch!CallsEnd
  /\ part = "retry" => Retry!Ends
  /\ Breaker!Recovers

(* Every connection of the server ends and gives its permit back, whatever *)
(* its client does; so a client in the backlog is accepted or refused; and *)
(* serve returns once the shutdown channel has fired, with clients         *)
(* connected, and even if a panic has left the counter above zero.         *)
ServerServes ==
  Server!ConnectionEnds /\ Server!BacklogServed /\ Server!ShutdownStops
=============================================================================
