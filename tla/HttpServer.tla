----------------------------- MODULE HttpServer -----------------------------
(***************************************************************************)
(* The HTTP server, src/src/ipc_http_server.rs: the accept loop of serve,  *)
(* one task per accepted connection, the semaphore and the statistics they *)
(* share.  serve may be cancelled at any await and called again; the tasks *)
(* it spawned go on and keep their permits.                                *)
(*                                                                         *)
(* A step is what the loop or a task does between two awaits, or one       *)
(* operation on an atomic counter that another task may read between.      *)
(* Timers may fire whenever their await is pending.  The content of        *)
(* requests and responses is left out: a request is well formed or not,    *)
(* and finds a handler or not.                                             *)
(***************************************************************************)
EXTENDS Integers, Sequences, FiniteSets

CONSTANTS
  Streams,         \* names of client connections; a closed one may come back
  MaxConnections,  \* ServerConfig::max_connections
  RequestLimit,    \* ServerConfig::max_requests_per_connection
  MaxClients       \* bound: how many clients ever connect

ASSUME StreamsAssumption == IsFiniteSet(Streams)
ASSUME LimitsAssumption ==
  MaxConnections \in Nat /\ RequestLimit \in Nat /\ MaxClients \in Nat

VARIABLES
  \* the accept loop and what it shares with the tasks
  loop,       \* where serve is; "idle" when no serve future exists
  signalled,  \* the shutdown channel of this serve has fired
  backlog,    \* clients connected and not accepted yet, in order
  free,       \* permits in connection_semaphore
  stats,      \* SharedStats
  \* per connection
  task,       \* where its task is; "none" when it has no task
  errored,    \* its Framed has returned an error: it ends at the next read
  served,     \* requests answered
  gone,       \* clients that have closed their end
  \* ghost
  panics      \* connection tasks that a handler's panic ended

vars == <<loop, signalled, backlog, free, stats, task, errored, served, gone, panics>>

TaskStates == {"none", "read", "reject", "handle", "respond", "failed", "count", "release"}

(* Open: the task still has the stream.  Counted: it is in the statistics. *)
(* Admitted: it owns a permit.                                             *)
WorkStates     == {"handle", "respond"}
OpenStates     == {"read", "reject"} \cup WorkStates
CountedStates  == OpenStates \cup {"failed", "count"}
AdmittedStates == CountedStates \cup {"release"}

In(states) == {c \in Streams : task[c] \in states}
InProgress == In(WorkStates)
Open       == In(OpenStates)
Counted    == In(CountedStates)
Admitted   == In(AdmittedStates)

Queued == {backlog[i] : i \in DOMAIN backlog}

At(c, to)      == task' = [task EXCEPT ![c] = to]
Add(field, n)  == stats' = [stats EXCEPT ![field] = @ + n]

Fields == {"connections", "active", "requests", "responses", "errors"}

Init ==
  /\ loop = "idle" /\ signalled = FALSE /\ backlog = <<>>
  /\ free = MaxConnections
  /\ stats = [f \in Fields |-> 0]
  /\ task = [c \in Streams |-> "none"] /\ errored = [c \in Streams |-> FALSE]
  /\ served = [c \in Streams |-> 0]
  /\ gone = {}
  /\ panics = 0

-----------------------------------------------------------------------------
(* Clients.  A client reaches a listener that is bound, may leave at any   *)
(* moment, and is refused when the listener is dropped.                    *)

Connect(c) ==
  /\ loop # "idle"
  /\ c \notin Admitted /\ c \notin Queued
  /\ stats.connections + Len(backlog) < MaxClients
  /\ backlog' = Append(backlog, c)
  /\ gone' = gone \ {c}
  /\ UNCHANGED <<loop, signalled, free, stats, task, errored, served, panics>>

Disconnect(c) ==
  /\ c \in Open \cup Queued /\ c \notin gone
  /\ gone' = gone \cup {c}
  /\ UNCHANGED <<loop, signalled, backlog, free, stats, task, errored, served, panics>>

-----------------------------------------------------------------------------
(* serve: a permit first, then accept, both in a select with the shutdown  *)
(* channel.                                                                *)

Serve ==
  /\ loop = "idle"
  /\ loop' = "permit" /\ signalled' = FALSE
  /\ UNCHANGED <<backlog, free, stats, task, errored, served, gone, panics>>

AcquirePermit ==
  /\ loop = "permit" /\ free > 0
  /\ free' = free - 1
  /\ loop' = "accept"
  /\ UNCHANGED <<signalled, backlog, stats, task, errored, served, gone, panics>>

(* The accepted stream gets a task of its own.                             *)
Spawn(c) ==
  /\ loop = "accept" /\ backlog # <<>> /\ c = Head(backlog)
  /\ backlog' = Tail(backlog)
  /\ At(c, "read")
  /\ errored' = [errored EXCEPT ![c] = FALSE]
  /\ served' = [served EXCEPT ![c] = 0]
  /\ loop' = "permit"
  /\ UNCHANGED <<signalled, gone, panics>>

(* Mutant: the spawned task does not capture the permit.                   *)
AcceptDropsPermit ==
  /\ \E c \in Streams : Spawn(c)
  /\ stats' = [stats EXCEPT !.connections = @ + 1, !.active = @ + 1]
  /\ free' = free + 1

(* Mutant: the connection is counted by its task, with its first request.  *)
AcceptCountsLater ==
  /\ \E c \in Streams : Spawn(c)
  /\ Add("connections", 1)
  /\ UNCHANGED free

(* The counters are incremented before the task is spawned; the permit     *)
(* moves into the task.                                                    *)
Accept ==
  /\ \E c \in Streams : Spawn(c)
  /\ stats' = [stats EXCEPT !.connections = @ + 1, !.active = @ + 1]
  /\ UNCHANGED free

(* No peer credentials: the stream is dropped, nothing is counted.         *)
Reject ==
  /\ loop = "accept" /\ backlog # <<>>
  /\ backlog' = Tail(backlog)
  /\ gone' = gone \ {Head(backlog)}
  /\ free' = free + 1
  /\ loop' = "permit"
  /\ UNCHANGED <<signalled, stats, task, errored, served, panics>>

AcceptError ==
  /\ loop = "accept"
  /\ free' = free + 1
  /\ loop' = "permit"
  /\ UNCHANGED <<signalled, backlog, stats, task, errored, served, gone, panics>>

(* The shutdown channel fires: shutdown() takes and uses its sender.       *)
Shutdown ==
  /\ loop \in {"permit", "accept"} /\ ~signalled
  /\ signalled' = TRUE
  /\ UNCHANGED <<loop, backlog, free, stats, task, errored, served, gone, panics>>

ShutdownSeen ==
  /\ loop \in {"permit", "accept"} /\ signalled
  /\ free' = IF loop = "accept" THEN free + 1 ELSE free
  /\ loop' = "drain"
  /\ UNCHANGED <<signalled, backlog, stats, task, errored, served, gone, panics>>

(* serve's future ends, its listener with it: who was not accepted is      *)
(* refused.                                                                *)
Unbind ==
  /\ loop' = "idle" /\ signalled' = FALSE
  /\ backlog' = <<>>
  /\ gone' = gone \ Queued
  /\ UNCHANGED <<stats, task, errored, served, panics>>

Drained ==
  /\ loop = "drain" /\ stats.active = 0
  /\ Unbind
  /\ UNCHANGED free

DrainTimeout ==
  /\ loop = "drain" /\ stats.active > 0
  /\ Unbind
  /\ UNCHANGED free

Cancel ==
  /\ loop # "idle"
  /\ free' = IF loop = "accept" THEN free + 1 ELSE free
  /\ Unbind

-----------------------------------------------------------------------------
(* handle_connection: one iteration per request.                           *)

(* Mutant: the codec carries on after a malformed request.                 *)
ReadRequestResyncs(c) ==
  /\ task[c] = "read"
  /\ Add("requests", 1)
  /\ At(c, "handle") \/ At(c, "respond")
  /\ UNCHANGED <<loop, signalled, backlog, free, errored, served, gone, panics>>

ReadRequest(c) ==
  /\ task[c] = "read" /\ ~errored[c]
  /\ Add("requests", 1)
  /\ \/ At(c, "handle")    \* a route matches
     \/ At(c, "respond")   \* 404
  /\ UNCHANGED <<loop, signalled, backlog, free, errored, served, gone, panics>>

(* A malformed or truncated request, or a failed read.                     *)
ReadInvalid(c) ==
  /\ task[c] = "read" /\ ~errored[c]
  /\ At(c, "reject")
  /\ UNCHANGED <<loop, signalled, backlog, free, stats, errored, served, gone, panics>>

(* End of the stream, or of a Framed that has returned an error.           *)
ReadEnd(c) ==
  /\ task[c] = "read" /\ (c \in gone \/ errored[c])
  /\ At(c, "count")
  /\ UNCHANGED <<loop, signalled, backlog, free, stats, errored, served, gone, panics>>

ReadTimeout(c) ==
  /\ task[c] = "read" /\ ~errored[c]
  /\ At(c, "failed")
  /\ UNCHANGED <<loop, signalled, backlog, free, stats, errored, served, gone, panics>>

(* The 400 response is written; only then is the error counted.            *)
Rejected(c) ==
  /\ task[c] = "reject"
  /\ Add("errors", 1)
  /\ errored' = [errored EXCEPT ![c] = TRUE]
  /\ At(c, "read")
  /\ UNCHANGED <<loop, signalled, backlog, free, served, gone, panics>>

RejectFails(c) ==
  /\ task[c] = "reject"
  /\ At(c, "failed")
  /\ UNCHANGED <<loop, signalled, backlog, free, stats, errored, served, gone, panics>>

(* The handler returns a response or an error (500).                       *)
HandlerReturns(c) ==
  /\ task[c] = "handle"
  /\ At(c, "respond")
  /\ UNCHANGED <<loop, signalled, backlog, free, stats, errored, served, gone, panics>>

(* The handler's future is dropped and 408 is sent.                        *)
HandlerTimeout(c) ==
  /\ task[c] = "handle"
  /\ At(c, "respond")
  /\ UNCHANGED <<loop, signalled, backlog, free, stats, errored, served, gone, panics>>

(* Unwinding drops the stream and the permit and skips the counters.       *)
HandlerPanics(c) ==
  /\ task[c] = "handle"
  /\ At(c, "none")
  /\ free' = free + 1
  /\ panics' = panics + 1
  /\ gone' = gone \ {c}
  /\ UNCHANGED <<loop, signalled, backlog, stats, errored, served>>

(* Mutant: the response is only counted when logging is enabled.           *)
RespondUncounted(c) ==
  /\ task[c] = "respond"
  /\ served' = [served EXCEPT ![c] = @ + 1]
  /\ At(c, IF served[c] + 1 >= RequestLimit THEN "count" ELSE "read")
  /\ UNCHANGED <<loop, signalled, backlog, free, stats, errored, gone, panics>>

Respond(c) ==
  /\ task[c] = "respond"
  /\ Add("responses", 1)
  /\ served' = [served EXCEPT ![c] = @ + 1]
  /\ At(c, IF served[c] + 1 >= RequestLimit THEN "count" ELSE "read")
  /\ UNCHANGED <<loop, signalled, backlog, free, errored, gone, panics>>

(* The client has closed.                                                  *)
RespondFails(c) ==
  /\ task[c] = "respond" /\ c \in gone
  /\ Add("errors", 1)
  /\ At(c, "failed")
  /\ UNCHANGED <<loop, signalled, backlog, free, errored, served, gone, panics>>

(* Mutant: write_timeout covers the handler only.                          *)
RespondWaits(c) == RespondFails(c)

(* The client does not read.                                               *)
RespondTimeout(c) ==
  /\ task[c] = "respond"
  /\ Add("errors", 1)
  /\ At(c, "failed")
  /\ UNCHANGED <<loop, signalled, backlog, free, errored, served, gone, panics>>

(* The spawned closure: an error is counted (again, for a failed write),   *)
(* the connection is not active any more, the permit is released.          *)
CountError(c) ==
  /\ task[c] = "failed"
  /\ Add("errors", 1)
  /\ At(c, "count")
  /\ UNCHANGED <<loop, signalled, backlog, free, errored, served, gone, panics>>

Uncount(c) ==
  /\ task[c] = "count"
  /\ Add("active", -1)
  /\ At(c, "release")
  /\ UNCHANGED <<loop, signalled, backlog, free, errored, served, gone, panics>>

(* Mutant: the permit of a connection that served its limit is forgotten.  *)
ReleaseUnlessLimit(c) ==
  /\ task[c] = "release"
  /\ At(c, "none")
  /\ free' = IF served[c] >= RequestLimit THEN free ELSE free + 1
  /\ gone' = gone \ {c}
  /\ UNCHANGED <<loop, signalled, backlog, stats, errored, served, panics>>

Release(c) ==
  /\ task[c] = "release"
  /\ At(c, "none")
  /\ free' = free + 1
  /\ gone' = gone \ {c}
  /\ UNCHANGED <<loop, signalled, backlog, stats, errored, served, panics>>

-----------------------------------------------------------------------------
(* Steps that the runtime and the timers take on their own.                *)
TimedStep(c) ==
  \/ ReadEnd(c) \/ ReadTimeout(c) \/ RejectFails(c) \/ HandlerTimeout(c)
  \/ RespondTimeout(c) \/ CountError(c) \/ Uncount(c) \/ Release(c)

TaskStep(c) ==
  \/ TimedStep(c)
  \/ ReadRequest(c) \/ ReadInvalid(c) \/ Rejected(c)
  \/ HandlerReturns(c) \/ HandlerPanics(c) \/ Respond(c) \/ RespondFails(c)

Next ==
  \/ Serve \/ AcquirePermit \/ Accept \/ Reject \/ AcceptError
  \/ Shutdown \/ ShutdownSeen \/ Drained \/ DrainTimeout \/ Cancel
  \/ \E c \in Streams : TaskStep(c) \/ Connect(c) \/ Disconnect(c)

Spec == Init /\ [][Next]_vars

-----------------------------------------------------------------------------
Loops == {"idle", "permit", "accept", "drain"}

TypeOK ==
  /\ loop \in Loops /\ signalled \in BOOLEAN
  /\ backlog \in Seq(Streams)
  /\ free \in 0..MaxConnections
  /\ stats \in [Fields -> Nat]
  /\ task \in [Streams -> TaskStates] /\ errored \in [Streams -> BOOLEAN]
  /\ served \in [Streams -> Nat]
  /\ gone \subseteq Streams
  /\ panics \in Nat

(* Every permit is in the semaphore, with the accept loop or with a        *)
(* connection task, across rejected clients, failed accepts, panics and    *)
(* serve calls that were cancelled while their tasks went on.              *)
AtAccept == IF loop = "accept" THEN 1 ELSE 0

PermitConservation == free + AtAccept + Cardinality(Admitted) = MaxConnections

(* The process never has more accepted sockets open than max_connections:  *)
(* the permit comes before accept and outlives the stream.                 *)
DescriptorBound == Cardinality(Open) <= MaxConnections

(* serve's drain believes the counter: when it is zero, no connection is   *)
(* open any more.                                                          *)
QuietAtZero == stats.active = 0 => Open = {}

(* What the counter really counts: a connection whose handler panicked     *)
(* stays in it.                                                            *)
ActiveCount == stats.active = Cardinality(Counted) + panics

(* No request disappears from the statistics: it was answered, its failure *)
(* was counted, it is being worked on or its handler panicked.             *)
RequestsAccounted ==
  stats.requests <= stats.responses + stats.errors + Cardinality(InProgress) + panics

(* After a malformed request the position in the byte stream is lost.      *)
(* handle_connection continues its loop, and yet serves nothing more on    *)
(* that connection.                                                        *)
NothingAfterInvalid == \A c \in InProgress : ~errored[c]

(* A client waits in the backlog at most once, and not while it is served. *)
Separate ==
  /\ \A i, j \in DOMAIN backlog : backlog[i] = backlog[j] => i = j
  /\ \A i \in DOMAIN backlog : task[backlog[i]] = "none"

IInv ==
  /\ TypeOK /\ Separate
  /\ PermitConservation /\ ActiveCount /\ RequestsAccounted /\ NothingAfterInvalid

(* Every connection task ends and gives its permit back, whatever its      *)
(* client does: it may be silent, slow to read, or never close.            *)
ConnectionEnds == \A c \in Streams : task[c] # "none" ~> task[c] = "none"

(* A client in the backlog is accepted or refused: held permits come back. *)
BacklogServed == \A c \in Streams : c \in Queued ~> c \notin Queued

(* serve returns once the shutdown channel has fired, with clients         *)
(* connected, and even if a panic has left the counter above zero.         *)
ShutdownStops == signalled ~> ~signalled

(* "Server Stats: {} total connections, {} active": the number of          *)
(* connections that are active.                                            *)
ActiveIsCurrent == stats.active <= Cardinality(Counted)
=============================================================================
