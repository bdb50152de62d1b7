---------------------------- MODULE StreamServer ----------------------------
(***************************************************************************)
(* IpcStreamServer of src/src/ipc_stream_server.rs: a source task puts     *)
(* messages into a broadcast channel, one task per client takes them out   *)
(* and writes them to its connection, serve accepts clients and stops      *)
(* everything at shutdown.                                                 *)
(*                                                                         *)
(* The channel is a log with one position per receiver.  It retains the    *)
(* last Capacity messages; a receiver that is further behind is told how   *)
(* many it has missed and goes on with the oldest retained one.  A message *)
(* sent when there is no receiver is dropped.                              *)
(*                                                                         *)
(* Counters that nothing reads (total_connections, total_messages,         *)
(* total_errors, messages_sent) are left out.                              *)
(***************************************************************************)
EXTENDS Integers, Sequences, FiniteSets

CONSTANTS
  Clients,        \* connections; each is accepted at most once
  MaxConnections, \* StreamServerConfig::max_connections
  Capacity,       \* StreamServerConfig::broadcast_capacity
  Sources,        \* the kinds of StreamSource that may be served
  MaxBatch,       \* bound: messages in a batch of a custom source
  MaxMessages     \* bound: messages in the log

Parameters ==
  /\ IsFiniteSet(Clients) /\ MaxConnections \in Nat
  /\ Capacity \in Nat \ {0} /\ {MaxBatch, MaxMessages} \subseteq Nat
  /\ Sources \subseteq {"periodic", "iterator", "custom"}

ASSUME ParametersAssumption == Parameters

VARIABLES
  loop,      \* where serve_with_source is
  signalled, \* the shutdown channel has fired
  source,    \* the source task: its place, its kind, what is left of its batch
  aborted,   \* JoinHandle::abort was called
  log,       \* every message sent
  client,    \* the tasks of the clients and their entries in the clients map
  free,      \* permits of connection_semaphore
  active     \* active_connections of StreamServerStats

vars == <<loop, signalled, source, aborted, log, client, free, active>>

(* Json, Text, Binary and Ping differ in their bytes only.                 *)
Kinds   == {"data", "close"}
Stages  == {"permit", "accept", "signal", "abort", "close", "drain", "done", "cancelled", "dropped"}
Open    == {"recv", "write", "ping"}
Ending  == {"remove", "uncount", "release"}
Receiving == {c \in Clients : client[c].task \in Open}
Served    == {c \in Clients : client[c].task \in Open \cup Ending}
Counted   == {c \in Clients : client[c].task \in Open \cup {"remove", "uncount"}}

NewClient == [task |-> "new", next |-> 1, since |-> 1, got |-> <<>>,
              listed |-> FALSE, errors |-> 0, gone |-> FALSE]

Init ==
  /\ loop = "permit" /\ signalled = FALSE
  /\ source \in [at : {"select"}, kind : Sources, batch : {<<>>}, more : {TRUE}]
  /\ aborted = FALSE
  /\ log = <<>> /\ free = MaxConnections /\ active = 0
  /\ client = [c \in Clients |-> NewClient]

Broadcast(m) == log' = IF Receiving = {} THEN log ELSE Append(log, m)

-----------------------------------------------------------------------------
(* serve_with_source                                                       *)

AcquirePermit ==
  /\ loop = "permit" /\ free > 0
  /\ free' = free - 1 /\ loop' = "accept"
  /\ UNCHANGED <<signalled, source, aborted, log, client, active>>

Accept(c) ==
  /\ loop = "accept" /\ client[c].task = "new" /\ ~client[c].gone
  /\ client' = [client EXCEPT ![c].task = "recv", ![c].listed = TRUE,
                              ![c].next = Len(log) + 1, ![c].since = Len(log) + 1]
  /\ active' = active + 1
  /\ loop' = "permit"
  /\ UNCHANGED <<signalled, source, aborted, log, free>>

AcceptError ==
  /\ loop = "accept" /\ free' = free + 1 /\ loop' = "permit"
  /\ UNCHANGED <<signalled, source, aborted, log, client, active>>

Shutdown ==
  /\ loop \in {"permit", "accept"} /\ ~signalled
  /\ signalled' = TRUE
  /\ UNCHANGED <<loop, source, aborted, log, client, free, active>>

(* Mutant: only the first select listens for the shutdown.                 *)
ShutdownSeenForPermit ==
  /\ signalled /\ loop = "permit" /\ loop' = "signal"
  /\ UNCHANGED <<signalled, source, aborted, log, client, free, active>>

ShutdownSeen ==
  /\ signalled /\ loop \in {"permit", "accept"}
  /\ free' = IF loop = "accept" THEN free + 1 ELSE free
  /\ loop' = "signal"
  /\ UNCHANGED <<signalled, source, aborted, log, client, active>>

SignalSource ==
  /\ loop = "signal" /\ loop' = "abort"
  /\ UNCHANGED <<signalled, source, aborted, log, client, free, active>>

AbortSource ==
  /\ loop = "abort" /\ aborted' = TRUE /\ loop' = "close"
  /\ UNCHANGED <<signalled, source, log, client, free, active>>

SendClose ==
  /\ loop = "close" /\ Broadcast("close") /\ loop' = "drain"
  /\ UNCHANGED <<signalled, source, aborted, client, free, active>>

(* The drain polls the counter until shutdown_timeout has passed.          *)
Drained ==
  /\ loop = "drain" /\ active = 0 /\ loop' = "done"
  /\ UNCHANGED <<signalled, source, aborted, log, client, free, active>>

DrainTimeout ==
  /\ loop = "drain" /\ active > 0 /\ loop' = "done"
  /\ UNCHANGED <<signalled, source, aborted, log, client, free, active>>

(* The future of serve is dropped: the permit, the sender of the source's  *)
(* shutdown channel and the handle of its task go with it.                 *)
Cancel ==
  /\ loop \in {"permit", "accept", "drain"}
  /\ free' = IF loop = "accept" THEN free + 1 ELSE free
  /\ loop' = "cancelled"
  /\ UNCHANGED <<signalled, source, aborted, log, client, active>>

(* broadcast() needs the server, which serve has borrowed until it is over. *)
AppBroadcast(m) ==
  /\ loop \in {"done", "cancelled"} /\ Len(log) < MaxMessages
  /\ Broadcast(m)
  /\ UNCHANGED <<loop, signalled, source, aborted, client, free, active>>

DropServer ==
  /\ loop \in {"done", "cancelled"} /\ loop' = "dropped"
  /\ UNCHANGED <<signalled, source, aborted, log, client, free, active>>

-----------------------------------------------------------------------------
(* The source task                                                         *)

Batches ==
  [periodic |-> {<<"data">>},
   iterator |-> {<<m>> : m \in Kinds} \cup {<<>>},
   custom   |-> UNION {[1..n -> Kinds] : n \in 0..MaxBatch}]

(* An abort has no effect on a poll that is under way.                     *)
Produces ==
  /\ source.at = "select"
  /\ \E b \in Batches[source.kind] :
       /\ Len(log) + Len(b) <= MaxMessages
       /\ source' = [source EXCEPT !.at = "sending", !.batch = b,
                                   !.more = source.kind # "iterator" \/ b # <<>>]
  /\ UNCHANGED <<loop, signalled, aborted, log, client, free, active>>

Sends ==
  /\ source.at = "sending" /\ source.batch # <<>>
  /\ Broadcast(Head(source.batch))
  /\ source' = [source EXCEPT !.batch = Tail(@)]
  /\ UNCHANGED <<loop, signalled, aborted, client, free, active>>

(* has_more ends the loop; a custom source may end it at any time.  The    *)
(* next select comes after a yield, at which an abort takes effect.        *)
TurnEnds ==
  /\ \E more \in IF source.kind = "custom" THEN BOOLEAN ELSE {source.more} :
       source' = [source EXCEPT !.more = TRUE,
         !.at = IF ~more THEN "cleanup" ELSE IF aborted THEN "aborted" ELSE "select"]
  /\ UNCHANGED <<loop, signalled, aborted, log, client, free, active>>

BatchEnds   == source.at = "sending" /\ source.batch = <<>> /\ TurnEnds
SourceFails == source.at = "select" /\ TurnEnds

(* Its shutdown channel has fired, or serve is over and the sender dropped. *)
(* Mutant: a sender that is dropped is not taken for a signal.             *)
SourceStopsIfAsked ==
  /\ source.at = "select" /\ loop \in {"abort", "close", "drain", "done"}
  /\ source' = [source EXCEPT !.at = "cleanup"]
  /\ UNCHANGED <<loop, signalled, aborted, log, client, free, active>>

SourceStops ==
  /\ source.at = "select"
  /\ loop \in {"abort", "close", "drain", "done", "cancelled", "dropped"}
  /\ source' = [source EXCEPT !.at = "cleanup"]
  /\ UNCHANGED <<loop, signalled, aborted, log, client, free, active>>

SourceAborted ==
  /\ source.at \in {"select", "cleanup"} /\ aborted
  /\ source' = [source EXCEPT !.at = "aborted"]
  /\ UNCHANGED <<loop, signalled, aborted, log, client, free, active>>

SourceCleans ==
  /\ source.at = "cleanup"
  /\ source' = [source EXCEPT !.at = "done"]
  /\ UNCHANGED <<loop, signalled, aborted, log, client, free, active>>

-----------------------------------------------------------------------------
(* handle_stream_client and what its task does afterwards                  *)

Disconnect(c) ==
  /\ ~client[c].gone
  /\ client' = [client EXCEPT ![c].gone = TRUE]
  /\ UNCHANGED <<loop, signalled, source, aborted, log, free, active>>

Oldest == IF Len(log) > Capacity THEN Len(log) - Capacity + 1 ELSE 1

(* Mutant: a client that lags is not charged with what it has missed.      *)
LaggedUncounted(c) ==
  /\ client[c].task = "recv" /\ client[c].next < Oldest
  /\ client' = [client EXCEPT ![c].next = Oldest]
  /\ UNCHANGED <<loop, signalled, source, aborted, log, free, active>>

Lagged(c) ==
  /\ client[c].task = "recv" /\ client[c].next < Oldest
  /\ client' = [client EXCEPT ![c].next = Oldest, ![c].errors = @ + Oldest - client[c].next]
  /\ UNCHANGED <<loop, signalled, source, aborted, log, free, active>>

(* Data of more than max_message_size is passed over.                      *)
Recv(c) ==
  /\ client[c].task = "recv" /\ client[c].next \in Oldest..Len(log)
  /\ \E to \in IF log[client[c].next] = "close" THEN {"remove"} ELSE {"write", "recv"} :
       client' = [client EXCEPT ![c].next = @ + 1, ![c].got = Append(@, client[c].next),
                                ![c].task = to]
  /\ UNCHANGED <<loop, signalled, source, aborted, log, free, active>>

(* Closed: every sender is gone, the server's, serve's and the source's.   *)
RecvClosed(c) ==
  /\ client[c].task = "recv" /\ client[c].next > Len(log)
  /\ loop = "dropped" /\ source.at \in {"done", "aborted"}
  /\ client' = [client EXCEPT ![c].task = "remove"]
  /\ UNCHANGED <<loop, signalled, source, aborted, log, free, active>>

Wrote(c) ==
  /\ client[c].task = "write" /\ ~client[c].gone
  /\ client' = [client EXCEPT ![c].task = "recv"]
  /\ UNCHANGED <<loop, signalled, source, aborted, log, free, active>>

(* A write error, or write_timeout.                                        *)
WriteFails(c) ==
  /\ client[c].task = "write"
  /\ client' = [client EXCEPT ![c].task = "remove", ![c].errors = @ + 1]
  /\ UNCHANGED <<loop, signalled, source, aborted, log, free, active>>

(* Mutant: no keepalive, a client is only noticed when there is data.      *)
PingNever(c) == client[c].task = "ping" /\ UNCHANGED vars

Ping(c) ==
  /\ client[c].task = "recv"
  /\ client' = [client EXCEPT ![c].task = "ping"]
  /\ UNCHANGED <<loop, signalled, source, aborted, log, free, active>>

Pinged(c) ==
  /\ client[c].task = "ping" /\ ~client[c].gone
  /\ client' = [client EXCEPT ![c].task = "recv"]
  /\ UNCHANGED <<loop, signalled, source, aborted, log, free, active>>

PingFails(c) ==
  /\ client[c].task = "ping"
  /\ client' = [client EXCEPT ![c].task = "remove"]
  /\ UNCHANGED <<loop, signalled, source, aborted, log, free, active>>

Remove(c) ==
  /\ client[c].task = "remove"
  /\ client' = [client EXCEPT ![c].task = "uncount", ![c].listed = FALSE]
  /\ UNCHANGED <<loop, signalled, source, aborted, log, free, active>>

Uncount(c) ==
  /\ client[c].task = "uncount"
  /\ client' = [client EXCEPT ![c].task = "release"]
  /\ active' = IF active = 0 THEN 0 ELSE active - 1
  /\ UNCHANGED <<loop, signalled, source, aborted, log, free>>

(* Mutant: the permit is forgotten.                                        *)
ReleaseNot(c) ==
  /\ client[c].task = "release"
  /\ client' = [client EXCEPT ![c].task = "ended"]
  /\ UNCHANGED <<loop, signalled, source, aborted, log, free, active>>

Release(c) ==
  /\ client[c].task = "release"
  /\ client' = [client EXCEPT ![c].task = "ended"]
  /\ free' = free + 1
  /\ UNCHANGED <<loop, signalled, source, aborted, log, active>>

-----------------------------------------------------------------------------
Server ==
  \/ AcquirePermit \/ AcceptError \/ (\E c \in Clients : Accept(c))
  \/ ShutdownSeen \/ SignalSource \/ AbortSource \/ SendClose \/ Drained \/ DrainTimeout

SourceTask == Produces \/ Sends \/ BatchEnds \/ SourceFails \/ SourceStops \/ SourceAborted \/ SourceCleans

Delivers(c) == Lagged(c) \/ Recv(c) \/ RecvClosed(c)
Writes(c)   == Wrote(c) \/ WriteFails(c) \/ Pinged(c) \/ PingFails(c)
Ends(c)     == Remove(c) \/ Uncount(c) \/ Release(c)

Next ==
  \/ Server \/ SourceTask
  \/ Shutdown \/ Cancel \/ DropServer \/ (\E m \in Kinds : AppBroadcast(m))
  \/ \E c \in Clients : Disconnect(c) \/ Delivers(c) \/ Ping(c) \/ Writes(c) \/ Ends(c)

Spec == Init /\ [][Next]_vars

(* Tasks that are ready run; a channel that has fired is seen; a write     *)
(* ends, at the latest by write_timeout; the hooks of the source end.  A   *)
(* message that is ready is taken, since the keepalive timer of the select *)
(* starts anew each time; when none comes the timer fires.  The select of  *)
(* the source picks at random among what is ready: a signal is not passed  *)
(* over for ever.  Nobody has to connect, the source may be silent,        *)
(* clients may go at any time.                                             *)
FairSpec ==
  /\ Spec
  /\ WF_vars(ShutdownSeen) /\ WF_vars(SignalSource) /\ WF_vars(AbortSource)
  /\ WF_vars(SendClose) /\ WF_vars(Drained \/ DrainTimeout)
  /\ WF_vars(Sends) /\ WF_vars(BatchEnds)
  /\ SF_vars(SourceStops \/ SourceAborted) /\ WF_vars(SourceCleans \/ SourceAborted)
  /\ \A c \in Clients :
       /\ SF_vars(Delivers(c)) /\ WF_vars(Ping(c))
       /\ WF_vars(Writes(c)) /\ WF_vars(Ends(c))

-----------------------------------------------------------------------------
TypeOK ==
  /\ loop \in Stages /\ {signalled, aborted} \subseteq BOOLEAN
  /\ source \in [at : {"select", "sending", "cleanup", "done", "aborted"}, kind : Sources,
                 batch : Seq(Kinds), more : BOOLEAN]
  /\ log \in Seq(Kinds)
  /\ free \in 0..MaxConnections
  /\ active \in Nat
  /\ client \in [Clients ->
       [task : {"new", "ended"} \cup Open \cup Ending, next : Nat \ {0}, since : Nat \ {0},
        got : Seq(Nat), listed : BOOLEAN, errors : Nat, gone : BOOLEAN]]

(* Every message sent since a client was accepted and before its position  *)
(* was received by it, in the order of the log, or is in its error_count:  *)
(* nothing is repeated, reordered or lost in silence.  A failed write adds *)
(* one to the count.                                                       *)
Accounted ==
  \A c \in Clients :
    LET k == client[c] IN
    /\ \A i, j \in 1..Len(k.got) : i < j => k.got[i] < k.got[j]
    /\ k.task \in Open => Len(k.got) + k.errors = k.next - k.since

(* Nothing reaches a client after a Close it has received.                 *)
NothingAfterClose ==
  \A c \in Clients : \A i \in 1..Len(client[c].got) :
    log[client[c].got[i]] = "close" => i = Len(client[c].got)

(* Each permit is free, with serve, or with the task of one client; none   *)
(* gets lost when an accept fails, a client goes or serve is cancelled.    *)
PermitConservation ==
  free + (IF loop = "accept" THEN 1 ELSE 0) + Cardinality(Served) = MaxConnections

(* What the drain relies on: when the counter is zero no client is served  *)
(* and none is listed by clients().                                        *)
QuietAtZero ==
  active = 0 => \A c \in Clients : client[c].task \notin Open /\ ~client[c].listed

(* The strengthening under which these are inductive: what a client has    *)
(* taken lies in the log before its position, without a Close while it     *)
(* receives, and the counter and the list follow its task.                 *)
Tracked(k) ==
  /\ k.listed <=> k.task \in Open \cup {"remove"}
  /\ k.task = "new" => k.got = <<>> /\ k.errors = 0
  /\ k.next <= Len(log) + 1
  /\ \A i \in 1..Len(k.got) :
       /\ k.got[i] \in 1..Len(log) /\ k.got[i] < k.next
       /\ k.task \in Open => log[k.got[i]] # "close"

InOrder == Accounted /\ NothingAfterClose

IInv ==
  /\ TypeOK /\ PermitConservation /\ InOrder
  /\ active = Cardinality(Counted)
  /\ \A c \in Clients : Tracked(client[c])

(* What a stream client is sent after its accept it receives in order and  *)
(* once, or its error_count tells how much it has missed; and nothing      *)
(* comes behind a Close it has received.                                   *)
Delivered == TypeOK /\ InOrder /\ \A c \in Clients : Tracked(client[c])

(* Each permit of a stream server is free, with serve, or with the task of *)
(* one client, whatever fails, goes or is cancelled; and when the counter  *)
(* of active connections is zero no client is served and none is listed,   *)
(* so that the drain may believe it.                                       *)
PermitsReturn == PermitConservation /\ active = Cardinality(Counted) /\ QuietAtZero

(* "Send close message to all clients": while serve waits for them to      *)
(* finish, each has a Close in the channel that it can still receive.      *)
CloseNotMissed ==
  loop = "drain" =>
    \A c \in Receiving : \E i \in client[c].next..Len(log) : i >= Oldest /\ log[i] = "close"

(* serve returns once its shutdown channel has fired, whatever the clients *)
(* and the source do, unless it is cancelled before.                       *)
ShutdownStops == signalled ~> loop \in {"done", "cancelled", "dropped"}

(* A server that is cancelled and dropped without a shutdown stops its     *)
(* source, with the cleanup, and then all its clients.                     *)
CancelEnds ==
  /\ loop = "cancelled" /\ ~aborted ~> source.at = "done"
  /\ loop = "dropped" ~> \A c \in Clients : client[c].task \notin Open

(* A client that has gone is noticed, by a write or by the keepalive, and  *)
(* its permit comes back.                                                  *)
GoneLeaves ==
  \A c \in Clients : client[c].gone /\ client[c].task \in Open ~> client[c].task = "ended"
=============================================================================
