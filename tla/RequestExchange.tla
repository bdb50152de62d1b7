-------------------------- MODULE RequestExchange --------------------------
(***************************************************************************)
(* Requests of an IpcHttpClient (src/src/ipc_http_client.rs, http_client.rs*)
(* and the attempt loop of retry.rs) over connections to an IpcHttpServer. *)
(* The connections come from a pool of which only its promise is used,     *)
(* ConnectionLease, or are opened directly.                                *)
(*                                                                         *)
(* A stream has two ends that close on their own, so a request that timed  *)
(* out may still reach the server, and a stream may rest in the pool after *)
(* the server has closed it.  A message names its request and its attempt; *)
(* what else is in it, and its division into reads, are left out.  Timers  *)
(* may fire whenever their await is pending.                               *)
(***************************************************************************)
EXTENDS Integers, Sequences, FiniteSets

CONSTANTS
  Requests,        \* calls of send()
  Streams,         \* names of connections; a closed one's name comes back
  MaxAttempts,     \* RetryConfig::max_attempts
  MaxSize,         \* PoolConfig::max_size
  MaxConnections,  \* ServerConfig::max_connections
  RequestLimit,    \* ServerConfig::max_requests_per_connection
  None, Idle, Closed

ASSUME StreamsAssumption == IsFiniteSet(Streams) /\ None \notin Streams
ASSUME LimitsAssumption ==
  {MaxAttempts, MaxSize, MaxConnections, RequestLimit} \subseteq Nat
ASSUME LeaseAssumption == Idle # Closed /\ {Idle, Closed} \cap Requests = {}
ASSUME NoneAssumption == None \notin [request: Requests, attempt: Nat]

VARIABLES
  \* client
  call,      \* where a request is
  attempt,   \* RetryState::attempt
  conn,      \* the stream of the attempt
  answer,    \* the message returned to the caller
  lease,     \* the pool: who has a stream, as in ConnectionLease
  tainted,   \* the pool: streams that are not to be used again
  \* connections
  up, down,  \* messages on their way to the server, to the client
  \* server
  side,      \* where the connection's task is; "none" when the end is closed
  work,      \* the message it is handling
  served,    \* requests_served
  \* ghost
  executed,  \* messages handed to the router
  other      \* requests an attempt of which failed for another reason than
             \* a connection that had reached the request limit

pool   == <<lease, tainted>>
client == <<call, attempt, conn, answer>>
server == <<side, work, served>>
vars   == <<client, pool, up, down, server, executed, other>>

Pool == INSTANCE ConnectionLease WITH Clients <- Requests, Conns <- Streams

Messages == [request: Requests, attempt: Nat]

Pending == {"checkout", "write", "await"}
Ended   == {"ok", "failed", "cancelled"}
Calls   == {"new", "backoff", "release"} \cup Pending \cup Ended
Sides   == {"none", "backlog", "read", "handle", "last"}

Message(r) == [request |-> r, attempt |-> attempt[r]]

Accepted == {s \in Streams : side[s] \notin {"none", "backlog"}}
Held     == {conn[r] : r \in Requests} \ {None}

(* A stream of which the client has an end open.                           *)
ClientOpen(s) == s \in Held \/ lease[s] = Idle

Go(r, to)   == call' = [call EXCEPT ![r] = to]
Side(s, to) == side' = [side EXCEPT ![s] = to]

Init ==
  /\ call = [r \in Requests |-> "new"] /\ attempt = [r \in Requests |-> 0]
  /\ conn = [r \in Requests |-> None] /\ answer = [r \in Requests |-> None]
  /\ Pool!Init
  /\ up = [s \in Streams |-> <<>>] /\ down = [s \in Streams |-> <<>>]
  /\ side = [s \in Streams |-> "none"] /\ work = [s \in Streams |-> None]
  /\ served = [s \in Streams |-> 0]
  /\ executed = {} /\ other = {}

-----------------------------------------------------------------------------
(* An attempt: a connection, the request written, the response read, all   *)
(* of it under one timeout.                                                *)

Begin(r, n) ==
  /\ Go(r, "checkout")
  /\ attempt' = [attempt EXCEPT ![r] = n]
  /\ UNCHANGED <<conn, answer, pool, up, down, server, executed, other>>

Send(r) == call[r] = "new" /\ Begin(r, 1)

(* Mutant: a retry is not counted.                                         *)
RetryUncounted(r) == call[r] = "backoff" /\ Begin(r, attempt[r])

Retry(r) == call[r] = "backoff" /\ Begin(r, attempt[r] + 1)

Has(r, s) ==
  /\ call[r] = "checkout"
  /\ Go(r, "write")
  /\ conn' = [conn EXCEPT ![r] = s]

GetPooled(r, s) ==
  /\ Has(r, s) /\ Pool!Lend(r, s)
  /\ UNCHANGED <<attempt, answer, up, down, server, executed, other>>

(* The server's listener has a backlog: the connection is there before it  *)
(* is accepted.                                                            *)
Dial(s) ==
  /\ ~ClientOpen(s) /\ side[s] = "none"
  /\ Side(s, "backlog")
  /\ served' = [served EXCEPT ![s] = 0]
  /\ UNCHANGED <<up, down, work>>

Connect(r, s) ==
  /\ Has(r, s) /\ Pool!Connect(r, s) /\ Dial(s)
  /\ UNCHANGED <<attempt, answer, executed, other>>

(* Pooling is disabled, or a large PUT found no fresh pooled connection.   *)
ConnectDirect(r, s) ==
  /\ Has(r, s) /\ Dial(s)
  /\ UNCHANGED <<attempt, answer, pool, executed, other>>

Write(r) ==
  /\ call[r] = "write"
  /\ Go(r, "await")
  /\ up' = IF side[conn[r]] = "none" THEN up
           ELSE [up EXCEPT ![conn[r]] = Append(@, Message(r))]
  /\ IF lease[conn[r]] = r THEN Pool!Send(r, conn[r]) ELSE UNCHANGED pool
  /\ UNCHANGED <<attempt, conn, answer, down, server, executed, other>>

(* The attempt drops its connection.                                       *)
Drop(r) ==
  /\ conn' = [conn EXCEPT ![r] = None]
  /\ down' = [s \in Streams |-> IF s = conn[r] THEN <<>> ELSE down[s]]
  /\ IF conn[r] # None /\ lease[conn[r]] = r
       THEN Pool!Discard(conn[r]) ELSE UNCHANGED pool
  /\ UNCHANGED <<attempt, up, server, executed>>

Fails(r) ==
  /\ Go(r, IF attempt[r] < MaxAttempts THEN "backoff" ELSE "failed")
  /\ Drop(r)
  /\ UNCHANGED answer

(* Mutant: a connection whose response has not arrived goes back.          *)
TimeoutParks(r) ==
  /\ call[r] = "await" /\ lease[conn[r]] = r
  /\ Go(r, IF attempt[r] < MaxAttempts THEN "backoff" ELSE "failed")
  /\ lease' = [lease EXCEPT ![conn[r]] = Idle]
  /\ tainted' = tainted \ {conn[r]}
  /\ conn' = [conn EXCEPT ![r] = None]
  /\ other' = other \cup {r}
  /\ UNCHANGED <<attempt, answer, up, down, server, executed>>

(* The timeout of the attempt, or a connection that cannot be had.         *)
Timeout(r) ==
  /\ call[r] \in Pending
  /\ Fails(r)
  /\ other' = other \cup {r}

Retired(s) == served[s] > 0 /\ served[s] >= RequestLimit

(* The write finds the connection closed, or the read its end.             *)
PeerClosed(r) ==
  /\ call[r] \in {"write", "await"}
  /\ side[conn[r]] = "none" /\ down[conn[r]] = <<>>
  /\ Fails(r)
  /\ other' = IF Retired(conn[r]) THEN other ELSE other \cup {r}

(* A response that cannot be parsed: the error is not retried.             *)
ProtocolError(r) ==
  /\ call[r] = "await" /\ down[conn[r]] # <<>>
  /\ Go(r, "failed") /\ Drop(r)
  /\ other' = other \cup {r}
  /\ UNCHANGED answer

Receive(r, rests) ==
  /\ call[r] = "await" /\ down[conn[r]] # <<>>
  /\ answer' = [answer EXCEPT ![r] = Head(down[conn[r]])]
  /\ \E rest \in rests : down' = [down EXCEPT ![conn[r]] = rest]
  /\ Go(r, "release")
  /\ UNCHANGED <<attempt, conn, up, server, executed, other>>

Clean(r) == IF lease[conn[r]] = r THEN Pool!Receive(r, conn[r]) ELSE UNCHANGED pool

(* With a length or in chunks: read to its end, the stream is clean.       *)
ReceiveFramed(r) == Receive(r, {Tail(down[conn[r]])}) /\ Clean(r)

(* Mutant: any response that was read makes the stream reusable.           *)
ReceiveUnframedClean(r) ==
  Receive(r, {down[conn[r]], Tail(down[conn[r]])}) /\ Clean(r)

(* Neither: read until nothing has come for a while.  Some of the response *)
(* may still come, the stream stays tainted.                               *)
ReceiveUnframed(r) ==
  Receive(r, {down[conn[r]], Tail(down[conn[r]])}) /\ UNCHANGED pool

(* The connection is dropped at the end of the attempt, there is no await  *)
(* in between.                                                             *)
Park(r) ==
  /\ call[r] = "release" /\ Pool!Park(r, conn[r])
  /\ Go(r, "ok")
  /\ conn' = [conn EXCEPT ![r] = None]
  /\ UNCHANGED <<attempt, answer, up, down, server, executed, other>>

Discard(r) ==
  /\ call[r] = "release" /\ (lease[conn[r]] # r \/ conn[r] \in tainted)
  /\ Go(r, "ok") /\ Drop(r)
  /\ UNCHANGED <<answer, other>>

(* The caller drops the future of send().                                  *)
Cancel(r) ==
  /\ call[r] \in Pending \cup {"backoff"}
  /\ Go(r, "cancelled") /\ Drop(r)
  /\ UNCHANGED <<answer, other>>

(* The pool drops an idle connection: too old, or the client is closed.    *)
Expire(s) ==
  /\ lease[s] = Idle /\ Pool!Discard(s)
  /\ UNCHANGED <<client, up, down, server, executed, other>>

-----------------------------------------------------------------------------
(* The server's end.                                                       *)

Accept(s) ==
  /\ side[s] = "backlog" /\ Cardinality(Accepted) < MaxConnections
  /\ Side(s, "read")
  /\ UNCHANGED <<client, pool, up, down, work, served, executed, other>>

ReadRequest(s) ==
  /\ side[s] = "read" /\ up[s] # <<>>
  /\ work' = [work EXCEPT ![s] = Head(up[s])]
  /\ up' = [up EXCEPT ![s] = Tail(@)]
  /\ executed' = executed \cup {Head(up[s])}
  /\ Side(s, "handle")
  /\ UNCHANGED <<client, pool, down, served, other>>

(* Mutant: the task forgets the request before its response is written.    *)
RespondForgets(s) ==
  /\ side[s] = "handle"
  /\ work' = [work EXCEPT ![s] = None]
  /\ down' = IF ClientOpen(s) THEN [down EXCEPT ![s] = Append(@, work'[s])] ELSE down
  /\ served' = [served EXCEPT ![s] = @ + 1]
  /\ Side(s, IF served[s] + 1 < RequestLimit THEN "read" ELSE "last")
  /\ UNCHANGED <<client, pool, up, executed, other>>

(* A response written to a client that has closed its end is lost.         *)
Respond(s) ==
  /\ side[s] = "handle"
  /\ down' = IF ClientOpen(s) THEN [down EXCEPT ![s] = Append(@, work[s])] ELSE down
  /\ work' = [work EXCEPT ![s] = None]
  /\ served' = [served EXCEPT ![s] = @ + 1]
  /\ Side(s, IF served[s] + 1 < RequestLimit THEN "read" ELSE "last")
  /\ UNCHANGED <<client, pool, up, executed, other>>

Close(s) ==
  /\ Side(s, "none")
  /\ work' = [work EXCEPT ![s] = None]
  /\ up' = [up EXCEPT ![s] = <<>>]
  /\ UNCHANGED <<client, pool, down, served, executed, other>>

(* The limit is reached: what has arrived since the last response is lost. *)
Retire(s) == side[s] = "last" /\ Close(s)

ReadEnd(s) == side[s] = "read" /\ ~ClientOpen(s) /\ up[s] = <<>> /\ Close(s)

(* A read or write timeout, a malformed request, a panic, a dropped        *)
(* listener.                                                               *)
Abandon(s) == side[s] \in {"backlog", "read", "handle"} /\ Close(s)

Attempt(r) ==
  \/ Send(r) \/ Retry(r) \/ Write(r) \/ Timeout(r) \/ PeerClosed(r) \/ ProtocolError(r)
  \/ ReceiveFramed(r) \/ ReceiveUnframed(r) \/ Park(r) \/ Discard(r) \/ Cancel(r)
  \/ \E s \in Streams : GetPooled(r, s) \/ Connect(r, s) \/ ConnectDirect(r, s)

Serve(s) ==
  \/ Accept(s) \/ ReadRequest(s) \/ Respond(s)
  \/ Retire(s) \/ ReadEnd(s) \/ Abandon(s)

Next ==
  \/ \E r \in Requests : Attempt(r)
  \/ \E s \in Streams : Expire(s) \/ Serve(s)

Spec == Init /\ [][Next]_vars

-----------------------------------------------------------------------------
(* Properties.                                                             *)

(* The type of every variable.                                             *)
TypeOK ==
  /\ call \in [Requests -> Calls] /\ attempt \in [Requests -> Nat]
  /\ conn \in [Requests -> Streams \cup {None}]
  /\ answer \in [Requests -> Messages \cup {None}]
  /\ lease \in [Streams -> Requests \cup {Idle, Closed}] /\ tainted \subseteq Streams
  /\ up \in [Streams -> Seq(Messages)] /\ down \in [Streams -> Seq(Messages)]
  /\ side \in [Streams -> Sides] /\ work \in [Streams -> Messages \cup {None}]
  /\ served \in [Streams -> Nat]
  /\ executed \subseteq Messages /\ other \subseteq Requests

(* send() returns the response to its own last attempt: never that of      *)
(* another request, nor a late one of an attempt that was given up.        *)
OwnAnswer == \A r \in Requests : call[r] = "ok" => answer[r] = Message(r)

(* No pipelining: a connection carries one exchange at a time, also while  *)
(* the server still works on a request its client has given up; and it     *)
(* rests in the pool only when nothing is on its way on it, at either end. *)
OneExchange ==
  \A s \in Streams :
    LET exchanges == Len(up[s]) + Len(down[s]) + (IF work[s] = None THEN 0 ELSE 1)
    IN  exchanges <= (IF lease[s] = Idle THEN 0 ELSE 1)

(* Retries and streams that are used again never make the server run one   *)
(* attempt twice: a request runs at most as often as it was attempted.     *)
AttemptRunsOnce ==
  [][\A s \in Streams :
       work'[s] # work[s] /\ work'[s] # None => work'[s] \notin executed]_vars

(* Every call of send() returns, whatever the server does.                 *)
RequestEnds == \A r \in Requests : call[r] = "checkout" ~> call[r] \in Ended

(* "A client pool may open a replacement connection after that limit; this *)
(* is expected behavior": a request does not fail for no other reason than *)
(* that the server has closed idle connections at their request limit.     *)
RetirementIsTransparent == \A r \in Requests : call[r] = "failed" => r \in other

-----------------------------------------------------------------------------
(* The strengthening under which these are inductive: who has a stream,    *)
(* what is on it, and which messages there have been.                      *)

WithStream == {"write", "await", "release"}

(* A stream in use belongs to one request, leased from the pool or opened  *)
(* directly; the pool lends no other.                                      *)
Owned ==
  /\ \A r \in Requests :
       /\ conn[r] # None <=> call[r] \in WithStream
       /\ conn[r] # None => lease[conn[r]] \in {r, Closed}
  /\ \A r, q \in Requests : conn[r] = conn[q] => conn[r] = None \/ r = q
  /\ \A s \in Streams : lease[s] \in Requests => conn[lease[s]] = s

Quiet(s) == up[s] = <<>> /\ down[s] = <<>> /\ work[s] = None

(* Whatever is on the stream is the message m.                             *)
Only(s, m) ==
  /\ up[s] # <<>> => Head(up[s]) = m
  /\ work[s] # None => work[s] = m
  /\ down[s] # <<>> => Head(down[s]) = m

(* One message at most is on a stream, at one place; nothing waits for a   *)
(* client that has gone, nothing is on an idle stream.                     *)
Carried ==
  \A s \in Streams :
    /\ Len(up[s]) <= 1 /\ Len(down[s]) <= 1
    /\ up[s] # <<>> => down[s] = <<>> /\ work[s] = None
    /\ down[s] # <<>> => work[s] = None
    /\ work[s] # None <=> side[s] = "handle"
    /\ side[s] = "none" => up[s] = <<>>
    /\ down[s] # <<>> => s \in Held
    /\ lease[s] = Idle => Quiet(s)

(* What a request finds on its stream, and what it has in the end.         *)
Matched ==
  \A r \in Requests :
    /\ call[r] = "new" => attempt[r] = 0
    /\ call[r] = "write" => Quiet(conn[r])
    /\ call[r] = "await" => /\ Only(conn[r], Message(r))
                            /\ lease[conn[r]] = r => conn[r] \in tainted
    /\ call[r] = "release" => lease[conn[r]] # r \/ conn[r] \in tainted \/ Quiet(conn[r])
    /\ call[r] \in {"release", "ok"} => answer[r] = Message(r)

(* The message of an attempt there has been; before it writes, an attempt  *)
(* has none.                                                               *)
Attempted(m) ==
  /\ m.attempt <= attempt[m.request]
  /\ call[m.request] \in {"checkout", "write"} => m.attempt # attempt[m.request]

Sending == {s \in Streams : up[s] # <<>>}

(* A message on its way has not run, and is on its way once.               *)
Unrepeated ==
  /\ \A m \in executed : Attempted(m)
  /\ \A s \in Sending : Attempted(Head(up[s])) /\ Head(up[s]) \notin executed
  /\ \A s, z \in Sending : Head(up[s]) = Head(up[z]) => s = z

IInv == TypeOK /\ Owned /\ Carried /\ Matched /\ Unrepeated
=============================================================================
