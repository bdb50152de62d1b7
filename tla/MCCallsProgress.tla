--------------------------- MODULE MCCallsProgress ---------------------------
(***************************************************************************)
(* The calls of a client that must come to an end: those of the pool and   *)
(* send.  A behaviour picks one of the two modules at the start and is a   *)
(* behaviour of that module, under its fairness; the variables of the      *)
(* other stay as they are.                                                 *)
(***************************************************************************)
EXTENDS Integers, Sequences, FiniteSets

CONSTANTS Tasks, Permits, Conns, Requests, Streams, None, Idle, Closed

VARIABLES
  part,                                                       \* the part that runs
  lock, idle, expired, free, waiters, active, pc, op, permit, pooled, conn, reusable, left,
  dirty,                                                      \* ConnectionPool
  call, attempt, connection, answer, lease, tainted, up, down, side, work, served, executed,
  other                                                       \* RequestExchange

PoolVars == <<lock, idle, expired, free, waiters, active, pc, op, permit, pooled, conn,
              reusable, left, dirty>>
ExchangeVars == <<call, attempt, connection, answer, lease, tainted, up, down, side, work,
                  served, executed, other>>

Pool == INSTANCE ConnectionPool WITH MaxRetries <- 1, MaxPreheat <- 1
Exchange == INSTANCE RequestExchange WITH
  MaxAttempts <- 2, MaxSize <- 1, MaxConnections <- 1, RequestLimit <- 1,
  conn <- connection

Init == part \in {"pool", "exchange"} /\ Pool!Init /\ Exchange!Init

Next ==
  \/ part = "pool" /\ Pool!Next /\ UNCHANGED <<part, ExchangeVars>>
  \/ part = "exchange" /\ Exchange!Next /\ UNCHANGED <<part, PoolVars>>

Spec == Init /\ [][Next]_<<part, PoolVars, ExchangeVars>>

(* A task that runs is polled until its call returns, timers fire, the     *)
(* kernel answers a connect, and the mutex is eventually fair to whoever   *)
(* waits for it.  Nothing makes a caller give a connection back.           *)
PoolFairness ==
  \A t \in Tasks : WF_PoolVars(part = "pool" /\ Pool!PoolStep(t))
                   /\ SF_PoolVars(part = "pool" /\ Pool!LockStep(t))

(* The client's own steps: its timers fire, the executor's loop goes on.   *)
ExchangeFairness ==
  \A r \in Requests :
    /\ WF_ExchangeVars(part = "exchange" /\ Exchange!Timeout(r))
    /\ WF_ExchangeVars(part = "exchange" /\ Exchange!Retry(r))
    /\ WF_ExchangeVars(part = "exchange" /\ Exchange!Park(r))
    /\ WF_ExchangeVars(part = "exchange" /\ Exchange!Discard(r))

FairSpec == Spec /\ PoolFairness /\ ExchangeFairness

-----------------------------------------------------------------------------
(* Every call to the pool returns, with a connection or with an error: no  *)
(* lost permit, no mutex left locked, nobody forgotten in the queue.       *)
CallReturns == Pool!CallReturns

(* Every call of send() returns, whatever the server does.                 *)
RequestEnds == Exchange!RequestEnds
=============================================================================
