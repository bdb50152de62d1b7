--------------------------- MODULE ConnectionBatch ---------------------------
(***************************************************************************)
(* get_connections (src/src/pool.rs): a call spawns one task per           *)
(* connection, each of which runs get_connection, and joins them in order. *)
(* The tasks do not end with the call: when it returns an error, or is     *)
(* dropped, those not yet joined go on, and what they get is dropped when  *)
(* they have it.  The pool is taken as far as its permits: how one task    *)
(* gets a connection in every detail is ConnectionPool.                    *)
(***************************************************************************)
EXTENDS Integers, FiniteSets

CONSTANTS
  Callers,   \* calls of get_connections
  Count,     \* [Callers -> Nat], the connections each asks for
  MaxSize    \* PoolConfig::max_size

Parameters ==
  IsFiniteSet(Callers) /\ Count \in [Callers -> Nat] /\ MaxSize \in Nat

VARIABLES
  free,    \* the semaphore's permits
  idle,    \* idle connections, each with its permit
  task,    \* where the task for a caller's nth connection is
  call,    \* where a caller is
  joined   \* how many of its tasks it has joined

vars == <<free, idle, task, call, joined>>

Tasks == UNION {{c} \X (1..Count[c]) : c \in Callers}
Of(c) == {t \in Tasks : t[1] = c}

Working == {"start", "waiting", "connecting"}
Gone(c) == call[c] \in {"failed", "cancelled"}
Has     == {t \in Tasks : task[t] \in {"connecting", "got"}}

Init ==
  /\ free = MaxSize /\ idle = 0
  /\ task = [t \in Tasks |-> "none"]
  /\ call = [c \in Callers |-> "new"]
  /\ joined = [c \in Callers |-> 0]

Spawn(c) ==
  /\ call[c] = "new"
  /\ call' = [call EXCEPT ![c] = "joining"]
  /\ task' = [t \in Tasks |-> IF t[1] = c THEN "start" ELSE task[t]]
  /\ UNCHANGED <<free, idle, joined>>

-----------------------------------------------------------------------------
(* get_connection, in a task of its own.                                   *)

Task(t, to) == task' = [task EXCEPT ![t] = to] /\ UNCHANGED <<call, joined>>

(* Mutant: a connection nobody waits for any more is forgotten.            *)
GotLeaks(t, f, i) ==
  /\ Task(t, IF Gone(t[1]) THEN "over" ELSE "got")
  /\ free' = f /\ idle' = i

(* The task has a connection; without a caller it is dropped, and since it *)
(* was never used it becomes idle.                                         *)
Got(t, f, i) ==
  /\ Task(t, IF Gone(t[1]) THEN "over" ELSE "got")
  /\ free' = f
  /\ idle' = IF Gone(t[1]) THEN i + 1 ELSE i

FirstLook(t) ==
  /\ task[t] = "start"
  /\ IF idle > 0 THEN Got(t, free, idle - 1)
     ELSE Task(t, "waiting") /\ UNCHANGED <<free, idle>>

(* A permit comes, and with it a second look at the idle connections.      *)
Acquire(t) ==
  /\ task[t] = "waiting" /\ free > 0
  /\ IF idle > 0 THEN Got(t, free, idle - 1)
     ELSE Task(t, "connecting") /\ free' = free - 1 /\ UNCHANGED idle

AcquireTimeout(t) ==
  /\ task[t] = "waiting"
  /\ Task(t, "refused")
  /\ UNCHANGED <<free, idle>>

Connected(t) == task[t] = "connecting" /\ Got(t, free, idle)

ConnectFails(t) ==
  /\ task[t] = "connecting"
  /\ Task(t, "refused")
  /\ free' = free + 1
  /\ UNCHANGED idle

-----------------------------------------------------------------------------
(* The call.                                                               *)

(* The call is over without its connections: the ones it has joined and    *)
(* the results of the tasks that have ended are dropped.                   *)
GiveUp(c, how) ==
  /\ call' = [call EXCEPT ![c] = how]
  /\ task' = [t \in Tasks |->
       IF t[1] = c /\ task[t] \in {"got", "refused"} THEN "over" ELSE task[t]]
  /\ idle' = idle + Cardinality({t \in Of(c) : task[t] = "got"})
  /\ UNCHANGED <<free, joined>>

Join(c) ==
  /\ call[c] = "joining" /\ joined[c] < Count[c]
  /\ task[<<c, joined[c] + 1>>] = "got"
  /\ joined' = [joined EXCEPT ![c] = @ + 1]
  /\ UNCHANGED <<free, idle, task, call>>

JoinRefused(c) ==
  /\ call[c] = "joining" /\ joined[c] < Count[c]
  /\ task[<<c, joined[c] + 1>>] = "refused"
  /\ GiveUp(c, "failed")

Return(c) ==
  /\ call[c] = "joining" /\ joined[c] = Count[c]
  /\ call' = [call EXCEPT ![c] = "ok"]
  /\ UNCHANGED <<free, idle, task, joined>>

Cancel(c) == call[c] = "joining" /\ GiveUp(c, "cancelled")

(* The caller is done with one of its connections: unused or answered in   *)
(* full it becomes idle, otherwise it is closed.                           *)
GiveBack(t) ==
  /\ call[t[1]] = "ok" /\ task[t] = "got"
  /\ Task(t, "over")
  /\ \/ idle' = idle + 1 /\ UNCHANGED free
     \/ free' = free + 1 /\ UNCHANGED idle

TaskStep(t) ==
  FirstLook(t) \/ Acquire(t) \/ AcquireTimeout(t) \/ Connected(t) \/ ConnectFails(t)

CallStep(c) == Join(c) \/ JoinRefused(c) \/ Return(c)

Next ==
  \/ \E t \in Tasks : TaskStep(t) \/ GiveBack(t)
  \/ \E c \in Callers : Spawn(c) \/ CallStep(c) \/ Cancel(c)

Spec == Init /\ [][Next]_vars

-----------------------------------------------------------------------------
(* Properties.                                                             *)

TypeOK ==
  /\ free \in 0..MaxSize /\ idle \in 0..MaxSize
  /\ task \in [Tasks -> Working \cup {"none", "got", "refused", "over"}]
  /\ call \in [Callers -> {"new", "joining", "ok", "failed", "cancelled"}]
  /\ joined \in [Callers -> Nat] /\ \A c \in Callers : joined[c] <= Count[c]

(* Whatever tasks outlive their call, no permit is lost and none is made:  *)
(* each is in the semaphore, with an idle connection, or with one task.    *)
PermitsKept == free + idle + Cardinality(Has) = MaxSize

(* A call returns all the connections it was asked for, or keeps none: one *)
(* that failed or was dropped half way has given back what it had.         *)
AllOrNothing ==
  \A c \in Callers :
    /\ call[c] = "ok" => \A t \in Of(c) : task[t] \in {"got", "over"}
    /\ Gone(c) => \A t \in Of(c) : task[t] # "got"
    /\ call[c] = "joining" => \A n \in 1..joined[c] : task[<<c, n>>] = "got"

BatchesWhole == PermitsKept /\ AllOrNothing

(* A call that has not begun has no tasks.                                 *)
NoneYet ==
  \A c \in Callers : call[c] = "new" =>
    joined[c] = 0 /\ \A t \in Of(c) : task[t] = "none"

IInv == TypeOK /\ BatchesWhole /\ NoneYet

(* Callers that hold what the others wait for do not wait for ever, nor do *)
(* the tasks a failed call leaves behind.                                  *)
CallsEnd ==
  \A c \in Callers :
    call[c] = "joining" ~>
      /\ call[c] # "joining"
      /\ \A t \in Of(c) : task[t] \notin Working
=============================================================================
