--------------------------- MODULE ConnectionPool ---------------------------
(***************************************************************************)
(* The client's connection pool, src/src/pool.rs.                          *)
(*                                                                         *)
(* Any number of tasks share one ConnectionPoolInner: a mutex around the   *)
(* queue of idle connections, a fair semaphore of max_size permits and an  *)
(* atomic counter of checked-out connections.  A step of a task is what it *)
(* does between two points where another thread can run: one lock section, *)
(* one operation on the semaphore or on the counter, or the resolution of  *)
(* one await.  A task that is at an await may be cancelled there, because  *)
(* every caller wraps these futures in tokio::time::timeout.               *)
(*                                                                         *)
(* Time is abstracted: a timer may fire whenever its await is pending, and *)
(* idle entries grow old in the order of the queue.                        *)
(***************************************************************************)
EXTENDS Integers, Sequences, FiniteSets

CONSTANTS
  Tasks,        \* tokio tasks that use the pool
  Permits,      \* the semaphore's permits: max_size = Cardinality(Permits)
  Conns,        \* names of streams; a closed stream's name may be used again
  MaxRetries,   \* PoolConfig::max_retries
  MaxPreheat,   \* bound on the count given to preheat_for_puts
  None

ASSUME TasksAssumption   == None \notin Tasks
ASSUME PermitsAssumption == IsFiniteSet(Permits) /\ None \notin Permits
ASSUME ConnsAssumption   == None \notin Conns
ASSUME BoundsAssumption  == MaxRetries \in Nat /\ MaxPreheat \in Nat

VARIABLES
  \* shared: ConnectionPoolInner
  lock,      \* the task inside a multi-step section of the connections mutex
  idle,      \* the queue of idle entries, oldest first
  expired,   \* how many entries, from the front, are older than max_idle_time
  free,      \* permits in the semaphore, those assigned to a waiter included
  waiters,   \* acquire_owned futures queued in the semaphore, in FIFO order
  active,    \* active_connections
  \* per task
  pc,        \* where the task is
  op,        \* which entry point it is in: "get", "fresh" or "preheat"
  permit,    \* the permit it owns
  pooled,    \* the permit that came with a pooled stream, before the swap
  conn,      \* the stream it owns
  reusable,  \* PooledConnection::reusable
  left,      \* connection attempts left, or connections left to preheat
  \* ghost
  dirty      \* streams with a request sent and its response not read to the end

shared  == <<lock, idle, expired, free, waiters, active>>
local   == <<pc, op, permit, pooled, conn, reusable, left>>
vars    == <<shared, local, dirty>>

MaxSize == Cardinality(Permits)

Entry   == [conn: Conns, permit: Permits]

Ops     == {"none", "get", "fresh", "preheat"}

(* Points at which a task can be; "out" is outside the pool.               *)
PCs == {"out", "first", "acquire", "waiting", "second", "swap", "connect",
        "count", "held", "returning", "unpooled", "preheat", "put", "clear"}

FreshAttempts == 2

Go(t, to)   == pc' = [pc EXCEPT ![t] = to]
Lock(t)     == lock' = t
Unlock      == lock' = None
MayLock(t)  == lock \in {None, t}

(* A name for a stream that connect() has just opened: none in use.        *)
Unused(c) ==
  /\ \A t \in Tasks : conn[t] # c
  /\ \A i \in DOMAIN idle : idle[i].conn # c

-----------------------------------------------------------------------------
(* The semaphore (tokio::sync::Semaphore).  It is fair: a released permit  *)
(* is assigned to the oldest waiter before anyone else can take it.  The   *)
(* first Cardinality(free) waiters are the ones that have been assigned a  *)
(* permit and have not been polled since.                                  *)

Available == Cardinality(free) > Len(waiters)

Assigned(t) ==
  \E i \in DOMAIN waiters : i <= Cardinality(free) /\ waiters[i] = t

LeaveQueue(t) ==
  \E i \in DOMAIN waiters :
    /\ waiters[i] = t
    /\ waiters' = SubSeq(waiters, 1, i - 1) \o SubSeq(waiters, i + 1, Len(waiters))

Take(t, p) ==
  /\ p \in free
  /\ free' = free \ {p}
  /\ permit' = [permit EXCEPT ![t] = p]

ReleaseOwn(t) ==
  /\ free' = free \cup {permit[t]}
  /\ permit' = [permit EXCEPT ![t] = None]

Init ==
  /\ lock = None
  /\ idle = <<>> /\ expired = 0
  /\ free = Permits /\ waiters = <<>>
  /\ active = 0
  /\ pc = [t \in Tasks |-> "out"] /\ op = [t \in Tasks |-> "none"]
  /\ permit = [t \in Tasks |-> None] /\ pooled = [t \in Tasks |-> None]
  /\ conn = [t \in Tasks |-> None] /\ reusable = [t \in Tasks |-> FALSE]
  /\ left = [t \in Tasks |-> 0]
  /\ dirty = {}

(* The call returns and the task owns nothing of the pool any more.        *)
Leave(t) ==
  /\ Go(t, "out")
  /\ op' = [op EXCEPT ![t] = "none"]
  /\ left' = [left EXCEPT ![t] = 0]

Call(t, name, where, n) ==
  /\ pc[t] = "out"
  /\ Go(t, where)
  /\ op' = [op EXCEPT ![t] = name]
  /\ left' = [left EXCEPT ![t] = n]
  /\ UNCHANGED <<shared, permit, pooled, conn, reusable, dirty>>

GetConnection(t)      == Call(t, "get", "first", 0)
GetFreshConnection(t) == Call(t, "fresh", "acquire", 0)
PreheatForPuts(t)     == \E n \in 0..MaxPreheat : Call(t, "preheat", "preheat", n)

-----------------------------------------------------------------------------
(* get_pooled_connection, called first and again once a permit is held.    *)
(* Under the mutex it drops the expired entries at the front, one by one   *)
(* (each drop releases a permit that other threads see at once), then pops *)
(* the front.  The clock is read once, when the mutex has been taken.      *)

Checking(t) == pc[t] \in {"first", "second"} /\ MayLock(t)

EvictExpired(t) ==
  /\ Checking(t)
  /\ expired > 0
  /\ Lock(t)
  /\ idle' = Tail(idle) /\ expired' = expired - 1
  /\ free' = free \cup {Head(idle).permit}
  /\ UNCHANGED <<waiters, active, local, dirty>>

(* Mutant: the front entry is read but not removed.                        *)
PopFirstPeeks(t) ==
  /\ Checking(t) /\ pc[t] = "first"
  /\ expired = 0 /\ idle # <<>>
  /\ conn' = [conn EXCEPT ![t] = Head(idle).conn]
  /\ permit' = [permit EXCEPT ![t] = Head(idle).permit]
  /\ Unlock
  /\ Go(t, "count")
  /\ UNCHANGED <<idle, expired, free, waiters, active, op, pooled, reusable, left, dirty>>

(* First check: the entry's permit comes with the stream.                  *)
PopFirst(t) ==
  /\ Checking(t) /\ pc[t] = "first"
  /\ expired = 0 /\ idle # <<>>
  /\ conn' = [conn EXCEPT ![t] = Head(idle).conn]
  /\ permit' = [permit EXCEPT ![t] = Head(idle).permit]
  /\ idle' = Tail(idle)
  /\ Unlock
  /\ Go(t, "count")
  /\ UNCHANGED <<expired, free, waiters, active, op, pooled, reusable, left, dirty>>

(* Second check: the task now owns two permits, and drops its own next.    *)
PopSecond(t) ==
  /\ Checking(t) /\ pc[t] = "second"
  /\ expired = 0 /\ idle # <<>>
  /\ conn' = [conn EXCEPT ![t] = Head(idle).conn]
  /\ pooled' = [pooled EXCEPT ![t] = Head(idle).permit]
  /\ idle' = Tail(idle)
  /\ Unlock
  /\ Go(t, "swap")
  /\ UNCHANGED <<expired, free, waiters, active, op, permit, reusable, left, dirty>>

PoolEmpty(t) ==
  /\ Checking(t)
  /\ idle = <<>>
  /\ Unlock
  /\ \/ pc[t] = "first"  /\ Go(t, "acquire") /\ UNCHANGED left
     \/ pc[t] = "second" /\ Go(t, "connect") /\ left' = [left EXCEPT ![t] = MaxRetries]
  /\ UNCHANGED <<idle, expired, free, waiters, active, op, permit, pooled, conn, reusable, dirty>>

SwapPermit(t) ==
  /\ pc[t] = "swap"
  /\ free' = free \cup {permit[t]}
  /\ permit' = [permit EXCEPT ![t] = pooled[t]]
  /\ pooled' = [pooled EXCEPT ![t] = None]
  /\ Go(t, "count")
  /\ UNCHANGED <<lock, idle, expired, waiters, active, op, conn, reusable, left, dirty>>

-----------------------------------------------------------------------------
(* timeout(.., semaphore.acquire_owned()).  With the permit, get checks    *)
(* the queue again and fresh connects.                                     *)

Acquired(t) ==
  \/ op[t] = "get"   /\ Go(t, "second")  /\ UNCHANGED left
  \/ op[t] = "fresh" /\ Go(t, "connect") /\ left' = [left EXCEPT ![t] = FreshAttempts]

AcquireNow(t) ==
  /\ pc[t] = "acquire" /\ Available
  /\ \E p \in free : Take(t, p)
  /\ Acquired(t)
  /\ UNCHANGED <<lock, idle, expired, waiters, active, op, pooled, conn, reusable, dirty>>

Enqueue(t) ==
  /\ pc[t] = "acquire" /\ ~Available
  /\ waiters' = Append(waiters, t)
  /\ Go(t, "waiting")
  /\ UNCHANGED <<lock, idle, expired, free, active, op, permit, pooled, conn, reusable, left, dirty>>

Resume(t) ==
  /\ pc[t] = "waiting" /\ Assigned(t)
  /\ LeaveQueue(t)
  /\ \E p \in free : Take(t, p)
  /\ Acquired(t)
  /\ UNCHANGED <<lock, idle, expired, active, op, pooled, conn, reusable, dirty>>

(* Mutant: only the fresh path bounds its wait.                            *)
AcquireTimeoutFreshOnly(t) ==
  /\ op[t] = "fresh"
  /\ pc[t] = "waiting" /\ ~Assigned(t)
  /\ LeaveQueue(t)
  /\ Leave(t)
  /\ UNCHANGED <<lock, idle, expired, free, active, permit, pooled, conn, reusable, dirty>>

(* The timer fires; a permit assigned meanwhile wins, because the acquire  *)
(* future is polled before the timer.                                      *)
AcquireTimeout(t) ==
  /\ pc[t] = "waiting" /\ ~Assigned(t)
  /\ LeaveQueue(t)
  /\ Leave(t)
  /\ UNCHANGED <<lock, idle, expired, free, active, permit, pooled, conn, reusable, dirty>>

-----------------------------------------------------------------------------
(* create_connection and get_fresh_connection: attempts with a pause       *)
(* between them, then an error that drops the permit.                      *)

ConnectOk(t) ==
  /\ pc[t] = "connect" /\ op[t] # "preheat" /\ left[t] > 0
  /\ \E c \in Conns : Unused(c) /\ conn' = [conn EXCEPT ![t] = c]
  /\ Go(t, "count")
  /\ UNCHANGED <<shared, op, permit, pooled, reusable, left, dirty>>

ConnectFail(t) ==
  /\ pc[t] = "connect" /\ op[t] # "preheat" /\ left[t] > 0
  /\ left' = [left EXCEPT ![t] = @ - 1]
  /\ UNCHANGED <<shared, pc, op, permit, pooled, conn, reusable, dirty>>

ConnectError(t) ==
  /\ pc[t] = "connect" /\ op[t] # "preheat" /\ left[t] = 0
  /\ ReleaseOwn(t)
  /\ Leave(t)
  /\ UNCHANGED <<lock, idle, expired, waiters, active, pooled, conn, reusable, dirty>>

(* fetch_add, then PooledConnection::new hands the stream to the caller.   *)
Count(t) ==
  /\ pc[t] = "count"
  /\ active' = active + 1
  /\ reusable' = [reusable EXCEPT ![t] = TRUE]
  /\ Go(t, "held")
  /\ op' = [op EXCEPT ![t] = "none"]
  /\ left' = [left EXCEPT ![t] = 0]
  /\ UNCHANGED <<lock, idle, expired, free, waiters, permit, pooled, conn, dirty>>

-----------------------------------------------------------------------------
(* PooledConnection in the hands of a request.  send_pooled_request        *)
(* borrows the stream, which disables reuse, and enables it again only     *)
(* when a framed response has been read to the end.                        *)

(* Mutant: borrowing leaves the connection reusable, as before 0.5.2.      *)
BorrowKeepsReusable(t) ==
  /\ pc[t] = "held"
  /\ dirty' = dirty \cup {conn[t]}
  /\ UNCHANGED <<shared, local>>

Borrow(t) ==
  /\ pc[t] = "held"
  /\ reusable' = [reusable EXCEPT ![t] = FALSE]
  /\ dirty' = dirty \cup {conn[t]}
  /\ UNCHANGED <<shared, pc, op, permit, pooled, conn, left>>

(* Mutant: mark_reusable before the body has been read.                    *)
MarkReusableEarly(t) ==
  /\ pc[t] = "held" /\ conn[t] \in dirty
  /\ reusable' = [reusable EXCEPT ![t] = TRUE]
  /\ UNCHANGED <<shared, pc, op, permit, pooled, conn, left, dirty>>

(* send_request returned a response; mark_reusable if its framing told     *)
(* where it ends, otherwise bytes of it may still arrive.                  *)
FramedResponse(t) ==
  /\ pc[t] = "held" /\ conn[t] \in dirty
  /\ dirty' = dirty \ {conn[t]}
  /\ reusable' = [reusable EXCEPT ![t] = TRUE]
  /\ UNCHANGED <<shared, pc, op, permit, pooled, conn, left>>

Invalidate(t) ==
  /\ pc[t] = "held" /\ reusable[t]
  /\ reusable' = [reusable EXCEPT ![t] = FALSE]
  /\ UNCHANGED <<shared, pc, op, permit, pooled, conn, left, dirty>>

(* Drop at any time: after the exchange, on an error, or because the       *)
(* request's future was dropped.  return_connection counts first.          *)
DropConnection(t) ==
  /\ pc[t] = "held"
  /\ active' = active - 1
  /\ Go(t, "returning")
  /\ UNCHANGED <<lock, idle, expired, free, waiters, op, permit, pooled, conn, reusable, left, dirty>>

(* Mutant: the stream leaves the pool and stays counted.                   *)
IntoStreamStaysCounted(t) ==
  /\ pc[t] = "held"
  /\ reusable' = [reusable EXCEPT ![t] = FALSE]
  /\ Go(t, "returning")
  /\ UNCHANGED <<shared, op, permit, pooled, conn, left, dirty>>

IntoStream(t) ==
  /\ pc[t] = "held"
  /\ active' = active - 1
  /\ reusable' = [reusable EXCEPT ![t] = FALSE]
  /\ Go(t, "returning")
  /\ UNCHANGED <<lock, idle, expired, free, waiters, op, permit, pooled, conn, left, dirty>>

(* The permit is dropped before the stream: parameters are dropped in      *)
(* reverse order, and into_stream drops the permit itself.                 *)
Discard(t) ==
  /\ pc[t] = "returning" /\ ~reusable[t]
  /\ ReleaseOwn(t)
  /\ Go(t, "unpooled")
  /\ UNCHANGED <<lock, idle, expired, waiters, active, op, pooled, conn, reusable, left, dirty>>

(* The stream is closed: by the end of return_connection, or by the caller *)
(* of into_stream.                                                         *)
CloseStream(t) ==
  /\ pc[t] = "unpooled"
  /\ conn' = [conn EXCEPT ![t] = None]
  /\ dirty' = dirty \ {conn[t]}
  /\ Go(t, "out")
  /\ UNCHANGED <<shared, op, permit, pooled, reusable, left>>

(* Mutant: the permit is released while the stream goes to the queue.      *)
ReturnReleasesPermit(t) ==
  /\ pc[t] = "returning" /\ reusable[t] /\ lock = None
  /\ idle' = Append(idle, [conn |-> conn[t], permit |-> permit[t]])
  /\ free' = free \cup {permit[t]}
  /\ permit' = [permit EXCEPT ![t] = None]
  /\ conn' = [conn EXCEPT ![t] = None]
  /\ reusable' = [reusable EXCEPT ![t] = FALSE]
  /\ Go(t, "out")
  /\ UNCHANGED <<lock, expired, waiters, active, op, pooled, left, dirty>>

(* The queue keeps the permit with the stream; a full queue drops both.    *)
ReturnConnection(t) ==
  /\ pc[t] = "returning" /\ reusable[t] /\ lock = None
  /\ IF Len(idle) < MaxSize
     THEN /\ idle' = Append(idle, [conn |-> conn[t], permit |-> permit[t]])
          /\ free' = free
     ELSE /\ idle' = idle
          /\ free' = free \cup {permit[t]}
  /\ permit' = [permit EXCEPT ![t] = None]
  /\ conn' = [conn EXCEPT ![t] = None]
  /\ reusable' = [reusable EXCEPT ![t] = FALSE]
  /\ Go(t, "out")
  /\ UNCHANGED <<lock, expired, waiters, active, op, pooled, left, dirty>>

-----------------------------------------------------------------------------
(* preheat_for_puts: one permit at a time, without waiting.                *)

PreheatAcquire(t) ==
  /\ pc[t] = "preheat" /\ left[t] > 0 /\ Available
  /\ \E p \in free : Take(t, p)
  /\ Go(t, "connect")
  /\ UNCHANGED <<lock, idle, expired, waiters, active, op, pooled, conn, reusable, left, dirty>>

PreheatDone(t) ==
  /\ pc[t] = "preheat" /\ (left[t] = 0 \/ ~Available)
  /\ Leave(t)
  /\ UNCHANGED <<shared, permit, pooled, conn, reusable, dirty>>

PreheatConnected(t) ==
  /\ pc[t] = "connect" /\ op[t] = "preheat"
  /\ \E c \in Conns : Unused(c) /\ conn' = [conn EXCEPT ![t] = c]
  /\ Go(t, "put")
  /\ UNCHANGED <<shared, op, permit, pooled, reusable, left, dirty>>

PreheatFailed(t) ==
  /\ pc[t] = "connect" /\ op[t] = "preheat"
  /\ ReleaseOwn(t)
  /\ Leave(t)
  /\ UNCHANGED <<lock, idle, expired, waiters, active, pooled, conn, reusable, dirty>>

PreheatPut(t) ==
  /\ pc[t] = "put" /\ lock = None
  /\ idle' = Append(idle, [conn |-> conn[t], permit |-> permit[t]])
  /\ permit' = [permit EXCEPT ![t] = None]
  /\ conn' = [conn EXCEPT ![t] = None]
  /\ left' = [left EXCEPT ![t] = @ - 1]
  /\ Go(t, "preheat")
  /\ UNCHANGED <<lock, expired, free, waiters, active, op, pooled, reusable, dirty>>

-----------------------------------------------------------------------------
(* close: the queue is cleared under the mutex, entry by entry.            *)

Close(t) ==
  /\ pc[t] = "out" /\ lock = None
  /\ Lock(t)
  /\ Go(t, "clear")
  /\ UNCHANGED <<idle, expired, free, waiters, active, op, permit, pooled, conn, reusable, left, dirty>>

ClearOne(t) ==
  /\ pc[t] = "clear" /\ idle # <<>>
  /\ idle' = Tail(idle)
  /\ expired' = IF expired > 0 THEN expired - 1 ELSE 0
  /\ free' = free \cup {Head(idle).permit}
  /\ UNCHANGED <<lock, waiters, active, local, dirty>>

ClearDone(t) ==
  /\ pc[t] = "clear" /\ idle = <<>>
  /\ Unlock
  /\ Go(t, "out")
  /\ UNCHANGED <<idle, expired, free, waiters, active, op, permit, pooled, conn, reusable, left, dirty>>

-----------------------------------------------------------------------------
(* The future of a call is dropped at one of its awaits.  A permit, owned  *)
(* or assigned, goes back to the semaphore.                                *)

CancelWaiting(t) ==
  /\ pc[t] = "waiting"
  /\ LeaveQueue(t)
  /\ Leave(t)
  /\ UNCHANGED <<lock, idle, expired, free, active, permit, pooled, conn, reusable, dirty>>

(* Mutant: the permit of a cancelled connect is forgotten.                 *)
CancelConnectLeaks(t) ==
  /\ pc[t] = "connect"
  /\ permit' = [permit EXCEPT ![t] = None]
  /\ Leave(t)
  /\ UNCHANGED <<shared, pooled, conn, reusable, dirty>>

CancelConnect(t) ==
  /\ pc[t] = "connect"
  /\ ReleaseOwn(t)
  /\ Leave(t)
  /\ UNCHANGED <<lock, idle, expired, waiters, active, pooled, conn, reusable, dirty>>

(* Time passes: the oldest entry that was still usable expires.  While the *)
(* mutex is held the clock has already been read.                          *)
Expire ==
  /\ lock = None
  /\ expired < Len(idle)
  /\ expired' = expired + 1
  /\ UNCHANGED <<lock, idle, free, waiters, active, local, dirty>>

(* What a task does inside the pool's own code.                            *)
PoolStep(t) ==
  \/ EvictExpired(t) \/ PopFirst(t) \/ PopSecond(t) \/ PoolEmpty(t) \/ SwapPermit(t)
  \/ AcquireNow(t) \/ Enqueue(t) \/ Resume(t) \/ AcquireTimeout(t)
  \/ ConnectOk(t) \/ ConnectFail(t) \/ ConnectError(t) \/ Count(t)
  \/ Discard(t) \/ CloseStream(t) \/ ReturnConnection(t)
  \/ PreheatAcquire(t) \/ PreheatDone(t) \/ PreheatConnected(t)
  \/ PreheatFailed(t) \/ PreheatPut(t)
  \/ ClearOne(t) \/ ClearDone(t)

(* What the code around the pool decides.                                  *)
CallerStep(t) ==
  \/ GetConnection(t) \/ GetFreshConnection(t) \/ PreheatForPuts(t) \/ Close(t)
  \/ Borrow(t) \/ FramedResponse(t) \/ Invalidate(t)
  \/ DropConnection(t) \/ IntoStream(t)
  \/ CancelWaiting(t) \/ CancelConnect(t)

Next == (\E t \in Tasks : PoolStep(t) \/ CallerStep(t)) \/ Expire

Spec == Init /\ [][Next]_vars

(* The steps that take the mutex.                                          *)
LockStep(t) == ReturnConnection(t) \/ PreheatPut(t)
               \/ EvictExpired(t) \/ PopFirst(t) \/ PopSecond(t) \/ PoolEmpty(t)

-----------------------------------------------------------------------------
TypeOK ==
  /\ lock \in Tasks \cup {None}
  /\ idle \in Seq(Entry) /\ expired \in 0..Len(idle)
  /\ free \subseteq Permits /\ waiters \in Seq(Tasks)
  /\ active \in Int
  /\ pc \in [Tasks -> PCs] /\ op \in [Tasks -> Ops]
  /\ permit \in [Tasks -> Permits \cup {None}]
  /\ pooled \in [Tasks -> Permits \cup {None}]
  /\ conn \in [Tasks -> Conns \cup {None}]
  /\ reusable \in [Tasks -> BOOLEAN]
  /\ left \in [Tasks -> Nat]
  /\ dirty \subseteq Conns

(* No permit is duplicated: not by an idle entry and the task it was       *)
(* lent to, not by the swap of the second check, not by a release that     *)
(* happens twice (a cancelled acquire, IntoStream and Drop).               *)
OwnedNotFree ==
  \A t \in Tasks : permit[t] \notin free /\ pooled[t] \notin free

OwnedNotIdle ==
  \A t \in Tasks : \A i \in DOMAIN idle :
    idle[i].permit # permit[t] /\ idle[i].permit # pooled[t]

OwnedOnce ==
  /\ \A t, u \in Tasks : permit[t] = pooled[u] => permit[t] = None
  /\ \A t, u \in Tasks : permit[t] = permit[u] => permit[t] = None \/ t = u
  /\ \A t, u \in Tasks : pooled[t] = pooled[u] => pooled[t] = None \/ t = u

IdleOnce ==
  /\ \A i \in DOMAIN idle : idle[i].permit \notin free
  /\ \A i, j \in DOMAIN idle : idle[i].permit = idle[j].permit => i = j

PermitExclusive == OwnedNotFree /\ OwnedNotIdle /\ OwnedOnce /\ IdleOnce

(* No permit leaks: whatever was cancelled, timed out, failed or closed,   *)
(* each permit is in the semaphore, with an idle entry or with a task.     *)
PermitAccounted ==
  \A p \in Permits :
    \/ p \in free
    \/ \E i \in DOMAIN idle : idle[i].permit = p
    \/ \E t \in Tasks : permit[t] = p \/ pooled[t] = p

PermitConservation == PermitExclusive /\ PermitAccounted

(* A stream is never in two hands: not held by two tasks, not both held    *)
(* and idle, not twice in the queue.                                       *)
ConnExclusive ==
  /\ \A t, u \in Tasks : conn[t] = conn[u] => conn[t] = None \/ t = u
  /\ \A t \in Tasks : \A i \in DOMAIN idle : idle[i].conn # conn[t]
  /\ \A i, j \in DOMAIN idle : idle[i].conn = idle[j].conn => i = j

(* What ConnectionPool::stats reports at any moment: the counter never     *)
(* underflows, and idle, checked-out and available connections together    *)
(* never exceed max_size, although the counter is read and updated outside *)
(* the mutex.                                                              *)
AvailablePermits == IF Available THEN Cardinality(free) - Len(waiters) ELSE 0

StatsBound ==
  /\ active >= 0
  /\ Len(idle) + active + AvailablePermits <= MaxSize

(* The queue is never full when a connection comes back: the branch        *)
(* "Pool full, dropping connection" is dead.                               *)
RoomToReturn ==
  \A t \in Tasks :
    pc[t] \in {"returning", "put"} => Len(idle) < MaxSize

(* A stream whose last response has not been read to the end never enters  *)
(* the queue: the next request cannot read somebody else's response.       *)
IdleClean == \A i \in DOMAIN idle : idle[i].conn \notin dirty

(* Every call to the pool returns, with a connection or with an error: no  *)
(* lost permit, no mutex left locked, nobody forgotten in the queue.       *)
InCall(t) == pc[t] \notin {"out", "held"}

CallReturns == \A t \in Tasks : InCall(t) ~> ~InCall(t)

(* When the only calls in progress are get_connection calls that wait for  *)
(* a permit, no connection is idle: "Maximum time to wait for a connection *)
(* from the pool" (pool.rs:21) is time spent without one.                  *)
NoWaitBesideIdle ==
  /\ waiters # <<>>
  /\ \A t \in Tasks : pc[t] = "out" \/ (pc[t] = "waiting" /\ op[t] = "get" /\ ~Assigned(t))
  => idle = <<>>

-----------------------------------------------------------------------------
(* What a task owns at each point, the strengthening under which the       *)
(* safety invariants are inductive.                                        *)
WithPermit == {"second", "swap", "connect", "count", "held", "returning", "put"}
WithStream == {"swap", "count", "held", "returning", "unpooled", "put"}

(* Checked-out connections by the permits they carry.                      *)
Held        == {t \in Tasks : pc[t] = "held"}
HeldPermits == {permit[t] : t \in Held}
IdlePermits == {idle[i].permit : i \in DOMAIN idle}

OwnsAt(t) ==
  /\ permit[t] # None <=> pc[t] \in WithPermit
  /\ pooled[t] # None <=> pc[t] = "swap"
  /\ conn[t] # None <=> pc[t] \in WithStream
  /\ lock = t => pc[t] \in {"first", "second", "clear"}
  /\ pc[t] = "clear" => lock = t
  /\ pc[t] \in {"first", "second"} => op[t] = "get"
  /\ pc[t] = "put" \/ (pc[t] = "connect" /\ op[t] = "preheat") => left[t] > 0

Owns == \A t \in Tasks : OwnsAt(t)

(* A stream carries an unfinished exchange only while a task that was      *)
(* lent it still has it, and that task will not put it back.               *)
DirtyHeld ==
  /\ \A c \in dirty : \E t \in Tasks :
       conn[t] = c /\ pc[t] \in {"held", "returning", "unpooled"}
  /\ \A t \in Tasks :
       pc[t] \in {"held", "returning"} /\ reusable[t] => conn[t] \notin dirty

(* The counter and the queue agree with the permits.                       *)
Counters ==
  /\ active = Cardinality(HeldPermits)
  /\ Len(idle) = Cardinality(IdlePermits)

IInv == TypeOK /\ Owns /\ PermitConservation /\ ConnExclusive /\ DirtyHeld /\ Counters
=============================================================================
