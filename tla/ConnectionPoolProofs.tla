------------------------ MODULE ConnectionPoolProofs ------------------------
(***************************************************************************)
(* Proofs about ConnectionPool: the inductive invariant IInv holds for any *)
(* set of tasks and any finite set of permits, and with it the safety      *)
(* invariants that the runs of MCConnectionPool check.                     *)
(***************************************************************************)
EXTENDS ConnectionPool, TLAPS, FiniteSetTheorems, SequenceTheorems

(* The queue without its front entry.                                      *)
LEMMA TailEntries ==
  ASSUME NEW s \in Seq(Entry), s # <<>>
  PROVE  /\ Head(s) \in Entry /\ Head(s) = s[1]
         /\ Tail(s) \in Seq(Entry)
         /\ Len(s) \in Nat \ {0} /\ Len(Tail(s)) = Len(s) - 1
         /\ DOMAIN s = 1..Len(s) /\ DOMAIN Tail(s) = 1..(Len(s) - 1)
         /\ \A i \in 1..(Len(s) - 1) : Tail(s)[i] = s[i + 1]
  BY HeadTailProperties, EmptySeq, LenProperties

LEMMA HeadEntry ==
  ASSUME NEW s \in Seq(Entry), s # <<>>
  PROVE  Head(s).conn \in Conns /\ Head(s).permit \in Permits
  BY TailEntries DEF Entry

(* The queue with one more entry.                                          *)
LEMMA AppendEntries ==
  ASSUME NEW s \in Seq(Entry), NEW e \in Entry
  PROVE  /\ Append(s, e) \in Seq(Entry)
         /\ Len(s) \in Nat /\ Len(Append(s, e)) = Len(s) + 1
         /\ DOMAIN s = 1..Len(s) /\ DOMAIN Append(s, e) = 1..(Len(s) + 1)
         /\ \A i \in 1..Len(s) : Append(s, e)[i] = s[i]
         /\ Append(s, e)[Len(s) + 1] = e
  BY AppendProperties, LenProperties

LEMMA QueueType ==
  ASSUME NEW t \in Tasks, waiters \in Seq(Tasks), LeaveQueue(t)
  PROVE  waiters' \in Seq(Tasks)
<1>1. PICK i \in DOMAIN waiters :
        waiters' = SubSeq(waiters, 1, i - 1) \o SubSeq(waiters, i + 1, Len(waiters))
  BY DEF LeaveQueue
<1>2. /\ Len(waiters) \in Nat /\ i \in 1..Len(waiters)
      /\ \A j \in 1..Len(waiters) : waiters[j] \in Tasks
  BY LenProperties
<1>3. SubSeq(waiters, 1, i - 1) \in Seq(Tasks)
  BY <1>2, SubSeqProperties
<1>4. SubSeq(waiters, i + 1, Len(waiters)) \in Seq(Tasks)
  BY <1>2, SubSeqProperties
<1>5. QED
  BY <1>1, <1>3, <1>4, ConcatProperties

LEMMA AcquiredType ==
  ASSUME TypeOK, NEW t \in Tasks, Acquired(t)
  PROVE  pc' \in [Tasks -> PCs] /\ left' \in [Tasks -> Nat]
<1>1. CASE op[t] = "get" /\ Go(t, "second") /\ UNCHANGED left
  BY <1>1 DEF TypeOK, Go, PCs
<1>2. CASE /\ op[t] = "fresh" /\ Go(t, "connect")
           /\ left' = [left EXCEPT ![t] = FreshAttempts]
  BY <1>2 DEF TypeOK, Go, PCs, FreshAttempts
<1>3. QED
  BY <1>1, <1>2 DEF Acquired

-----------------------------------------------------------------------------
(* Every action of a task keeps the types: the fields of the task first,   *)
(* then the two queues.                                                    *)
LEMMA TypeStep ==
  ASSUME TypeOK, Owns, NEW t \in Tasks, PoolStep(t) \/ CallerStep(t)
  PROVE  TypeOK'
<1> USE DEF TypeOK, vars, shared, local, Go, Lock, Unlock, Leave, Ops, PCs, WithPermit, WithStream, OwnsAt
<1>1. CASE EvictExpired(t)
  <2>1. idle' = Tail(idle) /\ idle # <<>>
    BY <1>1, EmptySeq DEF EvictExpired, Checking
  <2>2. /\ idle' \in Seq(Entry) /\ Len(idle') = Len(idle) - 1 /\ Len(idle) \in Nat
        /\ Head(idle).permit \in Permits /\ Head(idle).conn \in Conns
    BY <2>1, TailEntries DEF Entry
  <2>3. expired' \in 0..Len(idle')
    BY <1>1, <2>1, <2>2, EmptySeq DEF EvictExpired, Checking
  <2>4. QED
    BY <1>1, <2>2, <2>3 DEF EvictExpired, Checking
<1>2. CASE PopFirst(t)
  <2>1. idle' = Tail(idle) /\ idle # <<>>
    BY <1>2, EmptySeq DEF PopFirst, Checking
  <2>2. /\ idle' \in Seq(Entry) /\ Len(idle') = Len(idle) - 1 /\ Len(idle) \in Nat
        /\ Head(idle).permit \in Permits /\ Head(idle).conn \in Conns
    BY <2>1, TailEntries DEF Entry
  <2>3. expired' \in 0..Len(idle')
    BY <1>2, <2>1, <2>2, EmptySeq DEF PopFirst, Checking
  <2>4. QED
    BY <1>2, <2>2, <2>3 DEF PopFirst, Checking
<1>3. CASE PopSecond(t)
  <2>1. idle' = Tail(idle) /\ idle # <<>>
    BY <1>3, EmptySeq DEF PopSecond, Checking
  <2>2. /\ idle' \in Seq(Entry) /\ Len(idle') = Len(idle) - 1 /\ Len(idle) \in Nat
        /\ Head(idle).permit \in Permits /\ Head(idle).conn \in Conns
    BY <2>1, TailEntries DEF Entry
  <2>3. expired' \in 0..Len(idle')
    BY <1>3, <2>1, <2>2, EmptySeq DEF PopSecond, Checking
  <2>4. QED
    BY <1>3, <2>2, <2>3 DEF PopSecond, Checking
<1>4. CASE PoolEmpty(t)
  BY <1>4, BoundsAssumption DEF PoolEmpty, Checking
<1>5. CASE SwapPermit(t)
  BY <1>5 DEF SwapPermit, Owns
<1>6. CASE AcquireNow(t)
  <2>1. pc' \in [Tasks -> PCs] /\ left' \in [Tasks -> Nat]
    BY <1>6, AcquiredType DEF AcquireNow
  <2>2. free' \subseteq Permits /\ permit' \in [Tasks -> Permits \cup {None}]
    BY <1>6 DEF AcquireNow, Take
  <2>3. waiters' \in Seq(Tasks)
    BY <1>6, QueueType DEF AcquireNow
  <2>4. QED
    BY <1>6, <2>1, <2>2, <2>3 DEF AcquireNow
<1>7. CASE Enqueue(t)
  BY <1>7, AppendProperties DEF Enqueue
<1>8. CASE Resume(t)
  <2>1. pc' \in [Tasks -> PCs] /\ left' \in [Tasks -> Nat]
    BY <1>8, AcquiredType DEF Resume
  <2>2. free' \subseteq Permits /\ permit' \in [Tasks -> Permits \cup {None}]
    BY <1>8 DEF Resume, Take
  <2>3. waiters' \in Seq(Tasks)
    BY <1>8, QueueType DEF Resume
  <2>4. QED
    BY <1>8, <2>1, <2>2, <2>3 DEF Resume
<1>9. CASE AcquireTimeout(t)
  <2>1. waiters' \in Seq(Tasks)
    BY <1>9, QueueType DEF AcquireTimeout
  <2>2. QED
    BY <1>9, <2>1 DEF AcquireTimeout
<1>10. CASE ConnectOk(t)
  BY <1>10 DEF ConnectOk
<1>11. CASE ConnectFail(t)
  BY <1>11 DEF ConnectFail
<1>12. CASE ConnectError(t)
  BY <1>12 DEF ConnectError, ReleaseOwn, Owns
<1>13. CASE Count(t)
  BY <1>13 DEF Count
<1>14. CASE Discard(t)
  BY <1>14 DEF Discard, ReleaseOwn, Owns
<1>15. CASE CloseStream(t)
  BY <1>15 DEF CloseStream
<1>16. CASE ReturnConnection(t)
  <2>1. [conn |-> conn[t], permit |-> permit[t]] \in Entry
    BY <1>16 DEF ReturnConnection, Owns, Entry
  <2>2. idle' \in Seq(Entry) /\ expired' \in 0..Len(idle')
    <3>1. CASE idle' = idle
      BY <1>16, <3>1 DEF ReturnConnection
    <3>2. CASE idle' = Append(idle, [conn |-> conn[t], permit |-> permit[t]])
      BY <1>16, <2>1, <3>2, AppendEntries DEF ReturnConnection
    <3>3. QED
      BY <1>16, <3>1, <3>2 DEF ReturnConnection
  <2>3. QED
    BY <1>16, <2>2 DEF ReturnConnection, Owns
<1>17. CASE PreheatAcquire(t)
  BY <1>17 DEF PreheatAcquire, Take
<1>18. CASE PreheatDone(t)
  BY <1>18 DEF PreheatDone
<1>19. CASE PreheatConnected(t)
  BY <1>19 DEF PreheatConnected
<1>20. CASE PreheatFailed(t)
  BY <1>20 DEF PreheatFailed, ReleaseOwn, Owns
<1>21. CASE PreheatPut(t)
  <2>1. [conn |-> conn[t], permit |-> permit[t]] \in Entry
    BY <1>21 DEF PreheatPut, Owns, Entry
  <2>2. idle' \in Seq(Entry) /\ expired' \in 0..Len(idle')
    <3>1. CASE idle' = idle
      BY <1>21, <3>1 DEF PreheatPut
    <3>2. CASE idle' = Append(idle, [conn |-> conn[t], permit |-> permit[t]])
      BY <1>21, <2>1, <3>2, AppendEntries DEF PreheatPut
    <3>3. QED
      BY <1>21, <3>1, <3>2 DEF PreheatPut
  <2>3. QED
    BY <1>21, <2>2 DEF PreheatPut, Owns
<1>22. CASE ClearOne(t)
  <2>1. idle' = Tail(idle) /\ idle # <<>>
    BY <1>22, EmptySeq DEF ClearOne, Checking
  <2>2. /\ idle' \in Seq(Entry) /\ Len(idle') = Len(idle) - 1 /\ Len(idle) \in Nat
        /\ Head(idle).permit \in Permits /\ Head(idle).conn \in Conns
    BY <2>1, TailEntries DEF Entry
  <2>3. expired' \in 0..Len(idle')
    BY <1>22, <2>1, <2>2, EmptySeq DEF ClearOne, Checking
  <2>4. QED
    BY <1>22, <2>2, <2>3 DEF ClearOne, Checking
<1>23. CASE ClearDone(t)
  BY <1>23 DEF ClearDone
<1>24. CASE GetConnection(t)
  BY <1>24 DEF GetConnection, Call
<1>25. CASE GetFreshConnection(t)
  BY <1>25 DEF GetFreshConnection, Call
<1>26. CASE PreheatForPuts(t)
  BY <1>26 DEF PreheatForPuts, Call
<1>27. CASE Close(t)
  BY <1>27 DEF Close
<1>28. CASE Borrow(t)
  BY <1>28 DEF Borrow, Owns
<1>29. CASE FramedResponse(t)
  BY <1>29 DEF FramedResponse
<1>30. CASE Invalidate(t)
  BY <1>30 DEF Invalidate
<1>31. CASE DropConnection(t)
  BY <1>31 DEF DropConnection
<1>32. CASE IntoStream(t)
  BY <1>32 DEF IntoStream
<1>33. CASE CancelWaiting(t)
  <2>1. waiters' \in Seq(Tasks)
    BY <1>33, QueueType DEF CancelWaiting
  <2>2. QED
    BY <1>33, <2>1 DEF CancelWaiting
<1>34. CASE CancelConnect(t)
  BY <1>34 DEF CancelConnect, ReleaseOwn, Owns
<1>35. QED
  BY <1>1, <1>2, <1>3, <1>4, <1>5, <1>6, <1>7, <1>8, <1>9, <1>10, <1>11, <1>12, <1>13, <1>14, <1>15, <1>16, <1>17, <1>18, <1>19, <1>20, <1>21, <1>22, <1>23, <1>24, <1>25, <1>26, <1>27, <1>28, <1>29, <1>30, <1>31, <1>32, <1>33, <1>34 DEF PoolStep, CallerStep

(* What a task owns follows its program counter.                           *)
LEMMA OwnsStep ==
  ASSUME TypeOK, Owns, TypeOK',
         NEW t \in Tasks, PoolStep(t) \/ CallerStep(t)
  PROVE  Owns'
<1> USE DEF TypeOK, Owns, shared, local, Go, Lock, Unlock, MayLock, Leave, PCs, Ops, WithPermit, WithStream, OwnsAt
<1>1. CASE EvictExpired(t)
  BY <1>1, TasksAssumption DEF EvictExpired, Checking
<1>2. CASE PopFirst(t)
  <2>1. Head(idle).conn \notin {None} /\ Head(idle).permit \notin {None}
    BY <1>2, HeadEntry, PermitsAssumption, ConnsAssumption DEF PopFirst, Checking
  <2>2. lock' = None /\ lock \in {None, t}
    BY <1>2 DEF PopFirst, Checking
  <2>3. ASSUME NEW u \in Tasks, u # t
        PROVE  OwnsAt(u)'
    BY <1>2, <2>2, <2>3, TasksAssumption DEF PopFirst, Checking
  <2>4. OwnsAt(t)'
    BY <1>2, <2>1, <2>2, TasksAssumption DEF PopFirst, Checking
  <2>5. QED
    BY <2>3, <2>4
<1>3. CASE PopSecond(t)
  <2>1. Head(idle).conn \notin {None} /\ Head(idle).permit \notin {None}
    BY <1>3, HeadEntry, PermitsAssumption, ConnsAssumption DEF PopSecond, Checking
  <2>2. lock' = None /\ lock \in {None, t}
    BY <1>3 DEF PopSecond, Checking
  <2>3. ASSUME NEW u \in Tasks, u # t
        PROVE  OwnsAt(u)'
    BY <1>3, <2>2, <2>3, TasksAssumption DEF PopSecond, Checking
  <2>4. OwnsAt(t)'
    BY <1>3, <2>1, <2>2, TasksAssumption DEF PopSecond, Checking
  <2>5. QED
    BY <2>3, <2>4
<1>4. CASE PoolEmpty(t)
  <2>1. lock' = None /\ lock \in {None, t}
    BY <1>4 DEF PoolEmpty, Checking
  <2>2. ASSUME NEW u \in Tasks, u # t
        PROVE  OwnsAt(u)'
    BY <1>4, <2>1, <2>2, TasksAssumption DEF PoolEmpty, Checking
  <2>3. OwnsAt(t)'
    BY <1>4, <2>1, TasksAssumption DEF PoolEmpty, Checking
  <2>4. QED
    BY <2>2, <2>3
<1>5. CASE SwapPermit(t)
  BY <1>5 DEF SwapPermit
<1>6. CASE AcquireNow(t)
  BY <1>6, PermitsAssumption DEF AcquireNow, Acquired, Take
<1>7. CASE Enqueue(t)
  BY <1>7 DEF Enqueue
<1>8. CASE Resume(t)
  BY <1>8, PermitsAssumption DEF Resume, Acquired, Take
<1>9. CASE AcquireTimeout(t)
  BY <1>9 DEF AcquireTimeout
<1>10. CASE ConnectOk(t)
  BY <1>10, ConnsAssumption DEF ConnectOk
<1>11. CASE ConnectFail(t)
  BY <1>11 DEF ConnectFail
<1>12. CASE ConnectError(t)
  BY <1>12 DEF ConnectError, ReleaseOwn
<1>13. CASE Count(t)
  BY <1>13 DEF Count
<1>14. CASE Discard(t)
  BY <1>14 DEF Discard, ReleaseOwn
<1>15. CASE CloseStream(t)
  BY <1>15 DEF CloseStream
<1>16. CASE ReturnConnection(t)
  BY <1>16 DEF ReturnConnection
<1>17. CASE PreheatAcquire(t)
  BY <1>17, PermitsAssumption DEF PreheatAcquire, Take
<1>18. CASE PreheatDone(t)
  BY <1>18 DEF PreheatDone
<1>19. CASE PreheatConnected(t)
  BY <1>19, ConnsAssumption DEF PreheatConnected
<1>20. CASE PreheatFailed(t)
  BY <1>20 DEF PreheatFailed, ReleaseOwn
<1>21. CASE PreheatPut(t)
  BY <1>21 DEF PreheatPut
<1>22. CASE ClearOne(t)
  BY <1>22 DEF ClearOne
<1>23. CASE ClearDone(t)
  BY <1>23, TasksAssumption DEF ClearDone
<1>24. CASE GetConnection(t)
  BY <1>24 DEF GetConnection, Call
<1>25. CASE GetFreshConnection(t)
  BY <1>25 DEF GetFreshConnection, Call
<1>26. CASE PreheatForPuts(t)
  BY <1>26 DEF PreheatForPuts, Call
<1>27. CASE Close(t)
  BY <1>27, TasksAssumption DEF Close
<1>28. CASE Borrow(t)
  BY <1>28 DEF Borrow
<1>29. CASE FramedResponse(t)
  BY <1>29 DEF FramedResponse
<1>30. CASE Invalidate(t)
  BY <1>30 DEF Invalidate
<1>31. CASE DropConnection(t)
  BY <1>31 DEF DropConnection
<1>32. CASE IntoStream(t)
  BY <1>32 DEF IntoStream
<1>33. CASE CancelWaiting(t)
  BY <1>33 DEF CancelWaiting
<1>34. CASE CancelConnect(t)
  BY <1>34 DEF CancelConnect, ReleaseOwn
<1>35. QED
  BY <1>1, <1>2, <1>3, <1>4, <1>5, <1>6, <1>7, <1>8, <1>9, <1>10, <1>11, <1>12, <1>13, <1>14, <1>15, <1>16, <1>17, <1>18, <1>19, <1>20, <1>21, <1>22, <1>23, <1>24, <1>25, <1>26, <1>27, <1>28, <1>29, <1>30, <1>31, <1>32, <1>33, <1>34 DEF PoolStep, CallerStep

-----------------------------------------------------------------------------
(* How permits and streams move.  Every action of a task makes one of the  *)
(* following moves, so an invariant about permits or streams is proved     *)
(* move by move.                                                           *)

Still == UNCHANGED <<idle, free, permit, pooled, conn>>

Acquires(t, p) ==
  /\ p \in free /\ permit[t] = None
  /\ free' = free \ {p}
  /\ permit' = [permit EXCEPT ![t] = p]
  /\ UNCHANGED <<idle, pooled, conn>>

Releases(t) ==
  /\ permit[t] \in Permits
  /\ free' = free \cup {permit[t]}
  /\ permit' = [permit EXCEPT ![t] = None]
  /\ UNCHANGED <<idle, pooled, conn>>

Swaps(t) ==
  /\ permit[t] \in Permits /\ pooled[t] \in Permits
  /\ free' = free \cup {permit[t]}
  /\ permit' = [permit EXCEPT ![t] = pooled[t]]
  /\ pooled' = [pooled EXCEPT ![t] = None]
  /\ UNCHANGED <<idle, conn>>

Opens(t, c) ==
  /\ c \in Conns /\ Unused(c)
  /\ conn' = [conn EXCEPT ![t] = c]
  /\ UNCHANGED <<idle, free, permit, pooled>>

Closes(t) ==
  /\ conn' = [conn EXCEPT ![t] = None]
  /\ UNCHANGED <<idle, free, permit, pooled>>

(* The front entry leaves the queue.                                       *)
FrontFreed ==
  /\ idle # <<>> /\ idle' = Tail(idle)
  /\ free' = free \cup {Head(idle).permit}
  /\ UNCHANGED <<permit, pooled, conn>>

FrontLent(t) ==
  /\ idle # <<>> /\ idle' = Tail(idle)
  /\ conn' = [conn EXCEPT ![t] = Head(idle).conn]
  /\ \/ /\ permit[t] = None /\ permit' = [permit EXCEPT ![t] = Head(idle).permit]
        /\ pooled' = pooled
     \/ /\ pooled[t] = None /\ pooled' = [pooled EXCEPT ![t] = Head(idle).permit]
        /\ permit' = permit
  /\ free' = free

(* A stream comes back: kept in the queue, or dropped because it is full.  *)
Kept(t) ==
  /\ permit[t] \in Permits /\ conn[t] \in Conns
  /\ idle' = Append(idle, [conn |-> conn[t], permit |-> permit[t]])
  /\ permit' = [permit EXCEPT ![t] = None]
  /\ conn' = [conn EXCEPT ![t] = None]
  /\ UNCHANGED <<free, pooled>>

Dropped(t) ==
  /\ permit[t] \in Permits
  /\ free' = free \cup {permit[t]}
  /\ permit' = [permit EXCEPT ![t] = None]
  /\ conn' = [conn EXCEPT ![t] = None]
  /\ UNCHANGED <<idle, pooled>>

Move(t) ==
  \/ Still \/ Releases(t) \/ Swaps(t) \/ Closes(t) \/ FrontFreed
  \/ FrontLent(t) \/ Kept(t) \/ Dropped(t)
  \/ \E p \in Permits : Acquires(t, p)
  \/ \E c \in Conns : Opens(t, c)

(* The moves cover the actions.                                            *)
LEMMA Moves ==
  ASSUME TypeOK, Owns, NEW t \in Tasks, PoolStep(t) \/ CallerStep(t)
  PROVE  Move(t)
<1> USE DEF TypeOK, Owns, OwnsAt, WithPermit, WithStream, shared, local
<1>1. CASE EvictExpired(t)
  BY <1>1, EmptySeq DEF EvictExpired, Checking, FrontFreed, Move
<1>2. CASE PopFirst(t)
  BY <1>2, EmptySeq DEF PopFirst, Checking, FrontLent, Move
<1>3. CASE PopSecond(t)
  BY <1>3, EmptySeq DEF PopSecond, Checking, FrontLent, Move
<1>4. CASE SwapPermit(t)
  BY <1>4 DEF SwapPermit, Swaps, Move
<1>5. CASE AcquireNow(t)
  BY <1>5 DEF AcquireNow, Acquired, Take, Acquires, Move
<1>6. CASE Resume(t)
  BY <1>6 DEF Resume, Acquired, Take, Acquires, Move
<1>7. CASE ConnectOk(t)
  BY <1>7 DEF ConnectOk, Opens, Move
<1>8. CASE ConnectError(t)
  BY <1>8 DEF ConnectError, ReleaseOwn, Releases, Move
<1>9. CASE Discard(t)
  BY <1>9 DEF Discard, ReleaseOwn, Releases, Move
<1>10. CASE CloseStream(t)
  BY <1>10 DEF CloseStream, Closes, Move
<1>11. CASE ReturnConnection(t)
  BY <1>11 DEF ReturnConnection, Kept, Dropped, Move
<1>12. CASE PreheatAcquire(t)
  BY <1>12 DEF PreheatAcquire, Take, Acquires, Move
<1>13. CASE PreheatConnected(t)
  BY <1>13 DEF PreheatConnected, Opens, Move
<1>14. CASE PreheatFailed(t)
  BY <1>14 DEF PreheatFailed, ReleaseOwn, Releases, Move
<1>15. CASE PreheatPut(t)
  BY <1>15 DEF PreheatPut, Kept, Move
<1>16. CASE ClearOne(t)
  BY <1>16, EmptySeq DEF ClearOne, FrontFreed, Move
<1>17. CASE CancelConnect(t)
  BY <1>17 DEF CancelConnect, ReleaseOwn, Releases, Move
<1>18. CASE \/ PoolEmpty(t) \/ Enqueue(t) \/ AcquireTimeout(t)
           \/ ConnectFail(t) \/ Count(t) \/ PreheatDone(t)
           \/ ClearDone(t) \/ GetConnection(t) \/ GetFreshConnection(t)
           \/ PreheatForPuts(t) \/ Close(t) \/ Borrow(t)
           \/ FramedResponse(t) \/ Invalidate(t) \/ DropConnection(t)
           \/ IntoStream(t) \/ CancelWaiting(t)
  BY <1>18 DEF PoolEmpty, Enqueue, AcquireTimeout, ConnectFail, Count, PreheatDone, ClearDone, GetConnection, GetFreshConnection, PreheatForPuts, Close, Borrow, FramedResponse, Invalidate, DropConnection, IntoStream, CancelWaiting, Checking, Call, Still, Move
<1>19. QED
  BY <1>1, <1>2, <1>3, <1>4, <1>5, <1>6, <1>7, <1>8, <1>9, <1>10, <1>11, <1>12, <1>13, <1>14, <1>15, <1>16, <1>17, <1>18 DEF PoolStep, CallerStep

-----------------------------------------------------------------------------
(* What the moves need of the types.                                       *)
MoveTypes ==
  /\ free \subseteq Permits
  /\ permit \in [Tasks -> Permits \cup {None}]
  /\ pooled \in [Tasks -> Permits \cup {None}]
  /\ conn \in [Tasks -> Conns \cup {None}]
  /\ \A i \in DOMAIN idle : idle[i].permit \in Permits /\ idle[i].conn \in Conns

LEMMA MoveTypesHold == ASSUME TypeOK PROVE MoveTypes
<1>1. \A i \in DOMAIN idle : idle[i] \in Entry
  BY LenProperties DEF TypeOK
<1>2. QED
  BY <1>1 DEF TypeOK, MoveTypes, Entry

(* The queue after its front entry has left.                               *)
FrontGone ==
  /\ Len(idle) \in Nat \ {0}
  /\ DOMAIN idle = 1..Len(idle) /\ DOMAIN idle' = 1..(Len(idle) - 1)
  /\ \A i \in 1..(Len(idle) - 1) : idle'[i] = idle[i + 1]
  /\ Head(idle) = idle[1]

LEMMA FrontMoves ==
  ASSUME TypeOK, idle # <<>>, idle' = Tail(idle)
  PROVE  FrontGone
BY TailEntries DEF TypeOK, FrontGone

(* The queue after an entry of task t has joined it.                       *)
BackJoined(t) ==
  /\ Len(idle) \in Nat
  /\ DOMAIN idle = 1..Len(idle) /\ DOMAIN idle' = 1..(Len(idle) + 1)
  /\ \A i \in 1..Len(idle) : idle'[i] = idle[i]
  /\ idle'[Len(idle) + 1].permit = permit[t] /\ idle'[Len(idle) + 1].conn = conn[t]

LEMMA BackMoves ==
  ASSUME TypeOK, NEW t \in Tasks, Kept(t)
  PROVE  BackJoined(t)
<1>1. [conn |-> conn[t], permit |-> permit[t]] \in Entry
  BY DEF Kept, Entry
<1>2. QED
  BY <1>1, AppendEntries DEF Kept, TypeOK, BackJoined

LEMMA OwnedNotFreeMove ==
  ASSUME TypeOK, OwnedNotFree, OwnedNotIdle, OwnedOnce, IdleOnce, NEW t \in Tasks, Move(t)
  PROVE  OwnedNotFree'
<1> USE MoveTypesHold DEF MoveTypes, OwnedNotFree, OwnedNotIdle, OwnedOnce, IdleOnce
<1>1. CASE Still
  BY <1>1, PermitsAssumption DEF Still
<1>2. CASE Releases(t)
  BY <1>2, PermitsAssumption DEF Releases
<1>3. CASE Swaps(t)
  BY <1>3, PermitsAssumption DEF Swaps
<1>4. CASE Closes(t)
  BY <1>4, PermitsAssumption DEF Closes
<1>5. CASE FrontFreed
  <2>1. FrontGone
    BY <1>5, FrontMoves DEF FrontFreed
  <2>2. QED
    BY <1>5, <2>1, PermitsAssumption DEF FrontFreed, FrontGone
<1>6. CASE FrontLent(t)
  <2>1. FrontGone
    BY <1>6, FrontMoves DEF FrontLent
  <2>2. QED
    BY <1>6, <2>1, PermitsAssumption DEF FrontLent, FrontGone
<1>7. CASE Kept(t)
  <2>1. BackJoined(t)
    BY <1>7, BackMoves
  <2>2. QED
    BY <1>7, <2>1, PermitsAssumption DEF Kept, BackJoined
<1>8. CASE Dropped(t)
  BY <1>8, PermitsAssumption DEF Dropped
<1>9. ASSUME NEW p \in Permits, Acquires(t, p) PROVE OwnedNotFree'
  BY <1>9, PermitsAssumption DEF Acquires
<1>10. ASSUME NEW c \in Conns, Opens(t, c) PROVE OwnedNotFree'
  BY <1>10, PermitsAssumption DEF Opens, Unused
<1>11. QED
  BY <1>1, <1>2, <1>3, <1>4, <1>5, <1>6, <1>7, <1>8, <1>9, <1>10 DEF Move

LEMMA OwnedNotIdleMove ==
  ASSUME TypeOK, OwnedNotIdle, OwnedOnce, IdleOnce, NEW t \in Tasks, Move(t)
  PROVE  OwnedNotIdle'
<1> USE MoveTypesHold DEF MoveTypes, OwnedNotIdle, OwnedOnce, IdleOnce
<1>1. CASE Still
  BY <1>1, PermitsAssumption DEF Still
<1>2. CASE Releases(t)
  BY <1>2, PermitsAssumption DEF Releases
<1>3. CASE Swaps(t)
  BY <1>3, PermitsAssumption DEF Swaps
<1>4. CASE Closes(t)
  BY <1>4, PermitsAssumption DEF Closes
<1>5. CASE FrontFreed
  <2>1. FrontGone
    BY <1>5, FrontMoves DEF FrontFreed
  <2>2. QED
    BY <1>5, <2>1, PermitsAssumption DEF FrontFreed, FrontGone
<1>6. CASE FrontLent(t)
  <2>1. FrontGone
    BY <1>6, FrontMoves DEF FrontLent
  <2>2. QED
    BY <1>6, <2>1, PermitsAssumption DEF FrontLent, FrontGone
<1>7. CASE Kept(t)
  <2>1. BackJoined(t)
    BY <1>7, BackMoves
  <2>2. QED
    BY <1>7, <2>1, PermitsAssumption DEF Kept, BackJoined
<1>8. CASE Dropped(t)
  BY <1>8, PermitsAssumption DEF Dropped
<1>9. ASSUME NEW p \in Permits, Acquires(t, p) PROVE OwnedNotIdle'
  BY <1>9, PermitsAssumption DEF Acquires
<1>10. ASSUME NEW c \in Conns, Opens(t, c) PROVE OwnedNotIdle'
  BY <1>10, PermitsAssumption DEF Opens, Unused
<1>11. QED
  BY <1>1, <1>2, <1>3, <1>4, <1>5, <1>6, <1>7, <1>8, <1>9, <1>10 DEF Move

LEMMA OwnedOnceMove ==
  ASSUME TypeOK, OwnedOnce, OwnedNotFree, OwnedNotIdle, NEW t \in Tasks, Move(t)
  PROVE  OwnedOnce'
<1> USE MoveTypesHold DEF MoveTypes, OwnedOnce, OwnedNotFree, OwnedNotIdle
<1>1. CASE Still
  BY <1>1, PermitsAssumption DEF Still
<1>2. CASE Releases(t)
  BY <1>2, PermitsAssumption DEF Releases
<1>3. CASE Swaps(t)
  BY <1>3, PermitsAssumption DEF Swaps
<1>4. CASE Closes(t)
  BY <1>4, PermitsAssumption DEF Closes
<1>5. CASE FrontFreed
  <2>1. FrontGone
    BY <1>5, FrontMoves DEF FrontFreed
  <2>2. QED
    BY <1>5, <2>1, PermitsAssumption DEF FrontFreed, FrontGone
<1>6. CASE FrontLent(t)
  <2>1. FrontGone
    BY <1>6, FrontMoves DEF FrontLent
  <2>2. QED
    BY <1>6, <2>1, PermitsAssumption DEF FrontLent, FrontGone
<1>7. CASE Kept(t)
  <2>1. BackJoined(t)
    BY <1>7, BackMoves
  <2>2. QED
    BY <1>7, <2>1, PermitsAssumption DEF Kept, BackJoined
<1>8. CASE Dropped(t)
  BY <1>8, PermitsAssumption DEF Dropped
<1>9. ASSUME NEW p \in Permits, Acquires(t, p) PROVE OwnedOnce'
  BY <1>9, PermitsAssumption DEF Acquires
<1>10. ASSUME NEW c \in Conns, Opens(t, c) PROVE OwnedOnce'
  BY <1>10, PermitsAssumption DEF Opens, Unused
<1>11. QED
  BY <1>1, <1>2, <1>3, <1>4, <1>5, <1>6, <1>7, <1>8, <1>9, <1>10 DEF Move

LEMMA IdleOnceMove ==
  ASSUME TypeOK, IdleOnce, OwnedNotFree, OwnedNotIdle, NEW t \in Tasks, Move(t)
  PROVE  IdleOnce'
<1> USE MoveTypesHold DEF MoveTypes, IdleOnce, OwnedNotFree, OwnedNotIdle
<1>1. CASE Still
  BY <1>1, PermitsAssumption DEF Still
<1>2. CASE Releases(t)
  BY <1>2, PermitsAssumption DEF Releases
<1>3. CASE Swaps(t)
  BY <1>3, PermitsAssumption DEF Swaps
<1>4. CASE Closes(t)
  BY <1>4, PermitsAssumption DEF Closes
<1>5. CASE FrontFreed
  <2>1. FrontGone
    BY <1>5, FrontMoves DEF FrontFreed
  <2>2. QED
    BY <1>5, <2>1, PermitsAssumption DEF FrontFreed, FrontGone
<1>6. CASE FrontLent(t)
  <2>1. FrontGone
    BY <1>6, FrontMoves DEF FrontLent
  <2>2. QED
    BY <1>6, <2>1, PermitsAssumption DEF FrontLent, FrontGone
<1>7. CASE Kept(t)
  <2>1. BackJoined(t)
    BY <1>7, BackMoves
  <2>2. QED
    BY <1>7, <2>1, PermitsAssumption DEF Kept, BackJoined
<1>8. CASE Dropped(t)
  BY <1>8, PermitsAssumption DEF Dropped
<1>9. ASSUME NEW p \in Permits, Acquires(t, p) PROVE IdleOnce'
  BY <1>9, PermitsAssumption DEF Acquires
<1>10. ASSUME NEW c \in Conns, Opens(t, c) PROVE IdleOnce'
  BY <1>10, PermitsAssumption DEF Opens, Unused
<1>11. QED
  BY <1>1, <1>2, <1>3, <1>4, <1>5, <1>6, <1>7, <1>8, <1>9, <1>10 DEF Move

(* No move loses a permit.                                                 *)
LEMMA PermitAccountedMove ==
  ASSUME TypeOK, PermitAccounted, NEW t \in Tasks, Move(t)
  PROVE  PermitAccounted'
<1> USE MoveTypesHold DEF MoveTypes, PermitAccounted
<1>1. CASE Still
  BY <1>1, PermitsAssumption DEF Still
<1>2. CASE Releases(t)
  BY <1>2, PermitsAssumption DEF Releases
<1>3. CASE Swaps(t)
  BY <1>3, PermitsAssumption DEF Swaps
<1>4. CASE Closes(t)
  BY <1>4, PermitsAssumption DEF Closes
<1>5. CASE FrontFreed
  <2>1. FrontGone
    BY <1>5, FrontMoves DEF FrontFreed
  <2>2. ASSUME NEW j \in DOMAIN idle, j # 1
        PROVE  j - 1 \in DOMAIN idle' /\ idle'[j - 1] = idle[j]
    BY <2>1, <2>2 DEF FrontGone
  <2>3. ASSUME NEW p \in Permits, NEW j \in DOMAIN idle, idle[j].permit = p
        PROVE  p \in free' \/ \E i \in DOMAIN idle' : idle'[i].permit = p
    BY <1>5, <2>1, <2>2, <2>3 DEF FrontFreed, FrontGone
  <2>4. QED
    BY <1>5, <2>3, PermitsAssumption DEF FrontFreed
<1>6. CASE FrontLent(t)
  <2>1. FrontGone
    BY <1>6, FrontMoves DEF FrontLent
  <2>2. ASSUME NEW j \in DOMAIN idle, j # 1
        PROVE  j - 1 \in DOMAIN idle' /\ idle'[j - 1] = idle[j]
    BY <2>1, <2>2 DEF FrontGone
  <2>3. ASSUME NEW p \in Permits, NEW j \in DOMAIN idle, idle[j].permit = p
        PROVE  (permit'[t] = p \/ pooled'[t] = p) \/ \E i \in DOMAIN idle' : idle'[i].permit = p
    <3>1. CASE j = 1
      BY <1>6, <2>1, <2>3, <3>1 DEF FrontLent, FrontGone
    <3>2. CASE j # 1
      BY <2>2, <2>3, <3>2
    <3>3. QED
      BY <3>1, <3>2
  <2>4. QED
    BY <1>6, <2>3, PermitsAssumption DEF FrontLent
<1>7. CASE Kept(t)
  <2>1. BackJoined(t)
    BY <1>7, BackMoves
  <2>2. QED
    BY <1>7, <2>1, PermitsAssumption DEF Kept, BackJoined
<1>8. CASE Dropped(t)
  BY <1>8, PermitsAssumption DEF Dropped
<1>9. ASSUME NEW p \in Permits, Acquires(t, p) PROVE PermitAccounted'
  BY <1>9, PermitsAssumption DEF Acquires
<1>10. ASSUME NEW c \in Conns, Opens(t, c) PROVE PermitAccounted'
  BY <1>10, PermitsAssumption DEF Opens, Unused
<1>11. QED
  BY <1>1, <1>2, <1>3, <1>4, <1>5, <1>6, <1>7, <1>8, <1>9, <1>10 DEF Move

(* No move puts a stream in two hands.                                     *)
LEMMA ConnExclusiveMove ==
  ASSUME TypeOK, ConnExclusive, NEW t \in Tasks, Move(t)
  PROVE  ConnExclusive'
<1> USE MoveTypesHold DEF MoveTypes, ConnExclusive
<1>1. CASE Still
  BY <1>1, ConnsAssumption DEF Still
<1>2. CASE Releases(t)
  BY <1>2, ConnsAssumption DEF Releases
<1>3. CASE Swaps(t)
  BY <1>3, ConnsAssumption DEF Swaps
<1>4. CASE Closes(t)
  BY <1>4, ConnsAssumption DEF Closes
<1>5. CASE FrontFreed
  <2>1. FrontGone
    BY <1>5, FrontMoves DEF FrontFreed
  <2>2. QED
    BY <1>5, <2>1, ConnsAssumption DEF FrontFreed, FrontGone
<1>6. CASE FrontLent(t)
  <2>1. FrontGone
    BY <1>6, FrontMoves DEF FrontLent
  <2>2. QED
    BY <1>6, <2>1, ConnsAssumption DEF FrontLent, FrontGone
<1>7. CASE Kept(t)
  <2>1. BackJoined(t)
    BY <1>7, BackMoves
  <2>2. QED
    BY <1>7, <2>1, ConnsAssumption DEF Kept, BackJoined
<1>8. CASE Dropped(t)
  BY <1>8, ConnsAssumption DEF Dropped
<1>9. ASSUME NEW p \in Permits, Acquires(t, p) PROVE ConnExclusive'
  BY <1>9, ConnsAssumption DEF Acquires
<1>10. ASSUME NEW c \in Conns, Opens(t, c) PROVE ConnExclusive'
  BY <1>10, ConnsAssumption DEF Opens, Unused
<1>11. QED
  BY <1>1, <1>2, <1>3, <1>4, <1>5, <1>6, <1>7, <1>8, <1>9, <1>10 DEF Move

-----------------------------------------------------------------------------
(* How the counter moves with the checked-out connections.                 *)
Counted(t) ==
  /\ pc[t] = "count" /\ active' = active + 1
  /\ pc' = [pc EXCEPT ![t] = "held"] /\ permit' = permit

Uncounted(t) ==
  /\ pc[t] = "held" /\ active' = active - 1
  /\ pc' = [pc EXCEPT ![t] = "returning"] /\ permit' = permit

SameHeld ==
  /\ active' = active
  /\ \A u \in Tasks :
       /\ pc'[u] = "held" <=> pc[u] = "held"
       /\ pc[u] = "held" => permit'[u] = permit[u]

(* A task's step changes the fields of no other task.                      *)
OthersSame(t) ==
  \A u \in Tasks \ {t} :
    /\ pc'[u] = pc[u] /\ permit'[u] = permit[u]
    /\ conn'[u] = conn[u] /\ reusable'[u] = reusable[u]

LEMMA OthersStep ==
  ASSUME TypeOK, NEW t \in Tasks, PoolStep(t) \/ CallerStep(t)
  PROVE  OthersSame(t)
<1> USE DEF TypeOK, shared, local, Go, Leave, OthersSame
<1>1. CASE EvictExpired(t)
  BY <1>1 DEF EvictExpired, Checking
<1>2. CASE PopFirst(t)
  BY <1>2 DEF PopFirst, Checking
<1>3. CASE PopSecond(t)
  BY <1>3 DEF PopSecond, Checking
<1>4. CASE PoolEmpty(t)
  BY <1>4 DEF PoolEmpty, Checking
<1>5. CASE SwapPermit(t)
  BY <1>5 DEF SwapPermit
<1>6. CASE AcquireNow(t)
  BY <1>6 DEF AcquireNow, Acquired, Take
<1>7. CASE Enqueue(t)
  BY <1>7 DEF Enqueue
<1>8. CASE Resume(t)
  BY <1>8 DEF Resume, Acquired, Take
<1>9. CASE AcquireTimeout(t)
  BY <1>9 DEF AcquireTimeout
<1>10. CASE ConnectOk(t)
  BY <1>10 DEF ConnectOk
<1>11. CASE ConnectFail(t)
  BY <1>11 DEF ConnectFail
<1>12. CASE ConnectError(t)
  BY <1>12 DEF ConnectError, ReleaseOwn
<1>13. CASE Count(t)
  BY <1>13 DEF Count
<1>14. CASE Discard(t)
  BY <1>14 DEF Discard, ReleaseOwn
<1>15. CASE CloseStream(t)
  BY <1>15 DEF CloseStream
<1>16. CASE ReturnConnection(t)
  BY <1>16 DEF ReturnConnection
<1>17. CASE PreheatAcquire(t)
  BY <1>17 DEF PreheatAcquire, Take
<1>18. CASE PreheatDone(t)
  BY <1>18 DEF PreheatDone
<1>19. CASE PreheatConnected(t)
  BY <1>19 DEF PreheatConnected
<1>20. CASE PreheatFailed(t)
  BY <1>20 DEF PreheatFailed, ReleaseOwn
<1>21. CASE PreheatPut(t)
  BY <1>21 DEF PreheatPut
<1>22. CASE ClearOne(t)
  BY <1>22 DEF ClearOne
<1>23. CASE ClearDone(t)
  BY <1>23 DEF ClearDone
<1>24. CASE GetConnection(t)
  BY <1>24 DEF GetConnection, Call
<1>25. CASE GetFreshConnection(t)
  BY <1>25 DEF GetFreshConnection, Call
<1>26. CASE PreheatForPuts(t)
  BY <1>26 DEF PreheatForPuts, Call
<1>27. CASE Close(t)
  BY <1>27 DEF Close
<1>28. CASE Borrow(t)
  BY <1>28 DEF Borrow
<1>29. CASE FramedResponse(t)
  BY <1>29 DEF FramedResponse
<1>30. CASE Invalidate(t)
  BY <1>30 DEF Invalidate
<1>31. CASE DropConnection(t)
  BY <1>31 DEF DropConnection
<1>32. CASE IntoStream(t)
  BY <1>32 DEF IntoStream
<1>33. CASE CancelWaiting(t)
  BY <1>33 DEF CancelWaiting
<1>34. CASE CancelConnect(t)
  BY <1>34 DEF CancelConnect, ReleaseOwn
<1>35. QED
  BY <1>1, <1>2, <1>3, <1>4, <1>5, <1>6, <1>7, <1>8, <1>9, <1>10, <1>11, <1>12, <1>13, <1>14, <1>15, <1>16, <1>17, <1>18, <1>19, <1>20, <1>21, <1>22, <1>23, <1>24, <1>25, <1>26, <1>27, <1>28, <1>29, <1>30, <1>31, <1>32, <1>33, <1>34 DEF PoolStep, CallerStep

LEMMA CounterMoves ==
  ASSUME TypeOK, NEW t \in Tasks, PoolStep(t) \/ CallerStep(t)
  PROVE  Counted(t) \/ Uncounted(t) \/ SameHeld
<1>1. CASE Count(t)
  BY <1>1 DEF Count, Counted, Go
<1>2. CASE DropConnection(t) \/ IntoStream(t)
  BY <1>2 DEF DropConnection, IntoStream, Uncounted, Go
<1>3. CASE Borrow(t) \/ FramedResponse(t) \/ Invalidate(t)
  BY <1>3 DEF Borrow, FramedResponse, Invalidate, SameHeld, shared
<1>4. ASSUME active' = active, pc[t] # "held", pc'[t] # "held" PROVE SameHeld
  <2>1. ASSUME NEW u \in Tasks
        PROVE  /\ pc'[u] = "held" <=> pc[u] = "held"
               /\ pc[u] = "held" => permit'[u] = permit[u]
    <3>1. CASE u = t
      BY <1>4, <3>1
    <3>2. CASE u # t
      BY <3>2, OthersStep DEF OthersSame
    <3>3. QED
      BY <3>1, <3>2
  <2>2. QED
    BY <1>4, <2>1 DEF SameHeld
<1> USE DEF TypeOK, shared, local, Go, Leave
<1>5. CASE EvictExpired(t)
  BY <1>5, <1>4 DEF EvictExpired, Checking
<1>6. CASE PopFirst(t)
  BY <1>6, <1>4 DEF PopFirst, Checking
<1>7. CASE PopSecond(t)
  BY <1>7, <1>4 DEF PopSecond, Checking
<1>8. CASE PoolEmpty(t)
  BY <1>8, <1>4 DEF PoolEmpty, Checking
<1>9. CASE SwapPermit(t)
  BY <1>9, <1>4 DEF SwapPermit
<1>10. CASE AcquireNow(t)
  BY <1>10, <1>4 DEF AcquireNow, Acquired, Take
<1>11. CASE Enqueue(t)
  BY <1>11, <1>4 DEF Enqueue
<1>12. CASE Resume(t)
  BY <1>12, <1>4 DEF Resume, Acquired, Take
<1>13. CASE AcquireTimeout(t)
  BY <1>13, <1>4 DEF AcquireTimeout
<1>14. CASE ConnectOk(t)
  BY <1>14, <1>4 DEF ConnectOk
<1>15. CASE ConnectFail(t)
  BY <1>15, <1>4 DEF ConnectFail
<1>16. CASE ConnectError(t)
  BY <1>16, <1>4 DEF ConnectError, ReleaseOwn
<1>17. CASE Discard(t)
  BY <1>17, <1>4 DEF Discard, ReleaseOwn
<1>18. CASE CloseStream(t)
  BY <1>18, <1>4 DEF CloseStream
<1>19. CASE ReturnConnection(t)
  BY <1>19, <1>4 DEF ReturnConnection
<1>20. CASE PreheatAcquire(t)
  BY <1>20, <1>4 DEF PreheatAcquire, Take
<1>21. CASE PreheatDone(t)
  BY <1>21, <1>4 DEF PreheatDone
<1>22. CASE PreheatConnected(t)
  BY <1>22, <1>4 DEF PreheatConnected
<1>23. CASE PreheatFailed(t)
  BY <1>23, <1>4 DEF PreheatFailed, ReleaseOwn
<1>24. CASE PreheatPut(t)
  BY <1>24, <1>4 DEF PreheatPut
<1>25. CASE ClearOne(t)
  BY <1>25, <1>4 DEF ClearOne
<1>26. CASE ClearDone(t)
  BY <1>26, <1>4 DEF ClearDone
<1>27. CASE GetConnection(t)
  BY <1>27, <1>4 DEF GetConnection, Call
<1>28. CASE GetFreshConnection(t)
  BY <1>28, <1>4 DEF GetFreshConnection, Call
<1>29. CASE PreheatForPuts(t)
  BY <1>29, <1>4 DEF PreheatForPuts, Call
<1>30. CASE Close(t)
  BY <1>30, <1>4 DEF Close
<1>31. CASE CancelWaiting(t)
  BY <1>31, <1>4 DEF CancelWaiting
<1>32. CASE CancelConnect(t)
  BY <1>32, <1>4 DEF CancelConnect, ReleaseOwn
<1>33. QED
  BY <1>1, <1>2, <1>3, <1>4, <1>5, <1>6, <1>7, <1>8, <1>9, <1>10, <1>11, <1>12, <1>13, <1>14, <1>15, <1>16, <1>17, <1>18, <1>19, <1>20, <1>21, <1>22, <1>23, <1>24, <1>25, <1>26, <1>27, <1>28, <1>29, <1>30, <1>31, <1>32 DEF PoolStep, CallerStep

LEMMA HeldFinite ==
  ASSUME TypeOK, Owns
  PROVE  /\ HeldPermits \subseteq Permits /\ IsFiniteSet(HeldPermits)
         /\ IdlePermits \subseteq Permits /\ IsFiniteSet(IdlePermits)
<1>1. HeldPermits \subseteq Permits
  BY DEF TypeOK, Owns, OwnsAt, Held, HeldPermits, WithPermit
<1>2. IdlePermits \subseteq Permits
  BY MoveTypesHold DEF MoveTypes, IdlePermits
<1>3. QED
  BY <1>1, <1>2, FS_Subset, PermitsAssumption

(* The counter is the number of checked-out connections.                   *)
LEMMA ActiveStep ==
  ASSUME TypeOK, Owns, OwnedOnce, active = Cardinality(HeldPermits),
         NEW t \in Tasks, PoolStep(t) \/ CallerStep(t)
  PROVE  active' = Cardinality(HeldPermits')
<1>1. CASE Counted(t)
  <2>1. HeldPermits' = HeldPermits \cup {permit[t]}
    BY <1>1 DEF Counted, HeldPermits, Held, TypeOK
  <2>2. permit[t] \notin HeldPermits
    BY <1>1 DEF Counted, HeldPermits, Held, OwnedOnce, Owns, OwnsAt, WithPermit
  <2>3. QED
    BY <1>1, <2>1, <2>2, HeldFinite, FS_AddElement DEF Counted
<1>2. CASE Uncounted(t)
  <2>1. HeldPermits' = HeldPermits \ {permit[t]}
    BY <1>2 DEF Uncounted, HeldPermits, Held, TypeOK, OwnedOnce, Owns, OwnsAt, WithPermit
  <2>2. permit[t] \in HeldPermits
    BY <1>2 DEF Uncounted, HeldPermits, Held
  <2>3. QED
    BY <1>2, <2>1, <2>2, HeldFinite, FS_RemoveElement DEF Uncounted
<1>3. CASE SameHeld
  <2>1. Held' = Held
    BY <1>3 DEF SameHeld, Held
  <2>2. HeldPermits' = HeldPermits
    BY <1>3, <2>1 DEF HeldPermits, Held, SameHeld
  <2>3. QED
    BY <1>3, <2>2 DEF SameHeld
<1>4. QED
  BY <1>1, <1>2, <1>3, CounterMoves

(* The queue holds as many permits as entries.                             *)
LEMMA QueueStep ==
  ASSUME TypeOK, Owns, OwnedNotIdle, IdleOnce, Len(idle) = Cardinality(IdlePermits),
         NEW t \in Tasks, Move(t)
  PROVE  Len(idle') = Cardinality(IdlePermits')
<1>1. CASE idle' = idle
  BY <1>1 DEF IdlePermits
<1>2. CASE idle # <<>> /\ idle' = Tail(idle)
  <2>1. FrontGone
    BY <1>2, FrontMoves
  <2>2. Len(idle') = Len(idle) - 1
    BY <1>2, TailEntries DEF TypeOK
  <2>3. IdlePermits' = IdlePermits \ {idle[1].permit}
    <3>1. ASSUME NEW i \in DOMAIN idle' PROVE idle'[i].permit \in IdlePermits \ {idle[1].permit}
      <4>1. /\ i + 1 \in DOMAIN idle /\ 1 \in DOMAIN idle /\ i + 1 # 1
            /\ idle'[i] = idle[i + 1]
        BY <2>1 DEF FrontGone
      <4>2. QED
        BY <4>1 DEF IdlePermits, IdleOnce
    <3>2. ASSUME NEW j \in DOMAIN idle, idle[j].permit # idle[1].permit
          PROVE  idle[j].permit \in IdlePermits'
      <4>1. j - 1 \in DOMAIN idle' /\ idle'[j - 1] = idle[j]
        BY <2>1, <3>2 DEF FrontGone
      <4>2. QED
        BY <4>1 DEF IdlePermits
    <3>3. QED
      BY <3>1, <3>2 DEF IdlePermits
  <2>4. idle[1].permit \in IdlePermits
    <3>1. 1 \in DOMAIN idle
      BY <2>1 DEF FrontGone
    <3>2. QED
      BY <3>1 DEF IdlePermits
  <2>5. QED
    BY <2>2, <2>3, <2>4, HeldFinite, FS_RemoveElement
<1>3. CASE Kept(t)
  <2>1. BackJoined(t)
    BY <1>3, BackMoves
  <2>2. Len(idle') = Len(idle) + 1
    <3>1. [conn |-> conn[t], permit |-> permit[t]] \in Entry
      BY <1>3 DEF Kept, Entry
    <3>2. QED
      BY <1>3, <3>1, AppendEntries DEF Kept, TypeOK
  <2>3. IdlePermits' = IdlePermits \cup {permit[t]}
    <3>1. ASSUME NEW i \in DOMAIN idle' PROVE idle'[i].permit \in IdlePermits \cup {permit[t]}
      <4>1. (i \in DOMAIN idle /\ idle'[i] = idle[i]) \/ idle'[i].permit = permit[t]
        BY <2>1 DEF BackJoined
      <4>2. QED
        BY <4>1 DEF IdlePermits
    <3>2. ASSUME NEW j \in DOMAIN idle PROVE idle[j].permit \in IdlePermits'
      <4>1. j \in DOMAIN idle' /\ idle'[j] = idle[j]
        BY <2>1 DEF BackJoined
      <4>2. QED
        BY <4>1 DEF IdlePermits
    <3>3. permit[t] \in IdlePermits'
      <4>1. Len(idle) + 1 \in DOMAIN idle'
        BY <2>1 DEF BackJoined
      <4>2. QED
        BY <2>1, <4>1 DEF BackJoined, IdlePermits
    <3>4. QED
      BY <3>1, <3>2, <3>3 DEF IdlePermits
  <2>4. permit[t] \notin IdlePermits
    BY DEF IdlePermits, OwnedNotIdle
  <2>5. QED
    BY <2>2, <2>3, <2>4, HeldFinite, FS_AddElement
<1>4. QED
  BY <1>1, <1>2, <1>3 DEF Move, Still, Releases, Swaps, Closes, FrontFreed, FrontLent,
                          Dropped, Acquires, Opens

-----------------------------------------------------------------------------
(* A stream with an unfinished exchange stays with the task that was lent  *)
(* it until it is closed.                                                  *)
DirtyTasks == {"held", "returning", "unpooled"}

LEMMA DirtyStep ==
  ASSUME TypeOK, Owns, ConnExclusive, DirtyHeld,
         NEW t \in Tasks, PoolStep(t) \/ CallerStep(t)
  PROVE  DirtyHeld'
<1> USE DEF TypeOK, Owns, OwnsAt, WithStream, shared, local, Go, Leave
<1>1. OthersSame(t)
  BY OthersStep
(* What must hold of the task itself, for the others keep their streams.   *)
<1>2. ASSUME dirty' \subseteq dirty \cup {conn[t]},
             \A c \in dirty' : conn[t] = c => conn'[t] = c /\ pc'[t] \in DirtyTasks,
             pc'[t] \in {"held", "returning"} /\ reusable'[t] => conn'[t] \notin dirty',
             conn[t] \in dirty' => conn[t] \in Conns
      PROVE  DirtyHeld'
  <2>1. ASSUME NEW c \in dirty'
        PROVE  \E u \in Tasks : conn'[u] = c /\ pc'[u] \in DirtyTasks
    <3>1. CASE conn[t] = c
      BY <1>2, <2>1, <3>1
    <3>2. CASE conn[t] # c
      <4>1. PICK u \in Tasks : conn[u] = c /\ pc[u] \in DirtyTasks
        BY <1>2, <2>1, <3>2 DEF DirtyHeld, DirtyTasks
      <4>2. u # t
        BY <3>2, <4>1
      <4>3. QED
        BY <1>1, <4>1, <4>2 DEF OthersSame
    <3>3. QED
      BY <3>1, <3>2
  <2>2. ASSUME NEW u \in Tasks, pc'[u] \in {"held", "returning"}, reusable'[u]
        PROVE  conn'[u] \notin dirty'
    <3>1. CASE u = t
      BY <1>2, <2>2, <3>1
    <3>2. CASE u # t
      <4>1. conn[u] \notin dirty /\ conn'[u] = conn[u] /\ conn[u] # None
        BY <1>1, <2>2, <3>2 DEF DirtyHeld, OthersSame
      <4>2. conn[u] # conn[t]
        BY <3>2, <4>1 DEF ConnExclusive
      <4>3. QED
        BY <1>2, <4>1, <4>2
    <3>3. QED
      BY <3>1, <3>2
  <2>3. QED
    BY <2>1, <2>2 DEF DirtyHeld, DirtyTasks
<1> USE DEF DirtyHeld, DirtyTasks, ConnExclusive
<1>0. ASSUME pc[t] \notin DirtyTasks PROVE conn[t] \notin dirty
  <2>1. SUFFICES ASSUME conn[t] \in dirty PROVE FALSE
    OBVIOUS
  <2>2. PICK u \in Tasks : conn[u] = conn[t] /\ pc[u] \in DirtyTasks
    BY <2>1
  <2>3. conn[u] # None
    BY <2>2
  <2>4. u = t
    BY <2>2, <2>3
  <2>5. QED
    BY <1>0, <2>2, <2>4
<1>3. CASE Borrow(t)
  BY <1>2, <1>3 DEF Borrow
<1>4. CASE FramedResponse(t)
  BY <1>2, <1>4 DEF FramedResponse
<1>5. CASE CloseStream(t)
  BY <1>2, <1>5 DEF CloseStream
<1>6. CASE Discard(t)
  BY <1>2, <1>6, ConnsAssumption DEF Discard, ReleaseOwn
<1>7. CASE DropConnection(t) \/ IntoStream(t) \/ Invalidate(t)
  BY <1>2, <1>7, ConnsAssumption DEF DropConnection, IntoStream, Invalidate
<1>8. CASE Count(t)
  BY <1>2, <1>8, <1>0 DEF Count
<1>9. CASE ReturnConnection(t)
  BY <1>2, <1>9, ConnsAssumption DEF ReturnConnection
<1>10. ASSUME dirty' = dirty, pc[t] \notin DirtyTasks, pc'[t] \notin DirtyTasks
       PROVE  DirtyHeld'
  <2>1. conn[t] \notin dirty
    BY <1>0, <1>10
  <2>2. QED
    BY <1>2, <1>10, <2>1
<1>11. CASE EvictExpired(t)
  BY <1>10, <1>11 DEF EvictExpired, Checking
<1>12. CASE PopFirst(t)
  BY <1>10, <1>12 DEF PopFirst, Checking
<1>13. CASE PopSecond(t)
  BY <1>10, <1>13 DEF PopSecond, Checking
<1>14. CASE PoolEmpty(t)
  BY <1>10, <1>14 DEF PoolEmpty, Checking
<1>15. CASE SwapPermit(t)
  BY <1>10, <1>15 DEF SwapPermit
<1>16. CASE AcquireNow(t)
  BY <1>10, <1>16 DEF AcquireNow, Acquired, Take
<1>17. CASE Enqueue(t)
  BY <1>10, <1>17 DEF Enqueue
<1>18. CASE Resume(t)
  BY <1>10, <1>18 DEF Resume, Acquired, Take
<1>19. CASE AcquireTimeout(t)
  BY <1>10, <1>19 DEF AcquireTimeout
<1>20. CASE ConnectOk(t)
  BY <1>10, <1>20 DEF ConnectOk
<1>21. CASE ConnectFail(t)
  BY <1>10, <1>21 DEF ConnectFail
<1>22. CASE ConnectError(t)
  BY <1>10, <1>22 DEF ConnectError, ReleaseOwn
<1>23. CASE PreheatAcquire(t)
  BY <1>10, <1>23 DEF PreheatAcquire, Take
<1>24. CASE PreheatDone(t)
  BY <1>10, <1>24 DEF PreheatDone
<1>25. CASE PreheatConnected(t)
  BY <1>10, <1>25 DEF PreheatConnected
<1>26. CASE PreheatFailed(t)
  BY <1>10, <1>26 DEF PreheatFailed, ReleaseOwn
<1>27. CASE PreheatPut(t)
  BY <1>10, <1>27 DEF PreheatPut
<1>28. CASE ClearOne(t)
  BY <1>10, <1>28 DEF ClearOne
<1>29. CASE ClearDone(t)
  BY <1>10, <1>29 DEF ClearDone
<1>30. CASE GetConnection(t)
  BY <1>10, <1>30 DEF GetConnection, Call
<1>31. CASE GetFreshConnection(t)
  BY <1>10, <1>31 DEF GetFreshConnection, Call
<1>32. CASE PreheatForPuts(t)
  BY <1>10, <1>32 DEF PreheatForPuts, Call
<1>33. CASE Close(t)
  BY <1>10, <1>33 DEF Close
<1>34. CASE CancelWaiting(t)
  BY <1>10, <1>34 DEF CancelWaiting
<1>35. CASE CancelConnect(t)
  BY <1>10, <1>35 DEF CancelConnect, ReleaseOwn
<1>36. QED
  BY <1>3, <1>4, <1>5, <1>6, <1>7, <1>8, <1>9, <1>10, <1>11, <1>12, <1>13, <1>14, <1>15, <1>16, <1>17, <1>18, <1>19, <1>20, <1>21, <1>22, <1>23, <1>24, <1>25, <1>26, <1>27, <1>28, <1>29, <1>30, <1>31, <1>32, <1>33, <1>34, <1>35 DEF PoolStep, CallerStep

-----------------------------------------------------------------------------
(* The inductive invariant.                                                *)
LEMMA InitIInv == Init => IInv
<1> SUFFICES ASSUME Init PROVE IInv
  OBVIOUS
<1> USE DEF Init
<1>1. idle = <<>> /\ idle \in Seq(Entry) /\ DOMAIN idle = {} /\ Len(idle) = 0
  BY EmptySeq, LenProperties
<1>2. waiters \in Seq(Tasks)
  BY EmptySeq
<1>3. TypeOK
  BY <1>1, <1>2 DEF TypeOK, PCs, Ops
<1>4. Owns
  BY TasksAssumption DEF Owns, OwnsAt, WithPermit, WithStream
<1>5. PermitConservation
  BY <1>1, PermitsAssumption
  DEF PermitConservation, PermitExclusive, PermitAccounted, OwnedNotFree, OwnedNotIdle,
      OwnedOnce, IdleOnce
<1>6. ConnExclusive
  BY <1>1 DEF ConnExclusive
<1>7. DirtyHeld
  BY DEF DirtyHeld
<1>8. Counters
  <2>1. HeldPermits = {} /\ IdlePermits = {}
    BY <1>1 DEF HeldPermits, Held, IdlePermits
  <2>2. QED
    BY <1>1, <2>1, FS_EmptySet DEF Counters
<1>9. QED
  BY <1>3, <1>4, <1>5, <1>6, <1>7, <1>8 DEF IInv

LEMMA TaskStepIInv ==
  ASSUME IInv, NEW t \in Tasks, PoolStep(t) \/ CallerStep(t)
  PROVE  IInv'
<1> USE DEF IInv
<1>1. TypeOK' /\ Owns'
  BY TypeStep, OwnsStep
<1>2. Move(t)
  BY Moves
<1>3. PermitExclusive'
  BY <1>2, OwnedNotFreeMove, OwnedNotIdleMove, OwnedOnceMove, IdleOnceMove
  DEF PermitConservation, PermitExclusive
<1>4. PermitAccounted'
  BY <1>2, PermitAccountedMove DEF PermitConservation
<1>5. ConnExclusive'
  BY <1>2, ConnExclusiveMove
<1>6. DirtyHeld'
  BY DirtyStep
<1>7. Counters'
  BY <1>2, ActiveStep, QueueStep DEF Counters, PermitConservation, PermitExclusive
<1>8. QED
  BY <1>1, <1>3, <1>4, <1>5, <1>6, <1>7 DEF PermitConservation

(* Expiry and stuttering change nothing that the invariant is about, but   *)
(* the number of expired entries.                                          *)
LEMMA QuietStepIInv ==
  ASSUME IInv, Expire \/ UNCHANGED vars
  PROVE  IInv'
<1>1. /\ UNCHANGED <<idle, free, waiters, active, local, dirty, lock>>
      /\ expired' \in 0..Len(idle)
  BY LenProperties DEF Expire, IInv, TypeOK, vars, shared, local
<1> USE <1>1 DEF local
<1>2. TypeOK'
  BY DEF IInv, TypeOK
<1>3. Owns'
  BY DEF IInv, Owns, OwnsAt
<1>4. PermitConservation'
  BY DEF IInv, PermitConservation, PermitExclusive, PermitAccounted, OwnedNotFree,
         OwnedNotIdle, OwnedOnce, IdleOnce
<1>5. ConnExclusive'
  BY DEF IInv, ConnExclusive
<1>6. DirtyHeld'
  BY DEF IInv, DirtyHeld
<1>7. Counters'
  BY DEF IInv, Counters, HeldPermits, Held, IdlePermits
<1>8. QED
  BY <1>2, <1>3, <1>4, <1>5, <1>6, <1>7 DEF IInv

(* IInv is an invariant of the pool, whatever the tasks do and however     *)
(* their steps interleave.                                                 *)
THEOREM IInvHolds == Spec => []IInv
<1>1. Init => IInv
  BY InitIInv
<1>2. IInv /\ [Next]_vars => IInv'
  BY TaskStepIInv, QuietStepIInv DEF Next
<1>3. QED
  BY <1>1, <1>2, PTL DEF Spec

-----------------------------------------------------------------------------
(* Type correctness.                                                       *)
THEOREM TypeCorrect == Spec => []TypeOK
<1>1. IInv => TypeOK
  BY DEF IInv
<1>2. QED
  BY <1>1, IInvHolds, PTL

(* Each permit of the semaphore is in exactly one place: get_connection,   *)
(* get_fresh_connection, preheat_for_puts, close, Drop, into_stream and a  *)
(* cancellation at any of their awaits neither lose nor duplicate one.     *)
THEOREM PermitsConserved == Spec => []PermitConservation
<1>1. IInv => PermitConservation
  BY DEF IInv
<1>2. QED
  BY <1>1, IInvHolds, PTL

(* A stream is never in two hands.                                         *)
THEOREM StreamsExclusive == Spec => []ConnExclusive
<1>1. IInv => ConnExclusive
  BY DEF IInv
<1>2. QED
  BY <1>1, IInvHolds, PTL

(* The idle queue never holds a stream on which a response is pending, so  *)
(* get_connection never lends one.                                         *)
LEMMA IdleCleanFollows == ASSUME IInv PROVE IdleClean
<1>1. SUFFICES ASSUME NEW i \in DOMAIN idle, idle[i].conn \in dirty PROVE FALSE
  BY DEF IdleClean
<1>2. PICK t \in Tasks : conn[t] = idle[i].conn
  BY <1>1 DEF IInv, DirtyHeld
<1>3. QED
  BY <1>1, <1>2 DEF IInv, ConnExclusive

THEOREM IdleStreamsClean == Spec => []IdleClean
<1>1. IInv => IdleClean
  BY IdleCleanFollows
<1>2. QED
  BY <1>1, IInvHolds, PTL

(* The queue and the checked-out connections stand for disjoint sets of    *)
(* permits, none of which is in the semaphore.                             *)
LEMMA StatsBoundFollows == ASSUME IInv PROVE StatsBound
<1>1. /\ IsFiniteSet(HeldPermits) /\ HeldPermits \subseteq Permits
      /\ IsFiniteSet(IdlePermits) /\ IdlePermits \subseteq Permits
  BY HeldFinite DEF IInv
<1>2. free \subseteq Permits /\ IsFiniteSet(free)
  BY FS_Subset, PermitsAssumption DEF IInv, TypeOK
<1>3. /\ HeldPermits \cap IdlePermits = {}
      /\ free \cap (HeldPermits \cup IdlePermits) = {}
  BY DEF IInv, PermitConservation, PermitExclusive, OwnedNotFree, OwnedNotIdle, IdleOnce,
         HeldPermits, Held, IdlePermits
<1>4. /\ IsFiniteSet(HeldPermits \cup IdlePermits)
      /\ Cardinality(HeldPermits \cup IdlePermits) = Len(idle) + active
  <2>1. Cardinality(HeldPermits \cap IdlePermits) = 0
    BY <1>3, FS_EmptySet
  <2>2. /\ IsFiniteSet(HeldPermits \cup IdlePermits)
        /\ Cardinality(HeldPermits \cup IdlePermits)
             = Cardinality(HeldPermits) + Cardinality(IdlePermits)
               - Cardinality(HeldPermits \cap IdlePermits)
    BY <1>1, FS_Union
  <2>3. Cardinality(HeldPermits) \in Nat /\ Cardinality(IdlePermits) \in Nat
    BY <1>1, FS_CardinalityType
  <2>4. QED
    BY <2>1, <2>2, <2>3 DEF IInv, Counters
<1>5. /\ IsFiniteSet(free \cup (HeldPermits \cup IdlePermits))
      /\ Cardinality(free \cup (HeldPermits \cup IdlePermits)) = Cardinality(free) + Len(idle) + active
  <2>1. Cardinality(free \cap (HeldPermits \cup IdlePermits)) = 0
    BY <1>3, FS_EmptySet
  <2>2. /\ IsFiniteSet(free \cup (HeldPermits \cup IdlePermits))
        /\ Cardinality(free \cup (HeldPermits \cup IdlePermits))
             = Cardinality(free) + Cardinality(HeldPermits \cup IdlePermits)
               - Cardinality(free \cap (HeldPermits \cup IdlePermits))
    BY <1>2, <1>4, FS_Union
  <2>3. Cardinality(free) \in Nat /\ Cardinality(HeldPermits \cup IdlePermits) \in Nat
    BY <1>2, <1>4, FS_CardinalityType
  <2>4. Len(idle) \in Int /\ active \in Int
    BY LenProperties DEF IInv, TypeOK
  <2>5. QED
    BY <1>4, <2>1, <2>2, <2>3, <2>4
<1>6. Cardinality(free) + Len(idle) + active <= MaxSize
  BY <1>1, <1>2, <1>5, FS_Subset, PermitsAssumption DEF MaxSize
<1>7. active \in Nat /\ Len(idle) \in Nat /\ Cardinality(free) \in Nat /\ Len(waiters) \in Nat
  BY <1>1, <1>2, FS_CardinalityType, LenProperties DEF IInv, Counters, TypeOK
<1>8. AvailablePermits <= Cardinality(free)
  BY <1>7 DEF AvailablePermits
<1>9. AvailablePermits \in Int /\ MaxSize \in Nat
  BY <1>7, FS_CardinalityType, PermitsAssumption DEF AvailablePermits, MaxSize
<1>10. QED
  BY <1>6, <1>7, <1>8, <1>9 DEF StatsBound

(* What stats() reports never exceeds max_size and its counter never goes  *)
(* below zero, although the counter is updated outside the mutex.          *)
THEOREM StatsBounded == Spec => []StatsBound
<1>1. IInv => StatsBound
  BY StatsBoundFollows
<1>2. QED
  BY <1>1, IInvHolds, PTL

(* The permit of a connection that comes back is not in the queue, so the  *)
(* queue has room for it.                                                  *)
LEMMA RoomFollows == ASSUME IInv PROVE RoomToReturn
<1>1. SUFFICES ASSUME NEW t \in Tasks, pc[t] \in {"returning", "put"}
               PROVE  Len(idle) < MaxSize
  BY DEF RoomToReturn
<1>2. permit[t] \in Permits
  BY <1>1 DEF IInv, TypeOK, Owns, OwnsAt, WithPermit
<1>3. IdlePermits \subseteq Permits \ {permit[t]}
  BY <1>1, HeldFinite DEF IInv, PermitConservation, PermitExclusive, OwnedNotIdle, IdlePermits
<1>4. /\ IsFiniteSet(Permits \ {permit[t]})
      /\ Cardinality(Permits \ {permit[t]}) = MaxSize - 1
  BY <1>2, FS_RemoveElement, PermitsAssumption DEF MaxSize
<1>5. Cardinality(IdlePermits) <= MaxSize - 1
  BY <1>3, <1>4, FS_Subset
<1>6. Cardinality(IdlePermits) \in Nat /\ MaxSize \in Nat
  BY HeldFinite, FS_CardinalityType, PermitsAssumption DEF IInv, MaxSize
<1>7. QED
  BY <1>5, <1>6 DEF IInv, Counters

(* return_connection and preheat never find the queue full: its branch     *)
(* "Pool full, dropping connection" is never taken.                        *)
THEOREM AlwaysRoom == Spec => []RoomToReturn
<1>1. IInv => RoomToReturn
  BY RoomFollows
<1>2. QED
  BY <1>1, IInvHolds, PTL

=============================================================================
