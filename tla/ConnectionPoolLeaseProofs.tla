--------------------- MODULE ConnectionPoolLeaseProofs ---------------------
(***************************************************************************)
(* Proof that the connection pool implements ConnectionLease: for any      *)
(* tasks, any finite set of permits and any streams, every step of the     *)
(* pool is a step of the lease or leaves it as it is.                      *)
(***************************************************************************)
EXTENDS ConnectionPoolLease, ConnectionPoolProofs

InQueue(c) == \E i \in DOMAIN idle : idle[i].conn = c
Lent(t, c) == conn[t] = c /\ pc[t] # "unpooled"

(* What the mapping says of one stream.                                    *)
LeaseOf(c) ==
  /\ InQueue(c) => Lease[c] = Idle
  /\ \A t \in Tasks : Lent(t, c) => Lease[c] = t
  /\ ~InQueue(c) /\ (\A t \in Tasks : ~Lent(t, c)) => Lease[c] = Closed

LeaseFacts ==
  /\ Lease = [c \in Conns |-> Lease[c]]
  /\ \A c \in Conns : LeaseOf(c)

LEMMA LeaseFactsHold == ASSUME IInv PROVE LeaseFacts
<1>1. Lease = [c \in Conns |-> Lease[c]]
  BY DEF Lease
<1>2. ASSUME NEW c \in Conns
      PROVE  LeaseOf(c)
  <2>1. InQueue(c) => Lease[c] = Idle
    BY DEF InQueue, Lease
  <2>2. ASSUME NEW t \in Tasks, Lent(t, c)
        PROVE  Lease[c] = t
    <3>1. ~InQueue(c)
      BY <2>2 DEF InQueue, Lent, IInv, ConnExclusive
    <3>2. \A u \in Tasks : conn[u] = c <=> u = t
      BY <2>2, ConnsAssumption DEF Lent, IInv, ConnExclusive
    <3>3. Lease[c] = CHOOSE u \in Tasks : conn[u] = c
      BY <2>2, <3>1 DEF InQueue, Lent, Lease
    <3>4. QED
      BY <3>2, <3>3
  <2>3. ~InQueue(c) /\ (\A t \in Tasks : ~Lent(t, c)) => Lease[c] = Closed
    BY DEF InQueue, Lent, Lease
  <2>4. QED
    BY <2>1, <2>2, <2>3 DEF LeaseOf
<1>3. QED
  BY <1>1, <1>2 DEF LeaseFacts

(* The other way round: who has a stream, by its lease.                    *)
LEMMA LeaseTells ==
  ASSUME LeaseFacts, NEW c \in Conns
  PROVE  /\ Lease[c] = Idle => InQueue(c)
         /\ \A t \in Tasks : Lease[c] = t => Lent(t, c)
         /\ Lease[c] \in Tasks \cup {Idle, Closed}
<1>1. LeaseOf(c)
  BY DEF LeaseFacts
<1>2. CASE InQueue(c)
  BY <1>1, <1>2, LeaseAssumption DEF LeaseOf
<1>3. CASE \E t \in Tasks : Lent(t, c)
  BY <1>1, <1>3, LeaseAssumption DEF LeaseOf
<1>4. CASE ~InQueue(c) /\ \A t \in Tasks : ~Lent(t, c)
  BY <1>1, <1>4, LeaseAssumption DEF LeaseOf
<1>5. QED
  BY <1>2, <1>3, <1>4

-----------------------------------------------------------------------------
(* What a step does to the leases.                                         *)

Same(c) ==
  /\ InQueue(c)' <=> InQueue(c)
  /\ \A t \in Tasks : Lent(t, c)' <=> Lent(t, c)

LEMMA SameLease ==
  ASSUME LeaseFacts, LeaseFacts', NEW c \in Conns, Same(c)
  PROVE  Lease'[c] = Lease[c]
<1>1. LeaseOf(c) /\ LeaseOf(c)'
  BY DEF LeaseFacts
<1>2. QED
  BY <1>1 DEF LeaseOf, Same

LEMMA LeasesStay ==
  ASSUME LeaseFacts, LeaseFacts', \A c \in Conns : Same(c)
  PROVE  Lease' = Lease
<1>1. \A c \in Conns : Lease'[c] = Lease[c]
  BY SameLease
<1>2. QED
  BY <1>1 DEF LeaseFacts

LEMMA OneLeaseMoves ==
  ASSUME LeaseFacts, LeaseFacts', NEW c \in Conns, \A d \in Conns \ {c} : Same(d)
  PROVE  Lease' = [Lease EXCEPT ![c] = Lease'[c]]
<1>1. \A d \in Conns \ {c} : Lease'[d] = Lease[d]
  BY SameLease
<1>2. QED
  BY <1>1 DEF LeaseFacts

(* The queue without its front, and with one more entry.                   *)
LEMMA QueueFront ==
  ASSUME IInv, idle # <<>>, idle' = Tail(idle)
  PROVE  /\ Head(idle).conn \in Conns
         /\ InQueue(Head(idle).conn)
         /\ \A c \in Conns : InQueue(c)' <=> InQueue(c) /\ c # Head(idle).conn
<1>1. FrontGone
  BY FrontMoves DEF IInv
<1>2. Head(idle).conn \in Conns
  BY HeadEntry DEF IInv, TypeOK
<1>3. InQueue(Head(idle).conn)
  BY <1>1 DEF FrontGone, InQueue
<1>4. ASSUME NEW c \in Conns, InQueue(c)'
      PROVE  InQueue(c) /\ c # Head(idle).conn
  <2>1. PICK i \in DOMAIN idle' : idle'[i].conn = c
    BY <1>4 DEF InQueue
  <2>2. i + 1 \in DOMAIN idle /\ idle[i + 1].conn = c /\ i + 1 # 1
    BY <1>1, <2>1 DEF FrontGone
  <2>3. 1 \in DOMAIN idle /\ idle[1] = Head(idle)
    BY <1>1 DEF FrontGone
  <2>4. QED
    BY <2>2, <2>3 DEF InQueue, IInv, ConnExclusive
<1>5. ASSUME NEW c \in Conns, InQueue(c), c # Head(idle).conn
      PROVE  InQueue(c)'
  <2>1. PICK i \in DOMAIN idle : idle[i].conn = c
    BY <1>5 DEF InQueue
  <2>2. i - 1 \in DOMAIN idle' /\ idle'[i - 1].conn = c
    BY <1>1, <1>5, <2>1 DEF FrontGone
  <2>3. QED
    BY <2>2 DEF InQueue
<1>6. QED
  BY <1>2, <1>3, <1>4, <1>5

LEMMA QueueBack ==
  ASSUME IInv, NEW t \in Tasks, Kept(t)
  PROVE  \A c \in Conns : InQueue(c)' <=> InQueue(c) \/ c = conn[t]
<1>1. BackJoined(t)
  BY BackMoves DEF IInv
<1>2. ASSUME NEW c \in Conns, InQueue(c)'
      PROVE  InQueue(c) \/ c = conn[t]
  BY <1>1, <1>2 DEF BackJoined, InQueue
<1>3. ASSUME NEW c \in Conns, InQueue(c)
      PROVE  InQueue(c)'
  <2>1. PICK i \in DOMAIN idle : idle[i].conn = c
    BY <1>3 DEF InQueue
  <2>2. i \in DOMAIN idle' /\ idle'[i].conn = c
    BY <1>1, <2>1 DEF BackJoined
  <2>3. QED
    BY <2>2 DEF InQueue
<1>4. ASSUME NEW c \in Conns, c = conn[t]
      PROVE  InQueue(c)'
  <2>1. Len(idle) + 1 \in DOMAIN idle' /\ idle'[Len(idle) + 1].conn = c
    BY <1>1, <1>4 DEF BackJoined
  <2>2. QED
    BY <2>1 DEF InQueue
<1>5. QED
  BY <1>2, <1>3, <1>4

-----------------------------------------------------------------------------
(* The steps of the pool by what the lease sees of them.                   *)

Both == IInv /\ IInv' /\ LeaseFacts /\ LeaseFacts'

AbstractStep == [Abstract!Next]_(Abstract!vars)

(* The queue, the streams of the tasks and the exchanges on them stay.     *)
Unseen ==
  /\ UNCHANGED <<idle, conn, dirty>>
  /\ \A u \in Tasks : pc'[u] = "unpooled" <=> pc[u] = "unpooled"

LEMMA UnseenStep ==
  ASSUME Both, Unseen
  PROVE  AbstractStep
<1>1. \A c \in Conns : Same(c)
  BY DEF Unseen, Same, InQueue, Lent
<1>2. Lease' = Lease
  BY <1>1, LeasesStay DEF Both
<1>3. Tainted' = Tainted
  BY <1>2 DEF Tainted, Unseen
<1>4. QED
  BY <1>2, <1>3 DEF AbstractStep, Abstract!vars

(* An idle stream is closed: it was evicted, or the pool is being closed.  *)
LEMMA FrontFreedStep ==
  ASSUME Both, FrontFreed, UNCHANGED <<pc, dirty>>
  PROVE  AbstractStep
<1>0. PICK c \in Conns : c = Head(idle).conn
  BY QueueFront DEF Both, FrontFreed
<1>1. /\ InQueue(c)
      /\ \A d \in Conns : InQueue(d)' <=> InQueue(d) /\ d # c
  BY <1>0, QueueFront DEF Both, FrontFreed
<1>2. \A t \in Tasks, d \in Conns : Lent(t, d)' <=> Lent(t, d)
  BY DEF FrontFreed, Lent
<1>3. \A t \in Tasks : ~Lent(t, c)
  BY <1>1 DEF InQueue, Lent, Both, IInv, ConnExclusive
<1>4. Lease[c] = Idle
  BY <1>1 DEF Both, LeaseFacts, LeaseOf
<1>5. Lease'[c] = Closed
  <2>1. ~InQueue(c)' /\ \A t \in Tasks : ~Lent(t, c)'
    BY <1>1, <1>2, <1>3
  <2>2. QED
    BY <1>1, <2>1 DEF Both, LeaseFacts, LeaseOf
<1>6. Lease' = [Lease EXCEPT ![c] = Closed]
  <2>1. \A d \in Conns \ {c} : Same(d)
    BY <1>1, <1>2 DEF Same
  <2>2. QED
    BY <1>1, <1>5, <2>1, OneLeaseMoves DEF Both
<1>7. Tainted' = Tainted \ {c}
  <2>1. \A d \in Conns : Lease'[d] # Closed <=> Lease[d] # Closed /\ d # c
    BY <1>1, <1>4, <1>5, <1>6, LeaseAssumption DEF Both, LeaseFacts
  <2>2. QED
    BY <2>1 DEF Tainted, Both, IInv, TypeOK
<1>8. Abstract!Discard(c)
  BY <1>4, <1>6, <1>7, LeaseAssumption DEF Abstract!Discard
<1>9. QED
  BY <1>1, <1>8 DEF AbstractStep, Abstract!Next

(* An idle stream is lent to a task, by the first check or the second.     *)
LEMMA FrontLentStep ==
  ASSUME Both, NEW t \in Tasks, FrontLent(t), conn[t] = None, OthersSame(t),
         pc'[t] # "unpooled", dirty' = dirty
  PROVE  AbstractStep
<1>0. PICK c \in Conns : c = Head(idle).conn
  BY QueueFront DEF Both, FrontLent
<1>1. /\ InQueue(c)
      /\ \A d \in Conns : InQueue(d)' <=> InQueue(d) /\ d # c
  BY <1>0, QueueFront DEF Both, FrontLent
<1>2. conn'[t] = c /\ \A u \in Tasks \ {t} : conn'[u] = conn[u] /\ pc'[u] = pc[u]
  BY <1>0 DEF FrontLent, OthersSame, Both, IInv, TypeOK
<1>3. Lease[c] = Idle /\ Lease'[c] = t
  BY <1>1, <1>2 DEF Both, LeaseFacts, LeaseOf, Lent
<1>4. Lease' = [Lease EXCEPT ![c] = t]
  <2>1. \A d \in Conns \ {c} : Same(d)
    BY <1>1, <1>2, ConnsAssumption DEF Same, Lent
  <2>2. QED
    BY <1>3, <2>1, OneLeaseMoves DEF Both
<1>5. c \notin dirty
  BY <1>1, IdleCleanFollows DEF InQueue, IdleClean, Both
<1>6. Tainted' = Tainted /\ c \notin Tainted
  <2>1. \A d \in Conns \ {c} : Lease'[d] = Lease[d]
    BY <1>4 DEF Both, LeaseFacts
  <2>2. QED
    BY <1>5, <2>1 DEF Tainted, Both, IInv, TypeOK
<1>7. Abstract!HasNone(t)
  BY LeaseTells, ConnsAssumption DEF Abstract!HasNone, Lent, Both
<1>8. Abstract!Lend(t, c)
  BY <1>3, <1>4, <1>6, <1>7 DEF Abstract!Lend
<1>9. QED
  BY <1>8 DEF AbstractStep, Abstract!Next

(* A task puts its stream in the queue.                                    *)
LEMMA KeptStep ==
  ASSUME Both, NEW t \in Tasks, Kept(t), OthersSame(t), pc[t] # "unpooled",
         conn[t] \notin dirty, dirty' = dirty
  PROVE  AbstractStep
<1>0. PICK c \in Conns : c = conn[t]
  BY DEF Kept
<1>1. \A d \in Conns : InQueue(d)' <=> InQueue(d) \/ d = c
  BY <1>0, QueueBack DEF Both
<1>2. conn'[t] = None /\ \A u \in Tasks \ {t} : conn'[u] = conn[u] /\ pc'[u] = pc[u]
  BY DEF Kept, OthersSame, Both, IInv, TypeOK
<1>3. Lease[c] = t /\ Lease'[c] = Idle
  BY <1>0, <1>1 DEF Both, LeaseFacts, LeaseOf, Lent
<1>4. Lease' = [Lease EXCEPT ![c] = Idle]
  <2>1. \A d \in Conns \ {c} : Same(d)
    BY <1>0, <1>1, <1>2, ConnsAssumption DEF Same, Lent
  <2>2. QED
    BY <1>3, <2>1, OneLeaseMoves DEF Both
<1>5. Tainted' = Tainted /\ c \notin Tainted
  <2>1. \A d \in Conns \ {c} : Lease'[d] = Lease[d]
    BY <1>4 DEF Both, LeaseFacts
  <2>2. QED
    BY <1>0, <2>1 DEF Tainted, Both, IInv, TypeOK
<1>6. Abstract!Park(t, c)
  BY <1>3, <1>4, <1>5 DEF Abstract!Park
<1>7. QED
  BY <1>6 DEF AbstractStep, Abstract!Next

(* A task gives its stream up: it is not the pool's any more.              *)
LEMMA DiscardStep ==
  ASSUME Both, NEW t \in Tasks, Discard(t)
  PROVE  AbstractStep
<1>0. PICK c \in Conns : c = conn[t]
  BY DEF Discard, Both, IInv, TypeOK, Owns, OwnsAt, WithStream
<1>1. /\ UNCHANGED <<idle, conn, dirty>> /\ pc[t] = "returning"
      /\ pc'[t] = "unpooled" /\ \A u \in Tasks \ {t} : pc'[u] = pc[u]
  BY DEF Discard, Go, Both, IInv, TypeOK
<1>2. Lease[c] = t
  BY <1>0, <1>1 DEF Both, LeaseFacts, LeaseOf, Lent
<1>3. Lease'[c] = Closed
  <2>1. ~InQueue(c)'
    BY <1>0, <1>1 DEF InQueue, Both, IInv, ConnExclusive
  <2>2. \A u \in Tasks : ~Lent(u, c)'
    BY <1>0, <1>1, ConnsAssumption DEF Lent, Both, IInv, ConnExclusive
  <2>3. QED
    BY <2>1, <2>2 DEF Both, LeaseFacts, LeaseOf
<1>4. Lease' = [Lease EXCEPT ![c] = Closed]
  <2>1. \A d \in Conns \ {c} : Same(d)
    BY <1>0, <1>1 DEF Same, Lent, InQueue
  <2>2. QED
    BY <1>3, <2>1, OneLeaseMoves DEF Both
<1>5. Tainted' = Tainted \ {c}
  <2>1. \A d \in Conns : Lease'[d] # Closed <=> Lease[d] # Closed /\ d # c
    BY <1>2, <1>3, <1>4, LeaseAssumption DEF Both, LeaseFacts
  <2>2. QED
    BY <1>1, <2>1 DEF Tainted, Both, IInv, TypeOK
<1>6. Abstract!Discard(c)
  BY <1>2, <1>4, <1>5, LeaseAssumption DEF Abstract!Discard
<1>7. QED
  BY <1>6 DEF AbstractStep, Abstract!Next

(* A stream that had been given up is closed.                              *)
LEMMA CloseStreamStep ==
  ASSUME Both, NEW t \in Tasks, CloseStream(t)
  PROVE  AbstractStep
<1>0. PICK c \in Conns : c = conn[t]
  BY DEF CloseStream, Both, IInv, TypeOK, Owns, OwnsAt, WithStream
<1>1. /\ pc[t] = "unpooled" /\ pc'[t] = "out" /\ conn'[t] = None
      /\ \A u \in Tasks \ {t} : pc'[u] = pc[u] /\ conn'[u] = conn[u]
      /\ idle' = idle /\ dirty' = dirty \ {c}
  BY <1>0 DEF CloseStream, Go, shared, Both, IInv, TypeOK
<1>2. \A d \in Conns : Same(d)
  BY <1>1, ConnsAssumption DEF Same, InQueue, Lent
<1>3. Lease' = Lease
  BY <1>2, LeasesStay DEF Both
<1>4. Lease[c] = Closed
  <2>1. ~InQueue(c)
    BY <1>0 DEF InQueue, Both, IInv, ConnExclusive
  <2>2. \A u \in Tasks : ~Lent(u, c)
    BY <1>0, <1>1, ConnsAssumption DEF Lent, Both, IInv, ConnExclusive
  <2>3. QED
    BY <2>1, <2>2 DEF Both, LeaseFacts, LeaseOf
<1>5. Tainted' = Tainted
  BY <1>1, <1>3, <1>4 DEF Tainted
<1>6. QED
  BY <1>3, <1>5 DEF AbstractStep, Abstract!vars

(* A request is sent on a stream, or its response read to the end.         *)
LEMMA ExchangeStep ==
  ASSUME Both, NEW t \in Tasks, Borrow(t) \/ FramedResponse(t)
  PROVE  AbstractStep
<1>0. PICK c \in Conns : c = conn[t]
  BY DEF Borrow, FramedResponse, Both, IInv, TypeOK, Owns, OwnsAt, WithStream
<1>1. /\ pc[t] = "held" /\ UNCHANGED <<idle, conn, pc>>
      /\ \/ Borrow(t) /\ dirty' = dirty \cup {c}
         \/ FramedResponse(t) /\ dirty' = dirty \ {c}
  BY <1>0 DEF Borrow, FramedResponse, shared
<1>2. \A d \in Conns : Same(d)
  BY <1>1 DEF Same, InQueue, Lent
<1>3. Lease' = Lease
  BY <1>2, LeasesStay DEF Both
<1>4. Lease[c] = t /\ t # Closed
  BY <1>0, <1>1, LeaseAssumption DEF Both, LeaseFacts, LeaseOf, Lent
<1>5. CASE dirty' = dirty \cup {c}
  <2>1. Tainted' = Tainted \cup {c}
    BY <1>3, <1>4, <1>5 DEF Tainted
  <2>2. Abstract!Send(t, c)
    BY <1>3, <1>4, <2>1 DEF Abstract!Send
  <2>3. QED
    BY <2>2 DEF AbstractStep, Abstract!Next
<1>6. CASE dirty' = dirty \ {c}
  <2>1. Tainted' = Tainted \ {c}
    BY <1>3, <1>4, <1>6 DEF Tainted
  <2>2. Abstract!Receive(t, c)
    BY <1>3, <1>4, <2>1 DEF Abstract!Receive
  <2>3. QED
    BY <2>2 DEF AbstractStep, Abstract!Next
<1>7. QED
  BY <1>1, <1>5, <1>6

-----------------------------------------------------------------------------
(* A stream that is lent or idle carries a permit of its own, so a task    *)
(* with a permit and no stream finds fewer than max_size of them open.     *)
Carries(c, p) ==
  \/ \E i \in DOMAIN idle : idle[i].conn = c /\ idle[i].permit = p
  \/ \E t \in Tasks : Lent(t, c) /\ permit[t] = p

LEMMA RoomToConnect ==
  ASSUME Both, NEW t \in Tasks, permit[t] # None, conn[t] = None
  PROVE  Cardinality(Abstract!Open) < Cardinality(Permits)
<1> DEFINE open   == Abstract!Open
           others == Permits \ {permit[t]}
           f      == [c \in open |-> CHOOSE p \in others : Carries(c, p)]
<1>1. ASSUME NEW c \in open
      PROVE  \E p \in others : Carries(c, p)
  <2>1. c \in Conns /\ Lease[c] # Closed
    BY DEF Abstract!Open
  <2>2. CASE InQueue(c)
    <3>1. PICK i \in DOMAIN idle : idle[i].conn = c
      BY <2>2 DEF InQueue
    <3>2. idle[i].permit \in Permits
      BY MoveTypesHold DEF MoveTypes, Both, IInv
    <3>3. idle[i].permit # permit[t]
      BY DEF Both, IInv, PermitConservation, PermitExclusive, OwnedNotIdle
    <3>4. QED
      BY <3>1, <3>2, <3>3 DEF Carries
  <2>3. CASE ~InQueue(c)
    <3>1. PICK u \in Tasks : Lent(u, c)
      BY <2>1, <2>3 DEF Both, LeaseFacts, LeaseOf
    <3>2. u # t /\ permit[u] # None
      BY <2>1, <3>1, ConnsAssumption
      DEF Lent, Both, IInv, Owns, OwnsAt, WithStream, WithPermit
    <3>3. permit[u] \in others
      BY <3>2 DEF Both, IInv, TypeOK, PermitConservation, PermitExclusive, OwnedOnce
    <3>4. QED
      BY <3>1, <3>3 DEF Carries
  <2>4. QED
    BY <2>2, <2>3
<1>2. ASSUME NEW c \in Conns, NEW d \in Conns, NEW p \in Permits, Carries(c, p), Carries(d, p)
      PROVE  c = d
  BY <1>2, PermitsAssumption
  DEF Carries, Lent, Both, IInv, PermitConservation, PermitExclusive, OwnedNotIdle, OwnedOnce, IdleOnce
<1>3. f \in Injection(open, others)
  <2>1. \A c \in open : f[c] \in others /\ Carries(c, f[c])
    BY <1>1
  <2>2. f \in [open -> others]
    BY <2>1
  <2>3. ASSUME NEW c \in open, NEW d \in open, f[c] = f[d]
        PROVE  c = d
    BY <1>2, <2>1, <2>3 DEF Abstract!Open
  <2>4. QED
    BY <2>2, <2>3 DEF Injection, IsInjective
<1> HIDE DEF f
<1>4. permit[t] \in Permits
  BY DEF Both, IInv, TypeOK
<1>5. /\ IsFiniteSet(others) /\ Cardinality(others) = Cardinality(Permits) - 1
      /\ Cardinality(Permits) \in Nat
  BY <1>4, FS_RemoveElement, FS_CardinalityType, PermitsAssumption
<1>6. IsFiniteSet(open) /\ Cardinality(open) <= Cardinality(others)
  BY <1>3, <1>5, FS_Injection
<1>7. Cardinality(open) \in Nat
  BY <1>6, FS_CardinalityType
<1>8. QED
  BY <1>5, <1>6, <1>7

(* A new stream.                                                           *)
LEMMA OpensStep ==
  ASSUME Both, NEW t \in Tasks, NEW c \in Conns, Opens(t, c), OthersSame(t),
         permit[t] # None, conn[t] = None, pc'[t] # "unpooled", dirty' = dirty
  PROVE  AbstractStep
<1>1. /\ idle' = idle /\ conn'[t] = c
      /\ \A u \in Tasks \ {t} : conn'[u] = conn[u] /\ pc'[u] = pc[u]
  BY DEF Opens, OthersSame, Both, IInv, TypeOK
<1>2. ~InQueue(c) /\ \A u \in Tasks : conn[u] # c
  BY DEF Opens, Unused, InQueue
<1>3. Lease[c] = Closed /\ Lease'[c] = t
  BY <1>1, <1>2 DEF Both, LeaseFacts, LeaseOf, Lent
<1>4. Lease' = [Lease EXCEPT ![c] = t]
  <2>1. \A d \in Conns \ {c} : Same(d)
    BY <1>1, ConnsAssumption DEF Same, Lent, InQueue
  <2>2. QED
    BY <1>3, <2>1, OneLeaseMoves DEF Both
<1>5. c \notin dirty
  BY <1>2 DEF Both, IInv, DirtyHeld
<1>6. Tainted' = Tainted
  <2>1. \A d \in Conns \ {c} : Lease'[d] = Lease[d]
    BY <1>4 DEF Both, LeaseFacts
  <2>2. QED
    BY <1>5, <2>1 DEF Tainted, Both, IInv, TypeOK
<1>7. Abstract!HasNone(t)
  BY LeaseTells, ConnsAssumption DEF Abstract!HasNone, Lent, Both
<1>8. Abstract!Connect(t, c)
  <2>1. Cardinality(Abstract!Open) < Cardinality(Permits)
    BY RoomToConnect
  <2>2. \A S : Abstract!Cardinality(S) = Cardinality(S)
    BY Zenon DEF Abstract!Cardinality, Cardinality
  <2>3. QED
    BY <1>3, <1>4, <1>6, <1>7, <2>1, <2>2 DEF Abstract!Connect
<1>9. QED
  BY <1>8 DEF AbstractStep, Abstract!Next

-----------------------------------------------------------------------------
(* Which action is which step of the lease.                                *)
LEMMA TaskStepRefines ==
  ASSUME Both, NEW t \in Tasks, PoolStep(t) \/ CallerStep(t)
  PROVE  AbstractStep
<1>1. OthersSame(t)
  BY OthersStep DEF Both, IInv
<1>2. Move(t)
  BY Moves DEF Both, IInv
<1>3. TypeOK /\ OwnsAt(t)
  BY DEF Both, IInv, Owns
<1>4. CASE EvictExpired(t) \/ ClearOne(t)
  <2>1. FrontFreed /\ UNCHANGED <<pc, dirty>>
    BY <1>4, EmptySeq DEF EvictExpired, Checking, ClearOne, FrontFreed, local, TypeOK, Both, IInv
  <2>2. QED
    BY <2>1, FrontFreedStep
<1>5. CASE PopFirst(t) \/ PopSecond(t)
  <2>1. FrontLent(t) /\ conn[t] = None /\ pc'[t] # "unpooled" /\ dirty' = dirty
    BY <1>3, <1>5 DEF PopFirst, PopSecond, Checking, FrontLent, OwnsAt, WithPermit, WithStream,
                      Go, TypeOK
  <2>2. QED
    BY <1>1, <2>1, FrontLentStep
<1>6. CASE ConnectOk(t) \/ PreheatConnected(t)
  <2>1. /\ permit[t] # None /\ conn[t] = None /\ pc'[t] # "unpooled" /\ dirty' = dirty
        /\ \E c \in Conns : Opens(t, c)
    BY <1>3, <1>6 DEF ConnectOk, PreheatConnected, Opens, OwnsAt, WithPermit, WithStream,
                      Go, TypeOK, shared
  <2>2. QED
    BY <1>1, <2>1, OpensStep
<1>7. CASE ReturnConnection(t)
  <2>1. Len(idle) < MaxSize
    BY <1>7, RoomFollows DEF ReturnConnection, RoomToReturn, Both
  <2>2. /\ Kept(t) /\ pc[t] # "unpooled" /\ conn[t] \notin dirty /\ dirty' = dirty
    BY <1>3, <1>7, <2>1
    DEF ReturnConnection, Kept, OwnsAt, WithPermit, WithStream, TypeOK, Both, IInv, DirtyHeld
  <2>3. QED
    BY <1>1, <2>2, KeptStep
<1>8. CASE PreheatPut(t)
  <2>1. /\ Kept(t) /\ pc[t] = "put" /\ dirty' = dirty /\ conn[t] # None
    BY <1>3, <1>8 DEF PreheatPut, Kept, OwnsAt, WithPermit, WithStream, TypeOK
  <2>2. conn[t] \notin dirty
    BY <2>1 DEF Both, IInv, DirtyHeld, ConnExclusive
  <2>3. QED
    BY <1>1, <2>1, <2>2, KeptStep
<1>9. CASE Discard(t) \/ CloseStream(t) \/ Borrow(t) \/ FramedResponse(t)
  BY <1>9, DiscardStep, CloseStreamStep, ExchangeStep
<1>10. ASSUME UNCHANGED <<idle, conn, dirty>>, pc[t] # "unpooled", pc'[t] # "unpooled"
       PROVE  AbstractStep
  <2>1. Unseen
    BY <1>1, <1>10 DEF Unseen, OthersSame
  <2>2. QED
    BY <2>1, UnseenStep
<1> USE <1>3, <1>10 DEF TypeOK, Go, Leave, shared, local
<1>11. CASE PoolEmpty(t) \/ SwapPermit(t)
  BY <1>11 DEF PoolEmpty, Checking, SwapPermit
<1>12. CASE AcquireNow(t) \/ Enqueue(t) \/ Resume(t) \/ AcquireTimeout(t)
  BY <1>12 DEF AcquireNow, Enqueue, Resume, AcquireTimeout, Acquired
<1>13. CASE ConnectFail(t) \/ ConnectError(t) \/ Count(t)
  BY <1>13 DEF ConnectFail, ConnectError, Count
<1>14. CASE PreheatAcquire(t) \/ PreheatDone(t) \/ PreheatFailed(t) \/ ClearDone(t)
  BY <1>14 DEF PreheatAcquire, PreheatDone, PreheatFailed, ClearDone
<1>15. CASE GetConnection(t) \/ GetFreshConnection(t) \/ PreheatForPuts(t) \/ Close(t)
  BY <1>15 DEF GetConnection, GetFreshConnection, PreheatForPuts, Call, Close
<1>16. CASE Invalidate(t) \/ DropConnection(t) \/ IntoStream(t)
  BY <1>16 DEF Invalidate, DropConnection, IntoStream
<1>17. CASE CancelWaiting(t) \/ CancelConnect(t)
  BY <1>17 DEF CancelWaiting, CancelConnect
<1>18. QED
  BY <1>4, <1>5, <1>6, <1>7, <1>8, <1>9, <1>11, <1>12, <1>13, <1>14, <1>15, <1>16, <1>17
  DEF PoolStep, CallerStep

LEMMA InitRefines == Init => Abstract!Init
<1> SUFFICES ASSUME Init PROVE Abstract!Init
  OBVIOUS
<1>1. LeaseFacts
  BY InitIInv, LeaseFactsHold
<1>2. \A c \in Conns : ~InQueue(c) /\ \A t \in Tasks : ~Lent(t, c)
  BY EmptySeq, ConnsAssumption DEF Init, InQueue, Lent
<1>3. \A c \in Conns : Lease[c] = Closed
  BY <1>1, <1>2 DEF LeaseFacts, LeaseOf
<1>4. Lease = [c \in Conns |-> Closed]
  BY <1>1, <1>3 DEF LeaseFacts
<1>5. QED
  BY <1>4 DEF Init, Tainted, Abstract!Init

LEMMA StepRefines == Both /\ [Next]_vars => AbstractStep
<1>1. ASSUME Both, Expire \/ UNCHANGED vars PROVE Unseen
  BY <1>1 DEF Expire, vars, shared, local, Unseen
<1>2. QED
  BY <1>1, TaskStepRefines, UnseenStep DEF Next

(* The pool implements the lease, for any tasks, any finite set of permits *)
(* and any streams: get_connection, get_fresh_connection, preheat_for_puts,*)
(* close, Drop, into_stream, cancellations and expiries lend a stream to   *)
(* one task at a time, keep at most max_size open, and never lend one on   *)
(* which a response is pending.                                            *)
THEOREM PoolImplementsLease == Spec => Refines
<1>1. Init => Abstract!Init
  BY InitRefines
<1>2. IInv => LeaseFacts
  BY LeaseFactsHold
<1>3. IInv /\ IInv' /\ LeaseFacts /\ LeaseFacts' /\ [Next]_vars
        => [Abstract!Next]_(Abstract!vars)
  BY StepRefines DEF Both, AbstractStep
<1>4. QED
  BY <1>1, <1>2, <1>3, IInvHolds, PTL DEF Spec, Refines, Abstract!Spec
=============================================================================
