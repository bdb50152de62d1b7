--------------------------- MODULE ChannelsProofs ---------------------------
(***************************************************************************)
(* Proofs about the ends of a channel.  For any set of pipes and any       *)
(* capacities, nothing is lost by dropping a stream.  For any processes,   *)
(* names are owned and kept: by the listeners of Unix sockets, where no    *)
(* two processes in bind replace each other's sockets, and by those of     *)
(* Windows pipes.  For any lines and limits, what the reader of a stream   *)
(* yields are the lines it was sent, in order and without a gap.           *)
(***************************************************************************)
EXTENDS Channels, TLAPS, FiniteSetTheorems, SequenceTheorems

-----------------------------------------------------------------------------
(* The Windows pipe.                                                       *)

LEMMA PipeInit == Pipe!Init => Pipe!IInv
  BY DEF Pipe!Init, Pipe!IInv, Pipe!TypeOK, Pipe!FlushedWasDirty, Pipe!CleanIsRead, Pipe!JobLeft

(* The job of a pipe survives a step of the queue.                         *)
LEMMA PipeEnqueueKeeps ==
  ASSUME Pipe!TypeOK, NEW p \in Pipes, NEW q, Pipe!Enqueue(p, q)
  PROVE  /\ queue' \in Seq(Pipes) /\ threads' \subseteq Pipes
         /\ p \in threads' \/ \E i \in 1..Len(queue') : queue'[i] = p
         /\ threads \subseteq threads'
         /\ \A i \in 1..Len(queue) : i \in 1..Len(queue') /\ queue'[i] = queue[i]
  <1>1. CASE q = "running" /\ Len(queue) < QueueCapacity
    <2>1. queue' = Append(queue, p) /\ threads' = threads
      BY <1>1 DEF Pipe!Enqueue
    <2>2. Len(queue') = Len(queue) + 1 /\ queue'[Len(queue) + 1] = p /\ Len(queue) \in Nat
      BY <2>1 DEF Pipe!TypeOK
    <2>3. \A i \in 1..Len(queue) : i \in 1..Len(queue') /\ queue'[i] = queue[i]
      BY <2>1, <2>2 DEF Pipe!TypeOK
    <2>4. Len(queue) + 1 \in 1..Len(queue')
      BY <2>2
    <2> QED
      BY <2>1, <2>2, <2>3, <2>4 DEF Pipe!TypeOK
  <1>2. CASE ~(q = "running" /\ Len(queue) < QueueCapacity)
    BY <1>2 DEF Pipe!Enqueue, Pipe!TypeOK
  <1> QED
    BY <1>1, <1>2

LEMMA PipeTakeKeeps ==
  ASSUME Pipe!TypeOK, Pipe!TakeJob
  PROVE  /\ queue' \in Seq(Pipes) /\ working' \subseteq Pipes
         /\ \A p \in Pipes : Pipe!Lingers(p) => Pipe!Lingers(p)'
  <1>1. queue # <<>> /\ queue \in Seq(Pipes) /\ queue' = Tail(queue) /\ working = {}
        /\ working' = {Head(queue)} /\ threads' = threads
    BY DEF Pipe!TakeJob, Pipe!TypeOK
  <1>2. Head(queue) \in Pipes /\ queue' \in Seq(Pipes) /\ Len(queue') = Len(queue) - 1
        /\ Len(queue) \in Nat /\ Head(queue) = queue[1]
    BY <1>1
  <1>3. ASSUME NEW i \in 1..Len(queue), i # 1
        PROVE  i - 1 \in 1..Len(queue') /\ queue'[i - 1] = queue[i]
    BY <1>1, <1>2, <1>3
  <1>4. ASSUME NEW p \in Pipes, Pipe!Lingers(p) PROVE Pipe!Lingers(p)'
    <2>1. CASE p \in threads
      BY <1>1, <2>1 DEF Pipe!Lingers
    <2>2. CASE \E i \in 1..Len(queue) : queue[i] = p
      <3>1. PICK i \in 1..Len(queue) : queue[i] = p
        BY <2>2
      <3>2. CASE i = 1
        BY <1>1, <1>2, <3>1, <3>2 DEF Pipe!Lingers
      <3>3. CASE i # 1
        BY <1>3, <3>1, <3>3 DEF Pipe!Lingers
      <3> QED
        BY <3>2, <3>3
    <2> QED
      BY <1>1, <1>4, <2>1, <2>2 DEF Pipe!Lingers
  <1> QED
    BY <1>1, <1>2, <1>4

LEMMA PipeDropKeeps ==
  ASSUME Pipe!IInv, NEW p \in Pipes, Pipe!Drop(p)
  PROVE  Pipe!IInv'
  <1> USE DEF Pipe!IInv
  <1>1. /\ stream[p] = "open" /\ stream' = [stream EXCEPT ![p] = "closed"]
        /\ UNCHANGED <<dirty, flush, unread, peer, working>>
    BY DEF Pipe!Drop
  <1>2. /\ queue' \in Seq(Pipes) /\ threads' \subseteq Pipes /\ refused' \subseteq Pipes
        /\ pump' \in {"unborn", "running", "failed"}
        /\ dirty[p] = "dirty" =>
             p \in refused' \/ p \in threads' \/ \E i \in 1..Len(queue') : queue'[i] = p
        /\ threads \subseteq threads' /\ refused \subseteq refused'
        /\ \A i \in 1..Len(queue) : i \in 1..Len(queue') /\ queue'[i] = queue[i]
    <2>1. CASE dirty[p] = "clean" /\ UNCHANGED <<pump, queue, threads, refused>>
      BY <2>1 DEF Pipe!TypeOK
    <2>2. CASE /\ dirty[p] = "dirty" /\ refused' = refused \cup {p}
               /\ UNCHANGED <<pump, queue, threads>>
      BY <2>2 DEF Pipe!TypeOK
    <2>3. CASE /\ dirty[p] = "dirty" /\ UNCHANGED refused
               /\ pump' \in IF pump = "unborn" THEN {"running", "failed"} ELSE {pump}
               /\ Pipe!Enqueue(p, pump')
      BY <2>3, PipeEnqueueKeeps DEF Pipe!TypeOK
    <2> QED
      BY <2>1, <2>2, <2>3 DEF Pipe!Drop
  <1>3. \A r \in Pipes : Pipe!Lingers(r) => Pipe!Lingers(r)'
    BY <1>1, <1>2 DEF Pipe!Lingers
  <1>4. Pipe!TypeOK' /\ Pipe!FlushedWasDirty' /\ Pipe!CleanIsRead'
    BY <1>1, <1>2 DEF Pipe!TypeOK, Pipe!FlushedWasDirty, Pipe!CleanIsRead
  <1>5. ASSUME NEW r \in Pipes, stream'[r] = "closed", peer'[r] = "here", unread'[r] > 0
        PROVE  Pipe!Lingers(r)' \/ r \in refused'
    <2>1. CASE r = p
      <3>1. dirty[p] = "dirty"
        BY <1>1, <1>5, <2>1 DEF Pipe!TypeOK, Pipe!CleanIsRead
      <3> QED
        BY <1>2, <2>1, <3>1 DEF Pipe!Lingers
    <2>2. CASE r # p
      BY <1>1, <1>2, <1>3, <1>5, <2>2 DEF Pipe!JobLeft, Pipe!TypeOK
    <2> QED
      BY <2>1, <2>2
  <1> QED
    BY <1>4, <1>5 DEF Pipe!JobLeft

LEMMA PipeJobEndsKeeps ==
  ASSUME Pipe!IInv, NEW p \in Pipes, Pipe!JobEnds(p)
  PROVE  Pipe!IInv'
  <1> USE DEF Pipe!IInv
  <1>1. /\ unread[p] = 0 \/ peer[p] = "gone"
        /\ working' = working \ {p} /\ threads' = threads \ {p}
        /\ UNCHANGED <<stream, dirty, flush, unread, peer, pump, queue, refused>>
    BY DEF Pipe!JobEnds
  <1>2. Pipe!TypeOK' /\ Pipe!FlushedWasDirty' /\ Pipe!CleanIsRead'
    BY <1>1 DEF Pipe!TypeOK, Pipe!FlushedWasDirty, Pipe!CleanIsRead
  <1>3. \A r \in Pipes : r # p /\ Pipe!Lingers(r) => Pipe!Lingers(r)'
    BY <1>1 DEF Pipe!Lingers
  <1>4. ~(peer[p] = "here" /\ unread[p] > 0)
    BY <1>1 DEF Pipe!TypeOK
  <1>5. Pipe!JobLeft'
    BY <1>1, <1>3, <1>4 DEF Pipe!JobLeft
  <1> QED
    BY <1>2, <1>5

(* The other steps leave the jobs alone.                                   *)
LEMMA PipeStreamKeeps ==
  ASSUME Pipe!Parameters, Pipe!IInv, NEW p \in Pipes,
         Pipe!Write(p) \/ Pipe!Settle(p) \/ Pipe!BeginFlush(p) \/ Pipe!FlushReturns(p)
           \/ Pipe!PeerReads(p) \/ Pipe!PeerLeaves(p)
  PROVE  Pipe!IInv'
  <1> USE DEF Pipe!Parameters, Pipe!IInv
  <1>1. UNCHANGED <<stream, pump, queue, working, threads, refused>>
    BY DEF Pipe!Write, Pipe!Settle, Pipe!BeginFlush, Pipe!FlushReturns, Pipe!PeerReads,
           Pipe!PeerLeaves
  <1>2. \A r \in Pipes : Pipe!Lingers(r)' <=> Pipe!Lingers(r)
    BY <1>1 DEF Pipe!Lingers
  <1>3. Pipe!TypeOK'
    <2>1. CASE Pipe!Write(p)
      BY <1>1, <2>1 DEF Pipe!TypeOK, Pipe!Write
    <2>2. CASE Pipe!Settle(p) \/ Pipe!BeginFlush(p) \/ Pipe!FlushReturns(p)
      BY <1>1, <2>2 DEF Pipe!TypeOK, Pipe!Settle, Pipe!BeginFlush, Pipe!FlushReturns
    <2>3. CASE Pipe!PeerReads(p)
      BY <1>1, <2>3 DEF Pipe!TypeOK, Pipe!PeerReads
    <2>4. CASE Pipe!PeerLeaves(p)
      BY <1>1, <2>4 DEF Pipe!TypeOK, Pipe!PeerLeaves
    <2> QED
      BY <2>1, <2>2, <2>3, <2>4
  <1>4. Pipe!FlushedWasDirty'
    BY DEF Pipe!TypeOK, Pipe!FlushedWasDirty, Pipe!Write, Pipe!Settle, Pipe!BeginFlush,
           Pipe!FlushReturns, Pipe!PeerReads, Pipe!PeerLeaves
  <1>5. Pipe!CleanIsRead'
    <2>1. CASE Pipe!Write(p) \/ Pipe!Settle(p)
      BY <1>1, <2>1 DEF Pipe!TypeOK, Pipe!CleanIsRead, Pipe!Write, Pipe!Settle
    <2>2. CASE Pipe!BeginFlush(p) \/ Pipe!FlushReturns(p)
      BY <1>1, <2>2 DEF Pipe!TypeOK, Pipe!CleanIsRead, Pipe!BeginFlush, Pipe!FlushReturns
    <2>3. CASE Pipe!PeerReads(p) \/ Pipe!PeerLeaves(p)
      BY <1>1, <2>3 DEF Pipe!TypeOK, Pipe!CleanIsRead, Pipe!PeerReads, Pipe!PeerLeaves
    <2> QED
      BY <2>1, <2>2, <2>3
  <1>6. Pipe!JobLeft'
    <2>1. CASE Pipe!Write(p)
      BY <1>1, <1>2, <2>1 DEF Pipe!TypeOK, Pipe!JobLeft, Pipe!Write
    <2>2. CASE Pipe!Settle(p) \/ Pipe!BeginFlush(p) \/ Pipe!FlushReturns(p)
      BY <1>1, <1>2, <2>2 DEF Pipe!JobLeft, Pipe!Settle, Pipe!BeginFlush, Pipe!FlushReturns
    <2>3. CASE Pipe!PeerReads(p) \/ Pipe!PeerLeaves(p)
      BY <1>1, <1>2, <2>3 DEF Pipe!TypeOK, Pipe!JobLeft, Pipe!PeerReads, Pipe!PeerLeaves
    <2> QED
      BY <2>1, <2>2, <2>3
  <1> QED
    BY <1>3, <1>4, <1>5, <1>6

LEMMA PipeNext ==
  ASSUME Pipe!Parameters
  PROVE  Pipe!IInv /\ [Pipe!Next]_Pipe!vars => Pipe!IInv'
  <1> SUFFICES ASSUME Pipe!IInv, [Pipe!Next]_Pipe!vars PROVE Pipe!IInv'
    OBVIOUS
  <1>1. CASE UNCHANGED Pipe!vars
    BY <1>1 DEF Pipe!vars, Pipe!IInv, Pipe!TypeOK, Pipe!FlushedWasDirty, Pipe!CleanIsRead,
                Pipe!JobLeft, Pipe!Lingers
  <1>2. CASE Pipe!TakeJob
    <2>1. /\ UNCHANGED <<stream, dirty, flush, unread, peer, pump, threads, refused>>
          /\ queue' \in Seq(Pipes) /\ working' \subseteq Pipes
          /\ \A p \in Pipes : Pipe!Lingers(p) => Pipe!Lingers(p)'
      BY <1>2, PipeTakeKeeps DEF Pipe!TakeJob, Pipe!IInv
    <2> QED
      BY <2>1 DEF Pipe!IInv, Pipe!TypeOK, Pipe!FlushedWasDirty, Pipe!CleanIsRead, Pipe!JobLeft
  <1>3. ASSUME NEW p \in Pipes,
               Pipe!Owner(p) \/ Pipe!FlushReturns(p) \/ Pipe!JobEnds(p) \/ Pipe!PeerReads(p)
                 \/ Pipe!PeerLeaves(p)
        PROVE  Pipe!IInv'
    BY <1>3, PipeDropKeeps, PipeJobEndsKeeps, PipeStreamKeeps DEF Pipe!Owner
  <1> QED
    BY <1>1, <1>2, <1>3 DEF Pipe!Next

(* The inductive invariant of the pipes.                                   *)
THEOREM PipeIInvHolds ==
  ASSUME Pipe!Parameters
  PROVE  Pipe!Spec => []Pipe!IInv
  BY PipeInit, PipeNext, PTL DEF Pipe!Spec

(* poll_pending_flush: whoever sees a successful flush, or a clean stream, *)
(* knows that the peer has read what was written.                          *)
THEOREM FlushMeansRead ==
  ASSUME Pipe!Parameters
  PROVE  Pipe!Spec => []CleanIsRead
  <1>1. Pipe!IInv => CleanIsRead
    BY DEF Pipe!IInv, CleanIsRead
  <1> QED
    BY <1>1, PipeIInvHolds, PTL

(* Drop: the end stays open until the peer has read.                       *)
THEOREM LingerSuffices ==
  ASSUME Pipe!Parameters
  PROVE  Pipe!Spec => []NothingLost
  <1>1. Pipe!IInv => Pipe!NothingLost
    <2> SUFFICES ASSUME Pipe!IInv, NEW p \in Pipes, peer[p] = "here", unread[p] > 0
                 PROVE  Pipe!Held(p) \/ p \in refused
      BY DEF Pipe!NothingLost
    <2>1. stream[p] = "open" \/ stream[p] = "closed"
      BY DEF Pipe!IInv, Pipe!TypeOK
    <2> QED
      BY <2>1 DEF Pipe!IInv, Pipe!JobLeft, Pipe!Held
  <1> QED
    BY <1>1, PipeIInvHolds, PTL DEF NothingLost

-----------------------------------------------------------------------------
(* Unix sockets.                                                           *)

(* Every step keeps the types; that only a process that may overwrite has  *)
(* attempted to is what Replaces says of one that removes.                 *)
LEMMA UnixTypeNext ==
  ASSUME Unix!Parameters, Unix!IInv, Unix!Next
  PROVE  Unix!TypeOK'
PROOF
<1>1. PICK p \in Processes : Unix!Start(p) \/ Unix!Work(p) \/ Unix!Drop(p) \/ Unix!Crash(p)
  BY DEF Unix!Next
<1> USE DEF Unix!TypeOK, Unix!Parameters, Unix!Go, Unix!PCs, Unix!Binding, Unix!Leaving,
            Unix!IInv, Unix!Orderly, Unix!Replaces
<1>2. CASE Unix!Start(p) BY <1>2 DEF Unix!Start
<1>3. CASE Unix!Bind(p) BY <1>3 DEF Unix!Bind, Unix!Free
<1>4. CASE Unix!InUse(p) BY <1>4 DEF Unix!InUse, Unix!Fail
<1>5. CASE Unix!Reclaim(p) BY <1>5 DEF Unix!Reclaim
<1>6. CASE Unix!StatBefore(p) BY <1>6 DEF Unix!StatBefore, Unix!Fail
<1>7. CASE Unix!Probe(p) BY <1>7 DEF Unix!Probe, Unix!Fail
<1>8. CASE Unix!StatAfter(p) BY <1>8 DEF Unix!StatAfter, Unix!Fail
<1>9. CASE Unix!Remove(p) BY <1>9 DEF Unix!Remove, Unix!Fail
<1>10. CASE Unix!Meta(p) BY <1>10 DEF Unix!Meta, Unix!Fail
<1>11. CASE Unix!Check(p) BY <1>11 DEF Unix!Check, Unix!Fail
<1>12. CASE Unix!Listen(p) BY <1>12 DEF Unix!Listen
<1>13. CASE Unix!Drop(p) BY <1>13 DEF Unix!Drop, Unix!Fail
<1>14. CASE Unix!GuardStat(p) BY <1>14 DEF Unix!GuardStat
<1>15. CASE Unix!Unlink(p) BY <1>15 DEF Unix!Unlink
<1>16. CASE Unix!Close(p) \/ Unix!Crash(p) BY <1>16 DEF Unix!Close, Unix!Crash, Unix!Reset
<1>17. QED
  BY <1>1, <1>2, <1>3, <1>4, <1>5, <1>6, <1>7, <1>8, <1>9, <1>10, <1>11,
     <1>12, <1>13, <1>14, <1>15, <1>16 DEF Unix!Work

(* A new socket gets an inode that nobody has.                             *)
LEMMA UnixNoSharingNext ==
  ASSUME Unix!Parameters, Unix!IInv, Unix!TypeOK', Unix!Next
  PROVE  Unix!NoSharing'
PROOF
<1>1. PICK p \in Processes : Unix!Start(p) \/ Unix!Work(p) \/ Unix!Drop(p) \/ Unix!Crash(p)
  BY DEF Unix!Next
<1> USE DEF Unix!TypeOK, Unix!Parameters, Unix!IInv, Unix!Orderly, Unix!NoSharing, Unix!Holds,
            Unix!Unbound
<1>2. CASE Unix!Start(p) BY <1>2 DEF Unix!Start
<1>3. CASE Unix!Bind(p) BY <1>3 DEF Unix!Bind, Unix!Free
<1>4. CASE Unix!InUse(p) BY <1>4 DEF Unix!InUse, Unix!Fail
<1>5. CASE Unix!Reclaim(p) BY <1>5 DEF Unix!Reclaim
<1>6. CASE Unix!StatBefore(p) BY <1>6 DEF Unix!StatBefore, Unix!Fail
<1>7. CASE Unix!Probe(p) BY <1>7 DEF Unix!Probe, Unix!Fail
<1>8. CASE Unix!StatAfter(p) BY <1>8 DEF Unix!StatAfter, Unix!Fail
<1>9. CASE Unix!Remove(p) BY <1>9 DEF Unix!Remove, Unix!Fail
<1>10. CASE Unix!Meta(p) BY <1>10 DEF Unix!Meta, Unix!Fail
<1>11. CASE Unix!Check(p) BY <1>11 DEF Unix!Check, Unix!Fail
<1>12. CASE Unix!Listen(p) BY <1>12 DEF Unix!Listen
<1>13. CASE Unix!Drop(p) BY <1>13 DEF Unix!Drop, Unix!Fail
<1>14. CASE Unix!GuardStat(p) BY <1>14 DEF Unix!GuardStat
<1>15. CASE Unix!Unlink(p) BY <1>15 DEF Unix!Unlink
<1>16. CASE Unix!Close(p) \/ Unix!Crash(p) BY <1>16 DEF Unix!Close, Unix!Crash, Unix!Reset
<1>17. QED
  BY <1>1, <1>2, <1>3, <1>4, <1>5, <1>6, <1>7, <1>8, <1>9, <1>10, <1>11,
     <1>12, <1>13, <1>14, <1>15, <1>16 DEF Unix!Work

LEMMA UnixCounts ==
  /\ \A S : Unix!IsFiniteSet(S) <=> IsFiniteSet(S)
  /\ \A S : Unix!Cardinality(S) = Cardinality(S)
PROOF
<1>1. ASSUME NEW S PROVE Unix!IsFiniteSet(S) <=> IsFiniteSet(S)
  BY Zenon DEF Unix!IsFiniteSet, IsFiniteSet
<1>2. ASSUME NEW S PROVE Unix!Cardinality(S) = Cardinality(S)
  BY Zenon DEF Unix!Cardinality, Cardinality
<1>3. QED BY <1>1, <1>2

(* Who enters bind while sockets may be replaced is the only one there.    *)
LEMMA UnixAloneNext ==
  ASSUME Unix!Parameters, Unix!OneAtATime, Unix!IInv, Unix!TypeOK', Unix!Next
  PROVE  Unix!AloneInBind'
PROOF
<1>1. PICK p \in Processes : Unix!Start(p) \/ Unix!Work(p) \/ Unix!Drop(p) \/ Unix!Crash(p)
  BY DEF Unix!Next
<1> USE DEF Unix!TypeOK, Unix!Parameters, Unix!Go, Unix!IInv, Unix!Orderly, Unix!AloneInBind,
            Unix!Binding
<1>2. CASE Unix!Start(p)
  <2>1. CASE Overwriters = {} BY <2>1
  <2>2. CASE MaxBinders <= 1
    <3> DEFINE B == {q \in Processes : pc[q] \in Unix!Binding}
    <3>1. IsFiniteSet(B) BY UnixCounts, FS_Subset
    <3>2. Cardinality(B) \in Nat BY <3>1, FS_CardinalityType
    <3>3. Cardinality(B) = 0
      <4>1. Unix!Cardinality(B) < MaxBinders BY <1>2 DEF Unix!Start
      <4>2. QED BY <2>2, <3>2, <4>1, UnixCounts
    <3>4. B = {} BY <3>1, <3>3, FS_EmptySet
    <3>5. \A q \in Processes : pc'[q] \in Unix!Binding => q = p BY <1>2, <3>4 DEF Unix!Start
    <3>6. QED BY <3>5
  <2>3. QED BY <2>1, <2>2 DEF Unix!OneAtATime
<1>3. CASE Unix!Bind(p) BY <1>3 DEF Unix!Bind, Unix!Free
<1>4. CASE Unix!InUse(p) BY <1>4 DEF Unix!InUse, Unix!Fail
<1>5. CASE Unix!Reclaim(p) BY <1>5 DEF Unix!Reclaim
<1>6. CASE Unix!StatBefore(p) BY <1>6 DEF Unix!StatBefore, Unix!Fail
<1>7. CASE Unix!Probe(p) BY <1>7 DEF Unix!Probe, Unix!Fail
<1>8. CASE Unix!StatAfter(p) BY <1>8 DEF Unix!StatAfter, Unix!Fail
<1>9. CASE Unix!Remove(p) BY <1>9 DEF Unix!Remove, Unix!Fail
<1>10. CASE Unix!Meta(p) BY <1>10 DEF Unix!Meta, Unix!Fail
<1>11. CASE Unix!Check(p) BY <1>11 DEF Unix!Check, Unix!Fail
<1>12. CASE Unix!Listen(p) BY <1>12 DEF Unix!Listen
<1>13. CASE Unix!Drop(p) BY <1>13 DEF Unix!Drop, Unix!Fail
<1>14. CASE Unix!GuardStat(p) BY <1>14 DEF Unix!GuardStat
<1>15. CASE Unix!Unlink(p) BY <1>15 DEF Unix!Unlink
<1>16. CASE Unix!Close(p) \/ Unix!Crash(p) BY <1>16 DEF Unix!Close, Unix!Crash, Unix!Reset
<1>17. QED
  BY <1>1, <1>2, <1>3, <1>4, <1>5, <1>6, <1>7, <1>8, <1>9, <1>10, <1>11,
     <1>12, <1>13, <1>14, <1>15, <1>16 DEF Unix!Work

(* A bound socket keeps its path: who removes one has found it refused and *)
(* is alone in bind, so that it belongs to no other process in bind and to *)
(* none that listens; and a guard removes its own.                         *)
LEMMA UnixHoldsNext ==
  ASSUME Unix!Parameters, Unix!IInv, Unix!TypeOK', Unix!Next, NEW q \in Processes
  PROVE  Unix!Holds(q)'
PROOF
<1>1. PICK p \in Processes : Unix!Start(p) \/ Unix!Work(p) \/ Unix!Drop(p) \/ Unix!Crash(p)
  BY DEF Unix!Next
<1> USE DEF Unix!TypeOK, Unix!Parameters, Unix!Go, Unix!IInv, Unix!Orderly, Unix!NoSharing,
            Unix!AloneInBind, Unix!Holds, Unix!Listens, Unix!Replaces,
           Unix!Bound, Unix!Unbound, Unix!Binding
<1>2. CASE Unix!Start(p) BY <1>2 DEF Unix!Start
<1>3. CASE Unix!Bind(p) BY <1>3 DEF Unix!Bind, Unix!Free
<1>4. CASE Unix!InUse(p) BY <1>4 DEF Unix!InUse, Unix!Fail
<1>5. CASE Unix!Reclaim(p) BY <1>5 DEF Unix!Reclaim
<1>6. CASE Unix!StatBefore(p) BY <1>6 DEF Unix!StatBefore, Unix!Fail
<1>7. CASE Unix!Probe(p) BY <1>7 DEF Unix!Probe, Unix!Fail
<1>8. CASE Unix!StatAfter(p) BY <1>8 DEF Unix!StatAfter, Unix!Fail
<1>9. CASE Unix!Remove(p) BY <1>9 DEF Unix!Remove, Unix!Fail
<1>10. CASE Unix!Meta(p) BY <1>10 DEF Unix!Meta, Unix!Fail
<1>11. CASE Unix!Check(p) BY <1>11 DEF Unix!Check, Unix!Fail
<1>12. CASE Unix!Listen(p) BY <1>12 DEF Unix!Listen
<1>13. CASE Unix!Drop(p) BY <1>13 DEF Unix!Drop, Unix!Fail
<1>14. CASE Unix!GuardStat(p) BY <1>14 DEF Unix!GuardStat
<1>15. CASE Unix!Unlink(p) BY <1>15 DEF Unix!Unlink
<1>16. CASE Unix!Close(p) \/ Unix!Crash(p) BY <1>16 DEF Unix!Close, Unix!Crash, Unix!Reset
<1>17. QED
  BY <1>1, <1>2, <1>3, <1>4, <1>5, <1>6, <1>7, <1>8, <1>9, <1>10, <1>11,
     <1>12, <1>13, <1>14, <1>15, <1>16 DEF Unix!Work

(* A socket listens until it is closed.                                    *)
LEMMA UnixListensNext ==
  ASSUME Unix!Parameters, Unix!IInv, Unix!TypeOK', Unix!Next, NEW q \in Processes
  PROVE  Unix!Listens(q)'
PROOF
<1>1. PICK p \in Processes : Unix!Start(p) \/ Unix!Work(p) \/ Unix!Drop(p) \/ Unix!Crash(p)
  BY DEF Unix!Next
<1> USE DEF Unix!TypeOK, Unix!Parameters, Unix!Go, Unix!IInv, Unix!Orderly, Unix!NoSharing,
            Unix!AloneInBind, Unix!Holds, Unix!Listens, Unix!Replaces,
           Unix!Bound, Unix!Unbound, Unix!Binding
<1>2. CASE Unix!Start(p) BY <1>2 DEF Unix!Start
<1>3. CASE Unix!Bind(p) BY <1>3 DEF Unix!Bind, Unix!Free
<1>4. CASE Unix!InUse(p) BY <1>4 DEF Unix!InUse, Unix!Fail
<1>5. CASE Unix!Reclaim(p) BY <1>5 DEF Unix!Reclaim
<1>6. CASE Unix!StatBefore(p) BY <1>6 DEF Unix!StatBefore, Unix!Fail
<1>7. CASE Unix!Probe(p) BY <1>7 DEF Unix!Probe, Unix!Fail
<1>8. CASE Unix!StatAfter(p) BY <1>8 DEF Unix!StatAfter, Unix!Fail
<1>9. CASE Unix!Remove(p) BY <1>9 DEF Unix!Remove, Unix!Fail
<1>10. CASE Unix!Meta(p) BY <1>10 DEF Unix!Meta, Unix!Fail
<1>11. CASE Unix!Check(p) BY <1>11 DEF Unix!Check, Unix!Fail
<1>12. CASE Unix!Listen(p) BY <1>12 DEF Unix!Listen
<1>13. CASE Unix!Drop(p) BY <1>13 DEF Unix!Drop, Unix!Fail
<1>14. CASE Unix!GuardStat(p) BY <1>14 DEF Unix!GuardStat
<1>15. CASE Unix!Unlink(p) BY <1>15 DEF Unix!Unlink
<1>16. CASE Unix!Close(p) \/ Unix!Crash(p) BY <1>16 DEF Unix!Close, Unix!Crash, Unix!Reset
<1>17. QED
  BY <1>1, <1>2, <1>3, <1>4, <1>5, <1>6, <1>7, <1>8, <1>9, <1>10, <1>11,
     <1>12, <1>13, <1>14, <1>15, <1>16 DEF Unix!Work

(* What has been found refused stays so: nobody else is in bind, and only  *)
(* who is in bind starts to listen.                                        *)
LEMMA UnixReplacesNext ==
  ASSUME Unix!Parameters, Unix!IInv, Unix!TypeOK', Unix!Next, NEW q \in Processes
  PROVE  Unix!Replaces(q)'
PROOF
<1>1. PICK p \in Processes : Unix!Start(p) \/ Unix!Work(p) \/ Unix!Drop(p) \/ Unix!Crash(p)
  BY DEF Unix!Next
<1> USE DEF Unix!TypeOK, Unix!Parameters, Unix!Go, Unix!IInv, Unix!Orderly, Unix!NoSharing,
            Unix!AloneInBind, Unix!Holds, Unix!Listens, Unix!Replaces,
           Unix!Bound, Unix!Unbound, Unix!Binding
<1>2. CASE Unix!Start(p) BY <1>2 DEF Unix!Start
<1>3. CASE Unix!Bind(p) BY <1>3 DEF Unix!Bind, Unix!Free
<1>4. CASE Unix!InUse(p) BY <1>4 DEF Unix!InUse, Unix!Fail
<1>5. CASE Unix!Reclaim(p) BY <1>5 DEF Unix!Reclaim
<1>6. CASE Unix!StatBefore(p) BY <1>6 DEF Unix!StatBefore, Unix!Fail
<1>7. CASE Unix!Probe(p) BY <1>7 DEF Unix!Probe, Unix!Fail
<1>8. CASE Unix!StatAfter(p) BY <1>8 DEF Unix!StatAfter, Unix!Fail
<1>9. CASE Unix!Remove(p) BY <1>9 DEF Unix!Remove, Unix!Fail
<1>10. CASE Unix!Meta(p) BY <1>10 DEF Unix!Meta, Unix!Fail
<1>11. CASE Unix!Check(p) BY <1>11 DEF Unix!Check, Unix!Fail
<1>12. CASE Unix!Listen(p) BY <1>12 DEF Unix!Listen
<1>13. CASE Unix!Drop(p) BY <1>13 DEF Unix!Drop, Unix!Fail
<1>14. CASE Unix!GuardStat(p) BY <1>14 DEF Unix!GuardStat
<1>15. CASE Unix!Unlink(p) BY <1>15 DEF Unix!Unlink
<1>16. CASE Unix!Close(p) \/ Unix!Crash(p) BY <1>16 DEF Unix!Close, Unix!Crash, Unix!Reset
<1>17. QED
  BY <1>1, <1>2, <1>3, <1>4, <1>5, <1>6, <1>7, <1>8, <1>9, <1>10, <1>11,
     <1>12, <1>13, <1>14, <1>15, <1>16 DEF Unix!Work

(* IInv is an invariant, for any processes and inodes, whoever overwrites   *)
(* and reclaims, as long as two that overwrite are not in bind together.   *)
THEOREM UnixIInvHolds ==
  ASSUME Unix!Parameters, Unix!OneAtATime
  PROVE  Unix!Spec => []Unix!IInv
PROOF
<1>1. Unix!Init => Unix!IInv
  BY DEF Unix!Init, Unix!Parameters, Unix!IInv, Unix!Orderly, Unix!TypeOK, Unix!PCs,
         Unix!NoSharing, Unix!AloneInBind, Unix!Binding, Unix!Holds, Unix!Listens,
     Unix!Replaces, Unix!Bound, Unix!Unbound
<1>2. Unix!IInv /\ [Unix!Next]_Unix!vars => Unix!IInv'
  <2>1. CASE Unix!Next
    <3>1. ASSUME Unix!IInv PROVE Unix!TypeOK' BY <2>1, <3>1, UnixTypeNext
    <3>2. ASSUME Unix!IInv PROVE Unix!NoSharing' /\ Unix!AloneInBind'
      BY <2>1, <3>1, <3>2, UnixNoSharingNext, UnixAloneNext
    <3>3. ASSUME Unix!IInv, NEW q \in Processes
          PROVE  Unix!Holds(q)' /\ Unix!Listens(q)' /\ Unix!Replaces(q)'
      BY <2>1, <3>1, <3>3, UnixHoldsNext, UnixListensNext, UnixReplacesNext
    <3>4. QED BY <3>1, <3>2, <3>3 DEF Unix!IInv, Unix!Orderly
  <2>2. CASE UNCHANGED Unix!vars
    BY <2>2 DEF Unix!vars, Unix!IInv, Unix!Orderly, Unix!TypeOK, Unix!NoSharing,
                Unix!AloneInBind, Unix!Holds, Unix!Listens, Unix!Replaces
  <2>3. QED BY <2>1, <2>2
<1>3. QED BY <1>1, <1>2, PTL DEF Unix!Spec

(* A file that is not a socket stays at the path, and the path of a socket *)
(* that listens is removed by its own process only.                        *)
LEMMA UnixNamesKept ==
  ASSUME Unix!Parameters, Unix!OneAtATime
  PROVE  Unix!Spec => Unix!NamesKept
PROOF
<1> DEFINE Kept   == UNCHANGED path \/ path \notin Regular
           Theirs == \A q \in live : path = own[q] => UNCHANGED path \/ pc[q] = "unlink"
<1>1. Unix!IInv /\ [Unix!Next]_Unix!vars => [Kept]_Unix!vars /\ [Theirs]_Unix!vars
  <2>1. SUFFICES ASSUME Unix!IInv, Unix!Next PROVE Kept /\ Theirs OBVIOUS
  <2>2. PICK p \in Processes : Unix!Start(p) \/ Unix!Work(p) \/ Unix!Drop(p) \/ Unix!Crash(p)
    BY <2>1 DEF Unix!Next
  <2>3. CASE UNCHANGED path BY <2>3
  <2>4. CASE path' # path
    <3>1. Unix!Bind(p) \/ Unix!Remove(p) \/ Unix!Unlink(p)
      BY <2>2, <2>4 DEF Unix!Work, Unix!Start, Unix!InUse, Unix!Reclaim, Unix!StatBefore,
                        Unix!Probe, Unix!StatAfter, Unix!Meta, Unix!Check,
         Unix!Listen, Unix!Drop, Unix!GuardStat, Unix!Close, Unix!Crash, Unix!Reset, Unix!Fail
    <3>2. CASE Unix!Bind(p)
      BY <2>1, <3>2 DEF Unix!Bind, Unix!Parameters, Unix!IInv, Unix!Orderly, Unix!TypeOK,
                        Unix!Holds, Unix!Listens
    <3>3. CASE Unix!Remove(p) BY <2>1, <3>3 DEF Unix!Remove, Unix!IInv, Unix!Orderly,
                                                Unix!Replaces
    <3>4. CASE Unix!Unlink(p)
      BY <2>1, <3>4 DEF Unix!Unlink, Unix!Parameters, Unix!IInv, Unix!Orderly, Unix!TypeOK,
                        Unix!NoSharing, Unix!Holds, Unix!Listens, Unix!Bound
    <3>5. QED BY <3>1, <3>2, <3>3, <3>4
  <2>5. QED BY <2>3, <2>4
<1>2. QED BY <1>1, UnixIInvHolds, PTL DEF Unix!Spec, Unix!NamesKept, Unix!RegularKept,
                                          Unix!LiveKept

-----------------------------------------------------------------------------
(* Windows pipes.                                                          *)

(* An instance that is created is new to everybody.                        *)
LEMMA ListenerCreates ==
  ASSUME NEW s, NEW first \in BOOLEAN, NEW i \in Listener!CreateInstance(s, first)
  PROVE  /\ i \in Instances /\ owner[i] = None /\ user[i] = None
         /\ first => \A j \in Instances : owner[j] = None
PROOF
BY Zenon DEF Listener!CreateInstance, Listener!Exists

(* A server that listens or works with a stream has its instance.          *)
LEMMA ListenerHeld ==
  ASSUME Listener!Parameters, Listener!IInv, NEW s \in Servers
  PROVE  /\ pending[s] # None => pending[s] \in Instances /\ owner[pending[s]] = s
         /\ \A i \in streams[s] : i \in Instances /\ owner[i] = s
PROOF
<1> USE DEF Listener!IInv, Listener!TypeOK
<1>1. pending[s] \in Instances \cup {None} /\ streams[s] \in SUBSET Instances OBVIOUS
<1>2. \A i \in Instances : (owner[i] = s <=> (pending[s] = i \/ i \in streams[s]))
  BY Zenon DEF Listener!NamesOwned, Listener!EachHeldOnce
<1>3. QED BY ONLY <1>1, <1>2

LEMMA ListenerTypeNext ==
  ASSUME Listener!Parameters, Listener!TypeOK, Listener!Next
  PROVE  Listener!TypeOK'
PROOF
<1> USE DEF Listener!Parameters, Listener!TypeOK
<1>1. ASSUME NEW s \in Servers, Listener!Bind(s) PROVE Listener!TypeOK'
  <2>1. PICK i \in Listener!CreateInstance(s, TRUE) :
          owner' = [owner EXCEPT ![i] = s] /\ pending' = [pending EXCEPT ![s] = i]
    BY <1>1 DEF Listener!Bind
  <2>2. i \in Instances BY ListenerCreates
  <2>3. QED BY <1>1, <2>1, <2>2 DEF Listener!Bind
<1>2. ASSUME NEW s \in Servers, Listener!Accept(s) PROVE Listener!TypeOK'
  <2>1. PICK i \in Listener!CreateInstance(s, FALSE) :
          owner' = [owner EXCEPT ![i] = s] /\ pending' = [pending EXCEPT ![s] = i]
    BY <1>2 DEF Listener!Accept
  <2>2. i \in Instances BY ListenerCreates
  <2>3. pending[s] \in Instances BY <1>2 DEF Listener!Accept
  <2>4. streams' \in [Servers -> SUBSET Instances]
    BY <1>2, <2>3 DEF Listener!Accept
  <2>5. QED BY <1>2, <2>1, <2>2, <2>4 DEF Listener!Accept
<1>3. ASSUME NEW s \in Servers, NEW i \in Instances, Listener!CloseStream(s, i)
      PROVE  Listener!TypeOK'
  BY <1>3 DEF Listener!CloseStream
<1>4. ASSUME NEW s \in Servers, Listener!CloseListener(s) PROVE Listener!TypeOK'
  BY <1>4 DEF Listener!CloseListener
<1>5. ASSUME NEW s \in Servers, Listener!Crash(s) PROVE Listener!TypeOK'
  BY <1>5 DEF Listener!Crash
<1>6. ASSUME NEW c \in PipeClients,
             Listener!Connect(c) \/ Listener!NotFound(c) \/ Listener!Leave(c)
      PROVE  Listener!TypeOK'
  BY <1>6 DEF Listener!Connect, Listener!NotFound, Listener!Leave
<1>7. ASSUME NEW c \in PipeClients, Listener!Open(c) PROVE Listener!TypeOK'
  <2>1. PICK i \in Listener!Exists :
          /\ user[i] = None /\ user' = [user EXCEPT ![i] = c]
          /\ pipe_client' =
               [pipe_client EXCEPT ![c] = IF owner[i] \in Trusted THEN "open" ELSE "rejected"]
    BY <1>7 DEF Listener!Open
  <2>2. i \in Instances BY DEF Listener!Exists
  <2>3. QED BY <1>7, <2>1, <2>2 DEF Listener!Open
<1>8. ASSUME NEW c \in PipeClients, Listener!Retry(c) PROVE Listener!TypeOK'
  BY <1>8 DEF Listener!Retry
<1>9. QED BY <1>1, <1>2, <1>3, <1>4, <1>5, <1>6, <1>7, <1>8 DEF Listener!Next

(* The first instance is created while there is none, every other by the   *)
(* server that has one.                                                    *)
LEMMA ListenerOneServerNext ==
  ASSUME Listener!Parameters, Listener!IInv, Listener!Next
  PROVE  Listener!OneServer'
PROOF
<1> DEFINE Own == \A i,
j \in Instances : owner[i] # None /\ owner[j] # None => owner[i] = owner[j]
<1>1. Own BY DEF Listener!IInv, Listener!NamesOwned, Listener!OneServer, Listener!Exists
<1> SUFFICES Own' BY Zenon DEF Listener!OneServer, Listener!Exists
<1> USE DEF Listener!Parameters
<1>t. owner \in [Instances -> Servers \cup {None}] BY DEF Listener!IInv, Listener!TypeOK
<1>2. ASSUME NEW s \in Servers, Listener!Bind(s) PROVE Own'
  <2>1. PICK i \in Listener!CreateInstance(s, TRUE) : owner' = [owner EXCEPT ![i] = s]
    BY <1>2 DEF Listener!Bind
  <2>2. i \in Instances /\ \A j \in Instances : owner[j] = None BY ListenerCreates
  <2>3. QED BY <2>1, <2>2, <1>t
<1>3. ASSUME NEW s \in Servers, Listener!Accept(s) PROVE Own'
  <2>1. PICK i \in Listener!CreateInstance(s, FALSE) : owner' = [owner EXCEPT ![i] = s]
    BY <1>3 DEF Listener!Accept
  <2>2. i \in Instances BY ListenerCreates
  <2>3. PICK k \in Instances : owner[k] = s BY <1>3, ListenerHeld DEF Listener!Accept
  <2>4. QED BY <1>1, <2>1, <2>2, <2>3, <1>t
<1>4. ASSUME NEW s \in Servers, NEW i \in Instances, Listener!CloseStream(s, i) PROVE Own'
  BY <1>1, <1>4, <1>t DEF Listener!CloseStream
<1>5. ASSUME NEW s \in Servers, Listener!CloseListener(s) PROVE Own'
  <2>1. pending[s] \in Instances BY <1>5, ListenerHeld DEF Listener!CloseListener
  <2>2. QED BY <1>1, <1>5, <2>1, <1>t DEF Listener!CloseListener
<1>6. ASSUME NEW s \in Servers, Listener!Crash(s) PROVE Own'
  BY <1>1, <1>6, <1>t DEF Listener!Crash
<1>7. CASE UNCHANGED owner BY <1>1, <1>7
<1>8. QED
  BY <1>2, <1>3, <1>4, <1>5, <1>6, <1>7 DEF Listener!Next, Listener!Connect, Listener!Open,
                                            Listener!NotFound,
     Listener!Leave, Listener!Retry

(* Accept puts a new instance in the place of the one it hands on.         *)
LEMMA ListenerHeldOnceNext ==
  ASSUME Listener!Parameters, Listener!IInv, Listener!Next
  PROVE  Listener!EachHeldOnce'
PROOF
<1> DEFINE Once(j, t) ==
      /\ owner[j] = t <=> (pending[t] = j \/ j \in streams[t])
      /\ ~(pending[t] = j /\ j \in streams[t])
      /\ j \in streams[t] => user[j] # None
<1>1. \A j \in Instances, t \in Servers : Once(j, t)
  BY Zenon DEF Listener!IInv, Listener!NamesOwned, Listener!EachHeldOnce
<1> SUFFICES ASSUME NEW j \in Instances, NEW t \in Servers PROVE Once(j, t)'
  BY Zenon DEF Listener!EachHeldOnce
<1>t. Listener!TypeOK BY DEF Listener!IInv
<1>n. None \notin Servers \cup PipeClients \cup Instances BY DEF Listener!Parameters
<1> USE DEF Listener!TypeOK
<1>2. ASSUME NEW s \in Servers, Listener!Bind(s) PROVE Once(j, t)'
  <2>1. PICK i \in Listener!CreateInstance(s, TRUE) :
          owner' = [owner EXCEPT ![i] = s] /\ pending' = [pending EXCEPT ![s] = i]
    BY <1>2 DEF Listener!Bind
  <2>2. i \in Instances /\ owner[i] = None BY ListenerCreates
  <2>3. Once(i, s) /\ Once(i, t) /\ Once(j, s) /\ Once(j, t) BY <1>1, <2>2
  <2>4. /\ owner'[j] = IF j = i THEN s ELSE owner[j]
        /\ pending'[t] = IF t = s THEN i ELSE pending[t]
        /\ streams' = streams /\ user' = user
    BY <1>2, <2>1, <2>2, <1>t DEF Listener!Bind
  <2>5. s # None /\ t # None /\ i # None /\ j # None /\ pending[s] = None /\ streams[s] = {}
    BY <1>2, <1>n, <2>2 DEF Listener!Bind
  <2>6. CASE t = s BY ONLY <2>2, <2>3, <2>4, <2>5, <2>6
  <2>7. CASE t # s BY ONLY <2>2, <2>3, <2>4, <2>5, <2>7
  <2>8. QED BY <2>6, <2>7
<1>3. ASSUME NEW s \in Servers, Listener!Accept(s) PROVE Once(j, t)'
  <2>1. PICK i \in Listener!CreateInstance(s, FALSE) :
          owner' = [owner EXCEPT ![i] = s] /\ pending' = [pending EXCEPT ![s] = i]
    BY <1>3 DEF Listener!Accept
  <2>2. i \in Instances /\ owner[i] = None BY ListenerCreates
  <2>3. Once(i, s) /\ Once(i, t) /\ Once(j, s) /\ Once(j, t) BY <1>1, <2>2
  <2>4. QED BY ONLY <1>3, <2>1, <2>2, <2>3, <1>t, <1>n DEF Listener!Accept, Listener!TypeOK
<1>4. ASSUME NEW s \in Servers, NEW i \in Instances, Listener!CloseStream(s, i) PROVE Once(j, t)'
  <2>1. Once(i, s) /\ Once(i, t) /\ Once(j, s) /\ Once(j, t) BY <1>1
  <2>2. QED BY ONLY <1>4, <2>1, <1>t, <1>n DEF Listener!CloseStream, Listener!TypeOK
<1>5. ASSUME NEW s \in Servers, Listener!CloseListener(s) PROVE Once(j, t)'
  <2>1. PICK i \in Instances : i = pending[s] BY <1>5, <1>t DEF Listener!CloseListener
  <2>2. Once(i, s) /\ Once(i, t) /\ Once(j, s) /\ Once(j, t) BY <1>1
  <2>3. QED BY ONLY <1>5, <2>1, <2>2, <1>t, <1>n DEF Listener!CloseListener, Listener!TypeOK
<1>6. ASSUME NEW s \in Servers, Listener!Crash(s) PROVE Once(j, t)'
  <2>1. Once(j, s) /\ Once(j, t) BY <1>1
  <2>2. QED BY ONLY <1>6, <2>1, <1>t, <1>n DEF Listener!Crash, Listener!TypeOK
<1>7. ASSUME NEW c \in PipeClients,
             Listener!Connect(c) \/ Listener!NotFound(c) \/ Listener!Leave(c)
      PROVE  Once(j, t)'
  BY <1>1, <1>7 DEF Listener!Connect, Listener!NotFound, Listener!Leave
<1>8. ASSUME NEW c \in PipeClients, Listener!Open(c) PROVE Once(j, t)'
  <2>1. PICK i \in Listener!Exists : user' = [user EXCEPT ![i] = c] BY <1>8 DEF Listener!Open
  <2>2. Once(j, t) BY <1>1
  <2>3. QED BY ONLY <1>8, <2>1, <2>2, <1>t, <1>n DEF Listener!Open, Listener!TypeOK
<1>9. ASSUME NEW c \in PipeClients, Listener!Retry(c) PROVE Once(j, t)'
  <2>1. Once(j, t) BY <1>1
  <2>2. QED BY ONLY <1>9, <2>1, <1>t, <1>n DEF Listener!Retry, Listener!TypeOK
<1>10. QED BY <1>2, <1>3, <1>4, <1>5, <1>6, <1>7, <1>8, <1>9 DEF Listener!Next

(* Only a client that tries opens an instance, and stops to try.           *)
LEMMA ListenerFreshNext ==
  ASSUME Listener!Parameters, Listener!IInv, Listener!TypeOK', Listener!Next
  PROVE  Listener!Fresh'
PROOF
<1> USE DEF Listener!Parameters, Listener!TypeOK, Listener!IInv, Listener!NamesOwned,
            Listener!Fresh, Listener!CreateInstance, Listener!Exists
<1>1. ASSUME NEW s \in Servers, Listener!Bind(s) PROVE Listener!Fresh'
  BY <1>1 DEF Listener!Bind
<1>2. ASSUME NEW s \in Servers, Listener!Accept(s) PROVE Listener!Fresh'
  BY <1>2 DEF Listener!Accept
<1>3. ASSUME NEW s \in Servers, NEW i \in Instances, Listener!CloseStream(s, i)
      PROVE  Listener!Fresh'
  BY <1>3 DEF Listener!CloseStream
<1>4. ASSUME NEW s \in Servers, Listener!CloseListener(s) PROVE Listener!Fresh'
  BY <1>4 DEF Listener!CloseListener
<1>5. ASSUME NEW s \in Servers, Listener!Crash(s) PROVE Listener!Fresh'
  BY <1>5 DEF Listener!Crash
<1>6. ASSUME NEW c \in PipeClients,
             Listener!Connect(c) \/ Listener!NotFound(c) \/ Listener!Leave(c)
      PROVE  Listener!Fresh'
  BY <1>6 DEF Listener!Connect, Listener!NotFound, Listener!Leave
<1>7. ASSUME NEW c \in PipeClients, Listener!Open(c) PROVE Listener!Fresh'
  BY <1>7 DEF Listener!Open
<1>8. ASSUME NEW c \in PipeClients, Listener!Retry(c) PROVE Listener!Fresh'
  BY <1>8 DEF Listener!Retry
<1>9. QED BY <1>1, <1>2, <1>3, <1>4, <1>5, <1>6, <1>7, <1>8 DEF Listener!Next

(* An instance a client has opened does not pass to another server.        *)
LEMMA ListenerVerifiedNext ==
  ASSUME Listener!Parameters, Listener!IInv, Listener!TypeOK', Listener!Next
  PROVE  Listener!VerifiedPeer'
PROOF
<1> USE DEF Listener!Parameters, Listener!TypeOK, Listener!IInv, Listener!NamesOwned,
            Listener!VerifiedPeer,
           Listener!Fresh, Listener!CreateInstance, Listener!Exists
<1>1. ASSUME NEW s \in Servers, Listener!Bind(s) PROVE Listener!VerifiedPeer'
  BY <1>1 DEF Listener!Bind
<1>2. ASSUME NEW s \in Servers, Listener!Accept(s) PROVE Listener!VerifiedPeer'
  <2>1. PICK i \in Listener!CreateInstance(s, FALSE) : owner' = [owner EXCEPT ![i] = s]
    BY <1>2 DEF Listener!Accept
  <2>2. i \in Instances /\ user[i] = None BY ListenerCreates
  <2>3. /\ user' = user /\ pipe_client' = pipe_client
        /\ \A j \in Instances : j # i => owner'[j] = owner[j]
    BY <1>2, <2>1 DEF Listener!Accept
  <2>4. SUFFICES ASSUME NEW c \in PipeClients, pipe_client[c] = "open",
                        NEW j \in Listener!Exists', user[j] = c
                 PROVE  owner'[j] \in Trusted
    BY <2>3, Zenon DEF Listener!VerifiedPeer
  <2>5. j \in Instances /\ owner'[j] # None BY DEF Listener!Exists
  <2>6. j # i BY <2>2, <2>4
  <2>7. QED BY <2>3, <2>4, <2>5, <2>6
<1>3. ASSUME NEW s \in Servers, NEW i \in Instances, Listener!CloseStream(s, i)
      PROVE  Listener!VerifiedPeer'
  BY <1>3 DEF Listener!CloseStream
<1>4. ASSUME NEW s \in Servers, Listener!CloseListener(s) PROVE Listener!VerifiedPeer'
  BY <1>4 DEF Listener!CloseListener
<1>5. ASSUME NEW s \in Servers, Listener!Crash(s) PROVE Listener!VerifiedPeer'
  BY <1>5 DEF Listener!Crash
<1>6. ASSUME NEW c \in PipeClients,
             Listener!Connect(c) \/ Listener!NotFound(c) \/ Listener!Leave(c)
      PROVE  Listener!VerifiedPeer'
  BY <1>6 DEF Listener!Connect, Listener!NotFound, Listener!Leave
<1>7. ASSUME NEW c \in PipeClients, Listener!Open(c) PROVE Listener!VerifiedPeer'
  BY <1>7 DEF Listener!Open
<1>8. ASSUME NEW c \in PipeClients, Listener!Retry(c) PROVE Listener!VerifiedPeer'
  BY <1>8 DEF Listener!Retry
<1>9. QED BY <1>1, <1>2, <1>3, <1>4, <1>5, <1>6, <1>7, <1>8 DEF Listener!Next

(* IInv is an invariant, for any servers, clients and instances.           *)
THEOREM ListenerIInvHolds ==
  ASSUME Listener!Parameters
  PROVE  Listener!Spec => []Listener!IInv
PROOF
<1> USE DEF Listener!IInv, Listener!NamesOwned, Listener!TypeOK, Listener!OneServer,
            Listener!EachHeldOnce,
            Listener!VerifiedPeer, Listener!Fresh, Listener!Exists
<1>1. Listener!Init => Listener!IInv
  BY DEF Listener!Parameters, Listener!Init
<1>2. Listener!IInv /\ [Listener!Next]_Listener!vars => Listener!IInv'
  <2>1. CASE Listener!Next
    BY <2>1, ListenerTypeNext, ListenerOneServerNext, ListenerHeldOnceNext, ListenerFreshNext,
       ListenerVerifiedNext, Zenon DEF Listener!IInv, Listener!NamesOwned
  <2>2. CASE UNCHANGED Listener!vars
    BY <2>2 DEF Listener!vars
  <2>3. QED BY <2>1, <2>2
<1>3. QED BY <1>1, <1>2, PTL DEF Listener!Spec

(* While a server listens or serves, no client is told that the pipe does  *)
(* not exist.                                                              *)
LEMMA ListenerNamesKept ==
  ASSUME Listener!Parameters
  PROVE  Listener!Spec => Listener!NamesKept
PROOF
<1> DEFINE Found == \A c \in PipeClients :
                      pipe_client[c] = "trying" /\ pipe_client'[c] = "not found" =>
                        \A s \in Servers : pending[s] = None /\ streams[s] = {}
<1>1. Listener!IInv /\ [Listener!Next]_Listener!vars => [Found]_Listener!vars
  <2>1. SUFFICES ASSUME Listener!IInv, Listener!Next, NEW c \in PipeClients,
                        pipe_client[c] = "trying", pipe_client'[c] = "not found"
                 PROVE  \A s \in Servers : pending[s] = None /\ streams[s] = {}
    OBVIOUS
  <2>2. Listener!Exists = {}
    BY <2>1 DEF Listener!Next, Listener!Bind, Listener!Accept, Listener!CloseStream,
                Listener!CloseListener,
       Listener!Crash, Listener!Connect, Listener!Open, Listener!NotFound, Listener!Leave,
       Listener!Retry,
       Listener!IInv, Listener!TypeOK
  <2>3. \A i \in Instances : owner[i] = None BY <2>2 DEF Listener!Exists
  <2>4. TAKE s \in Servers
  <2>5. s # None BY DEF Listener!Parameters
  <2>6. pending[s] = None BY <2>1, <2>3, <2>5, ListenerHeld
  <2>7. \A i \in streams[s] : FALSE BY <2>1, <2>3, <2>5, ListenerHeld
  <2>8. QED BY <2>6, <2>7
<1>2. QED BY <1>1, ListenerIInvHolds, PTL DEF Listener!Spec, Listener!NamesKept,
                                              Listener!FoundWhileListening

-----------------------------------------------------------------------------
(* The listeners of both kinds.                                            *)

(* A Unix listener that is neither dropped nor crashed has its path, and   *)
(* the guard of one that is dropped removes nothing but its own socket.  A *)
(* pipe belongs to one server, an instance to its listener or to one of    *)
(* its streams, and the client of a stream has verified the process.       *)
THEOREM NamesAreOwned ==
  ASSUME Unix!Parameters, Unix!OneAtATime, Listener!Parameters
  PROVE  Unix!Spec /\ Listener!Spec => []NamesOwned
PROOF
<1>1. Unix!IInv => Unix!Orderly /\ Unix!NamesOwned
  BY DEF Unix!IInv, Unix!Orderly, Unix!Holds, Unix!Listens, Unix!Bound, Unix!NamesOwned,
     Unix!Reachable, Unix!UnlinksOwn
<1>2. Listener!IInv => Listener!NamesOwned BY DEF Listener!IInv
<1>3. QED BY <1>1, <1>2, UnixIInvHolds, ListenerIInvHolds, PTL DEF NamesOwned

(* A file that is not a socket stays at the path, the path of a socket     *)
(* that listens is removed by its own process only, and while a server     *)
(* listens or serves, no client is told that the pipe does not exist.      *)
THEOREM NamesAreKept ==
  ASSUME Unix!Parameters, Unix!OneAtATime, Listener!Parameters
  PROVE  Unix!Spec /\ Listener!Spec => NamesKept
PROOF
BY UnixNamesKept, ListenerNamesKept, PTL DEF NamesKept

-----------------------------------------------------------------------------
(* The other end: how a client reads a stream.                             *)

(* What is read is the next line; it is kept unless it is to be parsed and *)
(* does not parse.                                                         *)
LEMMA ReaderTake ==
  ASSUME Reader!Parameters, Reader!IInv, Reader!Take \/ Reader!Enough
  PROVE  /\ taken + 1 \in 1..Len(lines) /\ taken' = taken + 1
         /\ at = "read" /\ lines[taken + 1] \in {"good", "blank", "junk"}
         /\ got' = IF Reader!Wanted(taken + 1) THEN Append(got, lines[taken + 1]) ELSE got
         /\ lines' = lines /\ link' = link /\ way' = way /\ tries' = tries /\ clock' = clock
PROOF
<1>1. /\ lines \in Seq({"good", "blank", "junk", "garbled"}) /\ taken \in 0..Len(lines)
      /\ Len(lines) \in Nat
  BY LenProperties DEF Reader!IInv, Reader!TypeOK
<1>2. CASE Reader!Take
  <2>1. taken < Len(lines) /\ lines[taken + 1] # "garbled" /\ taken' = taken + 1
    BY <1>2 DEF Reader!Take
  <2>2. taken + 1 \in 1..Len(lines) BY <1>1, <2>1
  <2>3. lines[taken + 1] \in {"good", "blank", "junk", "garbled"}
    BY <1>1, <2>2, ElementOfSeq
  <2>4. QED BY <1>2, <2>1, <2>2, <2>3 DEF Reader!Take, Reader!Wanted
<1>3. CASE Reader!Enough
  <2>1. taken < Len(lines) /\ lines[taken + 1] # "garbled" /\ taken' = taken + 1
    BY <1>3 DEF Reader!Enough
  <2>2. taken + 1 \in 1..Len(lines) BY <1>1, <2>1
  <2>3. lines[taken + 1] \in {"good", "blank", "junk", "garbled"}
    BY <1>1, <2>2, ElementOfSeq
  <2>4. way \notin Reader!Json BY <1>3 DEF Reader!Enough, Reader!Json
  <2>5. QED BY <1>3, <2>1, <2>2, <2>3, <2>4 DEF Reader!Enough, Reader!Wanted
<1>4. QED BY <1>2, <1>3

(* Of the lines that have been yielded, those that are wanted are kept, in *)
(* their order: one more line is kept behind the others or not at all.     *)
LEMMA ReaderKeeps ==
  ASSUME Reader!Parameters, Reader!IInv, Reader!Take \/ Reader!Enough
  PROVE  /\ got' \in Seq({"good", "blank", "junk"})
         /\ Reader!NothingSkipped'
         /\ Reader!Yielded'
PROOF
<1>1. /\ taken + 1 \in 1..Len(lines) /\ taken' = taken + 1 /\ at = "read"
      /\ lines[taken + 1] \in {"good", "blank", "junk"}
      /\ got' = IF Reader!Wanted(taken + 1) THEN Append(got, lines[taken + 1]) ELSE got
      /\ lines' = lines /\ way' = way
  BY ReaderTake
<1>2. /\ got \in Seq({"good", "blank", "junk"}) /\ taken \in Nat
      /\ Len(got) \in Nat /\ DOMAIN got = 1..Len(got) /\ cause' # "end"
  <2>1. cause = "none" BY <1>1 DEF Reader!IInv, Reader!Running
  <2>2. cause' # "end" BY <2>1 DEF Reader!Take, Reader!Enough, Reader!Over
  <2>3. /\ got \in Seq({"good", "blank", "junk"}) /\ taken \in 0..Len(lines)
        /\ lines \in Seq({"good", "blank", "junk", "garbled"})
    BY DEF Reader!IInv, Reader!TypeOK
  <2>4. QED BY <2>2, <2>3, LenProperties
<1>3. \A k \in 1..(taken + 1) : Reader!Wanted(k)' <=> Reader!Wanted(k)
  BY <1>1 DEF Reader!Wanted
<1>4. PICK place \in [DOMAIN got -> 1..taken] : Reader!KeptFrom(place)
  BY DEF Reader!IInv, Reader!LinesRead, Reader!NothingSkipped
<1>5. /\ place \in [1..Len(got) -> 1..taken]
      /\ \A i, j \in 1..Len(got) : i < j => place[i] < place[j]
      /\ \A i \in 1..Len(got) : got[i] = lines[place[i]]
      /\ {place[i] : i \in 1..Len(got)} = {k \in 1..taken : Reader!Wanted(k)}
  BY <1>2, <1>4 DEF Reader!KeptFrom
<1>6. \A k \in 1..taken : Reader!Wanted(k) <=> \E i \in 1..Len(got) : place[i] = k
  BY <1>5
<1>7. /\ \A k \in 1..taken : lines[k] # "garbled"
      /\ way \notin Reader!Json => Len(got) = taken /\ \A k \in 1..taken : got[k] = lines[k]
  BY DEF Reader!IInv, Reader!Yielded
<1>8. ASSUME NEW k \in 1..(taken + 1) PROVE lines[k] # "garbled"
  <2>1. CASE k = taken + 1 BY <1>1, <2>1
  <2>2. CASE k # taken + 1
    <3>1. k \in 1..taken BY <1>2, <2>2
    <3>2. QED BY <1>7, <3>1
  <2>3. QED BY <2>1, <2>2
<1>9. CASE ~ Reader!Wanted(taken + 1)
  <2>1. got' = got BY <1>1, <1>9
  <2>2. place \in [DOMAIN got' -> 1..taken']
    <3>1. place \in [1..Len(got) -> 1..(taken + 1)] BY <1>2, <1>5
    <3>2. QED BY <1>1, <1>2, <2>1, <3>1
  <2>3. \A k \in 1..(taken + 1) : Reader!Wanted(k)' <=> k \in 1..taken /\ Reader!Wanted(k)
    BY <1>2, <1>3, <1>9
  <2>4. {place[i] : i \in 1..Len(got)} = {k \in 1..(taken + 1) : Reader!Wanted(k)'}
    BY <1>2, <1>5, <2>3
  <2>5. Reader!KeptFrom(place)'
    <3>1. \A i, j \in DOMAIN got' : i < j => place[i] < place[j] BY <1>2, <1>5, <2>1
    <3>2. \A i \in DOMAIN got' : got'[i] = lines'[place[i]] BY <1>1, <1>2, <1>5, <2>1
    <3>3. {place[i] : i \in DOMAIN got'} = {k \in 1..taken' : Reader!Wanted(k)'}
      BY <1>1, <1>2, <2>1, <2>4
    <3>4. QED BY <3>1, <3>2, <3>3 DEF Reader!KeptFrom
  <2>6. Reader!NothingSkipped'
    BY <1>2, <2>2, <2>5 DEF Reader!NothingSkipped
  <2>7. way \in Reader!Json BY <1>9 DEF Reader!Wanted
  <2>8. Reader!Yielded'
    <3>1. \A k \in 1..(taken + 1) : lines[k] # "garbled" BY <1>8
    <3>2. way' \in Reader!Json BY <1>1, <2>7
    <3>3. QED BY <1>1, <3>1, <3>2 DEF Reader!Yielded
  <2>9. QED BY <1>2, <2>1, <2>6, <2>8
<1>10. CASE Reader!Wanted(taken + 1)
  <2>1. /\ got' \in Seq({"good", "blank", "junk"}) /\ Len(got') = Len(got) + 1
        /\ DOMAIN got' = 1..(Len(got) + 1)
        /\ \A i \in 1..Len(got) : got'[i] = got[i]
        /\ got'[Len(got) + 1] = lines[taken + 1]
    BY <1>1, <1>2, <1>10, AppendProperties, LenProperties
  <2>2. PICK to : to = [i \in 1..(Len(got) + 1) |-> IF i <= Len(got) THEN place[i] ELSE taken + 1]
    OBVIOUS
  <2>3. /\ to \in [1..(Len(got) + 1) -> 1..(taken + 1)]
        /\ \A i \in 1..Len(got) : to[i] = place[i] /\ place[i] \in 1..taken
        /\ to[Len(got) + 1] = taken + 1
    BY <1>2, <1>5, <2>2
  <2>4. ASSUME NEW i \in 1..(Len(got) + 1), NEW j \in 1..(Len(got) + 1), i < j
        PROVE  to[i] < to[j]
    <3>1. i \in 1..Len(got) BY <1>2, <2>4
    <3>2. CASE j = Len(got) + 1
      <4>1. to[i] \in 1..taken /\ to[j] = taken + 1 BY <2>3, <3>1, <3>2
      <4>2. QED BY <1>2, <4>1
    <3>3. CASE j # Len(got) + 1
      <4>1. j \in 1..Len(got) BY <1>2, <3>3
      <4>2. QED BY <1>5, <2>3, <2>4, <3>1, <4>1
    <3>4. QED BY <3>2, <3>3
  <2>5. \A i \in 1..(Len(got) + 1) : got'[i] = lines[to[i]]
    BY <1>2, <1>5, <2>1, <2>3
  <2>6. {to[i] : i \in 1..(Len(got) + 1)} = {k \in 1..(taken + 1) : Reader!Wanted(k)'}
    <3>1. ASSUME NEW i \in 1..(Len(got) + 1)
          PROVE  to[i] \in 1..(taken + 1) /\ Reader!Wanted(to[i])
      <4>1. CASE i \in 1..Len(got) BY <1>2, <1>6, <2>3, <4>1
      <4>2. CASE i = Len(got) + 1 BY <1>2, <1>10, <2>3, <4>2
      <4>3. QED BY <1>2, <4>1, <4>2
    <3>2. ASSUME NEW k \in 1..(taken + 1), Reader!Wanted(k)
          PROVE  \E i \in 1..(Len(got) + 1) : to[i] = k
      <4>1. CASE k = taken + 1 BY <1>2, <2>3, <4>1
      <4>2. CASE k # taken + 1
        <5>1. k \in 1..taken BY <1>2, <4>2
        <5>2. PICK i \in 1..Len(got) : place[i] = k BY <1>6, <3>2, <5>1
        <5>3. QED BY <1>2, <2>3, <5>2
      <4>3. QED BY <4>1, <4>2
    <3>3. QED BY <1>3, <3>1, <3>2
  <2>7. Reader!KeptFrom(to)'
    <3>1. \A i, j \in DOMAIN got' : i < j => to[i] < to[j] BY <2>1, <2>4
    <3>2. \A i \in DOMAIN got' : got'[i] = lines'[to[i]] BY <1>1, <2>1, <2>5
    <3>3. {to[i] : i \in DOMAIN got'} = {k \in 1..taken' : Reader!Wanted(k)'}
      BY <1>1, <2>1, <2>6
    <3>4. QED BY <3>1, <3>2, <3>3 DEF Reader!KeptFrom
  <2>8. Reader!NothingSkipped'
    <3>1. to \in [DOMAIN got' -> 1..taken'] BY <1>1, <2>1, <2>3
    <3>2. QED BY <1>2, <2>7, <3>1 DEF Reader!NothingSkipped
  <2>9. Reader!Yielded'
    <3>1. \A k \in 1..(taken + 1) : lines[k] # "garbled" BY <1>8
    <3>2. ASSUME way \notin Reader!Json
          PROVE  Len(got') = taken + 1 /\ \A k \in 1..(taken + 1) : got'[k] = lines[k]
      BY <1>2, <1>7, <2>1, <3>2
    <3>3. QED BY <1>1, <3>1, <3>2 DEF Reader!Yielded
  <2>10. QED BY <2>1, <2>8, <2>9
<1>11. QED BY <1>9, <1>10

(* A step that yields no line keeps what has been yielded.                 *)
LEMMA ReaderStays ==
  ASSUME Reader!Parameters, Reader!IInv,
         got' = got, taken' = taken, way' = way,
         \A k \in 1..taken : lines'[k] = lines[k]
  PROVE  /\ \E place \in [DOMAIN got' -> 1..taken'] : Reader!KeptFrom(place)'
         /\ Reader!Yielded'
PROOF
<1>1. PICK place \in [DOMAIN got -> 1..taken] : Reader!KeptFrom(place)
  BY DEF Reader!IInv, Reader!LinesRead, Reader!NothingSkipped
<1>2. place \in [DOMAIN got' -> 1..taken'] OBVIOUS
<1>3. \A k \in 1..taken : Reader!Wanted(k)' <=> Reader!Wanted(k)
  BY DEF Reader!Wanted
<1>4. Reader!KeptFrom(place)'
  <2>1. \A i, j \in DOMAIN got' : i < j => place[i] < place[j]
    BY <1>1 DEF Reader!KeptFrom
  <2>2. \A i \in DOMAIN got' : got'[i] = lines'[place[i]]
    BY <1>1 DEF Reader!KeptFrom
  <2>3. {place[i] : i \in DOMAIN got'} = {k \in 1..taken' : Reader!Wanted(k)'}
    BY <1>1, <1>3 DEF Reader!KeptFrom
  <2>4. QED BY <2>1, <2>2, <2>3 DEF Reader!KeptFrom
<1>5. Reader!Yielded'
  <2>1. \A k \in 1..taken : lines'[k] # "garbled" BY DEF Reader!IInv, Reader!Yielded
  <2>2. way \notin Reader!Json => Len(got) = taken /\ \A k \in 1..taken : got[k] = lines'[k]
    BY DEF Reader!IInv, Reader!Yielded
  <2>3. QED BY <2>1, <2>2 DEF Reader!Yielded
<1>6. QED BY <1>2, <1>4, <1>5

(* A call that is over takes no step.                                      *)
LEMMA ReaderOver ==
  ASSUME Reader!Parameters, Reader!IInv, Reader!Next
  PROVE  at # "done" /\ cause = "none"
PROOF
<1>1. at # "done"
  BY DEF Reader!Next, Reader!Connect, Reader!NoAttempt, Reader!Slept, Reader!RequestTimeout,
         Reader!Headers, Reader!Take, Reader!Enough, Reader!StreamEnds, Reader!TimeUp,
         Reader!Tick, Reader!Send, Reader!End
<1>2. QED BY <1>1 DEF Reader!IInv, Reader!Running

(* The types, where nothing is yielded and nothing sent.                   *)
LEMMA ReaderTypes ==
  ASSUME Reader!Parameters, Reader!IInv,
         \/ Reader!Connect \/ Reader!NoAttempt \/ Reader!Slept \/ Reader!RequestTimeout
         \/ Reader!Headers \/ Reader!StreamEnds \/ Reader!TimeUp \/ Reader!Tick
         \/ \E how \in {"eof", "broken"} : Reader!End(how)
  PROVE  /\ Reader!TypeOK'
         /\ got' = got /\ taken' = taken /\ way' = way /\ lines' = lines
PROOF
<1>1. /\ MaxRetries \in Nat /\ MaxTime \in Nat
      /\ tries \in 0..MaxRetries /\ clock \in 0..MaxTime
  BY DEF Reader!Parameters, Reader!IInv, Reader!TypeOK
<1>2. Reader!Connect => tries' \in 0..MaxRetries
  <2>1. Reader!Connect => tries < MaxRetries /\ tries' = tries + 1
    BY DEF Reader!Connect
  <2>2. QED BY <1>1, <2>1
<1>3. Reader!Tick => clock' \in 0..MaxTime
  BY <1>1 DEF Reader!Tick
<1> USE DEF Reader!IInv, Reader!TypeOK
<1>4. CASE Reader!Connect
  <2>1. cause' \in {cause, "not connected"} /\ since' \in {clock, since}
        /\ at' \in {"headers", "sleep", "done"}
    BY <1>4 DEF Reader!Connect, Reader!Over
  <2>2. UNCHANGED <<way, lines, link, taken, got, clock, last>>
    BY <1>4 DEF Reader!Connect
  <2>3. QED BY <1>4, <1>2, <2>1, <2>2
<1>5. CASE Reader!NoAttempt BY <1>5 DEF Reader!NoAttempt, Reader!Over
<1>6. CASE Reader!Slept BY <1>6 DEF Reader!Slept
<1>7. CASE Reader!RequestTimeout BY <1>7 DEF Reader!RequestTimeout, Reader!Over
<1>8. CASE Reader!Headers BY <1>8 DEF Reader!Headers, Reader!Over
<1>9. CASE Reader!StreamEnds BY <1>9 DEF Reader!StreamEnds, Reader!Over
<1>10. CASE Reader!TimeUp BY <1>10 DEF Reader!TimeUp, Reader!Over
<1>11. CASE Reader!Tick
  <2>1. clock' \in 0..MaxTime BY <1>11, <1>3
  <2>2. UNCHANGED <<way, at, tries, lines, link, taken, got, since, last, cause>>
    BY <1>11 DEF Reader!Tick
  <2>3. QED BY <2>1, <2>2
<1>12. CASE \E how \in {"eof", "broken"} : Reader!End(how) BY <1>12 DEF Reader!End
<1>13. QED BY <1>4, <1>5, <1>6, <1>7, <1>8, <1>9, <1>10, <1>11, <1>12

(* What the end of a call says of it, and the timer of one that reads.     *)
LEMMA ReaderEnds ==
  ASSUME Reader!Parameters, Reader!IInv, Reader!Next
  PROVE  Reader!Running' /\ Reader!OnlyIdleTimesOut'
PROOF
<1>1. at # "done" /\ cause = "none" BY ReaderOver
<1>2. at = "read" /\ way \in Reader!Idle => since = last
  BY DEF Reader!IInv, Reader!Running
<1>3. CASE Reader!TimeUp
  <2>1. /\ at = "read" /\ way \in Reader!Timed /\ clock - since >= Reader!Limit
        /\ at' = "done" /\ cause' = "time" /\ way' = way /\ clock' = clock /\ last' = last
    BY <1>3 DEF Reader!TimeUp, Reader!Over
  <2>2. way \in Reader!Idle =>
          Reader!Limit = Reader!Smaller(Timeout, IF way = "text_timeout" THEN TextCap ELSE LinesCap)
    BY DEF Reader!Limit, Reader!Idle
  <2>3. way \in Reader!Idle =>
          clock - last >= Reader!Smaller(Timeout, IF way = "text_timeout" THEN TextCap ELSE LinesCap)
    BY <1>2, <2>1, <2>2
  <2>4. QED BY <2>1, <2>3 DEF Reader!Running, Reader!OnlyIdleTimesOut
<1>4. CASE ~ Reader!TimeUp
  <2>1. cause' # "time" /\ way' = way
    BY <1>1, <1>4
       DEF Reader!Next, Reader!Connect, Reader!NoAttempt, Reader!Slept, Reader!RequestTimeout,
           Reader!Headers, Reader!Take, Reader!Enough, Reader!StreamEnds, Reader!Tick,
           Reader!Send, Reader!End, Reader!Over
  <2>2. at' = "done" <=> cause' # "none"
    BY <1>1, <1>4
       DEF Reader!Next, Reader!Connect, Reader!NoAttempt, Reader!Slept, Reader!RequestTimeout,
           Reader!Headers, Reader!Take, Reader!Enough, Reader!StreamEnds, Reader!Tick,
           Reader!Send, Reader!End, Reader!Over
  <2>3. cause' = "stop" => way = "lines_timeout"
    BY <1>1, <1>4
       DEF Reader!Next, Reader!Connect, Reader!NoAttempt, Reader!Slept, Reader!RequestTimeout,
           Reader!Headers, Reader!Take, Reader!Enough, Reader!StreamEnds, Reader!Tick,
           Reader!Send, Reader!End, Reader!Over
  <2>4. at' = "read" /\ way \in Reader!Idle => since' = last'
    BY <1>2, <1>4
       DEF Reader!Next, Reader!Connect, Reader!NoAttempt, Reader!Slept, Reader!RequestTimeout,
           Reader!Headers, Reader!Take, Reader!Enough, Reader!StreamEnds, Reader!Tick,
           Reader!Send, Reader!End, Reader!Over
  <2>5. QED BY <2>1, <2>2, <2>3, <2>4 DEF Reader!Running, Reader!OnlyIdleTimesOut
<1>5. QED BY <1>3, <1>4

(* A reading that succeeds without a timer has come to the end.            *)
LEMMA ReaderWhole ==
  ASSUME Reader!Parameters, Reader!IInv, Reader!Next, Reader!Running'
  PROVE  Reader!WholeStream'
PROOF
<1>1. at # "done" /\ cause = "none" /\ way' = way
  <2>1. way' = way
    BY DEF Reader!Next, Reader!Connect, Reader!NoAttempt, Reader!Slept, Reader!RequestTimeout,
           Reader!Headers, Reader!Take, Reader!Enough, Reader!StreamEnds, Reader!TimeUp,
           Reader!Tick, Reader!Send, Reader!End
  <2>2. QED BY <2>1, ReaderOver
<1>2. SUFFICES ASSUME way \in {"lines", "text"}, cause' = "end"
               PROVE  /\ link' = "eof" /\ got' = lines'
                      /\ \A i \in 1..Len(lines') : lines'[i] # "garbled"
  BY <1>1 DEF Reader!WholeStream, Reader!Succeeds, Reader!Running, Reader!Timed, Reader!Idle,
              Reader!Json
<1>3. Reader!StreamEnds
  BY <1>1, <1>2
     DEF Reader!Next, Reader!Connect, Reader!NoAttempt, Reader!Slept, Reader!RequestTimeout,
         Reader!Headers, Reader!Take, Reader!Enough, Reader!TimeUp, Reader!Tick,
         Reader!Send, Reader!End, Reader!Over
<1>4. /\ taken = Len(lines) /\ link = "eof" /\ link' = link /\ got' = got /\ lines' = lines
  BY <1>2, <1>3 DEF Reader!StreamEnds, Reader!Over
<1>5. /\ Len(got) = Len(lines) /\ \A k \in 1..Len(lines) : got[k] = lines[k]
      /\ \A k \in 1..Len(lines) : lines[k] # "garbled"
  BY <1>2, <1>4 DEF Reader!IInv, Reader!Yielded, Reader!Json
<1>6. got = lines
  <2>1. /\ got \in Seq({"good", "blank", "junk", "garbled"})
        /\ lines \in Seq({"good", "blank", "junk", "garbled"})
    <3>1. got \in Seq({"good", "blank", "junk"}) BY DEF Reader!IInv, Reader!TypeOK
    <3>2. {"good", "blank", "junk"} \subseteq {"good", "blank", "junk", "garbled"} OBVIOUS
    <3>3. QED BY <3>1, <3>2, SeqMonotonic DEF Reader!IInv, Reader!TypeOK
  <2>2. QED BY <1>5, <2>1, SeqEqual
<1>7. QED BY <1>4, <1>5, <1>6

LEMMA ReaderStep ==
  ASSUME Reader!Parameters, Reader!IInv, Reader!Next
  PROVE  Reader!IInv'
PROOF
<1>1. Reader!Running' /\ Reader!OnlyIdleTimesOut' BY ReaderEnds
<1>2. Reader!WholeStream' BY <1>1, ReaderWhole
<1>3. at # "done" /\ cause = "none" BY ReaderOver
<1>4. CASE Reader!Take \/ Reader!Enough
  <2>1. got' \in Seq({"good", "blank", "junk"}) /\ Reader!NothingSkipped' /\ Reader!Yielded'
    BY <1>4, ReaderKeeps
  <2>2. /\ taken' \in 0..Len(lines) /\ lines' = lines /\ link' = link /\ way' = way
        /\ tries' = tries /\ clock' = clock /\ at = "read"
    BY <1>4, ReaderTake
  <2>3. /\ at' \in {"read", "done"} /\ {since', last'} \subseteq {clock, since, last}
        /\ cause' \in {"none", "stop", "handler error"}
    BY <1>3, <1>4, <2>2 DEF Reader!Take, Reader!Enough, Reader!Over
  <2>4. Reader!TypeOK'
    BY <2>1, <2>2, <2>3 DEF Reader!IInv, Reader!TypeOK
  <2>5. QED BY <1>1, <1>2, <2>1, <2>4 DEF Reader!IInv, Reader!LinesRead
<1>5. ASSUME NEW kind \in {"good", "blank", "junk", "garbled"}, Reader!Send(kind)
      PROVE  Reader!IInv'
  <2>1. /\ lines' = Append(lines, kind) /\ got' = got /\ taken' = taken /\ way' = way
        /\ UNCHANGED <<at, tries, link, clock, since, last, cause>>
    BY <1>5 DEF Reader!Send
  <2>2. /\ lines \in Seq({"good", "blank", "junk", "garbled"}) /\ taken \in 0..Len(lines)
    BY DEF Reader!IInv, Reader!TypeOK
  <2>3. /\ lines' \in Seq({"good", "blank", "junk", "garbled"}) /\ Len(lines') = Len(lines) + 1
        /\ \A k \in 1..Len(lines) : lines'[k] = lines[k]
        /\ Len(lines) \in Nat
    BY <2>1, <2>2, AppendProperties, LenProperties
  <2>4. \A k \in 1..taken : lines'[k] = lines[k] BY <2>2, <2>3
  <2>5. Reader!TypeOK'
    <3>1. taken' \in 0..Len(lines') BY <2>1, <2>2, <2>3
    <3>2. QED BY <2>1, <2>3, <3>1 DEF Reader!IInv, Reader!TypeOK
  <2>6. Reader!NothingSkipped' /\ Reader!Yielded'
    BY <1>3, <2>1, <2>4, ReaderStays DEF Reader!NothingSkipped
  <2>7. QED BY <1>1, <1>2, <2>5, <2>6 DEF Reader!IInv, Reader!LinesRead
<1>6. CASE \/ Reader!Connect \/ Reader!NoAttempt \/ Reader!Slept \/ Reader!RequestTimeout
           \/ Reader!Headers \/ Reader!StreamEnds \/ Reader!TimeUp \/ Reader!Tick
           \/ \E how \in {"eof", "broken"} : Reader!End(how)
  <2>1. Reader!TypeOK' /\ got' = got /\ taken' = taken /\ way' = way /\ lines' = lines
    BY <1>6, ReaderTypes
  <2>2. cause' = "end" => taken' = Len(lines') /\ link' = "eof"
    <3>1. SUFFICES ASSUME cause' = "end" PROVE taken = Len(lines) /\ link' = "eof"
      BY <2>1
    <3>2. Reader!StreamEnds
      BY <1>3, <1>6, <3>1
         DEF Reader!Connect, Reader!NoAttempt, Reader!Slept, Reader!RequestTimeout,
             Reader!Headers, Reader!TimeUp, Reader!Tick, Reader!End, Reader!Over
    <3>3. QED BY <3>1, <3>2 DEF Reader!StreamEnds, Reader!Over
  <2>3. Reader!NothingSkipped' /\ Reader!Yielded'
    BY <2>1, <2>2, ReaderStays DEF Reader!NothingSkipped
  <2>4. QED BY <1>1, <1>2, <2>1, <2>3 DEF Reader!IInv, Reader!LinesRead
<1>7. QED BY <1>4, <1>5, <1>6 DEF Reader!Next

(* The inductive invariant of the reading of a stream.                     *)
THEOREM ReaderIInvHolds ==
  ASSUME Reader!Parameters
  PROVE  Reader!Spec => []Reader!IInv
PROOF
<1>1. Reader!Init => Reader!IInv
  <2> SUFFICES ASSUME Reader!Init PROVE Reader!IInv
    OBVIOUS
  <2>1. /\ way \in Ways /\ at = "connect" /\ tries = 0 /\ lines = <<>> /\ link = "open"
        /\ taken = 0 /\ got = <<>> /\ clock = 0 /\ since = 0 /\ last = 0 /\ cause = "none"
        /\ MaxRetries \in Nat /\ MaxTime \in Nat
    BY DEF Reader!Init, Reader!Parameters
  <2>2. Len(<<>>) = 0 /\ DOMAIN <<>> = {} /\ \A S : <<>> \in Seq(S) BY EmptySeq
  <2>3. Reader!TypeOK BY <2>1, <2>2 DEF Reader!TypeOK
  <2>4. Reader!NothingSkipped
    <3>1. PICK place : place = [i \in {} |-> 1] OBVIOUS
    <3>2. place \in [DOMAIN got -> 1..taken] BY <2>1, <2>2, <3>1
    <3>3. Reader!KeptFrom(place) BY <2>1, <2>2 DEF Reader!KeptFrom
    <3>4. QED BY <2>1, <3>2, <3>3 DEF Reader!NothingSkipped
  <2>5. Reader!WholeStream /\ Reader!OnlyIdleTimesOut
    BY <2>1 DEF Reader!WholeStream, Reader!Succeeds, Reader!OnlyIdleTimesOut
  <2>6. Reader!Yielded BY <2>1, <2>2 DEF Reader!Yielded
  <2>7. Reader!Running BY <2>1 DEF Reader!Running
  <2>8. QED BY <2>3, <2>4, <2>5, <2>6, <2>7 DEF Reader!IInv, Reader!LinesRead
<1>2. Reader!IInv /\ [Reader!Next]_Reader!vars => Reader!IInv'
  <2>1. SUFFICES ASSUME Reader!IInv, [Reader!Next]_Reader!vars PROVE Reader!IInv'
    OBVIOUS
  <2>2. CASE Reader!Next BY <2>1, <2>2, ReaderStep
  <2>3. CASE UNCHANGED Reader!vars
    <3>1. UNCHANGED <<way, at, tries, lines, link, taken, got, clock, since, last, cause>>
      BY <2>3 DEF Reader!vars
    <3>2. Reader!TypeOK' BY <2>1, <3>1 DEF Reader!IInv, Reader!TypeOK
    <3>3. Reader!NothingSkipped' /\ Reader!Yielded'
      <4>1. cause' = "end" => taken' = Len(lines') /\ link' = "eof"
        BY <2>1, <3>1 DEF Reader!IInv, Reader!LinesRead, Reader!NothingSkipped
      <4>2. QED BY <2>1, <3>1, <4>1, ReaderStays DEF Reader!NothingSkipped
    <3>4. Reader!WholeStream' /\ Reader!OnlyIdleTimesOut' /\ Reader!Running'
      BY <2>1, <3>1 DEF Reader!IInv, Reader!LinesRead, Reader!WholeStream, Reader!Succeeds,
                        Reader!OnlyIdleTimesOut, Reader!Running
    <3>5. QED BY <3>2, <3>3, <3>4 DEF Reader!IInv, Reader!LinesRead
  <2>4. QED BY <2>1, <2>2, <2>3
<1>3. QED BY <1>1, <1>2, PTL DEF Reader!Spec

(* A reading passes over no line that parses, a success without a timer    *)
(* means the whole stream, and an idle timer ends a reading only if no     *)
(* line has come for as long as it runs.                                   *)
THEOREM StreamLinesRead ==
  ASSUME Reader!Parameters
  PROVE  Reader!Spec => []LinesRead
PROOF
<1>1. Reader!IInv => LinesRead BY DEF Reader!IInv, LinesRead
<1>2. QED BY <1>1, ReaderIInvHolds, PTL
=============================================================================
