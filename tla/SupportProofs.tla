---------------------------- MODULE SupportProofs ----------------------------
(***************************************************************************)
(* The safety of what stands beside the pool and the exchange: the circuit *)
(* breaker, for every threshold, recovery time and bound; the delays       *)
(* between attempts, for every configuration; batches of requests, for     *)
(* every limit, and of connections, for any calls; the counters of the     *)
(* metrics, for any requests; and the two caches.                          *)
(***************************************************************************)
EXTENDS Support, FiniteSetTheorems, SequenceTheorems, WellFoundedInduction, TLAPS

-----------------------------------------------------------------------------
(* The circuit breaker.                                                    *)

(* What makes the properties inductive: below the threshold the breaker is *)
(* closed and, once it is reached, an operation runs only as a probe.      *)
Closing == state = "closed" => (failures < Threshold \/ last = "never")
Probing == call = "running" => state # "open"
Rested  == state = "half_open" => ~Waiting

BreakerIInv == TypeOK /\ OpenHasCause /\ Closing /\ Probing /\ Rested

LEMMA BreakerInit == Init => BreakerIInv
BY ThresholdAssumption, RecoveryAssumption, BoundAssumption
   DEF Init, BreakerIInv, TypeOK, OpenHasCause, Closing, Probing, Rested

LEMMA BreakerStep == BreakerIInv /\ [Next]_vars => BreakerIInv'
<1> SUFFICES ASSUME BreakerIInv, [Next]_vars PROVE BreakerIInv'
  OBVIOUS
<1> USE ThresholdAssumption, RecoveryAssumption, BoundAssumption
    DEF BreakerIInv, TypeOK, OpenHasCause, Closing, Probing, Rested, Waiting
<1>1. CASE Call
  BY <1>1 DEF Call, Refuse, Pass, Probe, vars
<1>2. CASE Success
  BY <1>2 DEF Success
<1>3. CASE Failure
  BY <1>3 DEF Failure, Count
<1>4. CASE Cancel
  BY <1>4 DEF Cancel
<1>5. CASE Reset
  BY <1>5 DEF Reset
<1>6. CASE Tick
  BY <1>6 DEF Tick
<1>7. CASE UNCHANGED vars
  BY <1>7 DEF vars
<1> QED
  BY <1>1, <1>2, <1>3, <1>4, <1>5, <1>6, <1>7 DEF Next

(* The inductive invariant holds in every reachable state.                 *)
THEOREM BreakerIInvHolds == Spec => []BreakerIInv
<1>1. Init => BreakerIInv
  BY BreakerInit
<1>2. BreakerIInv /\ [Next]_vars => BreakerIInv'
  BY BreakerStep
<1> QED
  BY <1>1, <1>2, PTL DEF Spec

(* A breaker that is not closed has a cause and knows since when.          *)
THEOREM CauseKnown == Spec => []OpenHasCause
<1>1. BreakerIInv => OpenHasCause
  BY DEF BreakerIInv
<1> QED
  BY <1>1, BreakerIInvHolds, PTL

(* A service that failed too often is left alone for the recovery time.    *)
THEOREM ServiceLeftAlone == Spec => []LeavesAlone
<1>1. BreakerIInv => LeavesAlone
  BY ThresholdAssumption, BoundAssumption
     DEF BreakerIInv, TypeOK, Closing, Probing, Rested, LeavesAlone, Waiting
<1> QED
  BY <1>1, BreakerIInvHolds, PTL

-----------------------------------------------------------------------------
(* Batches of requests.                                                    *)

(* A set of natural numbers has a smallest element, and Min finds it.      *)
LEMMA MinOfNaturals ==
  ASSUME NEW S \in SUBSET Nat, S # {}
  PROVE  Put!Min(S) \in S /\ \A n \in S : Put!Min(S) <= n
PROOF
<1> DEFINE Less == OpToRel(<, Nat)
<1>1. \A n, m \in Nat : n < m => <<n, m>> \in Less
  BY DEF OpToRel
<1>2. IsWellFoundedOn(Less, Nat)
  BY NatLessThanWellFounded
<1> HIDE DEF Less
<1>3. PICK m \in S : \A n \in S : ~ (<<n, m>> \in Less)
  BY <1>2, WFMin
<1>4. SUFFICES ASSUME NEW n \in S PROVE m <= n
  BY DEF Put!Min
<1>5. n \in Nat /\ m \in Nat /\ ~ (n < m)
  BY <1>1, <1>3
<1>6. QED BY <1>5

(* A chunk is as long as the limit, or as the batch if that is shorter.    *)
LEMMA PutLimit ==
  ASSUME size \in Nat, limit \in Nat
  PROVE  /\ Put!ConcurrentLimit \in Nat
         /\ Put!ConcurrentLimit <= size /\ Put!ConcurrentLimit <= limit
         /\ Put!ConcurrentLimit = size \/ Put!ConcurrentLimit = limit
PROOF
<1>1. /\ Put!Min({limit, size}) \in {limit, size}
      /\ \A n \in {limit, size} : Put!Min({limit, size}) <= n
  BY MinOfNaturals
<1>2. QED BY <1>1 DEF Put!ConcurrentLimit

(* One more of what a chunk follows does not change its number.            *)
LEMMA SameChunk ==
  ASSUME NEW lim \in Nat \ {0}, NEW n \in Nat, NEW i \in 0..(lim - 1), n % lim = 0
  PROVE  (n + i) \div lim = n \div lim
OBVIOUS

(* The next chunk begins at a multiple of the limit again.                 *)
LEMMA NextChunk ==
  ASSUME NEW lim \in Nat \ {0}, NEW n \in Nat, n % lim = 0
  PROVE  (n + lim) % lim = 0
PROOF
<1>1. (n + lim) \div lim = (n \div lim) + 1 OBVIOUS
<1>2. QED BY <1>1

(* The requests in the air are those of the chunk behind the responses.    *)
LEMMA ChunksApart ==
  ASSUME NEW n \in Nat, NEW lim \in Nat \ {0}, NEW done \in Nat, NEW c \in 0..lim, NEW s,
         done % lim = 0 \/ c = 0,
         \A r \in 1..n : (r <= done => s[r] = "done") /\ (r > done + c => s[r] = "unsent")
  PROVE  \A r, q \in 1..n :
           r < q /\ s[r] # "done" /\ s[q] # "unsent" => (r - 1) \div lim = (q - 1) \div lim
PROOF
<1> SUFFICES ASSUME NEW r \in 1..n, NEW q \in 1..n, r < q, s[r] # "done", s[q] # "unsent"
             PROVE  (r - 1) \div lim = (q - 1) \div lim
  OBVIOUS
<1>1. r > done /\ q <= done + c OBVIOUS
<1>2. c # 0 /\ done % lim = 0 BY <1>1
<1>3. r - 1 - done \in 0..(lim - 1) /\ q - 1 - done \in 0..(lim - 1) BY <1>1
<1>4. /\ r - 1 = done + (r - 1 - done)
      /\ q - 1 = done + (q - 1 - done)
  OBVIOUS
<1>5. (done + (r - 1 - done)) \div lim = done \div lim BY <1>2, <1>3, SameChunk
<1>6. (done + (q - 1 - done)) \div lim = done \div lim BY <1>2, <1>3, SameChunk
<1>7. QED BY <1>4, <1>5, <1>6

(* The state before a step of a call that goes on.                         *)
LEMMA PutFacts ==
  ASSUME Put!Parameters, Put!IInv
  PROVE  /\ size \in Nat /\ limit \in Nat /\ next \in Nat /\ next <= size + 1
         /\ Put!All = 1..size
         /\ Len(responses) \in Nat /\ Len(running) \in Nat /\ Len(pending) \in Nat
         /\ DOMAIN responses = 1..Len(responses)
         /\ DOMAIN running = 1..Len(running) /\ DOMAIN pending = 1..Len(pending)
PROOF
<1>1. /\ size \in Nat /\ limit \in Nat /\ next \in Nat /\ next <= size + 1
      /\ Put!All = 1..size
  BY DEF Put!IInv, Put!BatchesWhole, Put!TypeOK, Put!Parameters, Put!All
<1>2. responses \in Seq(Put!All) /\ running \in Seq(Put!All) /\ pending \in Seq(Put!All)
  BY DEF Put!IInv, Put!BatchesWhole, Put!TypeOK
<1>3. QED BY <1>1, <1>2, LenProperties

(* A step that takes the call on to a state in which a chunk is collected  *)
(* or sent keeps the chunks apart.                                         *)
LEMMA PutApart ==
  ASSUME Put!Parameters, Put!TypeOK', Put!InStep', Put!Begun', batch' \in {"loop", "join"}
  PROVE  Put!ChunkByChunk'
PROOF
<1>1. batch' \notin {"ok", "failed"} OBVIOUS
<1>2. /\ size' \in Nat /\ limit' \in Nat /\ Put!All' = 1..size'
      /\ responses' \in Seq(Put!All') /\ running' \in Seq(Put!All')
  BY DEF Put!TypeOK, Put!Parameters, Put!All
<1>3. Len(responses') \in Nat /\ Len(running') \in Nat
  BY <1>2, LenProperties
<1>4. /\ \A r \in 1..size' : r <= Len(responses') => send'[r] = "done"
      /\ \A r \in 1..size' : r > Len(responses') + Len(running') => send'[r] = "unsent"
  BY <1>2 DEF Put!Begun, Put!Ended
<1>5. SUFFICES ASSUME limit' > 0
      PROVE  \A r, q \in 1..size' :
               r < q /\ send'[r] # "done" /\ send'[q] # "unsent" =>
                 (r - 1) \div limit' = (q - 1) \div limit'
  BY <1>1, <1>2 DEF Put!ChunkByChunk
<1>6. Len(running') <= limit' /\ (Len(responses') % limit' = 0 \/ Len(running') = 0)
  <2>1. CASE batch' = "loop"
    BY <2>1, <1>2, <1>5, EmptySeq DEF Put!InStep, Put!Ended
  <2>2. CASE batch' = "join"
    BY <2>2, <1>2, <1>5, EmptySeq DEF Put!InStep, Put!Ended, Put!Chunk
  <2>3. QED BY <2>1, <2>2
<1>7. limit' \in Nat \ {0} /\ Len(running') \in 0..limit' BY <1>2, <1>3, <1>5, <1>6
<1>8. PICK n \in Nat, lim \in Nat \ {0}, done \in Nat, c \in Nat :
        n = size' /\ lim = limit' /\ done = Len(responses') /\ c = Len(running')
  BY <1>2, <1>3, <1>7
<1>9. PICK s : s = send' OBVIOUS
<1>10. /\ c \in 0..lim
       /\ done % lim = 0 \/ c = 0
       /\ \A r \in 1..n : (r <= done => s[r] = "done") /\ (r > done + c => s[r] = "unsent")
  BY <1>4, <1>6, <1>7, <1>8, <1>9
<1>11. \A r, q \in 1..n :
         r < q /\ s[r] # "done" /\ s[q] # "unsent" => (r - 1) \div lim = (q - 1) \div lim
  BY <1>10, ChunksApart
<1>12. QED BY <1>8, <1>9, <1>11

(* A future joins the pending ones, which run once they are a full chunk.  *)
LEMMA PutPush ==
  ASSUME Put!Parameters, Put!IInv, Put!Push
  PROVE  Put!IInv'
PROOF
<1> DEFINE all == Append(pending, next)
<1>1. /\ batch = "loop" /\ next <= size /\ next' = next + 1
      /\ size' = size /\ limit' = limit /\ send' = send
      /\ effect' = effect /\ responses' = responses
  BY DEF Put!Push
<1>2. /\ size \in Nat /\ limit \in Nat /\ next \in 1..size /\ Put!All = 1..size
      /\ Len(responses) \in Nat /\ Len(pending) \in Nat
      /\ DOMAIN pending = 1..Len(pending) /\ DOMAIN running = 1..Len(running)
  BY <1>1, PutFacts DEF Put!IInv, Put!BatchesWhole, Put!TypeOK
<1>3. /\ all \in Seq(1..size) /\ Len(all) = Len(pending) + 1 /\ DOMAIN all = 1..(Len(pending) + 1)
      /\ \A i \in 1..Len(pending) : all[i] = pending[i]
      /\ all[Len(pending) + 1] = next
  <2>1. pending \in Seq(1..size) BY <1>2 DEF Put!IInv, Put!BatchesWhole, Put!TypeOK
  <2>2. QED BY <1>2, <2>1, AppendProperties, LenProperties
<1>4. /\ running = <<>> /\ next = Len(responses) + Len(pending) + 1
      /\ \A i \in 1..Len(pending) : pending[i] = Len(responses) + i
      /\ limit > 0 => /\ Len(pending) < Put!ConcurrentLimit
                      /\ Len(responses) % limit = 0
  BY <1>1, <1>2 DEF Put!IInv, Put!BatchesWhole, Put!InStep, Put!Ended, Put!Chunk
<1>5. \A i \in 1..(Len(pending) + 1) : all[i] = Len(responses) + i
  BY <1>2, <1>3, <1>4
<1>6. /\ Put!ConcurrentLimit \in Nat /\ Put!ConcurrentLimit <= limit
      /\ Put!ConcurrentLimit' = Put!ConcurrentLimit
  BY <1>1, <1>2, PutLimit DEF Put!ConcurrentLimit
<1>7. \/ /\ Len(all) = Put!ConcurrentLimit
         /\ running' = all /\ pending' = <<>> /\ batch' = "join"
      \/ /\ Len(all) # Put!ConcurrentLimit
         /\ pending' = all /\ running' = <<>> /\ batch' = "loop"
  BY <1>1, <1>4 DEF Put!Push
<1> HIDE DEF all
<1>8. Put!TypeOK'
  <2>1. pending' \in Seq(1..size) /\ running' \in Seq(1..size)
    BY <1>3, <1>7, EmptySeq
  <2>2. next' \in 1..(size + 1) BY <1>1, <1>2
  <2>3. /\ size \in 0..MaxBatch /\ limit \in 0..MaxLimit /\ responses \in Seq(1..size)
        /\ send \in [1..size -> {"unsent", "sent", "done", "lost"}] /\ effect \subseteq 1..size
    BY <1>2 DEF Put!IInv, Put!BatchesWhole, Put!TypeOK
  <2>4. Put!All' = 1..size BY <1>1 DEF Put!All
  <2>5. batch' \in {"loop", "join"} BY <1>7
  <2>6. QED BY <1>1, <2>1, <2>2, <2>3, <2>4, <2>5 DEF Put!TypeOK
<1>9. Put!InStep'
  <2>1. Put!Chunk' = all BY <1>7 DEF Put!Chunk
  <2>2. /\ size' > 0
        /\ batch' = "loop" => running' = <<>>
        /\ batch' = "join" => pending' = <<>>
    BY <1>1, <1>2, <1>7
  <2>3. next' = Len(responses') + Len(all) + 1
    BY <1>1, <1>2, <1>3, <1>4
  <2>4. \A i \in DOMAIN all : all[i] = Len(responses') + i
    BY <1>1, <1>3, <1>5
  <2>5. limit' > 0 =>
          /\ Len(all) <= limit'
          /\ batch' = "loop" => Len(all) < Put!ConcurrentLimit'
          /\ batch' = "join" => Len(all) = Put!ConcurrentLimit'
          /\ Len(responses') % limit' = 0
    BY <1>1, <1>2, <1>3, <1>4, <1>6, <1>7
  <2>6. QED BY <2>1, <2>2, <2>3, <2>4, <2>5 DEF Put!InStep
<1>10. Put!Begun'
  <2>1. Len(running) = 0 /\ Len(running') \in Nat
    BY <1>2, <1>3, <1>4, <1>7, EmptySeq
  <2>2. Put!All' = 1..size BY <1>1 DEF Put!All
  <2>3. /\ \A r \in 1..size : send[r] = "done" => r \in effect
        /\ \A r \in 1..size : r <= Len(responses) => send[r] = "done"
        /\ \A r \in 1..size : r > Len(responses) + Len(running) => send[r] = "unsent"
    BY <1>1, <1>2 DEF Put!IInv, Put!BatchesWhole, Put!Begun, Put!Ended
  <2>4. QED BY <1>1, <1>2, <2>1, <2>2, <2>3 DEF Put!Begun
<1>11. Put!ResponsesInOrder'
  BY <1>1, <1>7 DEF Put!IInv, Put!BatchesWhole, Put!ResponsesInOrder
<1>12. Put!ChunkByChunk'
  BY <1>7, <1>8, <1>9, <1>10, PutApart
<1>13. QED BY <1>8, <1>9, <1>10, <1>11, <1>12 DEF Put!IInv, Put!BatchesWhole

(* What is left over is joined as a chunk of its own.                      *)
LEMMA PutLastChunk ==
  ASSUME Put!Parameters, Put!IInv, Put!LastChunk
  PROVE  Put!IInv'
PROOF
<1>1. /\ batch = "loop" /\ next > size /\ pending' = <<>> /\ next' = next
      /\ size' = size /\ limit' = limit /\ send' = send
      /\ effect' = effect /\ responses' = responses
  BY DEF Put!LastChunk
<1>2. /\ size \in Nat /\ limit \in Nat /\ next = size + 1 /\ Put!All = 1..size /\ Put!All' = 1..size
      /\ Len(responses) \in Nat /\ Len(pending) \in Nat
      /\ DOMAIN pending = 1..Len(pending) /\ DOMAIN running = 1..Len(running)
      /\ pending \in Seq(1..size)
  BY <1>1, PutFacts DEF Put!IInv, Put!BatchesWhole, Put!TypeOK, Put!All
<1>3. /\ running = <<>> /\ next = Len(responses) + Len(pending) + 1 /\ size > 0
      /\ \A i \in 1..Len(pending) : pending[i] = Len(responses) + i
      /\ limit > 0 => /\ Len(pending) < Put!ConcurrentLimit /\ Len(pending) <= limit
                      /\ Len(responses) % limit = 0 \/ pending = <<>>
  BY <1>1, <1>2 DEF Put!IInv, Put!BatchesWhole, Put!InStep, Put!Ended, Put!Chunk
<1>4. Len(<<>>) = 0 /\ DOMAIN <<>> = {} BY EmptySeq
<1>5. /\ \A r \in 1..size : send[r] = "done" => r \in effect
      /\ \A r \in 1..size : r <= Len(responses) => send[r] = "done"
      /\ \A r \in 1..size : r > Len(responses) => send[r] = "unsent"
  BY <1>1, <1>2, <1>3, <1>4 DEF Put!IInv, Put!BatchesWhole, Put!Begun, Put!Ended
<1>6. \/ pending = <<>> /\ batch' = "ok" /\ running' = <<>>
      \/ pending # <<>> /\ batch' = "join" /\ running' = pending
  BY <1>3 DEF Put!LastChunk
<1>7. Put!TypeOK'
  <2>1. pending' \in Seq(1..size) /\ running' \in Seq(1..size)
    BY <1>1, <1>2, <1>6, EmptySeq
  <2>2. /\ size \in 0..MaxBatch /\ limit \in 0..MaxLimit /\ responses \in Seq(1..size)
        /\ send \in [1..size -> {"unsent", "sent", "done", "lost"}] /\ effect \subseteq 1..size
    BY <1>2 DEF Put!IInv, Put!BatchesWhole, Put!TypeOK
  <2>3. batch' \in {"ok", "join"} BY <1>6
  <2>4. QED BY <1>1, <1>2, <2>1, <2>2, <2>3 DEF Put!TypeOK, Put!Ended
<1>8. CASE pending = <<>> /\ batch' = "ok" /\ running' = <<>>
  <2>1. Len(responses) = size BY <1>2, <1>3, <1>4, <1>8
  <2>2. \A r \in 1..size : send[r] = "done" BY <1>2, <1>5, <2>1
  <2>3. effect = 1..size BY <1>2, <1>5, <2>2 DEF Put!IInv, Put!BatchesWhole, Put!TypeOK
  <2>4. Put!ResponsesInOrder'
    BY <1>1, <1>2, <2>1, <2>3 DEF Put!IInv, Put!BatchesWhole, Put!ResponsesInOrder
  <2>5. Put!InFlight' = {} BY <1>1, <1>2, <2>2 DEF Put!InFlight
  <2>6. Put!ChunkByChunk' BY <1>1, <1>2, <2>2, <2>5 DEF Put!ChunkByChunk
  <2>7. Put!InStep' BY <1>8 DEF Put!InStep, Put!Ended
  <2>8. Put!Begun' BY <1>1, <1>2, <1>5, <1>8 DEF Put!Begun, Put!Ended
  <2>9. QED BY <1>7, <2>4, <2>6, <2>7, <2>8 DEF Put!IInv, Put!BatchesWhole
<1>9. CASE pending # <<>> /\ batch' = "join" /\ running' = pending
  <2>1. Put!Chunk' = pending BY <1>9 DEF Put!Chunk
  <2>2. Put!InStep' BY <1>1, <1>2, <1>3, <1>9, <2>1 DEF Put!InStep
  <2>3. Put!Begun' BY <1>1, <1>2, <1>5, <1>9 DEF Put!Begun
  <2>4. Put!ResponsesInOrder'
    BY <1>1, <1>9 DEF Put!IInv, Put!BatchesWhole, Put!ResponsesInOrder
  <2>5. Put!ChunkByChunk' BY <1>7, <1>9, <2>2, <2>3, PutApart
  <2>6. QED BY <1>7, <2>2, <2>3, <2>4, <2>5 DEF Put!IInv, Put!BatchesWhole
<1>10. QED BY <1>6, <1>8, <1>9

(* A step of one request of the chunk.                                     *)
LEMMA PutRequest ==
  ASSUME Put!Parameters, Put!IInv, NEW r \in Put!All,
         \/ Put!Begin(r)
         \/ Put!Execute(r)
         \/ \E how \in {"done", "lost"} : Put!Finish(r, how)
  PROVE  Put!IInv'
PROOF
<1>1. /\ batch = "join" /\ batch' = "join" /\ Put!Contains(running, r)
      /\ size' = size /\ limit' = limit /\ next' = next /\ responses' = responses
      /\ pending' = pending /\ running' = running
  BY DEF Put!Begin, Put!Execute, Put!Finish, Put!InChunk
<1>2. /\ size \in Nat /\ limit \in Nat /\ Put!All = 1..size /\ Put!All' = 1..size
      /\ Len(responses) \in Nat /\ Len(running) \in Nat /\ DOMAIN running = 1..Len(running)
  BY <1>1, PutFacts DEF Put!All
<1>3. PICK i \in 1..Len(running) : running[i] = r
  BY <1>1 DEF Put!Contains
<1>4. r = Len(responses) + i
  BY <1>1, <1>2, <1>3 DEF Put!IInv, Put!BatchesWhole, Put!InStep, Put!Ended, Put!Chunk
<1>5. /\ \A q \in 1..size : send[q] = "done" => q \in effect
      /\ \A q \in 1..size : q <= Len(responses) => send[q] = "done"
      /\ \A q \in 1..size : q > Len(responses) + Len(running) => send[q] = "unsent"
      /\ send \in [1..size -> {"unsent", "sent", "done", "lost"}] /\ effect \subseteq 1..size
  BY <1>1, <1>2 DEF Put!IInv, Put!BatchesWhole, Put!Begun, Put!Ended, Put!TypeOK
<1>6. /\ send' \in [1..size -> {"unsent", "sent", "done", "lost"}]
      /\ \A q \in 1..size : q # r => send'[q] = send[q]
      /\ send'[r] = "done" => r \in effect'
      /\ effect \subseteq effect' /\ effect' \subseteq 1..size
  <2>1. CASE Put!Begin(r) BY <1>2, <1>5, <2>1 DEF Put!Begin
  <2>2. CASE Put!Execute(r) BY <1>2, <1>5, <2>2 DEF Put!Execute
  <2>3. ASSUME NEW how \in {"done", "lost"}, Put!Finish(r, how) PROVE <1>6
    BY <1>2, <1>5, <2>3 DEF Put!Finish
  <2>4. QED BY <2>1, <2>2, <2>3
<1>7. Put!TypeOK'
  BY <1>1, <1>2, <1>6 DEF Put!IInv, Put!BatchesWhole, Put!TypeOK
<1>8. Put!InStep'
  <2>1. Put!ConcurrentLimit' = Put!ConcurrentLimit /\ Put!Chunk' = Put!Chunk
    BY <1>1 DEF Put!ConcurrentLimit, Put!Chunk
  <2>2. QED BY <1>1, <2>1 DEF Put!IInv, Put!BatchesWhole, Put!InStep
<1>9. Put!Begun'
  <2>1. \A q \in 1..size : send'[q] = "done" => q \in effect' BY <1>5, <1>6
  <2>2. \A q \in 1..size : q <= Len(responses) => send'[q] = "done"
    BY <1>2, <1>4, <1>5, <1>6
  <2>3. \A q \in 1..size : q > Len(responses) + Len(running) => send'[q] = "unsent"
    BY <1>2, <1>4, <1>5, <1>6
  <2>4. QED BY <1>1, <1>2, <2>1, <2>2, <2>3 DEF Put!Begun
<1>10. Put!ResponsesInOrder'
  BY <1>1 DEF Put!IInv, Put!BatchesWhole, Put!ResponsesInOrder
<1>11. Put!ChunkByChunk'
  BY <1>1, <1>7, <1>8, <1>9, PutApart
<1>12. QED BY <1>7, <1>8, <1>9, <1>10, <1>11 DEF Put!IInv, Put!BatchesWhole

(* The responses and the first results of a chunk are responses in order.  *)
LEMMA Gathered ==
  ASSUME NEW n \in Nat, NEW s \in Seq(1..n), NEW t \in Seq(1..n),
         \A i \in 1..Len(s) : s[i] = i,
         \A i \in 1..Len(t) : t[i] = Len(s) + i
  PROVE  /\ s \o t \in Seq(1..n) /\ Len(s \o t) = Len(s) + Len(t)
         /\ DOMAIN (s \o t) = 1..(Len(s) + Len(t))
         /\ \A i \in 1..(Len(s) + Len(t)) : (s \o t)[i] = i
PROOF
<1>1. Len(s) \in Nat /\ Len(t) \in Nat BY LenProperties
<1>2. /\ s \o t \in Seq(1..n) /\ Len(s \o t) = Len(s) + Len(t)
      /\ \A i \in 1..(Len(s) + Len(t)) :
           (s \o t)[i] = IF i <= Len(s) THEN s[i] ELSE t[i - Len(s)]
  BY ConcatProperties
<1>3. DOMAIN (s \o t) = 1..(Len(s) + Len(t)) BY <1>2, LenProperties
<1>4. ASSUME NEW i \in 1..(Len(s) + Len(t)) PROVE (s \o t)[i] = i
  <2>1. CASE i <= Len(s) BY <1>1, <1>2, <2>1
  <2>2. CASE ~ (i <= Len(s))
    <3>1. i - Len(s) \in 1..Len(t) BY <1>1, <2>2
    <3>2. t[i - Len(s)] = i BY <1>1, <3>1
    <3>3. QED BY <1>2, <2>2, <3>2
  <2>3. QED BY <2>1, <2>2
<1>5. QED BY <1>2, <1>3, <1>4

(* The responses of a chunk that has been joined, or its first error.      *)
LEMMA PutCollect ==
  ASSUME Put!Parameters, Put!IInv, Put!Collect
  PROVE  Put!IInv'
PROOF
<1> DEFINE bad == {i \in DOMAIN running : send[running[i]] = "lost"}
<1>1. /\ batch = "join" /\ running' = <<>> /\ pending' = pending
      /\ size' = size /\ limit' = limit /\ send' = send
      /\ effect' = effect /\ next' = next
      /\ \A i \in DOMAIN running : send[running[i]] \in {"done", "lost"}
  BY DEF Put!Collect
<1>2. /\ size \in Nat /\ limit \in Nat /\ next \in Nat /\ next <= size + 1
      /\ Put!All = 1..size /\ Put!All' = 1..size
      /\ Len(responses) \in Nat /\ Len(running) \in Nat
      /\ DOMAIN responses = 1..Len(responses) /\ DOMAIN running = 1..Len(running)
  BY <1>1, PutFacts DEF Put!All
<1>3. /\ running \in Seq(1..size) /\ responses \in Seq(1..size)
      /\ size \in 0..MaxBatch /\ limit \in 0..MaxLimit /\ next \in 1..(size + 1)
      /\ send \in [1..size -> {"unsent", "sent", "done", "lost"}] /\ effect \subseteq 1..size
  BY <1>2 DEF Put!IInv, Put!BatchesWhole, Put!TypeOK
<1>4. /\ pending = <<>> /\ next = Len(responses) + Len(running) + 1 /\ size > 0
      /\ \A i \in 1..Len(running) : running[i] = Len(responses) + i
      /\ limit > 0 =>
           /\ Len(running) = Put!ConcurrentLimit \/ next > size
           /\ Len(responses) % limit = 0 \/ next > size
  BY <1>1, <1>2 DEF Put!IInv, Put!BatchesWhole, Put!InStep, Put!Ended, Put!Chunk
<1>5. /\ \A r \in 1..size : send[r] = "done" => r \in effect
      /\ \A r \in 1..size : r <= Len(responses) => send[r] = "done"
      /\ \A r \in 1..size : r > Len(responses) + Len(running) => send[r] = "unsent"
  BY <1>1, <1>2 DEF Put!IInv, Put!BatchesWhole, Put!Begun, Put!Ended
<1>6. \A i \in 1..Len(responses) : responses[i] = i
  BY <1>2 DEF Put!IInv, Put!BatchesWhole, Put!ResponsesInOrder
<1>7. /\ Put!ConcurrentLimit \in Nat
      /\ Put!ConcurrentLimit = size \/ Put!ConcurrentLimit = limit
      /\ Put!ConcurrentLimit' = Put!ConcurrentLimit
  BY <1>1, <1>2, PutLimit DEF Put!ConcurrentLimit
<1>8. Len(<<>>) = 0 /\ DOMAIN <<>> = {} /\ <<>> \in Seq(1..size) BY EmptySeq
<1>9. \/ bad = {} /\ responses' = responses \o running /\ batch' = "loop"
      \/ /\ bad # {} /\ batch' = "failed"
         /\ responses' = responses \o SubSeq(running, 1, Put!Min(bad) - 1)
  BY DEF Put!Collect
<1>10. CASE bad = {} /\ responses' = responses \o running /\ batch' = "loop"
  <2>1. /\ responses' \in Seq(1..size) /\ Len(responses') = Len(responses) + Len(running)
        /\ DOMAIN responses' = 1..(Len(responses) + Len(running))
        /\ \A i \in 1..(Len(responses) + Len(running)) : responses'[i] = i
    BY <1>2, <1>3, <1>4, <1>6, <1>10, Gathered
  <2>2. Put!TypeOK'
    BY <1>1, <1>2, <1>3, <1>4, <1>8, <1>10, <2>1 DEF Put!TypeOK
  <2>3. Put!ResponsesInOrder'
    BY <1>10, <2>1 DEF Put!ResponsesInOrder
  <2>4. Put!InStep'
    <3>1. Put!Chunk' = <<>> BY <1>1, <1>4, <1>10 DEF Put!Chunk
    <3>2. next' = Len(responses') + Len(<<>>) + 1
      BY <1>1, <1>2, <1>4, <1>8, <2>1
    <3>3. ASSUME limit > 0
          PROVE  /\ Len(<<>>) <= limit /\ Len(<<>>) < Put!ConcurrentLimit
                 /\ Len(responses') % limit = 0 \/ next > size
      <4>1. 0 < Put!ConcurrentLimit BY <1>2, <1>4, <1>7, <3>3
      <4>2. CASE next > size BY <1>2, <1>8, <3>3, <4>1, <4>2
      <4>3. CASE ~ (next > size)
        <5>1. Len(running) = Put!ConcurrentLimit /\ Len(responses) % limit = 0
          BY <1>4, <3>3, <4>3
        <5>2. Len(running) = limit BY <1>2, <1>4, <1>7, <4>3, <5>1
        <5>3. (Len(responses) + limit) % limit = 0 
          <6>1. limit \in Nat \ {0} BY <1>2, <3>3
          <6>2. PICK n \in Nat : n = Len(responses) BY <1>2
          <6>3. PICK lim \in Nat \ {0} : lim = limit BY <6>1
          <6>4. n % lim = 0 BY <5>1, <6>2, <6>3
          <6>5. QED BY <6>2, <6>3, <6>4, NextChunk
        <5>4. QED BY <1>2, <1>8, <2>1, <3>3, <4>1, <5>2, <5>3
      <4>4. QED BY <4>2, <4>3
    <3>4. QED BY <1>1, <1>4, <1>7, <1>8, <1>10, <3>1, <3>2, <3>3 DEF Put!InStep
  <2>5. Put!Begun'
    <3>1. ASSUME NEW r \in 1..size, r <= Len(responses) + Len(running)
          PROVE  send[r] = "done"
      <4>1. CASE r <= Len(responses) BY <1>5, <4>1
      <4>2. CASE ~ (r <= Len(responses))
        <5>1. /\ r - Len(responses) \in 1..Len(running)
              /\ running[r - Len(responses)] = r
          BY <1>2, <1>4, <3>1, <4>2
        <5>2. QED BY <1>1, <1>2, <1>10, <5>1
      <4>3. QED BY <4>1, <4>2
    <3>2. QED BY <1>1, <1>2, <1>5, <1>8, <1>10, <2>1, <3>1 DEF Put!Begun
  <2>6. Put!ChunkByChunk' BY <1>10, <2>2, <2>4, <2>5, PutApart
  <2>7. QED BY <2>2, <2>3, <2>4, <2>5, <2>6 DEF Put!IInv, Put!BatchesWhole
<1>11. CASE /\ bad # {} /\ batch' = "failed"
            /\ responses' = responses \o SubSeq(running, 1, Put!Min(bad) - 1)
  <2>1. PICK m \in 1..Len(running) : m = Put!Min(bad)
    <3>1. bad \in SUBSET Nat /\ bad \subseteq 1..Len(running) BY <1>2
    <3>2. Put!Min(bad) \in bad BY <1>11, <3>1, MinOfNaturals
    <3>3. QED BY <3>1, <3>2
  <2>2. PICK good : good = SubSeq(running, 1, m - 1) OBVIOUS
  <2>3. /\ good \in Seq(1..size) /\ Len(good) = m - 1
        /\ \A i \in 1..(m - 1) : good[i] = running[i]
    <3>1. \A i \in 1..(m - 1) : running[i] \in 1..size
      BY <1>2, <1>3, ElementOfSeq
    <3>2. /\ SubSeq(running, 1, m - 1) \in Seq(1..size)
          /\ Len(SubSeq(running, 1, m - 1)) = IF 1 <= m - 1 THEN m - 1 - 1 + 1 ELSE 0
          /\ \A i \in 1..(m - 1 - 1 + 1) : SubSeq(running, 1, m - 1)[i] = running[1 + i - 1]
      BY <1>2, <3>1, SubSeqProperties
    <3>3. Len(good) = m - 1 BY <2>2, <3>2
    <3>4. ASSUME NEW i \in 1..(m - 1) PROVE good[i] = running[i]
      <4>1. i \in 1..(m - 1 - 1 + 1) /\ 1 + i - 1 = i OBVIOUS
      <4>2. QED BY <2>2, <3>2, <4>1
    <3>5. QED BY <2>2, <3>2, <3>3, <3>4
  <2>4. \A i \in 1..Len(good) : good[i] = Len(responses) + i
    BY <1>2, <1>4, <2>3
  <2>5. /\ responses' \in Seq(1..size)
        /\ DOMAIN responses' = 1..(Len(responses) + Len(good))
        /\ \A i \in 1..(Len(responses) + Len(good)) : responses'[i] = i
    <3>1. responses' = responses \o good BY <1>11, <2>1, <2>2
    <3>2. /\ responses \o good \in Seq(1..size)
          /\ DOMAIN (responses \o good) = 1..(Len(responses) + Len(good))
          /\ \A i \in 1..(Len(responses) + Len(good)) : (responses \o good)[i] = i
      BY <1>2, <1>3, <1>6, <2>3, <2>4, Gathered
    <3>3. QED BY <3>1, <3>2
  <2>6. Put!TypeOK'
    BY <1>1, <1>2, <1>3, <1>4, <1>8, <1>11, <2>5 DEF Put!TypeOK, Put!Ended
  <2>7. Put!ResponsesInOrder'
    BY <1>11, <2>5 DEF Put!ResponsesInOrder
  <2>8. Put!InStep' /\ Put!Begun'
    BY <1>1, <1>2, <1>5, <1>11 DEF Put!InStep, Put!Begun, Put!Ended
  <2>9. Put!ChunkByChunk'
    <3>1. ASSUME NEW r \in 1..size PROVE send[r] # "sent"
      <4>1. CASE r <= Len(responses) BY <1>5, <4>1
      <4>2. CASE r > Len(responses) + Len(running) BY <1>5, <4>2
      <4>3. CASE r > Len(responses) /\ r <= Len(responses) + Len(running)
        <5>1. /\ r - Len(responses) \in 1..Len(running)
              /\ running[r - Len(responses)] = r
          BY <1>2, <1>4, <4>3
        <5>2. QED BY <1>1, <1>2, <5>1
      <4>4. QED BY <1>2, <4>1, <4>2, <4>3
    <3>2. Put!InFlight' = {} BY <1>1, <1>2, <3>1 DEF Put!InFlight
    <3>3. QED BY <1>1, <1>2, <3>2 DEF Put!IInv, Put!BatchesWhole, Put!ChunkByChunk
  <2>10. QED BY <2>6, <2>7, <2>8, <2>9 DEF Put!IInv, Put!BatchesWhole
<1>12. QED BY <1>9, <1>10, <1>11

(* A call that is dropped begins nothing more.                             *)
LEMMA PutCancel ==
  ASSUME Put!Parameters, Put!IInv, Put!Cancel
  PROVE  Put!IInv'
PROOF
<1>1. /\ batch' = "cancelled" /\ running' = <<>> /\ pending' = <<>>
      /\ size' = size /\ limit' = limit /\ send' = send
      /\ effect' = effect /\ responses' = responses /\ next' = next
  BY DEF Put!Cancel
<1>2. Put!All' = Put!All BY <1>1 DEF Put!All
<1>3. Put!TypeOK'
  <2>1. <<>> \in Seq(Put!All) BY EmptySeq
  <2>2. QED BY <1>1, <1>2, <2>1 DEF Put!IInv, Put!BatchesWhole, Put!TypeOK, Put!Ended
<1>4. Put!InStep' /\ Put!Begun'
  BY <1>1, <1>2 DEF Put!IInv, Put!BatchesWhole, Put!InStep, Put!Begun, Put!Ended
<1>5. Put!ResponsesInOrder' BY <1>1 DEF Put!IInv, Put!BatchesWhole, Put!ResponsesInOrder
<1>6. Put!ChunkByChunk' BY <1>1, <1>2 DEF Put!IInv, Put!BatchesWhole, Put!ChunkByChunk
<1>7. QED BY <1>3, <1>4, <1>5, <1>6 DEF Put!IInv, Put!BatchesWhole

(* The inductive invariant of a batch of requests.                         *)
THEOREM PutIInvHolds ==
  ASSUME Put!Parameters
  PROVE  Put!Spec => []Put!IInv
PROOF
<1>1. Put!Init => Put!IInv
  <2> SUFFICES ASSUME Put!Init PROVE Put!IInv
    OBVIOUS
  <2>1. /\ size \in 0..MaxBatch /\ limit \in 0..MaxLimit /\ size \in Nat /\ limit \in Nat
        /\ pending = <<>> /\ running = <<>> /\ responses = <<>> /\ effect = {} /\ next = 1
        /\ Put!All = 1..size /\ send = [r \in 1..size |-> "unsent"]
        /\ batch = IF size = 0 THEN "ok" ELSE "loop"
    BY DEF Put!Init, Put!Parameters, Put!All
  <2>2. Len(<<>>) = 0 /\ DOMAIN <<>> = {} /\ <<>> \in Seq(1..size) BY EmptySeq
  <2>3. Put!TypeOK BY <2>1, <2>2 DEF Put!TypeOK, Put!Ended
  <2>4. Put!ResponsesInOrder BY <2>1, <2>2 DEF Put!ResponsesInOrder
  <2>5. Put!ChunkByChunk BY <2>1 DEF Put!ChunkByChunk, Put!InFlight
  <2>6. Put!InStep
    <3>1. Put!Chunk = <<>> BY <2>1 DEF Put!Chunk
    <3>2. SUFFICES ASSUME size > 0, limit > 0
                   PROVE  0 < Put!ConcurrentLimit /\ 0 % limit = 0
      BY <2>1, <2>2, <3>1 DEF Put!InStep, Put!Ended
    <3>3. QED BY <2>1, <3>2, PutLimit
  <2>7. Put!Begun BY <2>1, <2>2 DEF Put!Begun, Put!Ended
  <2>8. QED BY <2>3, <2>4, <2>5, <2>6, <2>7 DEF Put!IInv, Put!BatchesWhole
<1>2. Put!IInv /\ [Put!Next]_Put!vars => Put!IInv'
  <2>1. SUFFICES ASSUME Put!IInv, [Put!Next]_Put!vars PROVE Put!IInv'
    OBVIOUS
  <2>2. CASE Put!Push BY <2>1, <2>2, PutPush
  <2>3. CASE Put!LastChunk BY <2>1, <2>3, PutLastChunk
  <2>4. CASE Put!Collect BY <2>1, <2>4, PutCollect
  <2>5. CASE Put!Cancel BY <2>1, <2>5, PutCancel
  <2>6. CASE \E r \in Put!All :
               Put!Begin(r) \/ Put!Execute(r) \/ \E how \in {"done", "lost"} : Put!Finish(r, how)
    BY <2>1, <2>6, PutRequest
  <2>7. CASE UNCHANGED Put!vars
    BY <2>1, <2>7
       DEF Put!vars, Put!IInv, Put!BatchesWhole, Put!TypeOK, Put!All, Put!ResponsesInOrder, Put!ChunkByChunk,
           Put!InFlight, Put!InStep, Put!Chunk, Put!ConcurrentLimit, Put!Begun
  <2>8. QED BY <2>1, <2>2, <2>3, <2>4, <2>5, <2>6, <2>7 DEF Put!Next
<1>3. QED BY <1>1, <1>2, PTL DEF Put!Spec

(* A batch that succeeds has one response per request, in order; no        *)
(* request runs next to one of a later chunk, none is begun behind one     *)
(* that failed, and none runs on when put_batch returns.                   *)
THEOREM PutBatchesWhole ==
  ASSUME Put!Parameters
  PROVE  Put!Spec => [](Put!BatchesWhole)
PROOF
<1>1. Put!IInv => Put!BatchesWhole
  BY DEF Put!IInv, Put!BatchesWhole
<1>2. QED BY <1>1, PutIInvHolds, PTL

-----------------------------------------------------------------------------
(* The delays of the retry executor.                                       *)

(* Induction: a set of natural numbers with zero and with the successor of *)
(* each of its elements has them all.                                      *)
LEMMA InductionOnSets ==
  ASSUME NEW S, 0 \in S, \A n \in Nat : n \in S => n + 1 \in S
  PROVE  \A n \in Nat : n \in S
PROOF
<1> SUFFICES ASSUME \E n \in Nat : n \notin S PROVE FALSE
  OBVIOUS
<1>1. PICK T : T = {n \in Nat : n \notin S} OBVIOUS
<1>2. T \in SUBSET Nat /\ T # {} BY <1>1
<1>3. PICK m \in T : \A n \in T : m <= n BY <1>2, MinOfNaturals
<1>4. m \in Nat /\ m \notin S /\ m # 0 BY <1>1
<1>5. m - 1 \in Nat /\ ~ (m <= m - 1) BY <1>4
<1>6. m - 1 \in S BY <1>1, <1>3, <1>5
<1>7. m - 1 + 1 \in S BY <1>5, <1>6
<1>8. m - 1 + 1 = m BY <1>4
<1>9. QED BY <1>4, <1>7, <1>8

(* The first powers of a number.                                           *)
PowersTo(x, g, n) ==
  /\ g \in [0..n -> Nat]
  /\ g[0] = 1 /\ \A k \in 1..n : g[k] = x * g[k - 1]

(* The powers of a natural up to any exponent.                             *)
LEMMA PowersToExist ==
  ASSUME NEW x \in Nat
  PROVE  \A n \in Nat : \E g : PowersTo(x, g, n)
PROOF
<1>1. PICK S : S = {n \in Nat : \E g : PowersTo(x, g, n)} OBVIOUS
<1>2. PowersTo(x, [k \in 0..0 |-> 1], 0) BY DEF PowersTo
<1>3. 0 \in S BY <1>1, <1>2
<1>4. ASSUME NEW n \in Nat, n \in S PROVE n + 1 \in S
  <2>1. PICK g : PowersTo(x, g, n) BY <1>1, <1>4
  <2>2. PICK h : h = [k \in 0..(n + 1) |-> IF k <= n THEN g[k] ELSE x * g[n]] OBVIOUS
  <2>3. /\ \A k \in 0..n : h[k] = g[k] /\ g[k] \in Nat
        /\ h[n + 1] = x * g[n]
    BY <2>1, <2>2 DEF PowersTo
  <2>4. h \in [0..(n + 1) -> Nat]
    <3>1. n \in 0..n OBVIOUS
    <3>2. x * g[n] \in Nat BY <2>3, <3>1
    <3>3. ASSUME NEW k \in 0..(n + 1)
          PROVE  (IF k <= n THEN g[k] ELSE x * g[n]) \in Nat
      <4>1. CASE k <= n
        <5>1. k \in 0..n BY <4>1
        <5>2. QED BY <2>3, <4>1, <5>1
      <4>2. CASE ~ (k <= n) BY <3>2, <4>2
      <4>3. QED BY <4>1, <4>2
    <3>4. QED BY <2>2, <3>3
  <2>5. ASSUME NEW k \in 1..(n + 1) PROVE h[k] = x * h[k - 1]
    <3>1. CASE k = n + 1 BY <2>3, <3>1
    <3>2. CASE k # n + 1
      <4>1. k \in 1..n /\ k \in 0..n /\ k - 1 \in 0..n BY <3>2
      <4>2. g[k] = x * g[k - 1] BY <2>1, <4>1 DEF PowersTo
      <4>3. QED BY <2>3, <4>1, <4>2
    <3>3. QED BY <3>1, <3>2
  <2>6. h[0] = 1
    <3>1. 0 \in 0..n OBVIOUS
    <3>2. g[0] = 1 BY <2>1 DEF PowersTo
    <3>3. QED BY <2>3, <3>1, <3>2
  <2>7. PowersTo(x, h, n + 1) BY <2>4, <2>5, <2>6 DEF PowersTo
  <2>8. QED BY <1>1, <2>7
<1>5. \A n \in Nat : n \in S BY <1>3, <1>4, InductionOnSets
<1>6. QED BY <1>1, <1>5

(* They do not depend on how far they are computed.                        *)
LEMMA PowersToAgree ==
  ASSUME NEW x \in Nat, NEW n \in Nat, NEW m \in Nat, n <= m, NEW g, NEW h,
         PowersTo(x, g, n), PowersTo(x, h, m)
  PROVE  \A k \in 0..n : g[k] = h[k]
PROOF
<1>1. PICK S : S = {k \in Nat : k <= n => g[k] = h[k]} OBVIOUS
<1>2. 0 \in S BY <1>1 DEF PowersTo
<1>3. ASSUME NEW k \in Nat, k \in S PROVE k + 1 \in S
  <2>1. SUFFICES ASSUME k + 1 <= n PROVE g[k + 1] = h[k + 1]
    BY <1>1
  <2>2. g[k] = h[k] BY <1>1, <1>3, <2>1
  <2>3. k + 1 \in 1..n /\ k + 1 \in 1..m /\ k + 1 - 1 = k BY <2>1
  <2>4. g[k + 1] = x * g[k] BY <2>3 DEF PowersTo
  <2>5. h[k + 1] = x * h[k] BY <2>3 DEF PowersTo
  <2>6. QED BY <2>2, <2>4, <2>5
<1>4. \A k \in Nat : k \in S BY <1>2, <1>3, InductionOnSets
<1>5. QED BY <1>1, <1>4

(* Power is what it is meant to be.                                        *)
LEMMA PowerIs ==
  ASSUME NEW x \in Nat
  PROVE  /\ Retry!Power(x, 0) = 1
         /\ \A n \in Nat : /\ Retry!Power(x, n) \in Nat
                           /\ Retry!Power(x, n + 1) = x * Retry!Power(x, n)
PROOF
<1>1. PICK F : F = [n \in Nat |-> CHOOSE g : PowersTo(x, g, n)] OBVIOUS
<1>2. \A n \in Nat : PowersTo(x, F[n], n) BY <1>1, PowersToExist
<1>3. PICK f : f = [n \in Nat |-> F[n][n]] OBVIOUS
<1>4. \A n \in Nat : f[n] = F[n][n] /\ F[n][n] \in Nat
  BY <1>2, <1>3 DEF PowersTo
<1>5. ASSUME NEW n \in Nat \ {0} PROVE f[n] = x * f[n - 1]
  <2>1. n \in Nat /\ n - 1 \in Nat /\ n \in 1..n /\ n - 1 <= n /\ n - 1 \in 0..(n - 1) OBVIOUS
  <2>2. F[n][n] = x * F[n][n - 1] BY <1>2, <2>1 DEF PowersTo
  <2>3. PowersTo(x, F[n - 1], n - 1) /\ PowersTo(x, F[n], n) BY <1>2, <2>1
  <2>4. F[n - 1][n - 1] = F[n][n - 1]
    <3>1. PICK g : g = F[n - 1] OBVIOUS
    <3>2. PICK h : h = F[n] OBVIOUS
    <3>3. PICK m \in Nat : m = n - 1 BY <2>1
    <3>4. PowersTo(x, g, m) /\ PowersTo(x, h, n) /\ m <= n /\ n \in Nat BY <2>1, <2>3, <3>1, <3>2, <3>3
    <3>5. \A k \in 0..m : g[k] = h[k] BY <3>4, PowersToAgree
    <3>6. QED BY <3>1, <3>2, <3>3, <3>5
  <2>5. QED BY <1>4, <2>1, <2>2, <2>4
<1>6. f[0] = 1
  <2>1. PowersTo(x, F[0], 0) BY <1>2
  <2>2. QED BY <1>4, <2>1 DEF PowersTo
<1>7. f = [k \in Nat |-> IF k = 0 THEN 1 ELSE x * f[k - 1]]
  BY <1>3, <1>5, <1>6
<1>8. PICK p : p = CHOOSE q : q = [k \in Nat |-> IF k = 0 THEN 1 ELSE x * q[k - 1]]
  OBVIOUS
<1>9. p = [k \in Nat |-> IF k = 0 THEN 1 ELSE x * p[k - 1]]
  BY <1>7, <1>8
<1>10. \A n \in Nat : Retry!Power(x, n) = p[n]
  BY <1>8 DEF Retry!Power
<1>11. p[0] = 1 BY <1>9
<1>12. ASSUME NEW n \in Nat PROVE p[n + 1] = x * p[n]
  <2>1. n + 1 \in Nat /\ n + 1 # 0 /\ n + 1 - 1 = n OBVIOUS
  <2>2. p[n + 1] = x * p[n + 1 - 1] BY <1>9, <2>1
  <2>3. QED BY <2>1, <2>2
<1>13. \A n \in Nat : p[n] \in Nat
  <2>1. PICK S : S = {n \in Nat : p[n] \in Nat} OBVIOUS
  <2>2. 0 \in S BY <1>11, <2>1
  <2>3. \A n \in Nat : n \in S => n + 1 \in S BY <1>12, <2>1
  <2>4. QED BY <2>1, <2>2, <2>3, InductionOnSets
<1>14. QED BY <1>10, <1>11, <1>12, <1>13

(* A power of the greater number is the greater one.                       *)
LEMMA PowerMonotonic ==
  ASSUME NEW a \in Nat, NEW b \in Nat \ {0}, b <= a
  PROVE  \A n \in Nat : /\ Retry!Power(b, n) \in Nat \ {0} /\ Retry!Power(a, n) \in Nat
                        /\ Retry!Power(b, n) <= Retry!Power(a, n)
PROOF
<1>1. PICK S : S = {n \in Nat : /\ Retry!Power(b, n) # 0
                               /\ Retry!Power(b, n) <= Retry!Power(a, n)}
  OBVIOUS
<1>2. 0 \in S BY <1>1, PowerIs
<1>3. ASSUME NEW n \in Nat, n \in S PROVE n + 1 \in S
  <2>1. PICK p \in Nat : p = Retry!Power(b, n) BY PowerIs
  <2>2. PICK q \in Nat : q = Retry!Power(a, n) BY PowerIs
  <2>3. p # 0 /\ p <= q BY <1>1, <1>3, <2>1, <2>2
  <2>4. b * p # 0 /\ b * p <= a * q
    <3>1. b * p <= b * q BY <2>3
    <3>2. b * q <= a * q OBVIOUS
    <3>3. b * p \in Nat /\ b * q \in Nat /\ a * q \in Nat OBVIOUS
    <3>4. b * p # 0 BY <2>3
    <3>5. QED BY <3>1, <3>2, <3>3, <3>4
  <2>5. Retry!Power(b, n + 1) = b * p /\ Retry!Power(a, n + 1) = a * q
    BY <2>1, <2>2, PowerIs
  <2>6. QED BY <1>1, <2>4, <2>5
<1>4. \A n \in Nat : n \in S BY <1>2, <1>3, InductionOnSets
<1>5. QED BY <1>1, <1>4, PowerIs

(* What random_range draws from.                                           *)
LEMMA StepsWithin ==
  ASSUME NEW low \in Nat, NEW high \in Nat, NEW st \in Nat \ {0},
         NEW k \in 0..((high - low) \div st)
  PROVE  low + k * st \in Nat /\ low <= low + k * st /\ low + k * st <= high
PROOF
<1>1. PICK w \in Int : w = high - low OBVIOUS
<1>2. w \div st \in Int /\ (w \div st) * st <= w OBVIOUS
<1>3. k \in Nat /\ k <= w \div st BY <1>1, <1>2
<1>4. k * st \in Nat /\ k * st <= (w \div st) * st BY <1>2, <1>3
<1>5. k * st <= w BY <1>2, <1>4
<1>6. QED BY <1>1, <1>4, <1>5

(* A random delay is in its interval, and there is one.                    *)
LEMMA BetweenBounds ==
  ASSUME Retry!Parameters, NEW low \in Nat, NEW high \in Nat
  PROVE  /\ \A d \in Retry!Between(low, high) : d \in Nat /\ low <= d /\ d <= high
         /\ low <= high => Retry!Between(low, high) # {}
PROOF
<1>1. Step \in Nat \ {0} BY DEF Retry!Parameters, Retry!Nonzero
<1>2. ASSUME NEW d \in Retry!Between(low, high) PROVE d \in Nat /\ low <= d /\ d <= high
  <2>1. CASE \E k \in 0..((high - low) \div Step) : d = low + k * Step
    BY <1>1, <2>1, StepsWithin
  <2>2. CASE d = high /\ low <= high BY <2>2
  <2>3. QED BY <2>1, <2>2 DEF Retry!Between
<1>3. low <= high => high \in Retry!Between(low, high) BY DEF Retry!Between
<1>4. QED BY <1>2, <1>3

(* A delay times a fraction of at least one is no shorter.                 *)
LEMMA QuotientAtLeast ==
  ASSUME NEW base \in Nat, NEW p \in Nat \ {0}, NEW q \in Nat, p <= q
  PROVE  (base * q) \div p \in Nat /\ base <= (base * q) \div p
PROOF
<1>1. base * p <= base * q /\ base * q \in Nat /\ base * p \in Nat OBVIOUS
<1>2. PICK w \in Nat : w = base * q BY <1>1
<1>3. w \div p \in Nat /\ w < (w \div p) * p + p OBVIOUS
<1>4. base * p < (w \div p + 1) * p BY <1>1, <1>2, <1>3
<1>5. base < w \div p + 1 BY <1>3, <1>4
<1>6. QED BY <1>2, <1>3, <1>5

(* No backoff is less than the base delay.                                 *)
LEMMA BackoffAtLeast ==
  ASSUME Retry!Parameters, config \in Configs, NEW n \in Nat \ {0}
  PROVE  Retry!Backoff(n) \in Nat /\ config.base_delay <= Retry!Backoff(n)
PROOF
<1>1. config.base_delay \in Nat /\ config.backoff \in Retry!Backoffs
  BY DEF Retry!Parameters
<1>2. PICK base \in Nat : base = config.base_delay BY <1>1
<1>3. CASE config.backoff.kind = "fixed"
  BY <1>1, <1>3 DEF Retry!Backoff
<1>4. CASE config.backoff.kind = "linear"
  <2>1. PICK i \in Nat : i = config.backoff.increment
    BY <1>1, <1>4 DEF Retry!Backoffs
  <2>2. Retry!Backoff(n) = base + i * (n - 1)
    BY <1>2, <1>4, <2>1 DEF Retry!Backoff
  <2>3. i * (n - 1) \in Nat OBVIOUS
  <2>4. QED BY <1>2, <2>2, <2>3
<1>5. CASE config.backoff.kind = "exponential"
  <2>1. /\ config.backoff.multiplier[1] \in Nat \ {0} /\ config.backoff.multiplier[2] \in Nat \ {0}
        /\ config.backoff.multiplier[1] >= config.backoff.multiplier[2]
    BY <1>1, <1>5 DEF Retry!Backoffs, Retry!Nonzero
  <2>2. PICK a \in Nat \ {0} : a = config.backoff.multiplier[1] BY <2>1
  <2>3. PICK b \in Nat \ {0} : b = config.backoff.multiplier[2] BY <2>1
  <2>4. b <= a /\ n - 1 \in Nat BY <2>1, <2>2, <2>3
  <2>5. PICK p \in Nat \ {0} : p = Retry!Power(b, n - 1) BY <2>4, PowerMonotonic
  <2>6. PICK q \in Nat : q = Retry!Power(a, n - 1) BY <2>4, PowerMonotonic
  <2>7. p <= q BY <2>4, <2>5, <2>6, PowerMonotonic
  <2>8. Retry!Backoff(n) = (base * q) \div p
    BY <1>2, <1>5, <2>2, <2>3, <2>5, <2>6 DEF Retry!Backoff
  <2>9. QED BY <1>2, <2>7, <2>8, QuotientAtLeast
<1>6. QED BY <1>1, <1>3, <1>4, <1>5 DEF Retry!Backoffs

(* There is a delay; none is longer than the maximum and a half, nor       *)
(* shorter than the base delay, or the maximum if that is shorter.         *)
LEMMA DelayBounds ==
  ASSUME Retry!Parameters, Retry!BaseBelowMax, Retry!IInv, retries.attempt > 0
  PROVE  /\ Retry!Delays # {}
         /\ \A d \in Retry!Delays :
              /\ d \in Nat /\ d * 2 <= 3 * config.max_delay
              /\ Retry!Lesser(config.base_delay, config.max_delay) <= d
PROOF
<1>1. /\ config \in Configs /\ config.jitter \in Retry!Jitters
      /\ retries.attempt \in Nat \ {0} /\ retries.last_delay \in Nat
      /\ config.base_delay \in Nat /\ config.max_delay \in Nat
  BY DEF Retry!IInv, Retry!TypeOK, Retry!Parameters
<1>2. PICK base \in Nat : base = config.base_delay BY <1>1
<1>3. PICK max \in Nat : max = config.max_delay BY <1>1
<1>4. PICK n \in Nat \ {0} : n = retries.attempt BY <1>1
<1>5. PICK b \in Nat : b = Retry!Backoff(n) /\ base <= b BY <1>1, <1>2, BackoffAtLeast
<1>6. PICK c \in Nat : c = Retry!Capped(n) /\ c <= max /\ Retry!Lesser(base, max) <= c
  <2>1. Retry!Capped(n) = IF b < max THEN b ELSE max
    BY <1>3, <1>5 DEF Retry!Capped, Retry!Lesser
  <2>2. CASE b < max
    <3>1. Retry!Capped(n) = b BY <2>1, <2>2
    <3>2. Retry!Lesser(base, max) <= b BY <1>5, <2>2 DEF Retry!Lesser
    <3>3. QED BY <2>2, <3>1, <3>2
  <2>3. CASE ~ (b < max)
    <3>1. Retry!Capped(n) = max BY <2>1, <2>3
    <3>2. Retry!Lesser(base, max) <= max BY DEF Retry!Lesser
    <3>3. QED BY <3>1, <3>2
  <2>4. QED BY <2>2, <2>3
<1>7. ASSUME NEW m \in Nat \ {0, 1},
             Retry!Delays = {c + j : j \in Retry!Between(0, c \div m)}
      PROVE  /\ Retry!Delays # {}
             /\ \A d \in Retry!Delays : d \in Nat /\ d * 2 <= 3 * max /\ Retry!Lesser(base, max) <= d
  <2>1. c \div m \in Nat /\ (c \div m) * 2 <= c
    <3>1. c \div m \in Nat /\ (c \div m) * m <= c OBVIOUS
    <3>2. (c \div m) * 2 <= (c \div m) * m BY <3>1
    <3>3. (c \div m) * m \in Nat BY <3>1
    <3>4. QED BY <3>1, <3>2, <3>3
  <2>2. PICK h \in Nat : h = c \div m BY <2>1
  <2>3. /\ \A j \in Retry!Between(0, h) : j \in Nat /\ j <= h
        /\ Retry!Between(0, h) # {}
    BY BetweenBounds
  <2>4. h * 2 <= c BY <2>1, <2>2
  <2>5. Retry!Lesser(base, max) \in Nat BY DEF Retry!Lesser
  <2>6. ASSUME NEW j \in Retry!Between(0, h)
        PROVE  c + j \in Nat /\ (c + j) * 2 <= 3 * max /\ Retry!Lesser(base, max) <= c + j
    BY <1>6, <2>3, <2>4, <2>5
  <2>7. QED BY <1>7, <2>2, <2>3, <2>6
<1>8. CASE config.jitter = "none"
  <2>1. Retry!Delays = {c} BY <1>4, <1>6, <1>8 DEF Retry!Delays
  <2>2. c * 2 <= 3 * max BY <1>6
  <2>3. QED BY <1>2, <1>3, <1>6, <2>1, <2>2
<1>9. CASE config.jitter = "full"
  <2>1. Retry!Delays = {c + j : j \in Retry!Between(0, c \div 2)}
    BY <1>4, <1>6, <1>9 DEF Retry!Delays
  <2>2. QED BY <1>2, <1>3, <1>7, <2>1
<1>10. CASE config.jitter = "partial"
  <2>1. PICK m \in Nat \ {0, 1} : m = 4 OBVIOUS
  <2>2. Retry!Delays = {c + j : j \in Retry!Between(0, c \div m)}
    BY <1>4, <1>6, <1>10, <2>1 DEF Retry!Delays
  <2>3. QED BY <1>2, <1>3, <1>7, <2>2
<1>11. CASE config.jitter = "decorrelated"
  <2>1. base <= max BY <1>1, <1>2, <1>3, <1>11 DEF Retry!BaseBelowMax
  <2>2. PICK h \in Nat : /\ h = Retry!Lesser(Retry!Greater(retries.last_delay * 3, base), max)
                         /\ base <= h /\ h <= max
    BY <1>1, <2>1 DEF Retry!Lesser, Retry!Greater
  <2>3. Retry!Delays = Retry!Between(base, h)
    BY <1>2, <1>3, <1>11, <2>2 DEF Retry!Delays, Retry!Decorrelated
  <2>4. /\ Retry!Between(base, h) # {}
        /\ \A d \in Retry!Between(base, h) : d \in Nat /\ base <= d /\ d <= h
    BY <2>2, BetweenBounds
  <2>5. Retry!Lesser(base, max) = base BY <2>1 DEF Retry!Lesser
  <2>6. ASSUME NEW d \in Retry!Between(base, h)
        PROVE  d \in Nat /\ d * 2 <= 3 * max /\ base <= d
    BY <2>2, <2>4
  <2>7. QED BY <1>2, <1>3, <2>3, <2>4, <2>5, <2>6
<1>12. QED BY <1>1, <1>8, <1>9, <1>10, <1>11 DEF Retry!Jitters

(* The bound on the whole wait follows from how often has been waited.     *)
LEMMA RetryConclude ==
  ASSUME Retry!Parameters, config \in Configs, config' = config, Retry!TypeOK',
         Retry!Counted', Retry!WaitsAtLeast', retry_pc' # "panic"
  PROVE  Retry!IInv'
PROOF
<1>1. /\ config.max_attempts \in Nat /\ config.max_delay \in Nat
      /\ slept' \in Nat /\ retries'.attempt \in Nat
  BY DEF Retry!Parameters, Retry!TypeOK
<1>2. PICK most \in Nat : most = config.max_attempts BY <1>1
<1>3. PICK max \in Nat : max = config.max_delay BY <1>1
<1>4. PICK s \in Nat : s = slept' BY <1>1
<1>5. PICK a \in Nat : a = retries'.attempt BY <1>1
<1>6. PICK w \in Nat : /\ w = (IF retry_pc' = "attempt" THEN a ELSE a - 1)
                       /\ w <= Retry!Greater(most - 1, 0) /\ a <= Retry!Greater(most, 1)
  <2>1. CASE retry_pc' = "attempt"
    <3>1. a = 0 \/ a < most BY <1>2, <1>5, <2>1 DEF Retry!Counted
    <3>2. QED BY <2>1, <3>1 DEF Retry!Greater
  <2>2. CASE retry_pc' # "attempt"
    <3>1. a > 0 /\ a <= Retry!Greater(most, 1) BY <1>2, <1>5, <2>2 DEF Retry!Counted
    <3>2. QED BY <2>2, <3>1 DEF Retry!Greater
  <2>3. QED BY <2>1, <2>2
<1>7. PICK g \in Nat : g = Retry!Greater(most - 1, 0) BY DEF Retry!Greater
<1>8. s * 2 <= 3 * max * w
  BY <1>3, <1>4, <1>5, <1>6 DEF Retry!Counted, Retry!Waits
<1>9. s * 2 <= 3 * max * g
  <2>1. w <= g BY <1>6, <1>7
  <2>2. PICK t \in Nat : t = 3 * max OBVIOUS
  <2>3. t * w <= t * g /\ t * w \in Nat /\ t * g \in Nat BY <2>1
  <2>4. s * 2 <= t * w BY <1>8, <2>2
  <2>5. s * 2 <= t * g BY <2>3, <2>4
  <2>6. QED BY <2>2, <2>5
<1>10. Retry!WaitBounded'
  BY <1>2, <1>3, <1>4, <1>5, <1>6, <1>7, <1>9 DEF Retry!WaitBounded
<1>11. QED BY <1>10 DEF Retry!IInv, Retry!DelaysBounded, Retry!NeverPanics

LEMMA RetryStep ==
  ASSUME Retry!Parameters, Retry!BaseBelowMax, Retry!IInv, Retry!Next
  PROVE  Retry!IInv'
PROOF
<1>1. /\ config \in Configs /\ slept \in Nat /\ retries \in [attempt : Nat, last_delay : Nat]
      /\ retry_pc \in {"attempt", "running", "failed", "ok", "error", "panic"}
      /\ error \in Retry!Errors \cup {"none"} /\ config.jitter \in Retry!Jitters
      /\ config.max_attempts \in Nat /\ config.max_delay \in Nat /\ config.base_delay \in Nat
  BY DEF Retry!IInv, Retry!TypeOK, Retry!Parameters
<1>2. Retry!Counted BY DEF Retry!IInv
<1>3. config' = config
  BY DEF Retry!Next, Retry!Attempt, Retry!Succeeds, Retry!Fails, Retry!GivesUp, Retry!Sleeps,
         Retry!Panics
<1>4. CASE Retry!Attempt
  <2>1. PICK a \in Nat : a = retries.attempt BY <1>1
  <2>2. /\ retry_pc = "attempt" /\ retry_pc' = "running" /\ error' = error /\ slept' = slept
        /\ retries' \in [attempt : Nat, last_delay : Nat] /\ retries'.attempt = a + 1
    BY <1>1, <1>4, <2>1 DEF Retry!Attempt
  <2>3. Retry!TypeOK' BY <1>1, <1>3, <2>2 DEF Retry!TypeOK
  <2>4. slept * 2 <= 3 * config.max_delay * a
    BY <1>2, <2>1, <2>2 DEF Retry!Counted, Retry!Waits
  <2>5. a + 1 > 0 /\ a + 1 <= Retry!Greater(config.max_attempts, 1) /\ a + 1 - 1 = a
    BY <1>1, <1>2, <2>1, <2>2 DEF Retry!Counted, Retry!Greater
  <2>6. Retry!Counted'
    BY <1>3, <2>2, <2>4, <2>5 DEF Retry!Counted, Retry!Waits
  <2>7. Retry!WaitsAtLeast' BY <2>2 DEF Retry!WaitsAtLeast
  <2>8. QED BY <1>1, <1>3, <2>2, <2>3, <2>6, <2>7, RetryConclude
<1>5. CASE Retry!Succeeds \/ Retry!Fails \/ Retry!GivesUp
  <2>1. /\ retry_pc # "attempt" /\ retry_pc' \in {"ok", "failed", "error"}
        /\ retries' = retries /\ slept' = slept /\ error' \in Retry!Errors \cup {"none"}
    BY <1>1, <1>5 DEF Retry!Succeeds, Retry!Fails, Retry!GivesUp
  <2>2. Retry!TypeOK' BY <1>1, <1>3, <2>1 DEF Retry!TypeOK
  <2>3. Retry!Counted' BY <1>2, <1>3, <2>1 DEF Retry!Counted, Retry!Waits
  <2>4. Retry!WaitsAtLeast' BY <2>1 DEF Retry!WaitsAtLeast
  <2>5. QED BY <1>1, <1>3, <2>1, <2>2, <2>3, <2>4, RetryConclude
<1>6. CASE Retry!Sleeps
  <2>1. PICK d \in Retry!Delays :
          retries' = [retries EXCEPT !.last_delay = d] /\ slept' = slept + d
    BY <1>6 DEF Retry!Sleeps
  <2>2. /\ retry_pc = "failed" /\ retry_pc' = "attempt" /\ error' = error
        /\ retries.attempt < config.max_attempts
    BY <1>6 DEF Retry!Sleeps
  <2>3. PICK a \in Nat \ {0} : a = retries.attempt
    BY <1>1, <1>2, <2>2 DEF Retry!Counted
  <2>4. /\ d \in Nat /\ d * 2 <= 3 * config.max_delay
        /\ Retry!Lesser(config.base_delay, config.max_delay) <= d
    BY <2>3, DelayBounds
  <2>5. /\ retries' \in [attempt : Nat, last_delay : Nat]
        /\ retries'.attempt = a /\ retries'.last_delay = d
    BY <1>1, <2>1, <2>3, <2>4
  <2>6. Retry!TypeOK' BY <1>1, <1>3, <2>1, <2>2, <2>4, <2>5 DEF Retry!TypeOK
  <2>7. slept * 2 <= 3 * config.max_delay * (a - 1)
    BY <1>2, <2>2, <2>3 DEF Retry!Counted, Retry!Waits
  <2>8. (slept + d) * 2 <= 3 * config.max_delay * a
    <3>1. PICK t \in Nat : t = 3 * config.max_delay BY <1>1
    <3>2. PICK s \in Nat : s = slept BY <1>1
    <3>3. s * 2 <= t * (a - 1) /\ d * 2 <= t BY <2>4, <2>7, <3>1, <3>2
    <3>4. t * (a - 1) + t = t * a OBVIOUS
    <3>5. t * (a - 1) \in Int /\ (s + d) * 2 = s * 2 + d * 2 BY <2>4
    <3>6. (s + d) * 2 <= t * a BY <2>4, <3>3, <3>4, <3>5
    <3>7. QED BY <3>1, <3>2, <3>6
  <2>9. Retry!Counted'
    BY <1>3, <2>1, <2>2, <2>3, <2>5, <2>8 DEF Retry!Counted, Retry!Waits
  <2>10. Retry!WaitsAtLeast' BY <1>3, <2>4, <2>5 DEF Retry!WaitsAtLeast
  <2>11. QED BY <1>1, <1>3, <2>2, <2>6, <2>9, <2>10, RetryConclude
<1>7. CASE Retry!Panics
  <2>1. retry_pc = "failed" /\ Retry!Delays = {} BY <1>7 DEF Retry!Panics
  <2>2. retries.attempt > 0 BY <1>2, <2>1 DEF Retry!Counted
  <2>3. QED BY <2>1, <2>2, DelayBounds
<1>8. QED BY <1>4, <1>5, <1>6, <1>7 DEF Retry!Next

(* The inductive invariant of the retry executor.                          *)
THEOREM RetryIInvHolds ==
  ASSUME Retry!Parameters, Retry!BaseBelowMax
  PROVE  Retry!Spec => []Retry!IInv
PROOF
<1>1. Retry!Init => Retry!IInv
  <2> SUFFICES ASSUME Retry!Init PROVE Retry!IInv
    OBVIOUS
  <2>1. /\ config \in Configs /\ retries = [attempt |-> 0, last_delay |-> 0]
        /\ retry_pc = "attempt" /\ error = "none" /\ slept = 0
    BY DEF Retry!Init, Retry!NewState
  <2>2. /\ config.jitter \in Retry!Jitters
        /\ config.max_attempts \in Nat /\ config.max_delay \in Nat
    BY <2>1 DEF Retry!Parameters
  <2>3. Retry!TypeOK BY <2>1, <2>2 DEF Retry!TypeOK
  <2>4. 0 * 2 <= 3 * config.max_delay * 0 BY <2>2
  <2>5. Retry!Counted BY <2>1, <2>4 DEF Retry!Counted, Retry!Waits
  <2>6. Retry!DelaysBounded
    <3>1. PICK g \in Nat : g = Retry!Greater(config.max_attempts - 1, 0)
      BY <2>2 DEF Retry!Greater
    <3>2. PICK t \in Nat : t = 3 * config.max_delay BY <2>2
    <3>3. 0 * 2 <= t * g OBVIOUS
    <3>4. 0 <= Retry!Greater(config.max_attempts, 1) BY <2>2 DEF Retry!Greater
    <3>5. Retry!WaitBounded BY <2>1, <3>1, <3>2, <3>3, <3>4 DEF Retry!WaitBounded
    <3>6. QED BY <2>1, <3>5 DEF Retry!DelaysBounded, Retry!WaitsAtLeast, Retry!NeverPanics
  <2>7. QED BY <2>1, <2>3, <2>5, <2>6 DEF Retry!IInv
<1>2. Retry!IInv /\ [Retry!Next]_Retry!vars => Retry!IInv'
  <2>1. SUFFICES ASSUME Retry!IInv, [Retry!Next]_Retry!vars PROVE Retry!IInv'
    OBVIOUS
  <2>2. CASE Retry!Next BY <2>1, <2>2, RetryStep
  <2>3. CASE UNCHANGED Retry!vars
    BY <2>1, <2>3
       DEF Retry!vars, Retry!IInv, Retry!TypeOK, Retry!DelaysBounded, Retry!WaitBounded,
           Retry!WaitsAtLeast, Retry!NeverPanics, Retry!Counted, Retry!Waits
  <2>4. QED BY <2>1, <2>2, <2>3
<1>3. QED BY <1>1, <1>2, PTL DEF Retry!Spec

(* The whole wait is at most one and a half times the maximum for each     *)
(* attempt but one, the attempts are bounded, no retry comes early, and    *)
(* there is always a delay.                                                *)
THEOREM RetryDelaysBounded ==
  ASSUME Retry!Parameters, Retry!BaseBelowMax
  PROVE  Retry!Spec => []DelaysBounded
PROOF
<1>1. Retry!IInv => DelaysBounded BY DEF Retry!IInv, DelaysBounded
<1>2. QED BY <1>1, RetryIInvHolds, PTL


-----------------------------------------------------------------------------
(* A finite set that differs in one element at most.                       *)
LEMMA OneMoves ==
  ASSUME NEW S, IsFiniteSet(S), NEW T, NEW x, S \ {x} = T \ {x}
  PROVE  /\ IsFiniteSet(T)
         /\ Cardinality(S) \in Nat /\ Cardinality(T) \in Nat
         /\ (x \in S <=> x \in T) => Cardinality(T) = Cardinality(S)
         /\ x \notin S /\ x \in T => Cardinality(T) = Cardinality(S) + 1
         /\ x \in S /\ x \notin T => Cardinality(T) = Cardinality(S) - 1
PROOF
<1>1. IsFiniteSet(S \ {x}) /\ IsFiniteSet(S \cup {x}) BY FS_RemoveElement, FS_AddElement
<1>2. CASE x \in S /\ x \in T
  <2>1. T = S BY <1>2
  <2>2. QED BY <1>2, <2>1, FS_CardinalityType
<1>3. CASE x \notin S /\ x \notin T
  <2>1. T = S BY <1>3
  <2>2. QED BY <1>3, <2>1, FS_CardinalityType
<1>4. CASE x \notin S /\ x \in T
  <2>1. T = S \cup {x} BY <1>4
  <2>2. QED BY <1>1, <1>4, <2>1, FS_AddElement, FS_CardinalityType
<1>5. CASE x \in S /\ x \notin T
  <2>1. T = S \ {x} BY <1>5
  <2>2. QED BY <1>1, <1>5, <2>1, FS_RemoveElement, FS_CardinalityType
<1>6. QED BY <1>2, <1>3, <1>4, <1>5

-----------------------------------------------------------------------------
(* Batches of connections.                                                 *)

LEMMA BatchCounts ==
  /\ \A S : Batch!IsFiniteSet(S) <=> IsFiniteSet(S)
  /\ \A S : Batch!Cardinality(S) = Cardinality(S)
PROOF
<1>1. ASSUME NEW S PROVE Batch!IsFiniteSet(S) <=> IsFiniteSet(S)
  BY Zenon DEF Batch!IsFiniteSet, IsFiniteSet
<1>2. ASSUME NEW S PROVE Batch!Cardinality(S) = Cardinality(S)
  BY Zenon DEF Batch!Cardinality, Cardinality
<1>3. QED BY <1>1, <1>2

LEMMA BatchTasks ==
  ASSUME Batch!Parameters
  PROVE  /\ IsFiniteSet(Batch!Tasks)
         /\ \A t \in Batch!Tasks : t[1] \in Callers
         /\ \A c \in Callers : \A n \in 1..Asked[c] : <<c, n>> \in Batch!Of(c)
         /\ \A c \in Callers : \A t \in Batch!Of(c) : \E n \in 1..Asked[c] : t = <<c, n>>
PROOF
<1> DEFINE TasksOf(c) == {c} \X (1..Asked[c])
           All == {TasksOf(c) : c \in Callers}
<1> USE DEF Batch!Parameters
<1>1. \A t \in Batch!Tasks : \E c \in Callers : t \in TasksOf(c)
  BY DEF Batch!Tasks
<1>2. \A c \in Callers : TasksOf(c) \subseteq Batch!Tasks
  BY DEF Batch!Tasks
<1>3. IsFiniteSet(Batch!Tasks)
  <2>1. \A T \in All : IsFiniteSet(T)
    <3>1. SUFFICES ASSUME NEW c \in Callers PROVE IsFiniteSet(TasksOf(c)) OBVIOUS
    <3>2. IsFiniteSet({c}) BY FS_Singleton
    <3>3. Asked[c] \in Int OBVIOUS
    <3>4. IsFiniteSet(1..Asked[c]) BY <3>3, FS_Interval
    <3>5. QED BY <3>2, <3>4, FS_Product
  <2>2. IsFiniteSet(All)
    <3> DEFINE f == [c \in Callers |-> TasksOf(c)]
    <3>1. f \in [Callers -> All] /\ \A T \in All : \E c \in Callers : f[c] = T
      BY Zenon
    <3> HIDE DEF f, All
    <3>2. f \in Surjection(Callers, All) BY <3>1 DEF Surjection
    <3>3. IsFiniteSet(Callers) BY BatchCounts DEF Batch!Parameters
    <3>4. QED BY <3>2, <3>3, FS_Surjection
  <2>3. IsFiniteSet(UNION All) BY <2>1, <2>2, FS_UNION
  <2>4. QED BY <2>3 DEF Batch!Tasks
<1>4. \A t \in Batch!Tasks : t[1] \in Callers BY <1>1
<1>5. ASSUME NEW c \in Callers, NEW n \in 1..Asked[c] PROVE <<c, n>> \in Batch!Of(c)
  BY <1>2 DEF Batch!Of
<1>6. ASSUME NEW c \in Callers, NEW t \in Batch!Of(c)
      PROVE  \E n \in 1..Asked[c] : t = <<c, n>>
  BY <1>1 DEF Batch!Of
<1>7. QED BY <1>3, <1>4, <1>5, <1>6

(* The permits the tasks hold, when one of them goes on.                   *)
LEMMA BatchTaskMoves ==
  ASSUME Batch!Parameters, Batch!TypeOK, NEW t \in Batch!Tasks, NEW to,
         task' = [task EXCEPT ![t] = to]
  PROVE  LET Holds == {"connecting", "got"}
             N     == Cardinality(Batch!Has)
         IN  /\ N \in Nat /\ N' \in Nat
             /\ task[t] \in Holds /\ to \notin Holds => N' = N - 1 /\ N > 0
             /\ task[t] \notin Holds /\ to \in Holds => N' = N + 1
             /\ (task[t] \in Holds <=> to \in Holds) => N' = N
PROOF
<1> DEFINE Holds == {"connecting", "got"}
<1>1. IsFiniteSet(Batch!Has) BY BatchTasks, FS_Subset DEF Batch!Has
<1>2. \A u \in Batch!Tasks : task'[u] = IF u = t THEN to ELSE task[u]
  BY DEF Batch!TypeOK
<1>3. Batch!Has \ {t} = Batch!Has' \ {t} BY <1>2 DEF Batch!Has
<1>4. (t \in Batch!Has <=> task[t] \in Holds) /\ (t \in Batch!Has' <=> to \in Holds)
  BY <1>2 DEF Batch!Has
<1>5. /\ Cardinality(Batch!Has) \in Nat /\ Cardinality(Batch!Has') \in Nat
      /\ (t \in Batch!Has <=> t \in Batch!Has') =>
           Cardinality(Batch!Has') = Cardinality(Batch!Has)
      /\ t \notin Batch!Has /\ t \in Batch!Has' =>
           Cardinality(Batch!Has') = Cardinality(Batch!Has) + 1
      /\ t \in Batch!Has /\ t \notin Batch!Has' =>
           Cardinality(Batch!Has') = Cardinality(Batch!Has) - 1
  BY <1>1, <1>3, OneMoves
<1>6. QED BY <1>4, <1>5

LEMMA BatchPermitsNext ==
  ASSUME Batch!Parameters, Batch!IInv, Batch!Next
  PROVE  Batch!PermitsKept' /\ free' \in Nat /\ idle' \in Nat /\ Cardinality(Batch!Has') \in Nat
PROOF
<1> DEFINE N == Cardinality(Batch!Has)
           Sum == free' + idle' + N' = free + idle + N /\ free' \in Nat /\ idle' \in Nat
<1>1. free + idle + N = MaxSize /\ free \in Nat /\ idle \in Nat
  BY BatchCounts DEF Batch!IInv, Batch!BatchesWhole, Batch!PermitsKept, Batch!TypeOK,
     Batch!Parameters
<1>2. Batch!TypeOK BY DEF Batch!IInv
<1>3. IsFiniteSet(Batch!Has) /\ N \in Nat
  BY BatchTasks, FS_Subset, FS_CardinalityType DEF Batch!Has
<1>4. SUFFICES Sum /\ N' \in Nat
  BY <1>1, BatchCounts DEF Batch!PermitsKept
<1>5. ASSUME NEW t \in Batch!Tasks, Batch!TaskStep(t) \/ Batch!GiveBack(t)
      PROVE  Sum /\ N' \in Nat
  <2>1. PICK to : task' = [task EXCEPT ![t] = to]
    BY <1>5 DEF Batch!TaskStep, Batch!FirstLook, Batch!Acquire, Batch!AcquireTimeout,
       Batch!Connected, Batch!ConnectFails, Batch!GiveBack, Batch!Got, Batch!Task
  <2>2. task'[t] = to BY <1>2, <2>1 DEF Batch!TypeOK
  <2> DEFINE Holds == {"connecting", "got"}
  <2>3. /\ N' \in Nat
        /\ task[t] \in Holds /\ to \notin Holds => N' = N - 1
        /\ task[t] \notin Holds /\ to \in Holds => N' = N + 1
        /\ (task[t] \in Holds <=> to \in Holds) => N' = N
    BY <1>2, <2>1, BatchTaskMoves
  <2> HIDE DEF N
  <2>4. \A u \in {"start", "waiting", "connecting", "got", "refused", "over"} :
          Batch!Task(t, u) => to = u
    BY <1>2, <2>2 DEF Batch!Task, Batch!TypeOK
  <2>5. CASE Batch!FirstLook(t)
    BY <1>1, <1>3, <2>3, <2>4, <2>5 DEF Batch!FirstLook, Batch!Got
  <2>6. CASE Batch!Acquire(t)
    BY <1>1, <1>3, <2>3, <2>4, <2>6 DEF Batch!Acquire, Batch!Got
  <2>7. CASE Batch!AcquireTimeout(t)
    BY <1>1, <1>3, <2>3, <2>4, <2>7 DEF Batch!AcquireTimeout
  <2>8. CASE Batch!Connected(t)
    <3>1. CASE Batch!Gone(t[1])
      <4>1. to = "over" /\ free' = free /\ idle' = idle + 1 /\ task[t] = "connecting"
        BY <2>4, <2>8, <3>1 DEF Batch!Connected, Batch!Got
      <4>2. QED BY <1>1, <1>3, <2>3, <4>1
    <3>2. CASE ~Batch!Gone(t[1])
      <4>1. to = "got" /\ free' = free /\ idle' = idle /\ task[t] = "connecting"
        BY <2>4, <2>8, <3>2 DEF Batch!Connected, Batch!Got
      <4>2. QED BY <1>1, <1>3, <2>3, <4>1
    <3>3. QED BY <3>1, <3>2
  <2>9. CASE Batch!ConnectFails(t)
    BY <1>1, <1>3, <2>3, <2>4, <2>9 DEF Batch!ConnectFails
  <2>10. CASE Batch!GiveBack(t)
    BY <1>1, <1>3, <2>3, <2>4, <2>10 DEF Batch!GiveBack
  <2>11. QED BY <1>5, <2>5, <2>6, <2>7, <2>8, <2>9, <2>10 DEF Batch!TaskStep
<1>6. ASSUME NEW c \in Callers, Batch!Spawn(c) PROVE Sum /\ N' \in Nat
  <2>1. \A t \in Batch!Tasks : t[1] = c => task[t] = "none"
    BY <1>6 DEF Batch!Spawn, Batch!IInv, Batch!NoneYet, Batch!Of
  <2>2. Batch!Has' = Batch!Has BY <1>6, <2>1 DEF Batch!Spawn, Batch!Has
  <2>3. QED BY <1>1, <1>3, <1>6, <2>2 DEF Batch!Spawn
<1>7. ASSUME NEW c \in Callers, NEW how, Batch!GiveUp(c, how) PROVE Sum /\ N' \in Nat
  <2> DEFINE G == {t \in Batch!Of(c) : task[t] = "got"}
  <2>1. G \subseteq Batch!Has BY DEF Batch!Of, Batch!Has
  <2>2. Batch!Has' = Batch!Has \ G
    BY <1>7 DEF Batch!GiveUp, Batch!Has, Batch!Of
  <2>3. Batch!Has \cap G = G BY <2>1
  <2>4. N' = N - Cardinality(G) /\ IsFiniteSet(Batch!Has')
    <3>1. /\ IsFiniteSet(Batch!Has \ G)
          /\ Cardinality(Batch!Has \ G) = N - Cardinality(Batch!Has \cap G)
      BY <1>3, FS_Difference
    <3>2. QED BY <2>2, <2>3, <3>1
  <2>5. Cardinality(G) \in Nat /\ N' \in Nat
    BY <1>3, <2>1, <2>4, FS_Subset, FS_CardinalityType
  <2>6. idle' = idle + Cardinality(G) /\ free' = free
    BY <1>7, BatchCounts DEF Batch!GiveUp
  <2> HIDE DEF N, G
  <2>7. QED BY <1>1, <1>3, <2>4, <2>5, <2>6
<1>8. ASSUME NEW c \in Callers, Batch!Join(c) \/ Batch!Return(c) PROVE Sum /\ N' \in Nat
  <2>1. Batch!Has' = Batch!Has BY <1>8 DEF Batch!Join, Batch!Return, Batch!Has
  <2>2. QED BY <1>1, <1>3, <1>8, <2>1 DEF Batch!Join, Batch!Return
<1>9. QED
  BY <1>5, <1>6, <1>7, <1>8 DEF Batch!Next, Batch!CallStep, Batch!JoinRefused, Batch!Cancel

LEMMA BatchTypeNext ==
  ASSUME Batch!Parameters, Batch!IInv, Batch!Next
  PROVE  Batch!TypeOK'
PROOF
<1> DEFINE Types ==
      /\ task \in [Batch!Tasks -> Batch!Working \cup {"none", "got", "refused", "over"}]
      /\ caller \in [Callers -> {"new", "joining", "ok", "failed", "cancelled"}]
      /\ joined \in [Callers -> Nat] /\ \A c \in Callers : joined[c] <= Asked[c]
<1>1. Types BY DEF Batch!IInv, Batch!TypeOK
<1>2. free' \in 0..MaxSize /\ idle' \in 0..MaxSize
  BY BatchPermitsNext, BatchCounts DEF Batch!PermitsKept, Batch!Parameters
<1> SUFFICES Types' BY <1>2 DEF Batch!TypeOK
<1>3. ASSUME NEW t \in Batch!Tasks, Batch!TaskStep(t) \/ Batch!GiveBack(t) PROVE Types'
  <2>1. PICK to \in Batch!Working \cup {"got", "refused", "over"} : Batch!Task(t, to)
    BY <1>3 DEF Batch!TaskStep, Batch!FirstLook, Batch!Acquire, Batch!AcquireTimeout,
       Batch!Connected, Batch!ConnectFails, Batch!GiveBack, Batch!Got, Batch!Working
  <2>2. QED BY <1>1, <2>1 DEF Batch!Task
<1>4. ASSUME NEW c \in Callers, Batch!Spawn(c) PROVE Types'
  BY <1>1, <1>4 DEF Batch!Spawn, Batch!Working
<1>5. ASSUME NEW c \in Callers, NEW how \in {"failed", "cancelled"}, Batch!GiveUp(c, how)
      PROVE  Types'
  BY <1>1, <1>5 DEF Batch!GiveUp
<1>6. ASSUME NEW c \in Callers, Batch!Join(c) PROVE Types'
  BY <1>1, <1>6 DEF Batch!Join, Batch!Parameters
<1>7. ASSUME NEW c \in Callers, Batch!Return(c) PROVE Types'
  BY <1>1, <1>7 DEF Batch!Return
<1>8. QED
  BY <1>3, <1>4, <1>5, <1>6, <1>7 DEF Batch!Next, Batch!CallStep, Batch!JoinRefused,
     Batch!Cancel

(* A call that succeeds has joined every task, and a task that ends for a  *)
(* call that has given up keeps nothing.                                   *)
LEMMA BatchWholeNext ==
  ASSUME Batch!Parameters, Batch!IInv, Batch!Next
  PROVE  Batch!AllOrNothing' /\ Batch!NoneYet'
PROOF
<1> DEFINE Whole(c) ==
      /\ caller[c] = "ok" => \A t \in Batch!Of(c) : task[t] \in {"got", "over"}
      /\ caller[c] \in {"failed", "cancelled"} => \A t \in Batch!Of(c) : task[t] # "got"
      /\ caller[c] = "joining" => \A n \in 1..joined[c] : task[<<c, n>>] = "got"
      /\ caller[c] = "new" => joined[c] = 0 /\ \A t \in Batch!Of(c) : task[t] = "none"
<1>1. \A c \in Callers : Whole(c)
  BY DEF Batch!IInv, Batch!BatchesWhole, Batch!AllOrNothing, Batch!NoneYet, Batch!Gone
<1> SUFFICES ASSUME NEW c \in Callers PROVE Whole(c)'
  BY DEF Batch!AllOrNothing, Batch!NoneYet, Batch!Gone
<1>2. Whole(c) BY <1>1
<1>3. /\ task \in [Batch!Tasks -> Batch!Working \cup {"none", "got", "refused", "over"}]
      /\ caller \in [Callers -> {"new", "joining", "ok", "failed", "cancelled"}]
      /\ joined \in [Callers -> Nat] /\ joined[c] <= Asked[c] /\ Asked[c] \in Nat
  BY DEF Batch!IInv, Batch!TypeOK, Batch!Parameters
<1>4. /\ \A t \in Batch!Of(c) : t \in Batch!Tasks /\ t[1] = c
      /\ \A n \in 1..Asked[c] : <<c, n>> \in Batch!Of(c)
      /\ \A t \in Batch!Of(c) : \E n \in 1..Asked[c] : t = <<c, n>>
  BY BatchTasks DEF Batch!Of
<1>5. ASSUME NEW t \in Batch!Tasks, Batch!TaskStep(t) PROVE Whole(c)'
  <2>1. PICK to : Batch!Task(t, to) /\ (Batch!Gone(t[1]) => to # "got")
    BY <1>5 DEF Batch!TaskStep, Batch!FirstLook, Batch!Acquire, Batch!AcquireTimeout,
       Batch!Connected, Batch!ConnectFails, Batch!Got
  <2>2. task[t] \in Batch!Working
    BY <1>5 DEF Batch!TaskStep, Batch!FirstLook, Batch!Acquire, Batch!AcquireTimeout,
       Batch!Connected, Batch!ConnectFails, Batch!Working
  <2>3. /\ caller' = caller /\ joined' = joined
        /\ \A u \in Batch!Tasks : task'[u] = IF u = t THEN to ELSE task[u]
    BY <1>3, <2>1 DEF Batch!Task
  <2>4. task[t] \notin {"none", "got", "over"} BY <2>2 DEF Batch!Working
  <2>5. caller[c] = "ok" => \A u \in Batch!Of(c) : u # t BY <1>2, <2>4
  <2>6. caller[c] = "new" => \A u \in Batch!Of(c) : u # t BY <1>2, <2>4
  <2>7. caller[c] = "joining" => \A n \in 1..joined[c] : <<c, n>> # t BY <1>2, <2>4
  <2>8. caller[c] \in {"failed", "cancelled"} => \A u \in Batch!Of(c) : u = t => to # "got"
    BY <1>4, <2>1 DEF Batch!Gone
  <2>9. \A n \in 1..joined[c] : <<c, n>> \in Batch!Tasks BY <1>3, <1>4
  <2>10. QED BY <1>2, <1>4, <2>3, <2>5, <2>6, <2>7, <2>8, <2>9
<1>6. ASSUME NEW t \in Batch!Tasks, Batch!GiveBack(t) PROVE Whole(c)'
  <2>1. /\ caller' = caller /\ joined' = joined /\ caller[t[1]] = "ok" /\ task[t] = "got"
        /\ \A u \in Batch!Tasks : task'[u] = IF u = t THEN "over" ELSE task[u]
    BY <1>3, <1>6 DEF Batch!GiveBack, Batch!Task
  <2>2. \A n \in 1..joined[c] : <<c, n>> \in Batch!Tasks /\ <<c, n>>[1] = c BY <1>3, <1>4
  <2>3. QED BY <1>2, <1>4, <2>1, <2>2
<1>7. ASSUME NEW d \in Callers, Batch!Spawn(d) PROVE Whole(c)'
  <2>1. /\ caller[d] = "new" /\ joined' = joined
        /\ caller'[c] = IF c = d THEN "joining" ELSE caller[c]
        /\ \A u \in Batch!Tasks : task'[u] = IF u[1] = d THEN "start" ELSE task[u]
    BY <1>3, <1>7 DEF Batch!Spawn
  <2>2. \A n \in 1..joined[c] : <<c, n>> \in Batch!Tasks /\ <<c, n>>[1] = c BY <1>3, <1>4
  <2>3. CASE c = d BY <1>2, <2>1, <2>3
  <2>4. CASE c # d BY <1>2, <1>4, <2>1, <2>2, <2>4
  <2>5. QED BY <2>3, <2>4
<1>8. ASSUME NEW d \in Callers, NEW how \in {"failed", "cancelled"}, Batch!GiveUp(d, how),
             caller[d] = "joining"
      PROVE  Whole(c)'
  <2>1. /\ joined' = joined /\ caller'[c] = IF c = d THEN how ELSE caller[c]
        /\ \A u \in Batch!Tasks :
             task'[u] = IF u[1] = d /\ task[u] \in {"got", "refused"} THEN "over" ELSE task[u]
    BY <1>3, <1>8 DEF Batch!GiveUp
  <2>2. \A n \in 1..joined[c] : <<c, n>> \in Batch!Tasks /\ <<c, n>>[1] = c BY <1>3, <1>4
  <2>3. CASE c = d BY <1>2, <1>4, <2>1, <2>3
  <2>4. CASE c # d BY <1>2, <1>4, <2>1, <2>2, <2>4
  <2>5. QED BY <2>3, <2>4
<1>9. ASSUME NEW d \in Callers, Batch!Join(d) PROVE Whole(c)'
  <2>1. /\ caller' = caller /\ task' = task /\ caller[d] = "joining"
        /\ task[<<d, joined[d] + 1>>] = "got"
        /\ joined'[c] = IF c = d THEN joined[c] + 1 ELSE joined[c]
    BY <1>3, <1>9 DEF Batch!Join
  <2>2. CASE c = d
    <3>1. \A n \in 1..(joined[c] + 1) : n \in 1..joined[c] \/ n = joined[c] + 1 BY <1>3
    <3>2. QED BY <1>2, <2>1, <2>2, <3>1
  <2>3. CASE c # d BY <1>2, <2>1, <2>3
  <2>4. QED BY <2>2, <2>3
<1>10. ASSUME NEW d \in Callers, Batch!Return(d) PROVE Whole(c)'
  <2>1. /\ joined' = joined /\ task' = task /\ caller[d] = "joining" /\ joined[d] = Asked[d]
        /\ caller'[c] = IF c = d THEN "ok" ELSE caller[c]
    BY <1>3, <1>10 DEF Batch!Return
  <2>2. QED BY <1>2, <1>4, <2>1
<1>11. QED
  BY <1>5, <1>6, <1>7, <1>8, <1>9, <1>10 DEF Batch!Next, Batch!CallStep, Batch!JoinRefused,
     Batch!Cancel

(* The inductive invariant of batches of connections.                      *)
THEOREM BatchIInvHolds ==
  ASSUME Batch!Parameters
  PROVE  Batch!Spec => []Batch!IInv
PROOF
<1>1. Batch!Init => Batch!IInv
  <2>1. SUFFICES ASSUME Batch!Init PROVE Batch!IInv OBVIOUS
  <2>2. Batch!Has = {} BY <2>1 DEF Batch!Init, Batch!Has
  <2>3. Cardinality(Batch!Has) = 0 BY <2>2, FS_EmptySet
  <2>4. Batch!PermitsKept
    BY <2>1, <2>3, BatchCounts DEF Batch!Init, Batch!PermitsKept, Batch!Parameters
  <2>5. Batch!TypeOK BY <2>1 DEF Batch!Init, Batch!TypeOK, Batch!Parameters
  <2>6. Batch!AllOrNothing /\ Batch!NoneYet
    BY <2>1 DEF Batch!Init, Batch!AllOrNothing, Batch!NoneYet, Batch!Gone, Batch!Of
  <2>7. QED BY <2>4, <2>5, <2>6 DEF Batch!IInv, Batch!BatchesWhole
<1>2. Batch!IInv /\ [Batch!Next]_Batch!vars => Batch!IInv'
  <2>1. CASE Batch!Next
    BY <2>1, BatchTypeNext, BatchPermitsNext, BatchWholeNext
       DEF Batch!IInv, Batch!BatchesWhole
  <2>2. CASE UNCHANGED Batch!vars
    BY <2>2 DEF Batch!vars, Batch!IInv, Batch!BatchesWhole, Batch!TypeOK, Batch!PermitsKept,
       Batch!AllOrNothing, Batch!NoneYet, Batch!Has, Batch!Gone
  <2>3. QED BY <2>1, <2>2
<1>3. QED BY <1>1, <1>2, PTL DEF Batch!Spec

(* Whatever tasks outlive their call, no permit is lost; and a call of     *)
(* get_connections has all its connections or none.                        *)
THEOREM ConnectionBatchesWhole ==
  ASSUME Batch!Parameters
  PROVE  Batch!Spec => []Batch!BatchesWhole
PROOF
<1>1. Batch!IInv => Batch!BatchesWhole BY DEF Batch!IInv
<1>2. QED BY <1>1, BatchIInvHolds, PTL

(* Both kinds of batch side by side.                                       *)
THEOREM BatchesAreWhole ==
  ASSUME Put!Parameters, Batch!Parameters
  PROVE  Put!Spec /\ Batch!Spec => []BatchesWhole
PROOF
<1>1. /\ Put!IInv /\ Put!BatchesWhole
      /\ Batch!IInv /\ Batch!BatchesWhole
      => BatchesWhole
  BY DEF BatchesWhole
<1>2. QED
  BY <1>1, PutIInvHolds, PutBatchesWhole, BatchIInvHolds, ConnectionBatchesWhole, PTL

-----------------------------------------------------------------------------
(* The counters of the metrics.                                            *)

LEMMA CollectorCounts ==
  /\ \A S : Collector!IsFiniteSet(S) <=> IsFiniteSet(S)
  /\ \A S : Collector!Cardinality(S) = Cardinality(S)
PROOF
<1>1. ASSUME NEW S PROVE Collector!IsFiniteSet(S) <=> IsFiniteSet(S)
  BY Zenon DEF Collector!IsFiniteSet, IsFiniteSet
<1>2. ASSUME NEW S PROVE Collector!Cardinality(S) = Cardinality(S)
  BY Zenon DEF Collector!Cardinality, Cardinality
<1>3. QED BY <1>1, <1>2

(* How many calls there are of a kind, when one call goes on.              *)
LEMMA CallsOfKind ==
  ASSUME Collector!Parameters, NEW c \in Calls,
         NEW S \in SUBSET Calls, NEW T \in SUBSET Calls,
         \A d \in Calls : d # c => (d \in S <=> d \in T)
  PROVE  /\ Cardinality(S) \in Nat /\ Cardinality(T) \in Nat
         /\ (c \in S <=> c \in T) => Cardinality(T) = Cardinality(S)
         /\ c \notin S /\ c \in T => Cardinality(T) = Cardinality(S) + 1
         /\ c \in S /\ c \notin T => Cardinality(T) = Cardinality(S) - 1
PROOF
<1>1. IsFiniteSet(S) BY CollectorCounts, FS_Subset DEF Collector!Parameters
<1>2. S \ {c} = T \ {c} OBVIOUS
<1>3. QED BY <1>1, <1>2, OneMoves

(* Each step is one of one call, which goes to another place.              *)
Goes(c, to) ==
  /\ pc' = [pc EXCEPT ![c] = to] /\ method' = method
  /\ outcome' \in [Calls -> Statuses \cup ErrorTypes \cup {None}]
  /\ \A d \in Calls : d # c => outcome'[d] = outcome[d]

Places == {"new", "started", "lookup", "insert", "connect", "exchange", "error",
           "error_type", "deactivate", "count", "status", "done", "dropped"}

CollectorStep(c) ==
  Collector!Tracks(c) \/ Collector!Connect(c) \/ Collector!ConnectFails(c)
    \/ Collector!Exchange(c) \/ Collector!Dropped(c)

LEMMA CollectorGoes ==
  ASSUME Collector!TypeOK, NEW c \in Calls, CollectorStep(c)
  PROVE  \E to \in Places : Goes(c, to)
PROOF
BY DEF CollectorStep, Collector!TypeOK, Places, Goes, Collector!Go, Collector!Tracks,
   Collector!Start, Collector!Activate, Collector!Lookup, Collector!Insert,
   Collector!RecordError, Collector!RecordErrorType, Collector!Deactivate, Collector!Count,
   Collector!RecordStatus, Collector!Connect, Collector!ConnectFails, Collector!Exchange,
   Collector!Dropped

LEMMA CollectorBalancedNext ==
  ASSUME Collector!Parameters, Collector!IInv, NEW c \in Calls, CollectorStep(c)
  PROVE  /\ Collector!Counting' /\ Collector!Balanced'
         /\ counter' \in [Collector!Counters -> Nat]
PROOF
<1> DEFINE Between == Collector!At({"started", "count"})
           Failing == {d \in Collector!At({"error_type", "deactivate", "count"}) :
                         outcome[d] \in ErrorTypes}
           Active  == Collector!At(Collector!Active)
           B == Cardinality(Between)
           F == Cardinality(Failing)
           A == Cardinality(Active)
<1>1. PICK to \in Places : Goes(c, to) BY CollectorGoes DEF Collector!IInv
<1>2. /\ pc \in [Calls -> Places] /\ pc'[c] = to /\ \A d \in Calls : d # c => pc'[d] = pc[d]
      /\ counter \in [Collector!Counters -> Nat]
      /\ outcome \in [Calls -> Statuses \cup ErrorTypes \cup {None}]
  BY <1>1 DEF Goes, Collector!IInv, Collector!TypeOK, Places
<1>3. /\ B \in Nat /\ B' \in Nat
      /\ (pc[c] \in {"started", "count"} <=> to \in {"started", "count"}) => B' = B
      /\ pc[c] \notin {"started", "count"} /\ to \in {"started", "count"} => B' = B + 1
      /\ pc[c] \in {"started", "count"} /\ to \notin {"started", "count"} => B' = B - 1
  BY <1>2, CallsOfKind DEF Collector!At
<1>4. /\ A \in Nat /\ A' \in Nat
      /\ (pc[c] \in Collector!Active <=> to \in Collector!Active) => A' = A
      /\ pc[c] \notin Collector!Active /\ to \in Collector!Active => A' = A + 1
      /\ pc[c] \in Collector!Active /\ to \notin Collector!Active => A' = A - 1
  BY <1>2, CallsOfKind DEF Collector!At
<1>5. /\ F \in Nat /\ F' \in Nat
      /\ (c \in Failing <=> c \in Failing') => F' = F
      /\ c \notin Failing /\ c \in Failing' => F' = F + 1
      /\ c \in Failing /\ c \notin Failing' => F' = F - 1
  <2>1. \A d \in Calls : d # c => (d \in Failing <=> d \in Failing')
    BY <1>1, <1>2 DEF Collector!At, Goes
  <2>2. Failing \in SUBSET Calls /\ Failing' \in SUBSET Calls BY DEF Collector!At
  <2> HIDE DEF Failing
  <2>3. QED BY <2>1, <2>2, CallsOfKind
<1>6. /\ c \in Failing <=>
           pc[c] \in {"error_type", "deactivate", "count"} /\ outcome[c] \in ErrorTypes
      /\ c \in Failing' <=>
           to \in {"error_type", "deactivate", "count"} /\ outcome'[c] \in ErrorTypes
  BY <1>2 DEF Collector!At
<1>7. /\ counter["active"] = A
      /\ counter["total"] = counter["active"] + counter["successful"] + counter["failed"] + B
      /\ counter["total_errors"] = counter["failed"] + F
  BY CollectorCounts DEF Collector!IInv, Collector!Counting, Collector!Balanced
<1>8. Collector!Ends(c) /\ Statuses \cap ErrorTypes = {}
  BY DEF Collector!IInv, Collector!Parameters
<1> DEFINE Good ==
      /\ counter' \in [Collector!Counters -> Nat]
      /\ counter'["active"] = A'
      /\ counter'["total"] =
           counter'["active"] + counter'["successful"] + counter'["failed"] + B'
      /\ counter'["total_errors"] = counter'["failed"] + F'
<1> HIDE DEF A, B, F, Failing
<1> SUFFICES Good
  BY CollectorCounts DEF Collector!Counting, Collector!Balanced, A, B, F, Failing
<1> USE <1>2, <1>3, <1>4, <1>5, <1>6, <1>7, <1>8
    DEF Goes, Collector!Go, Collector!Add, Collector!Counters, Collector!Active, Collector!Ends
<1>9. CASE Collector!Start(c) BY <1>9 DEF Collector!Start
<1>10. CASE Collector!Activate(c) BY <1>10 DEF Collector!Activate
<1>11. CASE Collector!Lookup(c) BY <1>11 DEF Collector!Lookup
<1>12. CASE Collector!Insert(c) BY <1>12 DEF Collector!Insert
<1>13. CASE Collector!RecordError(c) BY <1>13 DEF Collector!RecordError
<1>14. CASE Collector!RecordErrorType(c) BY <1>14 DEF Collector!RecordErrorType
<1>15. CASE Collector!Deactivate(c) BY <1>15 DEF Collector!Deactivate
<1>16. CASE Collector!Count(c) BY <1>16 DEF Collector!Count
<1>17. CASE Collector!RecordStatus(c) BY <1>17 DEF Collector!RecordStatus
<1>18. CASE Collector!Connect(c) BY <1>18 DEF Collector!Connect
<1>19. CASE Collector!ConnectFails(c) BY <1>19 DEF Collector!ConnectFails
<1>20. CASE Collector!Exchange(c) BY <1>20 DEF Collector!Exchange
<1>21. CASE Collector!Dropped(c) BY <1>21 DEF Collector!Dropped
<1>22. QED
  BY <1>9, <1>10, <1>11, <1>12, <1>13, <1>14, <1>15,
     <1>16, <1>17, <1>18, <1>19, <1>20, <1>21
     DEF CollectorStep, Collector!Tracks

LEMMA CollectorTypeNext ==
  ASSUME Collector!Parameters, Collector!IInv, NEW c \in Calls, CollectorStep(c)
  PROVE  Collector!TypeOK' /\ \A d \in Calls : Collector!Ends(d)'
PROOF
<1> DEFINE Good ==
      /\ by' \in [Collector!Keys -> Nat]
      /\ Collector!Ends(c)'
<1>1. PICK to \in Places : Goes(c, to) BY CollectorGoes DEF Collector!IInv
<1>2. counter' \in [Collector!Counters -> Nat] BY CollectorBalancedNext
<1>3. /\ pc \in [Calls -> Places] /\ method \in [Calls -> Methods]
      /\ outcome \in [Calls -> Statuses \cup ErrorTypes \cup {None}]
      /\ by \in [Collector!Keys -> Nat]
  BY DEF Collector!IInv, Collector!TypeOK, Places
<1>4. Collector!Ends(c) BY DEF Collector!IInv
<1> SUFFICES Good
  <2>1. ASSUME NEW d \in Calls, d # c PROVE Collector!Ends(d)'
    <3>1. Collector!Ends(d) BY DEF Collector!IInv
    <3>2. pc'[d] = pc[d] /\ outcome'[d] = outcome[d] BY <1>1, <1>3, <2>1 DEF Goes
    <3>3. QED BY <3>1, <3>2 DEF Collector!Ends
  <2>2. SUFFICES ASSUME Good PROVE Collector!TypeOK' BY <2>1
  <2>3. pc' \in [Calls -> Places] BY <1>1, <1>3 DEF Goes
  <2>4. QED BY <1>1, <1>2, <1>3, <2>2, <2>3 DEF Goes, Collector!TypeOK, Places
<1> USE <1>3, <1>4
    DEF Collector!Go, Collector!Add, Collector!Keys, Collector!Ends
<1>5. CASE Collector!Start(c) BY <1>5 DEF Collector!Start
<1>6. CASE Collector!Activate(c) BY <1>6 DEF Collector!Activate
<1>7. CASE Collector!Lookup(c) BY <1>7 DEF Collector!Lookup
<1>8. CASE Collector!Insert(c) BY <1>8 DEF Collector!Insert
<1>9. CASE Collector!RecordError(c) BY <1>9 DEF Collector!RecordError
<1>10. CASE Collector!RecordErrorType(c) BY <1>10 DEF Collector!RecordErrorType
<1>11. CASE Collector!Deactivate(c) BY <1>11 DEF Collector!Deactivate
<1>12. CASE Collector!Count(c) BY <1>12 DEF Collector!Count
<1>13. CASE Collector!RecordStatus(c) BY <1>13 DEF Collector!RecordStatus
<1>14. CASE Collector!Connect(c) BY <1>14 DEF Collector!Connect
<1>15. CASE Collector!ConnectFails(c) BY <1>15 DEF Collector!ConnectFails
<1>16. CASE Collector!Exchange(c) BY <1>16 DEF Collector!Exchange
<1>17. CASE Collector!Dropped(c) BY <1>17 DEF Collector!Dropped
<1>18. QED
  BY <1>5, <1>6, <1>7, <1>8, <1>9, <1>10, <1>11,
     <1>12, <1>13, <1>14, <1>15, <1>16, <1>17
     DEF CollectorStep, Collector!Tracks

LEMMA CollectorMapsNext ==
  ASSUME Collector!Parameters, Collector!IInv, NEW c \in Calls, CollectorStep(c)
  PROVE  Collector!MapsCounted'
PROOF
<1> DEFINE Early == {"new", "started", "lookup", "insert"}
           Late  == {"deactivate", "count", "done"}
           Answered(s) == {d \in Collector!At({"done"}) : outcome[d] = s}
           Failed(e)   == {d \in Collector!At(Late) : outcome[d] = e}
           Sent(m)     == {d \in Calls \ Collector!At(Early) : method[d] = m}
<1>1. PICK to \in Places : Goes(c, to) BY CollectorGoes DEF Collector!IInv
<1>2. /\ pc \in [Calls -> Places] /\ pc'[c] = to /\ \A d \in Calls : d # c => pc'[d] = pc[d]
      /\ method \in [Calls -> Methods] /\ method' = method
      /\ outcome \in [Calls -> Statuses \cup ErrorTypes \cup {None}]
      /\ \A d \in Calls : d # c => outcome'[d] = outcome[d]
      /\ by \in [Collector!Keys -> Nat]
  BY <1>1 DEF Goes, Collector!IInv, Collector!TypeOK, Places
<1>3. Collector!Ends(c) BY DEF Collector!IInv
<1>4. Statuses \cap ErrorTypes = {} /\ Methods \cap (Statuses \cup ErrorTypes) = {}
  BY DEF Collector!Parameters
<1>5. /\ \A s \in Statuses : by[s] = Cardinality(Answered(s))
      /\ \A e \in ErrorTypes : by[e] = Cardinality(Failed(e))
      /\ \A m \in Methods :
           by[m] <= Cardinality(Sent(m)) /\ (Cardinality(Sent(m)) > 0 => by[m] > 0)
  BY CollectorCounts DEF Collector!IInv, Collector!MapsCounted
<1>6. SUFFICES
        /\ \A s \in Statuses : by'[s] = Cardinality(Answered(s)')
        /\ \A e \in ErrorTypes : by'[e] = Cardinality(Failed(e)')
        /\ \A m \in Methods :
             by'[m] <= Cardinality(Sent(m)') /\ (Cardinality(Sent(m)') > 0 => by'[m] > 0)
  BY CollectorCounts DEF Collector!MapsCounted
<1> USE DEF Collector!Go, Collector!Add, Collector!Keys, Collector!Ends
<1>7. ASSUME NEW s \in Statuses PROVE by'[s] = Cardinality(Answered(s)')
  <2> DEFINE S == Answered(s)
  <2>1. /\ S \in SUBSET Calls /\ S' \in SUBSET Calls
        /\ \A d \in Calls : d # c => (d \in S <=> d \in S')
        /\ c \in S <=> pc[c] = "done" /\ outcome[c] = s
        /\ c \in S' <=> to = "done" /\ outcome'[c] = s
    BY <1>2 DEF Collector!At
  <2> HIDE DEF S
  <2>2. /\ Cardinality(S) \in Nat /\ Cardinality(S') \in Nat
        /\ (c \in S <=> c \in S') => Cardinality(S') = Cardinality(S)
        /\ c \notin S /\ c \in S' => Cardinality(S') = Cardinality(S) + 1
        /\ c \in S /\ c \notin S' => Cardinality(S') = Cardinality(S) - 1
    BY <2>1, CallsOfKind
  <2>3. by[s] = Cardinality(S) BY <1>5 DEF S
  <2> SUFFICES by'[s] = Cardinality(S') BY DEF S
  <2> USE <1>2, <1>3, <1>4, <2>1, <2>2, <2>3
  <2>4. CASE Collector!Start(c) BY <2>4 DEF Collector!Start
  <2>5. CASE Collector!Activate(c) BY <2>5 DEF Collector!Activate
  <2>6. CASE Collector!Lookup(c) BY <2>6 DEF Collector!Lookup
  <2>7. CASE Collector!Insert(c) BY <2>7 DEF Collector!Insert
  <2>8. CASE Collector!RecordError(c) BY <2>8 DEF Collector!RecordError
  <2>9. CASE Collector!RecordErrorType(c) BY <2>9 DEF Collector!RecordErrorType
  <2>10. CASE Collector!Deactivate(c) BY <2>10 DEF Collector!Deactivate
  <2>11. CASE Collector!Count(c) BY <2>11 DEF Collector!Count
  <2>12. CASE Collector!RecordStatus(c) BY <2>12 DEF Collector!RecordStatus
  <2>13. CASE Collector!Connect(c) BY <2>13 DEF Collector!Connect
  <2>14. CASE Collector!ConnectFails(c) BY <2>14 DEF Collector!ConnectFails
  <2>15. CASE Collector!Exchange(c) BY <2>15 DEF Collector!Exchange
  <2>16. CASE Collector!Dropped(c) BY <2>16 DEF Collector!Dropped
  <2>17. QED
    BY <2>4, <2>5, <2>6, <2>7, <2>8, <2>9, <2>10,
       <2>11, <2>12, <2>13, <2>14, <2>15, <2>16
       DEF CollectorStep, Collector!Tracks
<1>8. ASSUME NEW e \in ErrorTypes PROVE by'[e] = Cardinality(Failed(e)')
  <2> DEFINE S == Failed(e)
  <2>1. /\ S \in SUBSET Calls /\ S' \in SUBSET Calls
        /\ \A d \in Calls : d # c => (d \in S <=> d \in S')
        /\ c \in S <=> pc[c] \in Late /\ outcome[c] = e
        /\ c \in S' <=> to \in Late /\ outcome'[c] = e
    BY <1>2 DEF Collector!At
  <2> HIDE DEF S
  <2>2. /\ Cardinality(S) \in Nat /\ Cardinality(S') \in Nat
        /\ (c \in S <=> c \in S') => Cardinality(S') = Cardinality(S)
        /\ c \notin S /\ c \in S' => Cardinality(S') = Cardinality(S) + 1
        /\ c \in S /\ c \notin S' => Cardinality(S') = Cardinality(S) - 1
    BY <2>1, CallsOfKind
  <2>3. by[e] = Cardinality(S) BY <1>5 DEF S
  <2> SUFFICES by'[e] = Cardinality(S') BY DEF S
  <2> USE <1>2, <1>3, <1>4, <2>1, <2>2, <2>3
  <2>4. CASE Collector!Start(c) BY <2>4 DEF Collector!Start
  <2>5. CASE Collector!Activate(c) BY <2>5 DEF Collector!Activate
  <2>6. CASE Collector!Lookup(c) BY <2>6 DEF Collector!Lookup
  <2>7. CASE Collector!Insert(c) BY <2>7 DEF Collector!Insert
  <2>8. CASE Collector!RecordError(c) BY <2>8 DEF Collector!RecordError
  <2>9. CASE Collector!RecordErrorType(c) BY <2>9 DEF Collector!RecordErrorType
  <2>10. CASE Collector!Deactivate(c) BY <2>10 DEF Collector!Deactivate
  <2>11. CASE Collector!Count(c) BY <2>11 DEF Collector!Count
  <2>12. CASE Collector!RecordStatus(c) BY <2>12 DEF Collector!RecordStatus
  <2>13. CASE Collector!Connect(c) BY <2>13 DEF Collector!Connect
  <2>14. CASE Collector!ConnectFails(c) BY <2>14 DEF Collector!ConnectFails
  <2>15. CASE Collector!Exchange(c) BY <2>15 DEF Collector!Exchange
  <2>16. CASE Collector!Dropped(c) BY <2>16 DEF Collector!Dropped
  <2>17. QED
    BY <2>4, <2>5, <2>6, <2>7, <2>8, <2>9, <2>10,
       <2>11, <2>12, <2>13, <2>14, <2>15, <2>16
       DEF CollectorStep, Collector!Tracks
<1>9. ASSUME NEW m \in Methods
      PROVE  by'[m] <= Cardinality(Sent(m)') /\ (Cardinality(Sent(m)') > 0 => by'[m] > 0)
  <2> DEFINE S == Sent(m)
  <2>1. /\ S \in SUBSET Calls /\ S' \in SUBSET Calls
        /\ \A d \in Calls : d # c => (d \in S <=> d \in S')
        /\ c \in S <=> pc[c] \notin Early /\ method[c] = m
        /\ c \in S' <=> to \notin Early /\ method[c] = m
    BY <1>2 DEF Collector!At
  <2> HIDE DEF S
  <2>2. /\ Cardinality(S) \in Nat /\ Cardinality(S') \in Nat
        /\ (c \in S <=> c \in S') => Cardinality(S') = Cardinality(S)
        /\ c \notin S /\ c \in S' => Cardinality(S') = Cardinality(S) + 1
        /\ c \in S /\ c \notin S' => Cardinality(S') = Cardinality(S) - 1
    BY <2>1, CallsOfKind
  <2>3. by[m] <= Cardinality(S) /\ (Cardinality(S) > 0 => by[m] > 0) BY <1>5 DEF S
  <2> SUFFICES by'[m] <= Cardinality(S') /\ (Cardinality(S') > 0 => by'[m] > 0) BY DEF S
  <2> USE <1>2, <1>3, <1>4, <2>1, <2>2, <2>3
  <2>4. CASE Collector!Start(c) BY <2>4 DEF Collector!Start
  <2>5. CASE Collector!Activate(c) BY <2>5 DEF Collector!Activate
  <2>6. CASE Collector!Lookup(c) BY <2>6 DEF Collector!Lookup
  <2>7. CASE Collector!Insert(c) BY <2>7 DEF Collector!Insert
  <2>8. CASE Collector!RecordError(c) BY <2>8 DEF Collector!RecordError
  <2>9. CASE Collector!RecordErrorType(c) BY <2>9 DEF Collector!RecordErrorType
  <2>10. CASE Collector!Deactivate(c) BY <2>10 DEF Collector!Deactivate
  <2>11. CASE Collector!Count(c) BY <2>11 DEF Collector!Count
  <2>12. CASE Collector!RecordStatus(c) BY <2>12 DEF Collector!RecordStatus
  <2>13. CASE Collector!Connect(c) BY <2>13 DEF Collector!Connect
  <2>14. CASE Collector!ConnectFails(c) BY <2>14 DEF Collector!ConnectFails
  <2>15. CASE Collector!Exchange(c) BY <2>15 DEF Collector!Exchange
  <2>16. CASE Collector!Dropped(c) BY <2>16 DEF Collector!Dropped
  <2>17. QED
    BY <2>4, <2>5, <2>6, <2>7, <2>8, <2>9, <2>10,
       <2>11, <2>12, <2>13, <2>14, <2>15, <2>16
       DEF CollectorStep, Collector!Tracks
<1>10. QED BY <1>7, <1>8, <1>9

(* The inductive invariant of the counters.                                *)
THEOREM CollectorIInvHolds ==
  ASSUME Collector!Parameters
  PROVE  Collector!Spec => []Collector!IInv
PROOF
<1>1. Collector!Init => Collector!IInv
  <2>1. SUFFICES ASSUME Collector!Init PROVE Collector!IInv OBVIOUS
  <2>2. \A X : "new" \notin X => Collector!At(X) = {}
    BY <2>1 DEF Collector!Init, Collector!At
  <2>3. Cardinality({}) = 0 BY FS_EmptySet
  <2>4. Collector!TypeOK /\ \A c \in Calls : Collector!Ends(c)
    BY <2>1 DEF Collector!Init, Collector!TypeOK, Collector!Ends
  <2>5. Collector!Counting
    <3>1. Collector!At(Collector!Active) = {} BY <2>2 DEF Collector!Active
    <3>2. QED BY <2>1, <2>3, <3>1, CollectorCounts
          DEF Collector!Init, Collector!Counting, Collector!Counters
  <2>6. Collector!Balanced
    <3>1. Collector!At({"started", "count"}) = {} BY <2>2
    <3>2. {c \in Collector!At({"error_type", "deactivate", "count"}) :
             outcome[c] \in ErrorTypes} = {}
      BY <2>2
    <3>3. QED BY <2>1, <2>3, <3>1, <3>2, CollectorCounts
          DEF Collector!Init, Collector!Balanced, Collector!Counters
  <2>7. Collector!MapsCounted
    <3>1. \A s : {c \in Collector!At({"done"}) : outcome[c] = s} = {} BY <2>2
    <3>2. \A e : {c \in Collector!At({"deactivate", "count", "done"}) : outcome[c] = e} = {}
      BY <2>2
    <3>3. \A m : {c \in Calls \ Collector!At({"new", "started", "lookup", "insert"}) :
                    method[c] = m} = {}
      BY <2>1 DEF Collector!Init, Collector!At
    <3>4. \A k \in Statuses \cup ErrorTypes \cup Methods : by[k] = 0
      BY <2>1 DEF Collector!Init, Collector!Keys
    <3>5. QED BY <2>3, <3>1, <3>2, <3>3, <3>4, CollectorCounts DEF Collector!MapsCounted
  <2>8. QED BY <2>4, <2>5, <2>6, <2>7 DEF Collector!IInv
<1>2. Collector!IInv /\ [Collector!Next]_Collector!vars => Collector!IInv'
  <2>1. CASE Collector!Next
    <3>1. PICK c \in Calls : CollectorStep(c)
      BY <2>1 DEF Collector!Next, CollectorStep
    <3>2. QED
      BY <3>1, CollectorTypeNext, CollectorBalancedNext, CollectorMapsNext DEF Collector!IInv
  <2>2. CASE UNCHANGED Collector!vars
    BY <2>2 DEF Collector!vars, Collector!IInv, Collector!TypeOK, Collector!Counting,
       Collector!Ends, Collector!Balanced, Collector!MapsCounted, Collector!At
  <2>3. QED BY <2>1, <2>2
<1>3. QED BY <1>1, <1>2, PTL DEF Collector!Spec

(* Every request that has started is active, successful or failed, and     *)
(* every failed one is in the errors.                                      *)
THEOREM MetricsBalanced ==
  ASSUME Collector!Parameters
  PROVE  Collector!Spec => []Collector!Balanced
PROOF
<1>1. Collector!IInv => Collector!Balanced BY DEF Collector!IInv
<1>2. QED BY <1>1, CollectorIInvHolds, PTL

(* The maps have every answer and every error once, and of a method's      *)
(* requests at least one and no more than there were.                      *)
THEOREM MetricsCounted ==
  ASSUME Collector!Parameters
  PROVE  Collector!Spec => []Collector!MapsCounted
PROOF
<1>1. Collector!IInv => Collector!MapsCounted BY DEF Collector!IInv
<1>2. QED BY <1>1, CollectorIInvHolds, PTL

-----------------------------------------------------------------------------
(* The trackers of recent values.                                          *)

(* The instance counts sets as this module does.                          *)
LEMMA WindowsCounts ==
  /\ \A S : Windows!IsFiniteSet(S) <=> IsFiniteSet(S)
  /\ \A S : Windows!Cardinality(S) = Cardinality(S)
PROOF
<1>1. ASSUME NEW S PROVE Windows!IsFiniteSet(S) <=> IsFiniteSet(S)
  BY Zenon DEF Windows!IsFiniteSet, IsFiniteSet
<1>2. ASSUME NEW S PROVE Windows!Cardinality(S) = Cardinality(S)
  BY Zenon DEF Windows!Cardinality, Cardinality
<1>3. QED BY <1>1, <1>2

(* The first sums of a sequence, which there are for each of its lengths.  *)
SumsTo(s, g, n) ==
  /\ g \in [0..n -> Nat]
  /\ g[0] = 0 /\ \A k \in 1..n : g[k] = g[k - 1] + s[k]

(* Any sequence of naturals has its partial sums.                          *)
LEMMA SumsToExist ==
  ASSUME NEW s \in Seq(Nat), NEW L \in Nat, L = Len(s)
  PROVE  \A n \in Nat : n <= L => \E g : SumsTo(s, g, n)
PROOF
<1>1. PICK S : S = {n \in Nat : n <= L => \E g : SumsTo(s, g, n)} OBVIOUS
<1>2. SumsTo(s, [k \in 0..0 |-> 0], 0) BY DEF SumsTo
<1>3. 0 \in S BY <1>1, <1>2
<1>4. ASSUME NEW n \in Nat, n \in S PROVE n + 1 \in S
  <2>1. SUFFICES ASSUME n + 1 <= L PROVE \E h : SumsTo(s, h, n + 1) BY <1>1
  <2>2. PICK g : SumsTo(s, g, n) BY <1>1, <1>4, <2>1
  <2>3. n + 1 \in 1..Len(s) /\ n \in 0..n BY <2>1
  <2>4. PICK v \in Nat : v = g[n] + s[n + 1] BY <2>2, <2>3 DEF SumsTo
  <2>5. PICK h : h = [k \in 0..(n + 1) |-> IF k <= n THEN g[k] ELSE v] OBVIOUS
  <2>6. \A k \in 0..n : h[k] = g[k] /\ g[k] \in Nat BY <2>2, <2>5 DEF SumsTo
  <2>7. h[n + 1] = v BY <2>5
  <2>8. h \in [0..(n + 1) -> Nat]
    <3>1. ASSUME NEW k \in 0..(n + 1) PROVE (IF k <= n THEN g[k] ELSE v) \in Nat
      <4>1. CASE k <= n
        <5>1. k \in 0..n BY <4>1
        <5>2. QED BY <2>6, <4>1, <5>1
      <4>2. CASE ~ (k <= n) BY <4>2
      <4>3. QED BY <4>1, <4>2
    <3>2. QED BY <2>5, <3>1
  <2>9. ASSUME NEW k \in 1..(n + 1) PROVE h[k] = h[k - 1] + s[k]
    <3>1. CASE k = n + 1 BY <2>3, <2>4, <2>6, <2>7, <3>1
    <3>2. CASE k # n + 1
      <4>1. k \in 1..n /\ k \in 0..n /\ k - 1 \in 0..n BY <3>2
      <4>2. g[k] = g[k - 1] + s[k] BY <2>2, <4>1 DEF SumsTo
      <4>3. QED BY <2>6, <4>1, <4>2
    <3>3. QED BY <3>1, <3>2
  <2>10. h[0] = 0
    <3>1. 0 \in 0..n OBVIOUS
    <3>2. g[0] = 0 BY <2>2 DEF SumsTo
    <3>3. QED BY <2>6, <3>1, <3>2
  <2>11. SumsTo(s, h, n + 1) BY <2>8, <2>9, <2>10 DEF SumsTo
  <2>12. QED BY <2>11
<1>5. \A n \in Nat : n \in S BY <1>3, <1>4, InductionOnSets
<1>6. QED BY <1>1, <1>5

(* A sum lies between as many of the least and as many of the greatest.    *)
LEMMA SumBetween ==
  ASSUME NEW s \in Seq(Nat), NEW L \in Nat, L = Len(s), NEW lo \in Nat, NEW hi \in Nat,
         \A i \in 1..L : lo <= s[i] /\ s[i] <= hi
  PROVE  /\ Windows!SumOf(s) \in Nat
         /\ L * lo <= Windows!SumOf(s) /\ Windows!SumOf(s) <= L * hi
PROOF
<1>1. PICK g : SumsTo(s, g, L) BY SumsToExist
<1>2. \A i \in 0..L : g[i] = IF i = 0 THEN 0 ELSE g[i - 1] + s[i]
  <2>1. SUFFICES ASSUME NEW i \in 0..L PROVE g[i] = IF i = 0 THEN 0 ELSE g[i - 1] + s[i]
    OBVIOUS
  <2>2. CASE i = 0 BY <1>1, <2>2 DEF SumsTo
  <2>3. CASE i # 0
    <3>1. i \in 1..L BY <2>3
    <3>2. g[i] = g[i - 1] + s[i] BY <1>1, <3>1 DEF SumsTo
    <3>3. QED BY <2>3, <3>2
  <2>4. QED BY <2>2, <2>3
<1>3. DOMAIN g = 0..L /\ g = [i \in 0..L |-> g[i]] BY <1>1 DEF SumsTo
<1>4. g = [i \in 0..L |-> IF i = 0 THEN 0 ELSE g[i - 1] + s[i]] BY Zenon, <1>2, <1>3
<1>5. PICK f : f = CHOOSE q : q = [i \in 0..L |-> IF i = 0 THEN 0 ELSE q[i - 1] + s[i]]
  OBVIOUS
<1>6. f = [i \in 0..L |-> IF i = 0 THEN 0 ELSE f[i - 1] + s[i]] BY Zenon, <1>4, <1>5
<1>7. Windows!SumOf(s) = f[L] BY Zenon, <1>5 DEF Windows!SumOf
<1>8. f[0] = 0 BY <1>6
<1>9. ASSUME NEW n \in Nat, n + 1 <= L PROVE f[n + 1] = f[n] + s[n + 1]
  <2>1. n + 1 \in 0..L /\ n + 1 # 0 /\ n + 1 - 1 = n BY <1>9
  <2>2. f[n + 1] = f[n + 1 - 1] + s[n + 1] BY <1>6, <2>1
  <2>3. QED BY <2>1, <2>2
<1>10. PICK S : S = {n \in Nat : n <= L => f[n] \in Nat /\ n * lo <= f[n] /\ f[n] <= n * hi}
  OBVIOUS
<1>11. 0 \in S BY <1>8, <1>10
<1>12. ASSUME NEW n \in Nat, n \in S PROVE n + 1 \in S
  <2>1. SUFFICES ASSUME n + 1 <= L
                 PROVE  f[n + 1] \in Nat /\ (n + 1) * lo <= f[n + 1] /\ f[n + 1] <= (n + 1) * hi
    BY <1>10
  <2>2. n + 1 \in 1..L BY <2>1
  <2>3. PICK v \in Nat : v = s[n + 1] BY <2>2
  <2>4. lo <= v /\ v <= hi BY <2>2, <2>3
  <2>5. PICK w \in Nat : w = f[n] BY <1>10, <1>12, <2>1
  <2>6. n * lo <= w /\ w <= n * hi BY <1>10, <1>12, <2>1, <2>5
  <2>7. f[n + 1] = w + v BY <1>9, <2>1, <2>3, <2>5
  <2>8. (n + 1) * lo = n * lo + lo /\ (n + 1) * hi = n * hi + hi OBVIOUS
  <2>9. n * lo \in Nat /\ n * hi \in Nat OBVIOUS
  <2>10. PICK a \in Nat, b \in Nat : a = n * lo /\ b = n * hi BY <2>9
  <2>11. w + v \in Nat /\ a + lo <= w + v /\ w + v <= b + hi BY <2>4, <2>6, <2>10
  <2>12. QED BY <2>7, <2>8, <2>10, <2>11
<1>13. \A n \in Nat : n \in S BY <1>11, <1>12, InductionOnSets
<1>14. QED BY <1>7, <1>10, <1>13

(* Any finite number of positions can be put in the order of their values. *)
LEMMA PositionsSorted ==
  ASSUME NEW s \in Seq(Nat), NEW L \in Nat, L = Len(s)
  PROVE  \A n \in Nat : \A P \in SUBSET (1..L) : Cardinality(P) = n =>
           \E r \in [1..n -> P] :
             /\ \A i, j \in 1..n : i # j => r[i] # r[j]
             /\ \A i, j \in 1..n : i <= j => s[r[i]] <= s[r[j]]
PROOF
<1> DEFINE Good(r, n) == /\ \A i, j \in 1..n : i # j => r[i] # r[j]
                         /\ \A i, j \in 1..n : i <= j => s[r[i]] <= s[r[j]]
<1>1. PICK S : S = {n \in Nat : \A P \in SUBSET (1..L) : Cardinality(P) = n =>
                                  \E r \in [1..n -> P] : Good(r, n)} OBVIOUS
<1>2. ASSUME NEW P \in SUBSET (1..L) PROVE IsFiniteSet(P)
  <2>1. 1 \in Int /\ L \in Int OBVIOUS
  <2>2. IsFiniteSet(1..L) BY <2>1, FS_Interval
  <2>3. QED BY <2>2, FS_Subset
<1>3. 0 \in S
  <2>1. ASSUME NEW P \in SUBSET (1..L), Cardinality(P) = 0
        PROVE  \E r \in [1..0 -> P] : Good(r, 0)
    <3>1. PICK r : r = [i \in 1..0 |-> i] OBVIOUS
    <3>2. 1..0 = {} OBVIOUS
    <3>3. r \in [1..0 -> P] BY <3>1, <3>2
    <3>4. Good(r, 0) BY <3>2
    <3>5. QED BY <3>3, <3>4
  <2>2. QED BY <1>1, <2>1
<1>4. ASSUME NEW n \in Nat, n \in S PROVE n + 1 \in S
  <2>1. SUFFICES ASSUME NEW P \in SUBSET (1..L), Cardinality(P) = n + 1
                 PROVE  \E r \in [1..(n + 1) -> P] : Good(r, n + 1)
    BY <1>1
  <2>2. IsFiniteSet(P) /\ P # {} BY <1>2, <2>1, FS_EmptySet
  <2>3. PICK V : V = {s[i] : i \in P} OBVIOUS
  <2>4. V \in SUBSET Nat /\ V # {}
    <3>1. \A i \in P : s[i] \in Nat OBVIOUS
    <3>2. QED BY <2>2, <2>3, <3>1
  <2>5. PICK least \in V : \A v \in V : least <= v BY <2>4, MinOfNaturals
  <2>6. PICK m \in P : least = s[m] BY <2>3, <2>5
  <2>7. \A i \in P : s[m] <= s[i] BY <2>3, <2>5, <2>6
  <2>8. Cardinality(P \ {m}) = n
    <3>1. Cardinality(P \ {m}) = Cardinality(P) - 1 BY <2>2, <2>6, FS_RemoveElement
    <3>2. QED BY <2>1, <3>1
  <2>9. PICK q \in [1..n -> P \ {m}] : Good(q, n)
    BY <1>1, <1>4, <2>8
  <2>10. PICK r : r = [i \in 1..(n + 1) |-> IF i = 1 THEN m ELSE q[i - 1]] OBVIOUS
  <2>11. /\ r[1] = m
         /\ \A i \in 2..(n + 1) : i - 1 \in 1..n /\ r[i] = q[i - 1] /\ r[i] \in P \ {m}
    BY <2>9, <2>10
  <2>12. \A i \in 1..(n + 1) : i # 1 => i \in 2..(n + 1) OBVIOUS
  <2>13. r \in [1..(n + 1) -> P] BY <2>6, <2>10, <2>11, <2>12
  <2>14. ASSUME NEW i \in 1..(n + 1), NEW j \in 1..(n + 1), i # j PROVE r[i] # r[j]
    <3>1. CASE i = 1
      <4>1. r[j] # m BY <2>11, <2>12, <2>14, <3>1
      <4>2. QED BY <2>11, <3>1, <4>1
    <3>2. CASE j = 1
      <4>1. r[i] # m BY <2>11, <2>12, <2>14, <3>2
      <4>2. QED BY <2>11, <3>2, <4>1
    <3>3. CASE i # 1 /\ j # 1
      <4>1. i \in 2..(n + 1) /\ j \in 2..(n + 1) BY <3>3
      <4>2. i - 1 \in 1..n /\ j - 1 \in 1..n /\ i - 1 # j - 1 BY <2>14, <4>1
      <4>3. q[i - 1] # q[j - 1] BY <2>9, <4>2
      <4>4. QED BY <2>11, <4>1, <4>3
    <3>4. QED BY <3>1, <3>2, <3>3
  <2>15. ASSUME NEW i \in 1..(n + 1), NEW j \in 1..(n + 1), i <= j PROVE s[r[i]] <= s[r[j]]
    <3>1. CASE i = 1
      <4>1. r[j] \in P BY <2>13
      <4>2. QED BY <2>7, <2>11, <3>1, <4>1
    <3>2. CASE i # 1
      <4>1. i \in 2..(n + 1) /\ j \in 2..(n + 1) BY <2>15, <3>2
      <4>2. i - 1 \in 1..n /\ j - 1 \in 1..n /\ i - 1 <= j - 1 BY <2>15, <4>1
      <4>3. s[q[i - 1]] <= s[q[j - 1]] BY <2>9, <4>2
      <4>4. QED BY <2>11, <4>1, <4>3
    <3>3. QED BY <3>1, <3>2
  <2>16. Good(r, n + 1) BY <2>14, <2>15
  <2>17. QED BY <2>13, <2>16
<1>5. \A n \in Nat : n \in S BY <1>3, <1>4, InductionOnSets
<1>6. QED BY <1>1, <1>5

(* What Sorted is: the samples, each once, in their order.                 *)
LEMMA SortedIs ==
  ASSUME samples \in Seq(Nat), NEW n \in Nat, n = Len(samples)
  PROVE  \E r \in [1..n -> 1..n] :
           /\ Windows!Sorts(r, samples)
           /\ Windows!Sorted = [i \in 1..n |-> samples[r[i]]]
PROOF
<1>1. Cardinality(1..n) = n
  <2>1. 1 \in Int /\ n \in Int OBVIOUS
  <2>2. Cardinality(1..n) = IF 1 > n THEN 0 ELSE n - 1 + 1 BY <2>1, FS_Interval
  <2>3. QED BY <2>2
<1>2. PICK q \in [1..n -> 1..n] :
             /\ \A i, j \in 1..n : i # j => q[i] # q[j]
             /\ \A i, j \in 1..n : i <= j => samples[q[i]] <= samples[q[j]]
  <2>1. PICK s \in Seq(Nat) : s = samples OBVIOUS
  <2>2. PICK P \in SUBSET (1..n) : P = 1..n OBVIOUS
  <2>3. Cardinality(P) = n /\ n = Len(s) BY <1>1, <2>1, <2>2
  <2>4. PICK q \in [1..n -> P] :
             /\ \A i, j \in 1..n : i # j => q[i] # q[j]
             /\ \A i, j \in 1..n : i <= j => s[q[i]] <= s[q[j]]
    BY <2>3, PositionsSorted
  <2>5. QED BY <2>1, <2>2, <2>4
<1>3. Windows!Sorts(q, samples) BY <1>2 DEF Windows!Sorts
<1>4. PICK r : r = CHOOSE p \in [1..Len(samples) -> 1..Len(samples)] : Windows!Sorts(p, samples)
  OBVIOUS
<1>5. r \in [1..n -> 1..n] /\ Windows!Sorts(r, samples) BY Zenon, <1>3, <1>4
<1>6. Windows!Sorted = [i \in 1..n |-> samples[r[i]]]
  <2>1. Windows!Sorted = [i \in 1..Len(samples) |-> samples[r[i]]]
    BY <1>4 DEF Windows!Sorted
  <2>2. QED BY <2>1
<1>7. QED BY <1>5, <1>6

(* A quotient of a sum lies between what the sum's terms lie between.      *)
LEMMA QuotientBetween ==
  ASSUME NEW n \in Nat \ {0}, NEW sum \in Nat, NEW lo \in Nat, NEW hi \in Nat,
         n * lo <= sum, sum <= n * hi
  PROVE  sum \div n \in Nat /\ lo <= sum \div n /\ sum \div n <= hi
PROOF
<1>1. PICK d \in Nat : d = sum \div n OBVIOUS
<1>2. n * d <= sum /\ sum < n * d + n BY <1>1
<1>3. n * d + n = n * (d + 1) OBVIOUS
<1>4. PICK a \in Nat, b \in Nat, c \in Nat, e \in Nat :
        a = n * lo /\ b = n * hi /\ c = n * d /\ e = n * (d + 1) OBVIOUS
<1>5. a < e /\ c <= b BY <1>2, <1>3, <1>4
<1>6. lo < d + 1
  <2>1. SUFFICES ASSUME d + 1 <= lo PROVE FALSE OBVIOUS
  <2>2. n * (d + 1) <= n * lo BY <2>1
  <2>3. QED BY <1>4, <1>5, <2>2
<1>7. d <= hi
  <2>1. SUFFICES ASSUME hi + 1 <= d PROVE FALSE OBVIOUS
  <2>2. n * (hi + 1) <= n * d /\ n * (hi + 1) = n * hi + n BY <2>1
  <2>3. QED BY <1>4, <1>5, <2>2
<1>8. QED BY <1>1, <1>6, <1>7

(* Where a percentile stands.                                              *)
Shares == {0, 50, 95, 99, 100}

(* A percentile is of a sample there is, and not below its share.          *)
LEMMA IndexWithin ==
  ASSUME NEW n \in Nat, n >= 1, NEW p \in Shares
  PROVE  /\ Windows!Index(n, p) \in 1..n
         /\ 200 * Windows!Index(n, p) >= 2 * (n - 1) * p + 100
PROOF
<1>1. PICK x \in Nat : x = 2 * (n - 1) * p + 100 /\ 100 <= x /\ x <= 200 * (n - 1) + 100
  BY DEF Shares
<1>2. Windows!Index(n, p) = x \div 200 + 1 BY <1>1 DEF Windows!Index
<1>3. x \div 200 \in 0..(n - 1) /\ 200 * (x \div 200 + 1) >= x BY <1>1
<1>4. QED BY <1>1, <1>2, <1>3

(* The index of a greater share is the greater one.                        *)
LEMMA IndexOrdered ==
  ASSUME NEW n \in Nat, n >= 1
  PROVE  /\ Windows!Index(n, 0) = 1 /\ Windows!Index(n, 100) = n
         /\ Windows!Index(n, 50) <= Windows!Index(n, 95)
         /\ Windows!Index(n, 95) <= Windows!Index(n, 99)
PROOF
<1>1. Windows!Index(n, 0) = 1 BY DEF Windows!Index
<1>2. Windows!Index(n, 100) = n BY DEF Windows!Index
<1>3. Windows!Index(n, 50) <= Windows!Index(n, 95) BY DEF Windows!Index
<1>4. Windows!Index(n, 95) <= Windows!Index(n, 99) BY DEF Windows!Index
<1>5. QED BY <1>1, <1>2, <1>3, <1>4

(* As many samples as the index of a percentile are at most the percentile.*)
LEMMA AtMostCounted ==
  ASSUME NEW s \in Seq(Nat), NEW n \in Nat, n = Len(s), NEW r \in [1..n -> 1..n],
         Windows!Sorts(r, s), NEW k \in 1..n,
         NEW T \in SUBSET (1..n), \A i \in 1..n : i \in T <=> s[i] <= s[r[k]]
  PROVE  Cardinality(T) \in Nat /\ k <= Cardinality(T)
PROOF
<1>1. \A i \in 1..n : i \in T <=> s[i] <= s[r[k]] OBVIOUS
<1>2. 1 \in Int /\ n \in Int /\ k \in Int /\ k \in Nat \ {0} OBVIOUS
<1>3. IsFiniteSet(1..n) BY <1>2, FS_Interval
<1>4. IsFiniteSet(T) /\ Cardinality(T) \in Nat BY <1>1, <1>3, FS_Subset, FS_CardinalityType
<1>5. PICK g : g = [i \in 1..k |-> r[i]] OBVIOUS
<1>6. ASSUME NEW i \in 1..k PROVE i \in 1..n /\ g[i] = r[i] /\ r[i] \in 1..n /\ i <= k
  <2>1. i \in 1..n /\ i <= k BY <1>2
  <2>2. QED BY <1>5, <2>1
<1>7. \A i, j \in 1..n : i # j => r[i] # r[j] BY DEF Windows!Sorts
<1>8. \A i \in 1..n : i <= k => s[r[i]] <= s[r[k]] BY DEF Windows!Sorts
<1>9. g \in [1..k -> T] BY <1>1, <1>5, <1>6, <1>8
<1>10. \A i, j \in 1..k : g[i] = g[j] => i = j BY <1>6, <1>7
<1>11. g \in Injection(1..k, T) BY <1>9, <1>10 DEF Injection, IsInjective
<1>12. Cardinality(1..k) <= Cardinality(T) BY <1>4, <1>11, FS_Injection
<1>13. Cardinality(1..k) = IF 1 > k THEN 0 ELSE k - 1 + 1 BY <1>2, FS_Interval
<1>14. k <= Cardinality(T) BY <1>2, <1>4, <1>12, <1>13
<1>15. QED BY <1>1, <1>4, <1>14

(* The percentiles and the average of the samples there are.               *)
LEMMA PercentilesHold ==
  ASSUME samples \in Seq(Nat)
  PROVE  Windows!PercentileCovers
PROOF
<1>1. SUFFICES ASSUME samples # <<>> PROVE Windows!PercentileCovers
  BY DEF Windows!PercentileCovers
<1>2. PICK s \in Seq(Nat) : s = samples OBVIOUS
<1>3. PICK n \in Nat : n = Len(s) /\ n >= 1 BY <1>1, <1>2
<1>4. PICK r \in [1..n -> 1..n] :
             /\ Windows!Sorts(r, s) /\ Windows!Sorted = [i \in 1..n |-> s[r[i]]]
  <2>1. n \in Nat /\ n = Len(samples) BY <1>2, <1>3
  <2>2. PICK r \in [1..n -> 1..n] :
               /\ Windows!Sorts(r, samples) /\ Windows!Sorted = [i \in 1..n |-> samples[r[i]]]
    BY Zenon, <2>1, SortedIs
  <2>3. Windows!Sorts(r, s) BY <1>2, <2>2
  <2>4. Windows!Sorted = [i \in 1..n |-> s[r[i]]] BY <1>2, <2>2
  <2>5. QED BY <2>3, <2>4
<1>5. \A i \in 1..n : s[r[i]] \in Nat
  <2>1. \A i \in 1..n : s[i] \in Nat BY <1>3
  <2>2. QED BY <2>1
<1>6. \A i, j \in 1..n : i <= j => s[r[i]] <= s[r[j]] BY <1>3, <1>4 DEF Windows!Sorts
<1>7. ASSUME NEW p \in Shares
      PROVE  Windows!Percentile(p) = s[r[Windows!Index(n, p)]]
  <2>1. Windows!Index(n, p) \in 1..n BY <1>3, IndexWithin
  <2>2. Windows!Percentile(p) = Windows!Sorted[Windows!Index(n, p)]
    BY <1>2, <1>3 DEF Windows!Percentile
  <2>3. QED BY <1>4, <2>1, <2>2
<1>8. ASSUME NEW p \in Shares
      PROVE  200 * Windows!Cardinality({i \in 1..n : s[i] <= Windows!Percentile(p)})
               >= 2 * (n - 1) * p + 100
  <2>0. /\ Windows!Index(n, p) \in 1..n
        /\ 200 * Windows!Index(n, p) >= 2 * (n - 1) * p + 100
    BY <1>3, IndexWithin
  <2>1. PICK k \in 1..n : k = Windows!Index(n, p) BY Zenon, <2>0
  <2>2. 200 * k >= 2 * (n - 1) * p + 100 BY Zenon, <2>0, <2>1
  <2>3. PICK T \in SUBSET (1..n) : T = {i \in 1..n : s[i] <= s[r[k]]} OBVIOUS
  <2>12. \A i \in 1..n : i \in T <=> s[i] <= s[r[k]] BY <2>3
  <2>4. Cardinality(T) \in Nat /\ k <= Cardinality(T)
    BY <1>3, <1>4, <2>12, AtMostCounted
  <2>5. Windows!Cardinality(T) = Cardinality(T) BY WindowsCounts
  <2>6. PICK x \in Nat : x = 2 * (n - 1) * p + 100 BY <1>3 DEF Shares
  <2>7. 200 * Windows!Cardinality(T) >= x BY <2>2, <2>4, <2>5, <2>6
  <2>8. Windows!Percentile(p) = s[r[k]] BY Zenon, <1>7, <2>1
  <2>10. T = {i \in 1..n : s[i] <= Windows!Percentile(p)} BY <2>3, <2>8
  <2>11. QED BY <2>6, <2>7, <2>10
<1>9. /\ Windows!Percentile(50) <= Windows!Percentile(95)
      /\ Windows!Percentile(95) <= Windows!Percentile(99)
  <2>1. PICK i \in 1..n, j \in 1..n, k \in 1..n :
          i = Windows!Index(n, 50) /\ j = Windows!Index(n, 95) /\ k = Windows!Index(n, 99)
    BY <1>3, IndexWithin DEF Shares
  <2>2. i <= j /\ j <= k BY <1>3, <2>1, IndexOrdered
  <2>3. s[r[i]] <= s[r[j]] /\ s[r[j]] <= s[r[k]] BY <1>6, <2>2
  <2>4. QED BY <1>7, <2>1, <2>3 DEF Shares
<1>10. Windows!Percentile(0) <= Windows!Average /\ Windows!Average <= Windows!Percentile(100)
  <2>1. 1 \in 1..n /\ n \in 1..n BY <1>3
  <2>2. PICK lo \in Nat, hi \in Nat : lo = s[r[1]] /\ hi = s[r[n]] BY <1>5, <2>1
  <2>3. Windows!Percentile(0) = lo /\ Windows!Percentile(100) = hi
    BY <1>3, <1>7, <2>2, IndexOrdered DEF Shares
  <2>4. \A i \in 1..n : \E j \in 1..n : r[j] = i
    <3>1. \A i, j \in 1..n : i # j => r[i] # r[j] BY <1>3, <1>4 DEF Windows!Sorts
    <3>2. r \in Injection(1..n, 1..n) BY <3>1 DEF Injection, IsInjective
    <3>3. 1 \in Int /\ n \in Int OBVIOUS
    <3>4. IsFiniteSet(1..n) BY <3>3, FS_Interval
    <3>5. r \in Surjection(1..n, 1..n) BY <3>2, <3>4, FS_Injection
    <3>6. QED BY <3>5 DEF Surjection
  <2>5. ASSUME NEW i \in 1..n PROVE lo <= s[i] /\ s[i] <= hi
    <3>1. PICK j \in 1..n : r[j] = i BY <2>4
    <3>2. 1 <= j /\ j <= n OBVIOUS
    <3>3. s[r[1]] <= s[r[j]] /\ s[r[j]] <= s[r[n]] BY <1>6, <2>1, <3>2
    <3>4. QED BY <2>2, <3>1, <3>3
  <2>6. PICK sum \in Nat : sum = Windows!SumOf(s) /\ n * lo <= sum /\ sum <= n * hi
    BY <1>3, <2>5, SumBetween
  <2>7. Windows!Average = sum \div n BY <1>2, <1>3, <2>6 DEF Windows!Average
  <2>8. lo <= sum \div n /\ sum \div n <= hi BY <1>3, <2>6, QuotientBetween
  <2>9. QED BY <2>3, <2>7, <2>8
<1>11. QED BY <1>2, <1>3, <1>8, <1>9, <1>10 DEF Windows!PercentileCovers, Shares

(* The windows that are not too old, when there is at most one.            *)
LEMMA FreshIs ==
  ASSUME Windows!TypeOK, WindowSize \in Nat, Len(windows) <= 1
  PROVE  \/ Windows!Fresh = <<>>
         \/ /\ windows # <<>> /\ Windows!Fresh = windows
            /\ now - windows[1].at <= WindowSize
PROOF
<1>6. windows \in Seq([at : Nat, count : Nat \ {0}]) /\ now \in Nat BY DEF Windows!TypeOK
<1>7. ASSUME windows # <<>>
      PROVE  /\ Len(windows) = 1 /\ windows = <<windows[1]>>
             /\ windows[1].at \in Nat
  <2>1. Len(windows) = 1
    <3>1. PICK n \in Nat : n = Len(windows) BY <1>6
    <3>2. n # 0 /\ n <= 1 BY <1>6, <1>7, <3>1
    <3>3. QED BY <3>1, <3>2
  <2>2. windows = <<windows[1]>> BY <1>6, <2>1
  <2>3. windows[1] \in [at : Nat, count : Nat \ {0}]
    <3>1. 1 \in 1..Len(windows) BY <2>1
    <3>2. QED BY Zenon, <1>6, <3>1, ElementOfSeq
  <2>4. QED BY <2>1, <2>2, <2>3
<1> DEFINE F(g) == [i \in 0..Len(windows) |->
                     IF i = 0 THEN <<>>
                     ELSE IF now - windows[i].at > WindowSize THEN g[i - 1]
                     ELSE Append(g[i - 1], windows[i])]
<1>1. PICK f : f = CHOOSE g : g = F(g) OBVIOUS
<1>2. Windows!Fresh = f[Len(windows)] BY Zenon, <1>1 DEF Windows!Fresh
<1>3. CASE windows = <<>>
  <2>1. Len(windows) = 0 BY <1>3
  <2>2. PICK g : g = [i \in 0..0 |-> <<>>] OBVIOUS
  <2>3. g = F(g) BY <2>1, <2>2
  <2>4. f = F(f) BY Zenon, <1>1, <2>3
  <2>5. f[0] = <<>> BY <2>1, <2>4
  <2>6. QED BY <1>2, <2>1, <2>5
<1>4. CASE windows # <<>>
  <2>1. Len(windows) = 1 BY <1>4, <1>7
  <2>2. PICK old \in BOOLEAN : old <=> now - windows[1].at > WindowSize OBVIOUS
  <2>3. PICK w : w = windows[1] OBVIOUS
  <2>4. PICK g : g = [i \in 0..1 |-> IF i = 0 THEN <<>> ELSE IF old THEN <<>> ELSE <<w>>] OBVIOUS
  <2>5. g[0] = <<>> /\ g[1] = IF old THEN <<>> ELSE <<w>> BY <2>4
  <2>6. Append(<<>>, w) = <<w>> OBVIOUS
  <2>7. g = F(g)
    <3>1. 0..Len(windows) = 0..1 BY <2>1
    <3>2. \A i \in 0..1 : g[i] = IF i = 0 THEN <<>>
                     ELSE IF now - windows[i].at > WindowSize THEN g[i - 1]
                     ELSE Append(g[i - 1], windows[i])
      <4>1. SUFFICES ASSUME NEW i \in 0..1
                     PROVE  g[i] = IF i = 0 THEN <<>>
                              ELSE IF now - windows[i].at > WindowSize THEN g[i - 1]
                              ELSE Append(g[i - 1], windows[i])
        OBVIOUS
      <4>2. CASE i = 0 BY <2>5, <4>2
      <4>3. CASE i = 1
        <5>1. i - 1 = 0 /\ i # 0 BY <4>3
        <5>2. QED BY Zenon, <2>2, <2>3, <2>5, <2>6, <4>3, <5>1
      <4>4. QED BY <4>2, <4>3
    <3>3. g = [i \in 0..1 |-> g[i]] BY <2>4
    <3>4. QED BY Zenon, <3>1, <3>2, <3>3
  <2>8. f = F(f) BY Zenon, <1>1, <2>7
  <2>9. f[0] = <<>> /\ f[1] = IF now - windows[1].at > WindowSize THEN f[0]
                             ELSE Append(f[0], windows[1])
    <3>1. 0..Len(windows) = 0..1 BY <2>1
    <3>2. 0 \in 0..1 /\ 1 \in 0..1 /\ 1 # 0 /\ 1 - 1 = 0 OBVIOUS
    <3>3. f[0] = <<>> BY <2>8, <3>1, <3>2
    <3>4. f[1] = IF now - windows[1].at > WindowSize THEN f[1 - 1] ELSE Append(f[1 - 1], windows[1])
      BY Zenon, <2>8, <3>1, <3>2
    <3>5. QED BY Zenon, <3>2, <3>3, <3>4
  <2>10. windows = <<w>> BY <1>4, <1>7, <2>3
  <2>11. Windows!Fresh = IF old THEN <<>> ELSE windows
    BY Zenon, <1>2, <2>1, <2>2, <2>3, <2>6, <2>9, <2>10
  <2>12. CASE old BY <2>11, <2>12
  <2>13. CASE ~old
    <3>1. windows[1].at \in Nat /\ now \in Nat BY <1>4, <1>6, <1>7
    <3>2. now - windows[1].at <= WindowSize BY <2>2, <2>13, <3>1
    <3>3. QED BY <1>4, <2>11, <2>13, <3>2
  <2>14. QED BY <2>12, <2>13
<1>5. QED BY <1>3, <1>4

(* The elements of a sequence between two positions.                       *)
LEMMA LastOnes ==
  ASSUME NEW S, NEW s \in Seq(S), NEW m \in Nat, NEW n \in Nat, m <= n, n <= Len(s)
  PROVE  /\ SubSeq(s, m + 1, n) \in Seq(S) /\ Len(SubSeq(s, m + 1, n)) = n - m
         /\ \A i \in 1..(n - m) : SubSeq(s, m + 1, n)[i] = s[m + i]
PROOF
<1>1. Len(s) \in Nat BY LenProperties
<1>2. PICK a \in Nat : a = m + 1 OBVIOUS
<1>3. \A i \in a..n : s[i] \in S BY <1>1, <1>2, ElementOfSeq
<1>4. /\ SubSeq(s, a, n) \in Seq(S) /\ Len(SubSeq(s, a, n)) = IF a <= n THEN n - a + 1 ELSE 0
      /\ \A i \in 1..(n - a + 1) : SubSeq(s, a, n)[i] = s[a + i - 1]
  BY <1>2, <1>3, SubSeqProperties
<1>5. n - a + 1 = n - m BY <1>2
<1>6. ASSUME NEW i \in 1..(n - m) PROVE SubSeq(s, a, n)[i] = s[m + i]
  <2>1. a + i - 1 = m + i BY <1>2
  <2>2. QED BY <1>4, <1>5, <2>1
<1>7. Len(SubSeq(s, a, n)) = n - m BY <1>2, <1>4
<1>8. QED BY <1>2, <1>4, <1>6, <1>7

(* The last elements of a sequence, without the first d of them and with   *)
(* another one, are the last ones of the sequence with that one.           *)
LEMMA LastOnesAppended ==
  ASSUME NEW S, NEW all \in Seq(S), NEW s \in Seq(S), NEW l \in S,
         NEW k \in Nat, NEW d \in Nat, NEW e \in Nat, NEW t, NEW A
  PROVE  /\ Len(all) = k + (d + e) /\ Len(s) = d + e
         /\ s = SubSeq(all, k + 1, k + (d + e))
         /\ t = Append(SubSeq(s, d + 1, d + e), l) /\ A = Append(all, l)
         => /\ t \in Seq(S) /\ A \in Seq(S) /\ Len(t) = e + 1 /\ Len(A) = k + d + e + 1
            /\ t = SubSeq(A, k + d + 1, k + d + e + 1)
PROOF
<1>0. SUFFICES ASSUME Len(all) = k + (d + e), Len(s) = d + e,
                      s = SubSeq(all, k + 1, k + (d + e)),
                      t = Append(SubSeq(s, d + 1, d + e), l), A = Append(all, l)
               PROVE  /\ t \in Seq(S) /\ A \in Seq(S)
                      /\ Len(t) = e + 1 /\ Len(A) = k + d + e + 1
                      /\ t = SubSeq(A, k + d + 1, k + d + e + 1)
  OBVIOUS
<1>1. PICK n \in Nat : n = d + e OBVIOUS
<1>2. PICK N \in Nat : N = k + n OBVIOUS
<1>3. PICK b \in Nat : b = k + d OBVIOUS
<1>4. PICK M \in Nat : M = b + e + 1 OBVIOUS
<1>5. M = N + 1 /\ N = b + e /\ k <= N /\ N - k = n /\ d <= n /\ n - d = e /\ b <= M /\ M - b = e + 1
  BY <1>1, <1>2, <1>3, <1>4
<1>6. Len(all) = N /\ Len(s) = n /\ s = SubSeq(all, k + 1, N)
      /\ t = Append(SubSeq(s, d + 1, n), l)
  BY Zenon, <1>0, <1>1, <1>2
<1>7. \A i \in 1..n : s[i] = all[k + i]
  <2>1. N <= Len(all) BY <1>6
  <2>2. /\ SubSeq(all, k + 1, N) \in Seq(S) /\ Len(SubSeq(all, k + 1, N)) = N - k
        /\ \A i \in 1..(N - k) : SubSeq(all, k + 1, N)[i] = all[k + i]
    <3>1. k <= N BY <1>5
    <3>2. QED BY Zenon, <2>1, <3>1, LastOnes
  <2>3. QED BY Zenon, <1>5, <1>6, <2>2
<1>8. PICK c : c = SubSeq(s, d + 1, n) OBVIOUS
<1>9. c \in Seq(S) /\ Len(c) = e /\ \A i \in 1..e : c[i] = s[d + i]
  <2>1. n <= Len(s) BY <1>6
  <2>2. /\ SubSeq(s, d + 1, n) \in Seq(S) /\ Len(SubSeq(s, d + 1, n)) = n - d
        /\ \A i \in 1..(n - d) : SubSeq(s, d + 1, n)[i] = s[d + i]
    <3>1. d <= n BY <1>5
    <3>2. QED BY Zenon, <2>1, <3>1, LastOnes
  <2>3. QED BY Zenon, <1>5, <1>8, <2>2
<1>10. t \in Seq(S) /\ Len(t) = e + 1 /\ (\A i \in 1..e : t[i] = c[i]) /\ t[e + 1] = l
  <2>1. t = Append(c, l) BY Zenon, <1>6, <1>8
  <2>2. /\ Append(c, l) \in Seq(S) /\ Len(Append(c, l)) = Len(c) + 1
        /\ \A i \in 1..Len(c) : Append(c, l)[i] = c[i]
        /\ Append(c, l)[Len(c) + 1] = l
    BY <1>9, AppendProperties
  <2>3. QED BY Zenon, <1>9, <2>1, <2>2
<1>11. A \in Seq(S) /\ Len(A) = M /\ (\A i \in 1..N : A[i] = all[i]) /\ A[M] = l
  <2>1. A = Append(all, l) BY <1>0
  <2>2. /\ Append(all, l) \in Seq(S) /\ Len(Append(all, l)) = Len(all) + 1
        /\ \A i \in 1..Len(all) : Append(all, l)[i] = all[i]
        /\ Append(all, l)[Len(all) + 1] = l
    BY AppendProperties
  <2>3. QED BY Zenon, <1>5, <1>6, <2>1, <2>2
<1>12. PICK z : z = SubSeq(A, b + 1, M) OBVIOUS
<1>13. z \in Seq(S) /\ Len(z) = e + 1 /\ \A i \in 1..(e + 1) : z[i] = A[b + i]
  <2>1. M <= Len(A) BY <1>11
  <2>2. /\ SubSeq(A, b + 1, M) \in Seq(S) /\ Len(SubSeq(A, b + 1, M)) = M - b
        /\ \A i \in 1..(M - b) : SubSeq(A, b + 1, M)[i] = A[b + i]
    <3>1. b <= M BY <1>5
    <3>2. PICK more \in Seq(S) : more = A BY <1>11
    <3>3. M <= Len(more) BY Zenon, <2>1, <3>2
    <3>4. /\ SubSeq(more, b + 1, M) \in Seq(S) /\ Len(SubSeq(more, b + 1, M)) = M - b
          /\ \A i \in 1..(M - b) : SubSeq(more, b + 1, M)[i] = more[b + i]
      BY <3>1, <3>3, LastOnes
    <3>5. QED BY Zenon, <3>2, <3>4
  <2>3. QED BY Zenon, <1>5, <1>12, <2>2
<1>14. ASSUME NEW i \in 1..(e + 1) PROVE t[i] = z[i]
  <2>1. CASE i = e + 1
    <3>1. b + i = M BY <1>4, <2>1
    <3>2. QED BY Zenon, <1>10, <1>11, <1>13, <2>1, <3>1
  <2>2. CASE i # e + 1
    <3>1. i \in 1..e /\ d + i \in 1..n /\ b + i \in 1..N /\ k + (d + i) = b + i
      BY <1>1, <1>3, <1>5, <2>2
    <3>2. t[i] = s[d + i] BY <1>9, <1>10, <3>1
    <3>3. s[d + i] = all[b + i]
      <4>1. s[d + i] = all[k + (d + i)] BY <1>7, <3>1
      <4>2. QED BY <3>1, <4>1
    <3>4. z[i] = all[b + i] BY <1>11, <1>13, <3>1
    <3>5. QED BY <3>2, <3>3, <3>4
  <2>3. QED BY <2>1, <2>2
<1>15. t = z
  <2>1. Len(t) = Len(z) BY Zenon, <1>10, <1>13
  <2>2. \A i \in 1..Len(t) : t[i] = z[i] BY Zenon, <1>10, <1>14
  <2>3. QED BY Zenon, <1>10, <1>13, <2>1, <2>2, SeqEqual
<1>16. t = SubSeq(A, k + d + 1, k + d + e + 1) BY Zenon, <1>3, <1>4, <1>12, <1>15
<1>17. Len(A) = k + d + e + 1 BY Zenon, <1>3, <1>4, <1>11
<1>18. QED BY Zenon, <1>10, <1>11, <1>16, <1>17

(* What RecordLatency does to the samples.                                 *)
LEMMA LatencyKeeps ==
  ASSUME Windows!Parameters, Windows!IInv,
         NEW l \in Latencies, NEW ok \in BOOLEAN, Windows!RecordLatency(l, ok)
  PROVE  /\ samples' \in Seq(Latencies) /\ latest' \in Seq(Latencies)
         /\ Windows!RecentKept' /\ Windows!SamplesBounded'
PROOF
<1>1. samples \in Seq(Latencies) /\ latest \in Seq(Latencies) /\ from \in Nat
  BY DEF Windows!IInv, Windows!TypeOK
<1>2. PICK n \in Nat : n = Len(samples) BY <1>1
<1>3. PICK N \in Nat : N = Len(latest) BY <1>1
<1>4. /\ n <= N - from /\ samples = SubSeq(latest, N - n + 1, N)
      /\ n < N - from => 2 * n > MaxSamples
      /\ n <= MaxSamples
  BY <1>2, <1>3 DEF Windows!IInv, Windows!RecentKept, Windows!SamplesBounded
<1>5. MaxSamples \in Nat /\ MaxSamples >= 2 BY DEF Windows!Parameters
<1>6. PICK d \in Nat : d = IF n >= MaxSamples THEN MaxSamples \div 2 ELSE 0 BY <1>5
<1>7. d <= n BY <1>5, <1>6
<1>8. Windows!Room = SubSeq(samples, d + 1, n)
  <2>1. CASE n >= MaxSamples BY <1>2, <1>6, <2>1 DEF Windows!Room
  <2>2. CASE ~ (n >= MaxSamples)
    <3>1. Windows!Room = samples /\ d = 0 BY <1>2, <1>6, <2>2 DEF Windows!Room
    <3>2. PICK s \in Seq(Latencies) : s = samples BY <1>1
    <3>3. PICK z : z = SubSeq(s, 0 + 1, n) OBVIOUS
    <3>4. 0 \in Nat /\ 0 <= n /\ n <= Len(s) /\ n - 0 = n BY <1>2, <3>2
    <3>5. z \in Seq(Latencies) /\ Len(z) = n /\ \A i \in 1..n : z[i] = s[0 + i]
      <4>1. /\ SubSeq(s, 0 + 1, n) \in Seq(Latencies) /\ Len(SubSeq(s, 0 + 1, n)) = n - 0
            /\ \A i \in 1..(n - 0) : SubSeq(s, 0 + 1, n)[i] = s[0 + i]
        BY <3>4, LastOnes
      <4>2. QED BY <3>3, <3>4, <4>1
    <3>6. \A i \in 1..Len(s) : s[i] = z[i] BY <1>2, <3>2, <3>5
    <3>7. Len(s) = Len(z) BY <1>2, <3>2, <3>5
    <3>8. s = z BY <3>5, <3>6, <3>7, SeqEqual
    <3>9. QED BY <3>1, <3>2, <3>3, <3>8
  <2>3. QED BY <2>1, <2>2
<1>9. PICK t : t = Append(SubSeq(samples, d + 1, n), l) OBVIOUS
<1>10. PICK A : A = Append(latest, l) OBVIOUS
<1>11. /\ t \in Seq(Latencies) /\ A \in Seq(Latencies) /\ Len(t) = n - d + 1 /\ Len(A) = N + 1
       /\ t = SubSeq(A, Len(A) - Len(t) + 1, Len(A))
  <2>1. PICK s \in Seq(Latencies), all \in Seq(Latencies) : s = samples /\ all = latest BY <1>1
  <2>2. n <= N BY <1>1, <1>4
  <2>3. PICK k \in Nat : N = k + n
    <3>1. N - n \in Nat /\ N = (N - n) + n BY <2>2
    <3>2. QED BY <3>1
  <2>4. PICK e \in Nat : n = d + e
    <3>1. n - d \in Nat /\ n = d + (n - d) BY <1>7
    <3>2. QED BY <3>1
  <2>5. N - n + 1 = k + 1 /\ n - d + 1 = e + 1 /\ N + 1 = k + d + e + 1 BY <2>3, <2>4
  <2>6. Len(all) = k + (d + e) /\ Len(s) = d + e BY Zenon, <1>2, <1>3, <2>1, <2>3, <2>4
  <2>7. s = SubSeq(all, k + 1, k + (d + e))
    <3>1. SubSeq(all, N - n + 1, N) = SubSeq(all, k + 1, k + (d + e))
      BY Zenon, <2>3, <2>4, <2>5
    <3>2. QED BY Zenon, <1>4, <2>1, <3>1
  <2>8. t = Append(SubSeq(s, d + 1, d + e), l) /\ A = Append(all, l)
    BY Zenon, <1>9, <1>10, <2>1, <2>4
  <2>9. /\ t \in Seq(Latencies) /\ A \in Seq(Latencies) /\ Len(t) = e + 1 /\ Len(A) = k + d + e + 1
        /\ t = SubSeq(A, k + d + 1, k + d + e + 1)
    <3>1. LET T == Append(SubSeq(s, d + 1, d + e), l)
              B == Append(all, l)
          IN /\ T \in Seq(Latencies) /\ B \in Seq(Latencies)
             /\ Len(T) = e + 1 /\ Len(B) = k + d + e + 1
             /\ T = SubSeq(B, k + d + 1, k + d + e + 1)
      BY <2>6, <2>7, LastOnesAppended
    <3>2. QED BY Zenon, <2>8, <3>1
  <2>10. (k + d + e + 1) - (e + 1) + 1 = k + d + 1 OBVIOUS
  <2>11. QED BY Zenon, <2>5, <2>9, <2>10
<1>12. samples' = t /\ latest' = A /\ from' = from
  BY <1>8, <1>9, <1>10 DEF Windows!RecordLatency
<1>13. PICK k \in Nat : k = Len(t) /\ k = n - d + 1 BY <1>7, <1>11
<1>14. /\ k <= MaxSamples /\ k <= (N + 1) - from
       /\ k < (N + 1) - from => 2 * k > MaxSamples
  BY <1>1, <1>4, <1>5, <1>6, <1>13
<1>15. Windows!SamplesBounded' BY <1>12, <1>13, <1>14 DEF Windows!SamplesBounded
<1>16. Windows!RecentKept'
  <2>1. Len(samples') = k /\ Len(latest') = N + 1 BY <1>11, <1>12, <1>13
  <2>2. samples' = SubSeq(latest', Len(latest') - k + 1, Len(latest'))
    BY Zenon, <1>11, <1>12, <1>13
  <2>3. /\ k <= Len(latest') - from' /\ (k < Len(latest') - from' => 2 * k > MaxSamples)
    BY <1>12, <1>14, <2>1
  <2>4. Len(samples) ' = k BY <2>1
  <2>5. QED BY Zenon, <2>1, <2>2, <2>3 DEF Windows!RecentKept
<1>17. QED BY <1>11, <1>12, <1>15, <1>16

(* What RecordRequest does to the windows and the times of the requests.   *)
LEMMA RequestKeeps ==
  ASSUME Windows!Parameters, Windows!IInv, Windows!RecordRequest
  PROVE  /\ windows' \in Seq([at : Nat, count : Nat \ {0}]) /\ starts' \in Seq(Nat)
         /\ Windows!ClockRuns' /\ Windows!OneWindow'
PROOF
<1>1. /\ windows \in Seq([at : Nat, count : Nat \ {0}]) /\ starts \in Seq(Nat) /\ now \in Nat
      /\ Len(windows) <= 1 /\ Windows!TypeOK /\ WindowSize \in Nat
  BY DEF Windows!IInv, Windows!TypeOK, Windows!OneWindow, Windows!Parameters
<1>2. PICK N \in Nat : N = Len(starts) BY <1>1
<1>3. PICK A : A = Append(starts, now) OBVIOUS
<1>4. A \in Seq(Nat) /\ Len(A) = N + 1 /\ (\A i \in 1..N : A[i] = starts[i]) /\ A[N + 1] = now
  BY <1>1, <1>2, <1>3, AppendProperties
<1>5. starts' = A /\ now' = now BY <1>3 DEF Windows!RecordRequest
<1>6. /\ \A i, j \in 1..N : i <= j => starts[i] <= starts[j]
      /\ \A i \in 1..N : starts[i] <= now /\ starts[i] \in Nat
  <2>1. \A i \in 1..N : starts[i] \in Nat BY <1>1, <1>2
  <2>2. QED BY <1>2, <2>1 DEF Windows!IInv, Windows!ClockRuns
<1>7. \A i \in 1..(N + 1) : A[i] <= now
  <2>1. SUFFICES ASSUME NEW i \in 1..(N + 1) PROVE A[i] <= now OBVIOUS
  <2>2. CASE i = N + 1 BY <1>1, <1>4, <2>2
  <2>3. CASE i # N + 1
    <3>1. i \in 1..N BY <2>3
    <3>2. QED BY <1>4, <1>6, <3>1
  <2>4. QED BY <2>2, <2>3
<1>8. ASSUME NEW i \in 1..(N + 1), NEW j \in 1..(N + 1), i <= j PROVE A[i] <= A[j]
  <2>1. CASE j = N + 1 BY <1>4, <1>7, <2>1
  <2>2. CASE j # N + 1
    <3>1. i \in 1..N /\ j \in 1..N BY <1>8, <2>2
    <3>2. QED BY <1>4, <1>6, <1>8, <3>1
  <2>3. QED BY <2>1, <2>2
<1>9. Windows!ClockRuns'
  <2>1. Len(starts') = N + 1 BY <1>4, <1>5
  <2>2. \A i, j \in 1..Len(starts') : i <= j => starts'[i] <= starts'[j]
    BY Zenon, <1>5, <1>8, <2>1
  <2>3. \A i \in 1..Len(starts') : starts'[i] <= now' BY Zenon, <1>5, <1>7, <2>1
  <2>4. QED BY Zenon, <2>2, <2>3 DEF Windows!ClockRuns
<1>10. CASE Windows!Fresh = <<>>
  <2>1. windows' = <<[at |-> now, count |-> 1]>> BY <1>10 DEF Windows!RecordRequest
  <2>2. PICK w \in [at : Nat, count : Nat \ {0}] : w = [at |-> now, count |-> 1]
    <3>1. 1 \in Nat \ {0} /\ now \in Nat BY <1>1
    <3>2. [at |-> now, count |-> 1] \in [at : Nat, count : Nat \ {0}] BY <3>1
    <3>3. QED BY <3>2
  <2>3. windows' = <<w>> BY <2>1, <2>2
  <2>4. <<w>> \in Seq([at : Nat, count : Nat \ {0}]) /\ Len(<<w>>) = 1 /\ <<w>>[1] = w
    OBVIOUS
  <2>5. N + 1 \in 1..(N + 1) /\ (N + 1) - (N + 1) + 1 = 1 OBVIOUS
  <2>6. windows'[1] = [at |-> A[N + 1], count |-> (N + 1) - (N + 1) + 1]
    BY Zenon, <1>4, <2>2, <2>3, <2>4, <2>5
  <2>7. A[N + 1] <= A[N + 1] + WindowSize BY <1>1, <1>4
  <2>8. \E k \in 1..Len(starts') :
         /\ windows'[1] = [at |-> starts'[k], count |-> Len(starts') - k + 1]
         /\ starts'[Len(starts')] <= starts'[k] + WindowSize
    BY Zenon, <1>4, <1>5, <2>5, <2>6, <2>7
  <2>9. Len(windows') <= 1 BY <2>3, <2>4
  <2>10. Windows!OneWindow' BY Zenon, <2>8, <2>9 DEF Windows!OneWindow
  <2>11. QED BY <1>4, <1>5, <1>9, <2>3, <2>4, <2>10
<1>11. CASE Windows!Fresh # <<>>
  <2>1. /\ windows # <<>> /\ Windows!Fresh = windows /\ now - windows[1].at <= WindowSize
    BY <1>1, <1>11, FreshIs
  <2>2. Len(windows) = 1
    <3>1. PICK n \in Nat : n = Len(windows) BY <1>1
    <3>2. n # 0 /\ n <= 1 BY <1>1, <2>1, <3>1
    <3>3. QED BY <3>1, <3>2
  <2>3. windows' = [windows EXCEPT ![1].count = @ + 1]
    <3>1. windows' = [Windows!Fresh EXCEPT ![Len(Windows!Fresh)].count = @ + 1]
      BY Zenon, <1>11 DEF Windows!RecordRequest
    <3>2. QED BY Zenon, <2>1, <2>2, <3>1
  <2>4. PICK k \in 1..N : windows[1] = [at |-> starts[k], count |-> N - k + 1]
    BY <1>2, <2>1 DEF Windows!IInv, Windows!OneWindow
  <2>5. k \in 1..(N + 1) /\ N - k + 1 \in Nat /\ (N - k + 1) + 1 = (N + 1) - k + 1
        /\ (N - k + 1) + 1 \in Nat \ {0}
    OBVIOUS
  <2>6. PICK w : w = [at |-> starts[k], count |-> (N + 1) - k + 1] OBVIOUS
  <2>7. w \in [at : Nat, count : Nat \ {0}] BY <1>6, <2>5, <2>6
  <2>8. windows = <<[at |-> starts[k], count |-> N - k + 1]>> BY <1>1, <2>2, <2>4
  <2>9. windows' = <<w>>
    <3>1. PICK W : W = <<[at |-> starts[k], count |-> N - k + 1]>> OBVIOUS
    <3>2. [W EXCEPT ![1].count = @ + 1] = <<[at |-> starts[k], count |-> (N - k + 1) + 1]>>
      BY <3>1
    <3>3. QED BY Zenon, <2>3, <2>5, <2>6, <2>8, <3>1, <3>2
  <2>10. <<w>> \in Seq([at : Nat, count : Nat \ {0}]) /\ Len(<<w>>) = 1 /\ <<w>>[1] = w
    BY <2>7
  <2>11. windows'[1] = [at |-> A[k], count |-> (N + 1) - k + 1]
    BY Zenon, <1>4, <2>6, <2>9, <2>10
  <2>12. A[N + 1] <= A[k] + WindowSize
    <3>1. starts[k] \in Nat /\ windows[1].at = starts[k] /\ A[k] = starts[k]
      BY <1>4, <1>6, <2>4
    <3>2. QED BY <1>1, <1>4, <2>1, <3>1
  <2>13. \E i \in 1..Len(starts') :
         /\ windows'[1] = [at |-> starts'[i], count |-> Len(starts') - i + 1]
         /\ starts'[Len(starts')] <= starts'[i] + WindowSize
    BY Zenon, <1>4, <1>5, <2>5, <2>11, <2>12
  <2>14. Len(windows') <= 1 BY <2>9, <2>10
  <2>15. Windows!OneWindow' BY Zenon, <2>13, <2>14 DEF Windows!OneWindow
  <2>16. QED BY <1>4, <1>5, <1>9, <2>9, <2>10, <2>15
<1>12. QED BY <1>10, <1>11

(* The inductive invariant of the trackers: what is kept of the latencies  *)
(* are the last ones, and there is one window, which counts the requests   *)
(* since the one that made it.                                             *)
THEOREM WindowsIInvHolds ==
  ASSUME Windows!Parameters
  PROVE  Windows!Spec => []Windows!IInv
PROOF
<1>1. Windows!Init => Windows!IInv
  <2>1. SUFFICES ASSUME Windows!Init PROVE Windows!IInv OBVIOUS
  <2>2. /\ samples = <<>> /\ latest = <<>> /\ windows = <<>> /\ starts = <<>>
        /\ now = 0 /\ failed = 0 /\ from = 0
    BY <2>1 DEF Windows!Init
  <2>3. MaxSamples \in Nat BY DEF Windows!Parameters
  <2>4. Windows!TypeOK BY <2>2 DEF Windows!TypeOK
  <2>5. Windows!RecentKept
    <3>1. SubSeq(<<>>, 1, 0) = <<>> OBVIOUS
    <3>2. Len(<<>>) = 0 OBVIOUS
    <3>3. Len(samples) = 0 /\ Len(latest) = 0 BY <2>2, <3>2
    <3>4. samples = SubSeq(latest, Len(latest) - Len(samples) + 1, Len(latest))
      <4>1. Len(latest) - Len(samples) + 1 = 1 BY <3>3
      <4>2. QED BY Zenon, <2>2, <3>1, <3>3, <4>1
    <3>5. QED BY <2>2, <3>3, <3>4 DEF Windows!RecentKept
  <2>6. Windows!SamplesBounded BY <2>2, <2>3 DEF Windows!SamplesBounded
  <2>7. Windows!ClockRuns BY <2>2 DEF Windows!ClockRuns
  <2>8. Windows!OneWindow BY <2>2 DEF Windows!OneWindow
  <2>9. QED BY <2>4, <2>5, <2>6, <2>7, <2>8 DEF Windows!IInv
<1>2. Windows!IInv /\ [Windows!Next]_Windows!vars => Windows!IInv'
  <2>1. SUFFICES ASSUME Windows!IInv, [Windows!Next]_Windows!vars PROVE Windows!IInv'
    OBVIOUS
  <2>2. /\ samples \in Seq(Latencies) /\ latest \in Seq(Latencies)
        /\ windows \in Seq([at : Nat, count : Nat \ {0}]) /\ starts \in Seq(Nat)
        /\ now \in Nat /\ failed \in Nat /\ from \in Nat
    BY <2>1 DEF Windows!IInv, Windows!TypeOK
  <2>3. MaxSamples \in Nat /\ MaxSamples >= 2 BY DEF Windows!Parameters
  <2>4. ASSUME NEW l \in Latencies, NEW ok \in BOOLEAN, Windows!RecordLatency(l, ok)
        PROVE  Windows!IInv'
    <3>1. UNCHANGED <<from, windows, starts, now>> /\ failed' \in Nat
      BY <2>2, <2>4 DEF Windows!RecordLatency
    <3>2. /\ samples' \in Seq(Latencies) /\ latest' \in Seq(Latencies)
          /\ Windows!RecentKept' /\ Windows!SamplesBounded'
      BY <2>1, <2>4, LatencyKeeps
    <3>3. Windows!TypeOK' BY <2>2, <3>1, <3>2 DEF Windows!TypeOK
    <3>4. Windows!ClockRuns' /\ Windows!OneWindow'
      BY <2>1, <3>1 DEF Windows!IInv, Windows!ClockRuns, Windows!OneWindow
    <3>5. QED BY <3>2, <3>3, <3>4 DEF Windows!IInv
  <2>5. ASSUME Windows!RecordRequest PROVE Windows!IInv'
    <3>1. UNCHANGED <<samples, latest, from, now, failed>> BY <2>5 DEF Windows!RecordRequest
    <3>2. /\ windows' \in Seq([at : Nat, count : Nat \ {0}]) /\ starts' \in Seq(Nat)
          /\ Windows!ClockRuns' /\ Windows!OneWindow'
      BY <2>1, <2>5, RequestKeeps
    <3>3. Windows!TypeOK' BY <2>2, <3>1, <3>2 DEF Windows!TypeOK
    <3>4. Windows!RecentKept' /\ Windows!SamplesBounded'
      BY <2>1, <3>1 DEF Windows!IInv, Windows!RecentKept, Windows!SamplesBounded
    <3>5. QED BY <3>2, <3>3, <3>4 DEF Windows!IInv
  <2>6. ASSUME Windows!Tick PROVE Windows!IInv'
    <3>1. UNCHANGED <<samples, latest, from, windows, starts, failed>> /\ now' = now + 1
      BY <2>6 DEF Windows!Tick
    <3>2. now' \in Nat BY <2>2, <3>1
    <3>3. Windows!TypeOK' BY <2>2, <3>1, <3>2 DEF Windows!TypeOK
    <3>4. Windows!RecentKept' /\ Windows!SamplesBounded' /\ Windows!OneWindow'
      BY <2>1, <3>1
         DEF Windows!IInv, Windows!RecentKept, Windows!SamplesBounded, Windows!OneWindow
    <3>5. Windows!ClockRuns'
      <4>1. \A i \in 1..Len(starts) : starts[i] \in Nat BY <2>2
      <4>2. \A i \in 1..Len(starts) : starts[i] <= now
        BY <2>1 DEF Windows!IInv, Windows!ClockRuns
      <4>3. \A i \in 1..Len(starts) : starts[i] <= now' BY <2>2, <3>1, <4>1, <4>2
      <4>4. QED BY <2>1, <3>1, <4>3 DEF Windows!IInv, Windows!ClockRuns
    <3>6. QED BY <3>3, <3>4, <3>5 DEF Windows!IInv
  <2>7. ASSUME Windows!Reset PROVE Windows!IInv'
    <3>1. /\ UNCHANGED <<latest, windows, starts, now, failed>>
          /\ samples' = <<>> /\ from' = Len(latest)
      BY <2>7 DEF Windows!Reset
    <3>2. Windows!TypeOK' BY <2>2, <3>1 DEF Windows!TypeOK
    <3>3. Windows!SamplesBounded' BY <2>3, <3>1 DEF Windows!SamplesBounded
    <3>4. Windows!ClockRuns' /\ Windows!OneWindow'
      BY <2>1, <3>1 DEF Windows!IInv, Windows!ClockRuns, Windows!OneWindow
    <3>5. Windows!RecentKept'
      <4>1. PICK N \in Nat : N = Len(latest) BY <2>2
      <4>2. SubSeq(latest, N + 1, N) = <<>>
        <5>1. N \in Int /\ N + 1 \in Int /\ N < N + 1 OBVIOUS
        <5>2. QED BY <5>1, SubSeqEmpty
      <4>3. Len(samples') = 0 BY <3>1
      <4>4. Len(latest') = N /\ latest' = latest /\ from' = N BY <3>1, <4>1
      <4>5. N - 0 + 1 = N + 1 /\ N - N = 0 /\ 0 <= 0 /\ ~ (0 < 0) OBVIOUS
      <4>6. samples' = SubSeq(latest', Len(latest') - Len(samples') + 1, Len(latest'))
        BY Zenon, <3>1, <4>2, <4>3, <4>4, <4>5
      <4>7. Len(samples') <= Len(latest') - from' /\ ~ (Len(samples') < Len(latest') - from')
        BY <4>3, <4>4, <4>5
      <4>8. QED BY Zenon, <4>6, <4>7 DEF Windows!RecentKept
    <3>6. QED BY <3>2, <3>3, <3>4, <3>5 DEF Windows!IInv
  <2>8. CASE UNCHANGED Windows!vars
    BY <2>1, <2>8 DEF Windows!vars, Windows!IInv, Windows!TypeOK, Windows!RecentKept,
       Windows!SamplesBounded, Windows!ClockRuns, Windows!OneWindow
  <2>9. QED BY <2>1, <2>4, <2>5, <2>6, <2>7, <2>8 DEF Windows!Next
<1>3. QED BY <1>1, <1>2, PTL DEF Windows!Spec

(* The one window has counted only requests that are recent.               *)
LEMMA WindowsCountRecent ==
  ASSUME Windows!Parameters, Windows!IInv
  PROVE  Windows!WindowsRecent
PROOF
<1>1. /\ windows \in Seq([at : Nat, count : Nat \ {0}]) /\ starts \in Seq(Nat)
      /\ WindowSize \in Nat /\ MaxWindows \in Nat /\ MaxWindows >= 1
  BY DEF Windows!IInv, Windows!TypeOK, Windows!Parameters
<1>2. PICK n \in Nat : n = Len(windows) BY <1>1
<1>3. n <= 1 BY <1>2 DEF Windows!IInv, Windows!OneWindow
<1>4. PICK N \in Nat : N = Len(starts) BY <1>1
<1>5. PICK T \in SUBSET (1..N) :
        T = {i \in 1..Len(starts) : starts[i] >= starts[Len(starts)] - WindowSize}
  BY <1>4
<1>6. IsFiniteSet(T) /\ Cardinality(T) \in Nat
  <2>1. 1 \in Int /\ N \in Int OBVIOUS
  <2>2. IsFiniteSet(1..N) BY <2>1, FS_Interval
  <2>3. QED BY <2>2, FS_Subset, FS_CardinalityType
<1>7. PICK c : c = [i \in 1..Len(windows) |-> windows[i].count] OBVIOUS
<1>8. c \in Seq(Nat) /\ Len(c) = n /\ \A i \in 1..n : c[i] = windows[i].count
  <2>1. \A i \in 1..n : windows[i] \in [at : Nat, count : Nat \ {0}]
    <3>1. PICK w \in Seq([at : Nat, count : Nat \ {0}]) : w = windows BY <1>1
    <3>2. \A i \in 1..Len(w) : w[i] \in [at : Nat, count : Nat \ {0}] BY Zenon, ElementOfSeq
    <3>3. QED BY Zenon, <1>2, <3>1, <3>2
  <2>2. \A i \in 1..n : windows[i].count \in Nat BY <2>1
  <2>3. c = [i \in 1..n |-> windows[i].count] BY <1>2, <1>7
  <2>4. QED BY <2>2, <2>3
<1>9. Windows!SumOf(c) <= Cardinality(T)
  <2>1. CASE n = 0
    <3>1. \A i \in 1..n : 0 <= c[i] /\ c[i] <= 0 BY <2>1
    <3>2. Windows!SumOf(c) \in Nat /\ Windows!SumOf(c) <= n * 0
      BY <1>8, <3>1, SumBetween
    <3>3. QED BY <1>6, <2>1, <3>2
  <2>2. CASE n = 1
    <3>1. windows # <<>>
      <4>1. Len(<<>>) = 0 OBVIOUS
      <4>2. n # 0 BY <2>2
      <4>3. QED BY Zenon, <1>2, <4>1, <4>2
    <3>2. PICK k \in 1..N : /\ windows[1] = [at |-> starts[k], count |-> N - k + 1]
                            /\ starts[N] <= starts[k] + WindowSize
      BY <1>4, <3>1 DEF Windows!IInv, Windows!OneWindow
    <3>3. PICK v \in Nat : v = N - k + 1
      <4>1. N - k + 1 \in Nat OBVIOUS
      <4>2. QED BY <4>1
    <3>4. c[1] = v BY <1>8, <2>2, <3>2, <3>3
    <3>5. \A i \in 1..n : v <= c[i] /\ c[i] <= v BY <2>2, <3>4
    <3>6. Windows!SumOf(c) \in Nat /\ Windows!SumOf(c) <= n * v
      BY <1>8, <3>5, SumBetween
    <3>7. Windows!SumOf(c) <= v BY <2>2, <3>6
    <3>8. k..N \in SUBSET T
      <4>1. SUFFICES ASSUME NEW i \in k..N PROVE i \in T OBVIOUS
      <4>2. i \in 1..N /\ k <= i /\ N \in 1..N OBVIOUS
      <4>3. starts[k] <= starts[i]
        BY <1>4, <4>2 DEF Windows!IInv, Windows!ClockRuns
      <4>4. starts[k] \in Nat /\ starts[i] \in Nat /\ starts[N] \in Nat BY <1>1, <1>4, <4>2
      <4>5. starts[i] >= starts[N] - WindowSize
        <5>1. PICK a \in Nat, b \in Nat, d \in Nat, ws \in Nat :
                a = starts[k] /\ b = starts[i] /\ d = starts[N] /\ ws = WindowSize
          BY <1>1, <4>4
        <5>2. a <= b /\ d <= a + ws BY Zenon, <3>2, <4>3, <5>1
        <5>3. b >= d - ws BY <5>2
        <5>4. QED BY Zenon, <5>1, <5>3
      <4>6. QED BY <1>4, <1>5, <4>2, <4>5
    <3>9. Cardinality(k..N) <= Cardinality(T) BY <1>6, <3>8, FS_Subset
    <3>10. Cardinality(k..N) = v
      <4>1. k \in Int /\ N \in Int /\ ~ (k > N) /\ N - k + 1 = v BY <3>3
      <4>2. Cardinality(k..N) = IF k > N THEN 0 ELSE N - k + 1 BY <4>1, FS_Interval
      <4>3. QED BY <4>1, <4>2
    <3>11. QED BY <1>6, <3>3, <3>6, <3>7, <3>9, <3>10
  <2>3. QED BY <1>3, <2>1, <2>2
<1>10. Windows!Cardinality(T) = Cardinality(T) BY WindowsCounts
<1>11. Len(windows) <= MaxWindows BY <1>1, <1>2, <1>3
<1>12. QED BY Zenon, <1>5, <1>7, <1>9, <1>10, <1>11 DEF Windows!WindowsRecent

(* The checks of check_health, one after the other, find the worst issue.  *)
LEMMA HealthWorst ==
  ASSUME Windows!TypeOK
  PROVE  Windows!HealthIsWorst
PROOF
<1>1. failed \in Nat /\ Len(starts) \in Nat BY DEF Windows!TypeOK
<1>2. SUFFICES ASSUME NEW connections \in 0..1, NEW most \in 0..1
               PROVE  LET critical ==
                            \/ starts # <<>> /\ 2 * failed > Len(starts)
                            \/ samples # <<>> /\ Windows!Percentile(95) > Windows!Thresholds.p95
                          warning ==
                            \/ samples # <<>> /\ Windows!Average > Windows!Thresholds.average
                            \/ connections > most
                      IN Windows!Health(connections, most) =
                           IF critical THEN "critical"
                           ELSE IF warning THEN "warning" ELSE "healthy"
  BY DEF Windows!HealthIsWorst
<1>3. Windows!Thresholds.rate = 50 BY DEF Windows!Thresholds
<1>4. failed * 100 > 50 * Len(starts) <=> 2 * failed > Len(starts) BY <1>1
<1>5. PICK rate \in BOOLEAN : rate <=> starts # <<>> /\ 2 * failed > Len(starts) OBVIOUS
<1>6. PICK p95 \in BOOLEAN :
        p95 <=> samples # <<>> /\ Windows!Percentile(95) > Windows!Thresholds.p95 OBVIOUS
<1>7. PICK average \in BOOLEAN :
        average <=> samples # <<>> /\ Windows!Average > Windows!Thresholds.average OBVIOUS
<1>8. PICK many \in BOOLEAN : many <=> connections > most OBVIOUS
<1>9. Windows!Health(connections, most) =
        LET a == IF rate THEN "critical" ELSE "healthy"
            b == IF average THEN Windows!Warn(a) ELSE a
            c == IF p95 THEN "critical" ELSE b
        IN IF many THEN Windows!Warn(c) ELSE c
  BY Zenon, <1>3, <1>4, <1>5, <1>6, <1>7, <1>8 DEF Windows!Health
<1>10. Windows!Health(connections, most) =
         IF rate \/ p95 THEN "critical" ELSE IF average \/ many THEN "warning" ELSE "healthy"
  BY <1>9 DEF Windows!Warn
<1>11. QED BY Zenon, <1>5, <1>6, <1>7, <1>8, <1>10

(* What is read from the trackers is true of what was recorded.            *)
THEOREM TrackersTrue ==
  ASSUME Windows!Parameters
  PROVE  Windows!Spec => [](/\ Windows!PercentileCovers /\ Windows!WindowsRecent
                            /\ Windows!HealthIsWorst)
PROOF
<1>1. Windows!IInv => Windows!PercentileCovers
  <2>1. SUFFICES ASSUME Windows!IInv PROVE Windows!PercentileCovers OBVIOUS
  <2>2. samples \in Seq(Latencies) /\ Latencies \subseteq Nat
    BY <2>1 DEF Windows!IInv, Windows!TypeOK, Windows!Parameters
  <2>3. samples \in Seq(Nat)
    <3>1. PICK s \in Seq(Latencies) : s = samples BY <2>2
    <3>2. \A i \in 1..Len(s) : s[i] \in Nat BY <2>2, ElementOfSeq
    <3>3. s = [i \in 1..Len(s) |-> s[i]] /\ Len(s) \in Nat OBVIOUS
    <3>4. [i \in 1..Len(s) |-> s[i]] \in Seq(Nat) BY <3>2, <3>3
    <3>5. QED BY Zenon, <3>1, <3>3, <3>4
  <2>4. QED BY <2>3, PercentilesHold
<1>2. Windows!IInv => Windows!WindowsRecent BY WindowsCountRecent
<1>3. Windows!IInv => Windows!HealthIsWorst BY HealthWorst DEF Windows!IInv
<1>4. QED BY <1>1, <1>2, <1>3, WindowsIInvHolds, PTL

(* The counters and the trackers side by side.                             *)
THEOREM MetricsAreTrue ==
  ASSUME Collector!Parameters, Windows!Parameters
  PROVE  Collector!Spec /\ Windows!Spec => []MetricsTrue
PROOF
<1>1. /\ Collector!IInv /\ Collector!Balanced /\ Collector!MapsCounted
      /\ Windows!IInv /\ Windows!PercentileCovers /\ Windows!WindowsRecent /\ Windows!HealthIsWorst
      => MetricsTrue
  BY DEF MetricsTrue
<1>2. QED
  BY <1>1, CollectorIInvHolds, MetricsBalanced, MetricsCounted, WindowsIInvHolds, TrackersTrue, PTL

-----------------------------------------------------------------------------
(* The cache of parsers.                                                   *)

LEMMA ParserHead ==
  ASSUME NEW s \in Seq(Parsers), s # <<>>
  PROVE  /\ Head(s) \in Parsers /\ Head(s) = s[1]
         /\ Tail(s) \in Seq(Parsers)
         /\ Len(s) \in Nat \ {0} /\ Len(Tail(s)) = Len(s) - 1
         /\ \A i \in 1..(Len(s) - 1) : Tail(s)[i] = s[i + 1]
PROOF
BY HeadTailProperties, EmptySeq, LenProperties

LEMMA ParserGet ==
  ASSUME Parser!Parameters, Parser!IInv, NEW u \in Users, Parser!Get(u)
  PROVE  Parser!IInv'
PROOF
<1> USE DEF Parser!Parameters
<1>1. /\ parsers \in Seq(Parsers) /\ has \in [Users -> Parsers \cup {NoParser}]
      /\ alive \in {"yes", "no"} /\ Len(parsers) \in Nat /\ Len(parsers) <= MaxCacheSize
      /\ has[u] = NoParser /\ alive' = alive
  BY LenProperties
     DEF Parser!IInv, Parser!TypeOK, Parser!WithinLimit, Parser!Lacking, Parser!Get
<1>2. /\ \A v, w \in Users : has[v] = has[w] /\ has[v] # NoParser => v = w
      /\ \A v \in Users : \A i \in 1..Len(parsers) : has[v] # parsers[i]
      /\ \A i, j \in 1..Len(parsers) : parsers[i] = parsers[j] => i = j
  BY DEF Parser!IInv, Parser!OneUser, Parser!Idle
<1>3. CASE parsers # <<>>
  <2>1. has' = [has EXCEPT ![u] = Head(parsers)] /\ parsers' = Tail(parsers)
    BY <1>3 DEF Parser!Get
  <2>2. /\ Head(parsers) \in Parsers /\ Head(parsers) = parsers[1]
        /\ parsers' \in Seq(Parsers)
        /\ Len(parsers) \in Nat \ {0} /\ Len(parsers') = Len(parsers) - 1
        /\ \A i \in 1..(Len(parsers) - 1) : parsers'[i] = parsers[i + 1]
    BY <1>1, <1>3, <2>1, ParserHead
  <2>3. \A v \in Users : has'[v] = IF v = u THEN parsers[1] ELSE has[v]
    BY <1>1, <2>1, <2>2
  <2>4. Parser!TypeOK' /\ Parser!WithinLimit'
    BY <1>1, <2>1, <2>2 DEF Parser!TypeOK, Parser!WithinLimit, Parser!Lacking
  <2>5. \A v, w \in Users : has'[v] = has'[w] /\ has'[v] # NoParser => v = w
    BY <1>2, <2>2, <2>3
  <2>6. \A v \in Users : \A i \in 1..Len(parsers') : has'[v] # parsers'[i]
    BY <1>2, <2>2, <2>3
  <2>7. \A i, j \in 1..Len(parsers') : parsers'[i] = parsers'[j] => i = j
    <3>1. SUFFICES ASSUME NEW i \in 1..Len(parsers'), NEW j \in 1..Len(parsers'),
                          parsers'[i] = parsers'[j]
                   PROVE  i = j
      OBVIOUS
    <3>2. /\ i \in 1..(Len(parsers) - 1) /\ i + 1 \in 1..Len(parsers)
          /\ j \in 1..(Len(parsers) - 1) /\ j + 1 \in 1..Len(parsers)
      BY <2>2
    <3>3. parsers[i + 1] = parsers[j + 1] BY <2>2, <3>1, <3>2
    <3>4. i + 1 = j + 1 BY <1>2, <3>2, <3>3
    <3>5. QED BY <3>2, <3>4
  <2>8. QED BY <2>4, <2>5, <2>6, <2>7 DEF Parser!IInv, Parser!OneUser, Parser!Idle
<1>4. CASE parsers = <<>>
  <2>1. PICK p \in Parser!New : has' = [has EXCEPT ![u] = p] /\ parsers' = parsers
    BY <1>4 DEF Parser!Get
  <2>2. /\ p \in Parsers /\ \A v \in Users : has[v] # p
        /\ \A i \in 1..Len(parsers) : parsers[i] # p
    BY DEF Parser!New, Parser!Idle
  <2>3. \A v \in Users : has'[v] = IF v = u THEN p ELSE has[v] BY <1>1, <2>1
  <2>4. Parser!TypeOK' /\ Parser!WithinLimit'
    BY <1>1, <2>1, <2>2 DEF Parser!TypeOK, Parser!WithinLimit, Parser!Lacking
  <2>5. Parser!OneUser' BY <1>2, <2>1, <2>2, <2>3 DEF Parser!OneUser, Parser!Idle
  <2>6. QED BY <2>4, <2>5 DEF Parser!IInv
<1>5. QED BY <1>3, <1>4

LEMMA ParserPutBack ==
  ASSUME Parser!Parameters, Parser!IInv, NEW u \in Users, Parser!PutBack(u)
  PROVE  Parser!IInv'
PROOF
<1> USE DEF Parser!Parameters
<1>1. /\ parsers \in Seq(Parsers) /\ has \in [Users -> Parsers \cup {NoParser}]
      /\ alive \in {"yes", "no"} /\ Len(parsers) \in Nat /\ Len(parsers) <= MaxCacheSize
      /\ has[u] \in Parsers /\ has' = [has EXCEPT ![u] = NoParser] /\ alive' = alive
  BY LenProperties
     DEF Parser!IInv, Parser!TypeOK, Parser!WithinLimit, Parser!Lacking, Parser!PutBack
<1>2. /\ \A v, w \in Users : has[v] = has[w] /\ has[v] # NoParser => v = w
      /\ \A v \in Users : \A i \in 1..Len(parsers) : has[v] # parsers[i]
      /\ \A i, j \in 1..Len(parsers) : parsers[i] = parsers[j] => i = j
  BY DEF Parser!IInv, Parser!OneUser, Parser!Idle
<1>3. \A v \in Users : has'[v] = IF v = u THEN NoParser ELSE has[v] BY <1>1
<1>4. CASE Len(parsers) < MaxCacheSize /\ parsers' = Append(parsers, has[u])
  <2>1. /\ parsers' \in Seq(Parsers) /\ Len(parsers') = Len(parsers) + 1
        /\ \A i \in 1..Len(parsers) : parsers'[i] = parsers[i]
        /\ parsers'[Len(parsers) + 1] = has[u]
    BY <1>1, <1>4, AppendProperties
  <2>2. Parser!TypeOK' /\ Parser!WithinLimit'
    BY <1>1, <1>4, <2>1 DEF Parser!TypeOK, Parser!WithinLimit, Parser!Lacking
  <2>3. \A i \in 1..Len(parsers') : i \in 1..Len(parsers) \/ i = Len(parsers) + 1
    BY <1>1, <2>1
  <2>4. \A v \in Users : \A i \in 1..Len(parsers') : has'[v] # parsers'[i]
    BY <1>1, <1>2, <1>3, <2>1, <2>3
  <2>5. \A i, j \in 1..Len(parsers') : parsers'[i] = parsers'[j] => i = j
    BY <1>1, <1>2, <2>1, <2>3
  <2>6. \A v, w \in Users : has'[v] = has'[w] /\ has'[v] # NoParser => v = w
    BY <1>2, <1>3
  <2>7. QED BY <2>2, <2>4, <2>5, <2>6 DEF Parser!IInv, Parser!OneUser, Parser!Idle
<1>5. CASE parsers' = parsers
  <2>1. \A v \in Users : \A i \in 1..Len(parsers) : has'[v] # parsers[i]
    <3>1. \A i \in 1..Len(parsers) : parsers[i] \in Parsers BY <1>1, ElementOfSeq
    <3>2. QED BY <1>2, <1>3, <3>1
  <2>2. QED
    BY <1>1, <1>2, <1>3, <1>5, <2>1
       DEF Parser!IInv, Parser!TypeOK, Parser!OneUser, Parser!Idle, Parser!WithinLimit,
           Parser!Lacking
<1>6. QED BY <1>4, <1>5 DEF Parser!PutBack

LEMMA ParserWarmUp ==
  ASSUME Parser!Parameters, Parser!IInv, NEW n \in 1..MaxCacheSize, Parser!WarmUp(n)
  PROVE  Parser!IInv'
PROOF
<1> USE DEF Parser!Parameters
<1>1. /\ parsers \in Seq(Parsers) /\ has \in [Users -> Parsers \cup {NoParser}]
      /\ alive \in {"yes", "no"} /\ Len(parsers) \in Nat /\ Len(parsers) + n <= MaxCacheSize
      /\ has' = has /\ alive' = alive /\ n \in Nat
  BY LenProperties
     DEF Parser!IInv, Parser!TypeOK, Parser!WithinLimit, Parser!Lacking, Parser!WarmUp
<1>2. /\ \A v, w \in Users : has[v] = has[w] /\ has[v] # NoParser => v = w
      /\ \A v \in Users : \A i \in 1..Len(parsers) : has[v] # parsers[i]
      /\ \A i, j \in 1..Len(parsers) : parsers[i] = parsers[j] => i = j
  BY DEF Parser!IInv, Parser!OneUser, Parser!Idle
<1>3. PICK s \in [1..n -> Parser!New] :
        (\A i, j \in 1..n : s[i] = s[j] => i = j) /\ parsers' = parsers \o s
  BY DEF Parser!WarmUp
<1>4. \A i \in 1..n : /\ s[i] \in Parsers /\ \A v \in Users : has[v] # s[i]
                      /\ \A j \in 1..Len(parsers) : parsers[j] # s[i]
  BY DEF Parser!New, Parser!Idle
<1>5. s \in Seq(Parsers) /\ Len(s) = n
  <2>1. s \in [1..n -> Parsers] BY <1>4
  <2>2. s \in Seq(Parsers) BY <1>1, <2>1, SeqDef
  <2>3. Len(s) \in Nat /\ DOMAIN s = 1..Len(s) BY <2>2, LenProperties
  <2>4. 1..Len(s) = 1..n BY <2>3
  <2>5. QED BY <1>1, <2>2, <2>3, <2>4
<1>6. /\ parsers' \in Seq(Parsers) /\ Len(parsers') = Len(parsers) + n
      /\ \A i \in 1..(Len(parsers) + n) :
           parsers'[i] = IF i <= Len(parsers) THEN parsers[i] ELSE s[i - Len(parsers)]
  <2>1. /\ parsers \o s \in Seq(Parsers) /\ Len(parsers \o s) = Len(parsers) + Len(s)
        /\ \A i \in 1..(Len(parsers) + Len(s)) :
             (parsers \o s)[i] = IF i <= Len(parsers) THEN parsers[i] ELSE s[i - Len(parsers)]
    BY <1>1, <1>5, ConcatProperties, Zenon
  <2>2. QED BY <1>3, <1>5, <2>1, Zenon
<1>7. Parser!TypeOK' /\ Parser!WithinLimit'
  BY <1>1, <1>6 DEF Parser!TypeOK, Parser!WithinLimit, Parser!Lacking
<1>8. PICK m \in Nat : m = Len(parsers) BY <1>1
<1>9. \A i \in 1..(m + n) :
        \/ i \in 1..m /\ parsers'[i] = parsers[i]
        \/ i - m \in 1..n /\ parsers'[i] = s[i - m]
  BY <1>1, <1>6, <1>8
<1>10. \A v \in Users : \A i \in 1..(m + n) : has[v] # parsers'[i]
  BY <1>2, <1>4, <1>8, <1>9
<1>11. \A i, j \in 1..(m + n) : parsers'[i] = parsers'[j] => i = j
  <2>1. SUFFICES ASSUME NEW i \in 1..(m + n), NEW j \in 1..(m + n), parsers'[i] = parsers'[j]
                 PROVE  i = j
    OBVIOUS
  <2>2. CASE i \in 1..m /\ j \in 1..m BY <1>1, <1>2, <1>8, <1>9, <1>4, <2>1, <2>2, <1>6
  <2>3. CASE i \notin 1..m /\ j \notin 1..m
    <3>1. i - m \in 1..n /\ j - m \in 1..n /\ s[i - m] = s[j - m] BY <1>9, <2>1, <2>3
    <3>2. i - m = j - m BY <1>3, <3>1
    <3>3. QED BY <1>1, <3>2
  <2>4. CASE i \in 1..m /\ j \notin 1..m BY <1>4, <1>6, <1>8, <1>9, <2>1, <2>4
  <2>5. CASE i \notin 1..m /\ j \in 1..m BY <1>4, <1>6, <1>8, <1>9, <2>1, <2>5
  <2>6. QED BY <2>2, <2>3, <2>4, <2>5
<1>12. QED
  BY <1>1, <1>2, <1>6, <1>7, <1>8, <1>10, <1>11 DEF Parser!IInv, Parser!OneUser, Parser!Idle

(* No parser is used by two threads, or idle twice, or both, and warm_up   *)
(* does not underflow: for any threads and any limit.                      *)
THEOREM ParsersSound ==
  ASSUME Parser!Parameters
  PROVE  Parser!Spec => [](Parser!IInv /\ Parser!OneUser /\ Parser!WithinLimit)
PROOF
<1>1. Parser!Init => Parser!IInv
  BY DEF Parser!Init, Parser!IInv, Parser!TypeOK, Parser!OneUser, Parser!Idle,
     Parser!WithinLimit, Parser!Lacking, Parser!Parameters
<1>2. Parser!IInv /\ [Parser!Next]_Parser!vars => Parser!IInv'
  <2>1. SUFFICES ASSUME Parser!IInv, [Parser!Next]_Parser!vars PROVE Parser!IInv' OBVIOUS
  <2>2. CASE Parser!DropCache
    BY <2>1, <2>2 DEF Parser!DropCache, Parser!IInv, Parser!TypeOK, Parser!OneUser,
       Parser!Idle, Parser!WithinLimit, Parser!Lacking, Parser!Parameters
  <2>3. CASE UNCHANGED Parser!vars
    BY <2>1, <2>3 DEF Parser!vars, Parser!IInv, Parser!TypeOK, Parser!OneUser, Parser!Idle,
       Parser!WithinLimit, Parser!Lacking
  <2>4. QED
    BY <2>1, <2>2, <2>3, ParserGet, ParserPutBack, ParserWarmUp DEF Parser!Next
<1>3. Parser!IInv => Parser!OneUser /\ Parser!WithinLimit BY DEF Parser!IInv
<1>4. QED BY <1>1, <1>2, <1>3, PTL DEF Parser!Spec

-----------------------------------------------------------------------------
(* The cache of responses.                                                 *)

LEMMA ResponseCounts ==
  /\ \A S : Response!IsFiniteSet(S) <=> IsFiniteSet(S)
  /\ \A S : Response!Cardinality(S) = Cardinality(S)
PROOF
<1>1. ASSUME NEW S PROVE Response!IsFiniteSet(S) <=> IsFiniteSet(S)
  BY Zenon DEF Response!IsFiniteSet, IsFiniteSet
<1>2. ASSUME NEW S PROVE Response!Cardinality(S) = Cardinality(S)
  BY Zenon DEF Response!Cardinality, Cardinality
<1>3. QED BY <1>1, <1>2

(* What a put leaves: everything, if there is room, or all but one that is *)
(* as old as any.                                                          *)
LEMMA ResponseOldestOut ==
  ASSUME NEW c \in Response!OldestOut
  PROVE  /\ DOMAIN c \subseteq DOMAIN cache /\ \A x \in DOMAIN c : c[x] = cache[x]
         /\ \/ DOMAIN c = DOMAIN cache
               /\ (Cardinality(DOMAIN cache) < MaxEntries \/ DOMAIN cache = {})
            \/ \E k \in DOMAIN cache :
                 /\ DOMAIN c = DOMAIN cache \ {k}
                 /\ \A y \in DOMAIN cache : cache[k].at <= cache[y].at
PROOF
<1>1. CASE Cardinality(DOMAIN cache) < MaxEntries \/ cache = <<>>
  <2>1. c = cache BY <1>1, ResponseCounts DEF Response!OldestOut
  <2>2. cache = <<>> => DOMAIN cache = {} OBVIOUS
  <2>3. QED BY <1>1, <2>1, <2>2
<1>2. CASE ~(Cardinality(DOMAIN cache) < MaxEntries \/ cache = <<>>)
  <2>1. PICK k \in {x \in DOMAIN cache : \A y \in DOMAIN cache : cache[x].at <= cache[y].at} :
          c = Response!Without(k)
    BY <1>2, ResponseCounts DEF Response!OldestOut
  <2>2. DOMAIN c = DOMAIN cache \ {k} /\ \A x \in DOMAIN c : c[x] = cache[x]
    BY <2>1 DEF Response!Without
  <2>3. QED BY <2>1, <2>2
<1>3. QED BY <1>1, <1>2

(* One more put: what it is of, and what the cache has then.               *)
LEMMA ResponsePut ==
  ASSUME Response!Parameters, Response!TypeOK, NEW r \in Requests, NEW at \in 0..clock,
         NEW lives \in BOOLEAN, Response!Put(r, at, lives)
  PROVE  \E e \in Response!Entry, c \in Response!OldestOut :
           /\ Len(puts) \in Nat /\ Len(puts') = Len(puts) + 1
           /\ puts' \in Seq([request : Requests, response : Response!Entry])
           /\ \A i \in 1..Len(puts) : puts'[i] = puts[i]
           /\ puts'[Len(puts) + 1] = [request |-> r, response |-> e]
           /\ e.id = Len(puts) + 1
           /\ DOMAIN cache' = DOMAIN c \cup {Response!CacheKey(r)}
           /\ \A x \in DOMAIN cache' :
                cache'[x] = IF x = Response!CacheKey(r) THEN e ELSE c[x]
PROOF
<1> DEFINE e == [id |-> Len(puts) + 1, at |-> at,
                 expires |-> IF lives THEN at + Lifetime ELSE -1]
           Puts == [request : Requests, response : Response!Entry]
<1>1. puts \in Seq(Puts) /\ Len(puts) \in Nat /\ Len(puts) < MaxPuts
  BY LenProperties DEF Response!TypeOK, Response!Put
<1>2. e \in Response!Entry
  <2>1. MaxPuts \in Nat /\ Lifetime \in Nat /\ MaxTime \in Nat BY DEF Response!Parameters
  <2>2. clock \in 0..MaxTime BY DEF Response!TypeOK
  <2>3. (IF lives THEN at + Lifetime ELSE -1) \in Int BY <2>1, <2>2
  <2>4. Len(puts) + 1 \in 1..MaxPuts /\ at \in 0..MaxTime BY <1>1, <2>1, <2>2
  <2>5. QED BY <2>3, <2>4 DEF Response!Entry
<1>3. puts' = Append(puts, [request |-> r, response |-> e]) BY DEF Response!Put
<1>4. PICK c \in Response!OldestOut : cache' = Response!Insert(c, Response!CacheKey(r), e)
  BY DEF Response!Put
<1>5. e.id = Len(puts) + 1 OBVIOUS
<1> HIDE DEF e
<1>6. [request |-> r, response |-> e] \in Puts BY <1>2
<1>7. /\ Len(puts') = Len(puts) + 1 /\ puts' \in Seq(Puts)
      /\ \A i \in 1..Len(puts) : puts'[i] = puts[i]
      /\ puts'[Len(puts) + 1] = [request |-> r, response |-> e]
  BY <1>1, <1>3, <1>6, AppendProperties
<1>8. /\ DOMAIN cache' = DOMAIN c \cup {Response!CacheKey(r)}
      /\ \A x \in DOMAIN cache' :
           cache'[x] = IF x = Response!CacheKey(r) THEN e ELSE c[x]
  BY <1>4 DEF Response!Insert
<1>9. QED BY <1>1, <1>2, <1>5, <1>7, <1>8

(* An entry that stays is what it was.                                     *)
LEMMA ResponseShrinks ==
  ASSUME Response!IInv, UNCHANGED puts, clock' \in 0..MaxTime,
         DOMAIN cache' \subseteq DOMAIN cache,
         \A k \in DOMAIN cache' : cache'[k] = cache[k]
  PROVE  Response!TypeOK' /\ Response!Numbered' /\ Response!Stored' /\ Response!EntryIsLatest'
PROOF
<1>1. IsFiniteSet(DOMAIN cache')
  BY ResponseCounts, FS_Subset DEF Response!IInv, Response!TypeOK
<1>2. Response!TypeOK' BY <1>1, ResponseCounts DEF Response!IInv, Response!TypeOK
<1>3. Response!Numbered' BY DEF Response!IInv, Response!Numbered
<1>4. Response!Stored' BY DEF Response!IInv, Response!Stored, Response!PutFor
<1>5. Response!EntryIsLatest' BY DEF Response!IInv, Response!EntryIsLatest
<1>6. QED BY <1>2, <1>3, <1>4, <1>5

LEMMA ResponsePutNext ==
  ASSUME Response!Parameters, Response!IInv, NEW r \in Requests, NEW at \in 0..clock,
         NEW lives \in BOOLEAN, Response!Put(r, at, lives)
  PROVE  Response!IInv'
PROOF
<1> DEFINE K == Response!CacheKey(r)
<1>1. PICK e \in Response!Entry, c \in Response!OldestOut :
        /\ Len(puts) \in Nat /\ Len(puts') = Len(puts) + 1
        /\ puts' \in Seq([request : Requests, response : Response!Entry])
        /\ \A i \in 1..Len(puts) : puts'[i] = puts[i]
        /\ puts'[Len(puts) + 1] = [request |-> r, response |-> e]
        /\ e.id = Len(puts) + 1
        /\ DOMAIN cache' = DOMAIN c \cup {K}
        /\ \A x \in DOMAIN cache' : cache'[x] = IF x = K THEN e ELSE c[x]
  BY ResponsePut DEF Response!IInv
<1>2. DOMAIN c \subseteq DOMAIN cache /\ \A x \in DOMAIN c : c[x] = cache[x]
  BY ResponseOldestOut
<1>3. K \in Response!Keys BY DEF Response!Keys
<1> HIDE DEF K
<1>4. /\ DOMAIN cache' \subseteq DOMAIN cache \cup {K} /\ K \in DOMAIN cache'
      /\ \A x \in DOMAIN cache' : x # K => x \in DOMAIN cache /\ cache'[x] = cache[x]
      /\ cache'[K] = e
  BY <1>1, <1>2
<1>5. PICK n \in Nat : n = Len(puts) BY <1>1
<1>6. /\ \A i \in 1..(n + 1) : i \in 1..n \/ i = n + 1
      /\ \A i \in 1..n : i \in 1..(n + 1) /\ i <= n + 1
  OBVIOUS
<1>7. clock' = clock /\ answer' = answer BY DEF Response!Put
<1>8. Response!TypeOK'
  <2>1. IsFiniteSet(DOMAIN cache \cup {K})
    BY ResponseCounts, FS_AddElement DEF Response!IInv, Response!TypeOK
  <2>2. IsFiniteSet(DOMAIN cache') BY <1>4, <2>1, FS_Subset
  <2>3. QED
    BY <1>1, <1>3, <1>4, <1>7, <2>2, ResponseCounts DEF Response!IInv, Response!TypeOK
<1>9. Response!Numbered'
  BY <1>1, <1>5, <1>6 DEF Response!IInv, Response!Numbered
<1>10. \A f, k : Response!PutFor(f, k) => Response!PutFor(f, k)'
  BY <1>1, <1>5, <1>6 DEF Response!PutFor
<1>11. Response!PutFor(e, K)'
  <2>1. n + 1 \in 1..(n + 1) OBVIOUS
  <2>2. QED BY <1>1, <1>5, <2>1 DEF Response!PutFor, K
<1>12. Response!Stored'
  BY <1>4, <1>10, <1>11 DEF Response!IInv, Response!Stored
<1>13. Response!Answered'
  BY <1>7, <1>10 DEF Response!IInv, Response!Answered
<1>14. Response!EntryIsLatest'
  <2>1. SUFFICES ASSUME NEW k \in DOMAIN cache', NEW i \in 1..(n + 1),
                        Response!CacheKey(puts'[i].request) = k
                 PROVE  puts'[i].response.id <= cache'[k].id
    BY <1>1, <1>5 DEF Response!EntryIsLatest
  <2>2. CASE k = K
    <3>1. puts'[i].response.id = i BY <1>1, <1>5, <1>9 DEF Response!Numbered
    <3>2. cache'[k].id = n + 1 BY <1>1, <1>4, <1>5, <2>2
    <3>3. QED BY <3>1, <3>2
  <2>3. CASE k # K
    <3>1. i \in 1..n BY <1>1, <1>5, <1>6, <2>1, <2>3 DEF K
    <3>2. QED
      BY <1>1, <1>4, <1>5, <2>1, <2>3, <3>1 DEF Response!IInv, Response!EntryIsLatest
  <2>4. QED BY <2>2, <2>3
<1>15. QED BY <1>8, <1>9, <1>12, <1>13, <1>14 DEF Response!IInv

LEMMA ResponseGetNext ==
  ASSUME Response!Parameters, Response!IInv, NEW r \in Requests, Response!Get(r)
  PROVE  Response!IInv'
PROOF
<1> DEFINE K == Response!CacheKey(r)
<1>1. UNCHANGED <<clock, puts>> BY DEF Response!Get
<1>2. DOMAIN cache' \subseteq DOMAIN cache /\ \A k \in DOMAIN cache' : cache'[k] = cache[k]
  BY DEF Response!Get, Response!Without
<1>3. clock \in 0..MaxTime /\ clock \in Int
  BY DEF Response!IInv, Response!TypeOK, Response!Parameters
<1>4. Response!TypeOK' /\ Response!Numbered' /\ Response!Stored' /\ Response!EntryIsLatest'
  BY <1>1, <1>2, <1>3, ResponseShrinks
<1>5. Response!Answered'
  <2>1. CASE answer' = [request |-> r, at |-> clock, result |-> Response!NoEntry]
    BY <2>1 DEF Response!Answered
  <2>2. CASE /\ K \in DOMAIN cache /\ ~Response!Expired(cache[K])
             /\ answer' = [request |-> r, at |-> clock, result |-> cache[K]]
    <3>1. Response!PutFor(cache[K], K) BY <2>2 DEF Response!IInv, Response!Stored
    <3>2. Response!PutFor(cache[K], K) =>
            Response!PutFor(answer.result, Response!CacheKey(answer.request))'
      BY <1>1, <2>2 DEF Response!PutFor
    <3>3. cache[K].expires \in Int
      BY <2>2 DEF Response!IInv, Response!TypeOK, Response!Entry
    <3>4. cache[K].expires >= 0 => clock <= cache[K].expires
      BY <1>3, <2>2, <3>3 DEF Response!Expired
    <3>5. QED BY <2>2, <3>1, <3>2, <3>4 DEF Response!Answered
  <2>3. QED BY <2>1, <2>2 DEF Response!Get
<1>6. QED BY <1>4, <1>5 DEF Response!IInv

(* The inductive invariant of the cache of responses.                      *)
THEOREM ResponseIInvHolds ==
  ASSUME Response!Parameters
  PROVE  Response!Spec => []Response!IInv
PROOF
<1>1. Response!Init => Response!IInv
  <2>1. SUFFICES ASSUME Response!Init PROVE Response!IInv OBVIOUS
  <2>2. DOMAIN cache = {} /\ puts = <<>> /\ Len(puts) = 0 BY <2>1 DEF Response!Init
  <2>3. Response!TypeOK
    BY <2>1, <2>2, FS_EmptySet, ResponseCounts, EmptySeq
       DEF Response!Init, Response!TypeOK, Response!Parameters
  <2>4. QED
    BY <2>1, <2>2, <2>3 DEF Response!Init, Response!IInv, Response!Numbered, Response!Stored,
       Response!Answered, Response!EntryIsLatest
<1>2. Response!IInv /\ [Response!Next]_Response!vars => Response!IInv'
  <2>1. SUFFICES ASSUME Response!IInv, [Response!Next]_Response!vars PROVE Response!IInv'
    OBVIOUS
  <2>2. CASE Response!CleanupExpired \/ Response!Clear \/ Response!Tick
             \/ UNCHANGED Response!vars
    <3>1. /\ UNCHANGED puts /\ answer' = answer
          /\ DOMAIN cache' \subseteq DOMAIN cache
          /\ \A k \in DOMAIN cache' : cache'[k] = cache[k]
      BY <2>2 DEF Response!CleanupExpired, Response!Clear, Response!Tick, Response!vars
    <3>2. clock' \in 0..MaxTime
      BY <2>1, <2>2 DEF Response!CleanupExpired, Response!Clear, Response!Tick, Response!vars,
         Response!IInv, Response!TypeOK, Response!Parameters
    <3>3. Response!Answered'
      BY <2>1, <3>1 DEF Response!IInv, Response!Answered, Response!PutFor
    <3>4. QED BY <2>1, <3>1, <3>2, <3>3, ResponseShrinks DEF Response!IInv
  <2>3. QED BY <2>1, <2>2, ResponsePutNext, ResponseGetNext DEF Response!Next
<1>3. QED BY <1>1, <1>2, PTL DEF Response!Spec

(* What get returns was put for a request with the same path and the same  *)
(* headers, but for those that do not matter, and had not expired.         *)
THEOREM AnswersStored ==
  ASSUME Response!Parameters
  PROVE  Response!Spec => []Response!AnswerIsLatest
PROOF
<1>1. ASSUME Response!Answered PROVE Response!AnswerIsLatest
  <2>1. SUFFICES ASSUME answer.result # Response!NoEntry
                 PROVE  Response!AnswerIsLatest
    BY DEF Response!AnswerIsLatest
  <2>2. PICK i \in 1..Len(puts) :
          /\ puts[i].response = answer.result
          /\ Response!CacheKey(puts[i].request) = Response!CacheKey(answer.request)
    BY <1>1, <2>1 DEF Response!Answered, Response!PutFor
  <2>3. /\ puts[i].request.path = answer.request.path
        /\ Response!Relevant(puts[i].request.headers)
             = Response!Relevant(answer.request.headers)
    BY <2>2, Zenon DEF Response!CacheKey
  <2>4. answer.result.expires >= 0 => answer.at <= answer.result.expires
    BY <1>1, <2>1 DEF Response!Answered
  <2>5. QED BY <2>2, <2>3, <2>4 DEF Response!AnswerIsLatest
<1>2. Response!IInv => Response!AnswerIsLatest BY <1>1 DEF Response!IInv
<1>3. QED BY <1>2, ResponseIInvHolds, PTL

(* The entry of a key is its latest response, whatever is put, expires or  *)
(* is removed for lack of room.                                            *)
THEOREM LatestCached ==
  ASSUME Response!Parameters
  PROVE  Response!Spec => []Response!EntryIsLatest
PROOF
<1>1. Response!IInv => Response!EntryIsLatest BY DEF Response!IInv
<1>2. QED BY <1>1, ResponseIInvHolds, PTL

(* A put removes at most one entry, and none younger than one it keeps.    *)
THEOREM OldestEvicted ==
  ASSUME Response!Parameters
  PROVE  Response!Spec => EvictsOldest
PROOF
<1> DEFINE Lost == DOMAIN cache \ DOMAIN cache'
           Evicts == Len(puts') > Len(puts) =>
             /\ Response!Cardinality(Lost) <= 1
             /\ \A k \in Lost, x \in DOMAIN cache \ Lost : cache[k].at <= cache[x].at
<1>1. Response!IInv /\ [Response!Next]_Response!vars => [Evicts]_Response!vars
  <2>1. SUFFICES ASSUME Response!IInv, Response!Next, Len(puts') > Len(puts) PROVE Evicts
    OBVIOUS
  <2>2. Len(puts) \in Nat BY <2>1, LenProperties DEF Response!IInv, Response!TypeOK
  <2>3. PICK r \in Requests, at \in 0..clock, lives \in BOOLEAN : Response!Put(r, at, lives)
    BY <2>1, <2>2 DEF Response!Next, Response!Get, Response!CleanupExpired, Response!Clear,
       Response!Tick
  <2>4. PICK c \in Response!OldestOut :
          DOMAIN cache' = DOMAIN c \cup {Response!CacheKey(r)}
    BY <2>1, <2>3, ResponsePut DEF Response!IInv
  <2>5. CASE DOMAIN c = DOMAIN cache
    <3>1. Lost = {} BY <2>4, <2>5
    <3>2. Cardinality(Lost) = 0 BY <3>1, FS_EmptySet
    <3>3. QED BY <3>1, <3>2, ResponseCounts
  <2>6. CASE \E k \in DOMAIN cache :
               /\ DOMAIN c = DOMAIN cache \ {k}
               /\ \A y \in DOMAIN cache : cache[k].at <= cache[y].at
    <3>1. PICK k \in DOMAIN cache :
            /\ DOMAIN c = DOMAIN cache \ {k}
            /\ \A y \in DOMAIN cache : cache[k].at <= cache[y].at
      BY <2>6
    <3>2. Lost \in SUBSET {k} BY <2>4, <3>1
    <3> HIDE DEF Lost
    <3>3. Cardinality(Lost) <= 1
      <4>1. IsFiniteSet({k}) /\ Cardinality({k}) = 1 BY FS_Singleton
      <4>2. QED BY <3>2, <4>1, FS_Subset
    <3>4. QED BY <3>1, <3>2, <3>3, ResponseCounts
  <2>7. QED BY <2>5, <2>6, ResponseOldestOut
<1>2. QED BY <1>1, ResponseIInvHolds, PTL DEF Response!Spec, Response!EvictsOldest, EvictsOldest

(* The cache does not grow beyond its limit.  A limit of zero is one of    *)
(* one: an empty cache has nothing to remove.                              *)
THEOREM CacheBounded ==
  ASSUME Response!Parameters, MaxEntries > 0
  PROVE  Response!Spec => []Response!Bounded
PROOF
<1>1. Response!Init => Response!Bounded
  BY FS_EmptySet, ResponseCounts DEF Response!Init, Response!Bounded, Response!Parameters
<1>2. Response!IInv /\ Response!Bounded /\ [Response!Next]_Response!vars => Response!Bounded'
  <2>1. SUFFICES ASSUME Response!IInv, Response!Bounded, [Response!Next]_Response!vars
                 PROVE  Response!Bounded'
    OBVIOUS
  <2>2. /\ IsFiniteSet(DOMAIN cache) /\ Cardinality(DOMAIN cache) \in Nat
        /\ Cardinality(DOMAIN cache) <= MaxEntries /\ MaxEntries \in Nat
    BY <2>1, ResponseCounts, FS_CardinalityType
       DEF Response!IInv, Response!TypeOK, Response!Bounded, Response!Parameters
  <2>3. CASE DOMAIN cache' \subseteq DOMAIN cache
    <3>1. IsFiniteSet(DOMAIN cache') /\ Cardinality(DOMAIN cache') <= Cardinality(DOMAIN cache)
      BY <2>2, <2>3, FS_Subset
    <3>2. Cardinality(DOMAIN cache') \in Nat BY <3>1, FS_CardinalityType
    <3>3. QED BY <2>2, <3>1, <3>2, ResponseCounts DEF Response!Bounded
  <2>4. ASSUME NEW r \in Requests, NEW at \in 0..clock, NEW lives \in BOOLEAN,
               Response!Put(r, at, lives)
        PROVE  Response!Bounded'
    <3>1. PICK c \in Response!OldestOut :
            DOMAIN cache' = DOMAIN c \cup {Response!CacheKey(r)}
      BY <2>1, <2>4, ResponsePut DEF Response!IInv
    <3>2. /\ IsFiniteSet(DOMAIN c) /\ Cardinality(DOMAIN c) \in Nat
          /\ Cardinality(DOMAIN c) < MaxEntries
      <4>1. CASE /\ DOMAIN c = DOMAIN cache
                 /\ Cardinality(DOMAIN cache) < MaxEntries \/ DOMAIN cache = {}
        BY <2>2, <4>1, FS_EmptySet
      <4>2. CASE \E k \in DOMAIN cache : DOMAIN c = DOMAIN cache \ {k}
        <5>1. PICK k \in DOMAIN cache : DOMAIN c = DOMAIN cache \ {k} BY <4>2
        <5>2. /\ IsFiniteSet(DOMAIN c)
              /\ Cardinality(DOMAIN c) = Cardinality(DOMAIN cache) - 1
          BY <2>2, <5>1, FS_RemoveElement
        <5>3. Cardinality(DOMAIN c) \in Nat BY <5>2, FS_CardinalityType
        <5>4. QED BY <2>2, <5>2, <5>3
      <4>3. QED BY <4>1, <4>2, ResponseOldestOut
    <3>3. /\ IsFiniteSet(DOMAIN cache')
          /\ \/ Cardinality(DOMAIN cache') = Cardinality(DOMAIN c)
             \/ Cardinality(DOMAIN cache') = Cardinality(DOMAIN c) + 1
      <4>1. CASE Response!CacheKey(r) \in DOMAIN c BY <3>1, <3>2, <4>1, FS_AddElement
      <4>2. CASE Response!CacheKey(r) \notin DOMAIN c BY <3>1, <3>2, <4>2, FS_AddElement
      <4>3. QED BY <4>1, <4>2
    <3>4. Cardinality(DOMAIN cache') \in Nat BY <3>3, FS_CardinalityType
    <3>5. QED BY <2>2, <3>2, <3>3, <3>4, ResponseCounts DEF Response!Bounded
  <2>5. ASSUME NEW r \in Requests, Response!Get(r) PROVE Response!Bounded'
    <3>1. DOMAIN cache' \subseteq DOMAIN cache BY <2>5 DEF Response!Get, Response!Without
    <3>2. QED BY <2>3, <3>1
  <2>6. CASE \/ Response!CleanupExpired \/ Response!Clear \/ Response!Tick
             \/ UNCHANGED Response!vars
    <3>1. DOMAIN cache' \subseteq DOMAIN cache
      BY <2>6 DEF Response!CleanupExpired, Response!Clear, Response!Tick, Response!vars
    <3>2. QED BY <2>3, <3>1
  <2>7. QED BY <2>1, <2>4, <2>5, <2>6 DEF Response!Next
<1>3. QED BY <1>1, <1>2, ResponseIInvHolds, PTL DEF Response!Spec

(* The caches side by side: parsers are not shared and answers are those   *)
(* of their requests, and neither cache grows beyond its limit.            *)
THEOREM CachesAreSound ==
  ASSUME Parser!Parameters, Response!Parameters, MaxEntries > 0
  PROVE  Parser!Spec /\ Response!Spec => []CachesSound
PROOF
<1>1. /\ Parser!IInv /\ Parser!OneUser /\ Parser!WithinLimit
      /\ Response!IInv /\ Response!AnswerIsLatest /\ Response!EntryIsLatest
      /\ Response!Bounded
      => CachesSound
  BY DEF CachesSound
<1>2. QED
  BY <1>1, ParsersSound, ResponseIInvHolds, AnswersStored, LatestCached, CacheBounded, PTL

=============================================================================
