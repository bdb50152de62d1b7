-------------------------- MODULE HttpServerProofs --------------------------
(***************************************************************************)
(* Proofs about HttpServer, for any finite set of streams and any limits.  *)
(*                                                                         *)
(* The argument is counting.  Each step moves at most one connection task  *)
(* from one state to another; CountMoves says by how much the number of    *)
(* tasks in a set of states changes, and every step changes the semaphore  *)
(* and the statistics by the same amounts.                                 *)
(***************************************************************************)
EXTENDS HttpServer, TLAPS, FiniteSetTheorems, SequenceTheorems

Indicator(states, s) == IF s \in states THEN 1 ELSE 0

(* The number of connections in some states, before and after one of them  *)
(* moves.                                                                  *)
LEMMA CountMoves ==
  ASSUME NEW states, NEW c \in Streams, NEW to,
         task \in [Streams -> TaskStates], At(c, to)
  PROVE  /\ Cardinality(In(states)) \in Nat
         /\ Cardinality(In(states)') \in Nat
         /\ Cardinality(In(states)') =
              Cardinality(In(states)) + Indicator(states, to) - Indicator(states, task[c])
<1> DEFINE Others == In(states) \ {c}
<1>1. IsFiniteSet(In(states)) /\ IsFiniteSet(Others)
  <2>1. In(states) \subseteq Streams /\ Others \subseteq Streams
    BY DEF In
  <2>2. QED
    BY <2>1, StreamsAssumption, FS_Subset
<1>2. Cardinality(Others) \in Nat
  BY <1>1, FS_CardinalityType
<1>3. Cardinality(In(states)) = Cardinality(Others) + Indicator(states, task[c])
  <2>1. CASE task[c] \in states
    <3>1. In(states) = Others \cup {c} /\ c \notin Others
      BY <2>1 DEF In
    <3>2. Cardinality(In(states)) = Cardinality(Others) + 1
      BY <3>1, <1>1, FS_AddElement
    <3>3. QED
      BY <3>2, <2>1 DEF Indicator
  <2>2. CASE task[c] \notin states
    <3>1. In(states) = Others
      BY <2>2 DEF In
    <3>2. QED
      BY <3>1, <1>2, <2>2 DEF Indicator
  <2>3. QED
    BY <2>1, <2>2
<1>4. Cardinality(In(states)') = Cardinality(Others) + Indicator(states, to)
  <2>1. \A d \in Streams : task'[d] = IF d = c THEN to ELSE task[d]
    BY DEF At
  <2>2. CASE to \in states
    <3>1. In(states)' = Others \cup {c} /\ c \notin Others
      BY <2>1, <2>2 DEF In
    <3>2. Cardinality(In(states)') = Cardinality(Others) + 1
      BY <3>1, <1>1, FS_AddElement
    <3>3. QED
      BY <3>2, <2>2 DEF Indicator
  <2>3. CASE to \notin states
    <3>1. In(states)' = Others
      BY <2>1, <2>3 DEF In
    <3>2. QED
      BY <3>1, <1>2, <2>3 DEF Indicator
  <2>4. QED
    BY <2>2, <2>3
<1>5. Indicator(states, to) \in {0, 1} /\ Indicator(states, task[c]) \in {0, 1}
  BY DEF Indicator
<1>6. QED
  BY <1>2, <1>3, <1>4, <1>5

(* The three counts the invariants speak of.                               *)
LEMMA CountsType ==
  /\ Cardinality(Admitted) \in Nat
  /\ Cardinality(Counted) \in Nat
  /\ Cardinality(InProgress) \in Nat
<1>1. ASSUME NEW states PROVE Cardinality(In(states)) \in Nat
  <2>1. In(states) \subseteq Streams
    BY DEF In
  <2>2. QED
    BY <2>1, StreamsAssumption, FS_Subset, FS_CardinalityType
<1>2. QED
  BY <1>1 DEF Admitted, Counted, InProgress

LEMMA CountsKept ==
  ASSUME task' = task
  PROVE  /\ Cardinality(Admitted)' = Cardinality(Admitted)
         /\ Cardinality(Counted)' = Cardinality(Counted)
         /\ Cardinality(InProgress)' = Cardinality(InProgress)
  BY DEF Admitted, Counted, InProgress, In

LEMMA CountsMove ==
  ASSUME NEW c \in Streams, NEW to, task \in [Streams -> TaskStates], At(c, to)
  PROVE  /\ Cardinality(Admitted)' \in Nat
         /\ Cardinality(Counted)' \in Nat
         /\ Cardinality(InProgress)' \in Nat
         /\ Cardinality(Admitted)' =
              Cardinality(Admitted) + Indicator(AdmittedStates, to) - Indicator(AdmittedStates, task[c])
         /\ Cardinality(Counted)' =
              Cardinality(Counted) + Indicator(CountedStates, to) - Indicator(CountedStates, task[c])
         /\ Cardinality(InProgress)' =
              Cardinality(InProgress) + Indicator(WorkStates, to) - Indicator(WorkStates, task[c])
  BY CountMoves DEF Admitted, Counted, InProgress

-----------------------------------------------------------------------------
LEMMA InitIInv == Init => IInv
<1> SUFFICES ASSUME Init PROVE IInv
  OBVIOUS
<1>1. Admitted = {} /\ Counted = {} /\ InProgress = {}
  BY DEF Init, Admitted, Counted, InProgress, In, AdmittedStates, CountedStates, OpenStates, WorkStates
<1>2. Cardinality({}) = 0
  BY FS_EmptySet
<1>3. TypeOK
  <2>1. backlog \in Seq(Streams)
    BY EmptySeq DEF Init
  <2>2. stats \in [Fields -> Nat]
    BY DEF Init
  <2>3. task \in [Streams -> TaskStates]
    BY DEF Init, TaskStates
  <2>4. errored \in [Streams -> BOOLEAN] /\ served \in [Streams -> Nat]
    BY DEF Init
  <2>5. free \in 0..MaxConnections /\ panics \in Nat
    BY LimitsAssumption DEF Init
  <2>6. loop \in Loops /\ signalled \in BOOLEAN /\ gone \subseteq Streams
    BY DEF Init, Loops
  <2>7. QED
    BY <2>1, <2>2, <2>3, <2>4, <2>5, <2>6 DEF TypeOK
<1>4. Separate
  BY DEF Init, Separate
<1>5. PermitConservation
  BY <1>1, <1>2, LimitsAssumption DEF Init, PermitConservation, AtAccept
<1>6. ActiveCount /\ RequestsAccounted
  BY <1>1, <1>2 DEF Init, ActiveCount, RequestsAccounted, Fields
<1>7. NothingAfterInvalid
  BY <1>1 DEF NothingAfterInvalid
<1>8. QED
  BY <1>3, <1>4, <1>5, <1>6, <1>7 DEF IInv

-----------------------------------------------------------------------------
(* A step keeps the books when permits, the active counter and the request *)
(* counters change as the task it moves does.                              *)
Balanced(c, to) ==
  /\ free' + AtAccept' + Indicator(AdmittedStates, to)
       = free + AtAccept + Indicator(AdmittedStates, task[c])
  /\ stats'["active"] - panics' - Indicator(CountedStates, to)
       = stats["active"] - panics - Indicator(CountedStates, task[c])
  /\ stats'["requests"] - stats'["responses"] - stats'["errors"] - panics' - Indicator(WorkStates, to)
       <= stats["requests"] - stats["responses"] - stats["errors"] - panics - Indicator(WorkStates, task[c])

(* What the step leaves well typed besides the task and the permits.       *)
OthersTyped ==
  /\ loop \in Loops /\ signalled \in BOOLEAN /\ backlog \in Seq(Streams)
  /\ free \in Int /\ free >= 0
  /\ stats \in [Fields -> Int]
  /\ \A f \in Fields \ {"active"} : stats[f] >= 0
  /\ errored \in [Streams -> BOOLEAN] /\ served \in [Streams -> Nat]
  /\ gone \subseteq Streams /\ panics \in Nat

LEMMA TaskMove ==
  ASSUME IInv, NEW c \in Streams, NEW to \in TaskStates, At(c, to),
         Balanced(c, to), OthersTyped', Separate',
         \A d \in Streams \ {c} : errored'[d] = errored[d],
         to \in WorkStates => ~errored'[c]
  PROVE  IInv'
<1>1. task \in [Streams -> TaskStates] /\ free \in Int /\ stats \in [Fields -> Nat] /\ panics \in Nat
  BY DEF IInv, TypeOK
<1>2. task' \in [Streams -> TaskStates]
  BY <1>1 DEF At
<1>3. /\ Cardinality(Admitted)' \in Nat
      /\ Cardinality(Counted)' \in Nat
      /\ Cardinality(InProgress)' \in Nat
      /\ Cardinality(Admitted)' =
           Cardinality(Admitted) + Indicator(AdmittedStates, to) - Indicator(AdmittedStates, task[c])
      /\ Cardinality(Counted)' =
           Cardinality(Counted) + Indicator(CountedStates, to) - Indicator(CountedStates, task[c])
      /\ Cardinality(InProgress)' =
           Cardinality(InProgress) + Indicator(WorkStates, to) - Indicator(WorkStates, task[c])
  BY <1>1, CountsMove
<1>4. \A S, x : Indicator(S, x) \in {0, 1}
  BY DEF Indicator
<1>5. AtAccept \in {0, 1} /\ AtAccept' \in {0, 1}
  BY DEF AtAccept
<1>6. free' \in Int /\ stats' \in [Fields -> Int] /\ panics' \in Nat
  BY DEF OthersTyped
<1>7. PermitConservation'
  <2>1. free + AtAccept + Cardinality(Admitted) = MaxConnections
    BY DEF IInv, PermitConservation
  <2>2. free' + AtAccept' + Cardinality(Admitted)' = MaxConnections
    BY <2>1, <1>1, <1>3, <1>4, <1>5, <1>6, CountsType DEF Balanced
  <2>3. QED
    BY <2>2 DEF PermitConservation
<1>8. ActiveCount'
  <2>1. stats["active"] = Cardinality(Counted) + panics
    BY DEF IInv, ActiveCount
  <2>2. stats["active"] \in Nat /\ stats'["active"] \in Int
    BY <1>1, <1>6 DEF Fields
  <2>3. stats'["active"] = Cardinality(Counted)' + panics'
    BY <2>1, <2>2, <1>1, <1>3, <1>4, <1>6, CountsType DEF Balanced
  <2>4. QED
    BY <2>3 DEF ActiveCount
<1>9. RequestsAccounted'
  <2>1. stats["requests"] <= stats["responses"] + stats["errors"] + Cardinality(InProgress) + panics
    BY DEF IInv, RequestsAccounted
  <2>2. /\ stats["requests"] \in Nat /\ stats'["requests"] \in Int
        /\ stats["responses"] \in Nat /\ stats'["responses"] \in Int
        /\ stats["errors"] \in Nat /\ stats'["errors"] \in Int
    BY <1>1, <1>6 DEF Fields
  <2>3. stats'["requests"] <= stats'["responses"] + stats'["errors"] + Cardinality(InProgress)' + panics'
    BY <2>1, <2>2, <1>1, <1>3, <1>4, <1>6, CountsType DEF Balanced
  <2>4. QED
    BY <2>3 DEF RequestsAccounted
<1>10. NothingAfterInvalid'
  <2>1. ASSUME NEW d \in Streams, task'[d] \in WorkStates PROVE ~errored'[d]
    <3>1. CASE d = c
      BY <3>1, <2>1, <1>1 DEF At
    <3>2. CASE d # c
      <4>1. task[d] \in WorkStates
        BY <3>2, <2>1, <1>1 DEF At
      <4>2. ~errored[d]
        BY <4>1 DEF IInv, NothingAfterInvalid, InProgress, In
      <4>3. QED
        BY <4>2, <3>2
    <3>3. QED
      BY <3>1, <3>2
  <2>2. QED
    BY <2>1 DEF NothingAfterInvalid, InProgress, In
<1>11. TypeOK'
  <2>1. free' \in 0..MaxConnections
    <3>1. free' + AtAccept' + Cardinality(Admitted)' = MaxConnections
      BY <1>7 DEF PermitConservation
    <3>2. QED
      BY <3>1, <1>3, <1>5, <1>6, LimitsAssumption DEF OthersTyped
  <2>2. stats' \in [Fields -> Nat]
    <3>1. stats'["active"] = Cardinality(Counted)' + panics'
      BY <1>8 DEF ActiveCount
    <3>2. stats'["active"] >= 0
      BY <3>1, <1>3, <1>6
    <3>3. \A f \in Fields : stats'[f] >= 0 /\ stats'[f] \in Int
      BY <3>2, <1>6 DEF OthersTyped
    <3>4. QED
      BY <3>3, <1>6
  <2>3. QED
    BY <2>1, <2>2, <1>2 DEF TypeOK, OthersTyped
<1>12. QED
  BY <1>7, <1>8, <1>9, <1>10, <1>11 DEF IInv

(* A step of the accept loop that moves no task.                           *)
LEMMA LoopMove ==
  ASSUME IInv, UNCHANGED <<stats, task, errored, served, panics>>,
         loop' \in Loops, signalled' \in BOOLEAN, gone' \subseteq Streams,
         backlog' \in Seq(Streams), Separate',
         free' \in Int, free' >= 0, free' + AtAccept' = free + AtAccept
  PROVE  IInv'
<1>1. free \in Int
  BY DEF IInv, TypeOK
<1>2. /\ Cardinality(Admitted)' = Cardinality(Admitted)
      /\ Cardinality(Counted)' = Cardinality(Counted)
      /\ Cardinality(InProgress)' = Cardinality(InProgress)
  BY CountsKept
<1>3. AtAccept \in {0, 1} /\ AtAccept' \in {0, 1}
  BY DEF AtAccept
<1>4. free' + AtAccept' + Cardinality(Admitted)' = MaxConnections
  <2>1. free + AtAccept + Cardinality(Admitted) = MaxConnections
    BY DEF IInv, PermitConservation
  <2>2. QED
    BY <2>1, <1>2
<1>5. ActiveCount'
  BY <1>2 DEF IInv, ActiveCount
<1>6. RequestsAccounted'
  BY <1>2 DEF IInv, RequestsAccounted
<1>7. NothingAfterInvalid'
  BY DEF IInv, NothingAfterInvalid, InProgress, In
<1>8. TypeOK'
  <2>1. free' \in 0..MaxConnections
    BY <1>2, <1>3, <1>4, CountsType, LimitsAssumption
  <2>2. QED
    BY <2>1 DEF IInv, TypeOK
<1>9. QED
  BY <1>4, <1>5, <1>6, <1>7, <1>8 DEF IInv, PermitConservation

-----------------------------------------------------------------------------
(* Steps of the tasks.  What a task is in, where it goes and what its step *)
(* does to the books: enough for TaskMove, except for Balanced itself,     *)
(* which is arithmetic on known states.                                    *)
LEMMA SeparateKept ==
  ASSUME IInv, NEW c \in Streams, NEW to, At(c, to), task[c] # "none", backlog' = backlog
  PROVE  Separate'
<1>1. \A i \in DOMAIN backlog : task[backlog[i]] = "none" /\ backlog[i] \in Streams
  BY DEF IInv, Separate, TypeOK
<1>2. \A i \in DOMAIN backlog : task'[backlog[i]] = "none"
  BY <1>1 DEF At, IInv, TypeOK
<1>3. QED
  BY <1>2 DEF IInv, Separate

LEMMA TaskStepCases ==
  ASSUME NEW c, TaskStep(c)
  PROVE  \/ ReadRequest(c) \/ ReadInvalid(c) \/ ReadEnd(c) \/ ReadTimeout(c)
         \/ Rejected(c) \/ RejectFails(c)
         \/ HandlerReturns(c) \/ HandlerTimeout(c) \/ HandlerPanics(c)
         \/ Respond(c) \/ RespondFails(c) \/ RespondTimeout(c)
         \/ CountError(c) \/ Uncount(c) \/ Release(c)
  BY DEF TaskStep, TimedStep

LEMMA TaskStepIInv ==
  ASSUME IInv, NEW c \in Streams, TaskStep(c)
  PROVE  IInv'
<1>1. /\ loop \in Loops /\ signalled \in BOOLEAN /\ backlog \in Seq(Streams)
      /\ free \in Nat
      /\ stats \in [Fields -> Nat]
      /\ task \in [Streams -> TaskStates]
      /\ errored \in [Streams -> BOOLEAN] /\ served \in [Streams -> Nat]
      /\ gone \subseteq Streams /\ panics \in Nat
  BY LimitsAssumption DEF IInv, TypeOK
<1>2. /\ stats["active"] \in Nat /\ stats["requests"] \in Nat
      /\ stats["responses"] \in Nat /\ stats["errors"] \in Nat
  BY <1>1 DEF Fields
<1>3. /\ Indicator(AdmittedStates, "none") = 0 /\ Indicator(CountedStates, "none") = 0 /\ Indicator(WorkStates, "none") = 0
      /\ Indicator(AdmittedStates, "read") = 1 /\ Indicator(CountedStates, "read") = 1 /\ Indicator(WorkStates, "read") = 0
      /\ Indicator(AdmittedStates, "reject") = 1 /\ Indicator(CountedStates, "reject") = 1 /\ Indicator(WorkStates, "reject") = 0
      /\ Indicator(AdmittedStates, "handle") = 1 /\ Indicator(CountedStates, "handle") = 1 /\ Indicator(WorkStates, "handle") = 1
      /\ Indicator(AdmittedStates, "respond") = 1 /\ Indicator(CountedStates, "respond") = 1 /\ Indicator(WorkStates, "respond") = 1
      /\ Indicator(AdmittedStates, "failed") = 1 /\ Indicator(CountedStates, "failed") = 1 /\ Indicator(WorkStates, "failed") = 0
      /\ Indicator(AdmittedStates, "count") = 1 /\ Indicator(CountedStates, "count") = 1 /\ Indicator(WorkStates, "count") = 0
      /\ Indicator(AdmittedStates, "release") = 1 /\ Indicator(CountedStates, "release") = 0 /\ Indicator(WorkStates, "release") = 0
  BY DEF Indicator, AdmittedStates, CountedStates, OpenStates, WorkStates
<1>4. AtAccept \in {0, 1} /\ AtAccept' \in {0, 1} /\ (loop' = loop => AtAccept' = AtAccept)
  BY DEF AtAccept
<1>5. AtAccept \in Int /\ AtAccept' \in Int
  BY <1>4
<1>6. CASE ReadRequest(c)
  <2>1. task[c] = "read" /\ loop' = loop /\ backlog' = backlog
    BY <1>6 DEF ReadRequest
  <2>2. OthersTyped'
    BY <1>6, <1>1, <1>2 DEF ReadRequest, Add, OthersTyped, Fields
  <2>3. /\ free' = free /\ panics' = panics
        /\ stats'["active"] = stats["active"]
        /\ stats'["requests"] = stats["requests"] + 1
        /\ stats'["responses"] = stats["responses"]
        /\ stats'["errors"] = stats["errors"]
    BY <1>6, <1>1 DEF ReadRequest, Add, Fields
  <2>4. \A d \in Streams \ {c} : errored'[d] = errored[d]
    BY <1>6, <1>1 DEF ReadRequest
  <2>5. CASE At(c, "handle")
    <3>1. "handle" \in TaskStates /\ Separate'
      BY <2>1, <2>5, SeparateKept DEF TaskStates
    <3>2. Balanced(c, "handle")
      BY <1>1, <1>2, <1>3, <1>4, <1>5, <2>1, <2>3 DEF Balanced
    <3>3. ~errored'[c]
      BY <1>6 DEF ReadRequest
    <3>4. QED
      BY <2>2, <2>4, <2>5, <3>1, <3>2, <3>3, TaskMove
  <2>6. CASE At(c, "respond")
    <3>1. "respond" \in TaskStates /\ Separate'
      BY <2>1, <2>6, SeparateKept DEF TaskStates
    <3>2. Balanced(c, "respond")
      BY <1>1, <1>2, <1>3, <1>4, <1>5, <2>1, <2>3 DEF Balanced
    <3>3. ~errored'[c]
      BY <1>6 DEF ReadRequest
    <3>4. QED
      BY <2>2, <2>4, <2>6, <3>1, <3>2, <3>3, TaskMove
  <2>7. QED
    BY <1>6, <2>5, <2>6 DEF ReadRequest
<1>7. CASE ReadInvalid(c)
  <2>1. task[c] = "read" /\ loop' = loop /\ backlog' = backlog
    BY <1>7 DEF ReadInvalid
  <2>2. OthersTyped'
    BY <1>7, <1>1, <1>2 DEF ReadInvalid, Add, OthersTyped, Fields
  <2>3. /\ free' = free /\ panics' = panics
        /\ stats'["active"] = stats["active"]
        /\ stats'["requests"] = stats["requests"]
        /\ stats'["responses"] = stats["responses"]
        /\ stats'["errors"] = stats["errors"]
    BY <1>7, <1>1 DEF ReadInvalid, Add, Fields
  <2>4. \A d \in Streams \ {c} : errored'[d] = errored[d]
    BY <1>7, <1>1 DEF ReadInvalid
  <2>5. CASE At(c, "reject")
    <3>1. "reject" \in TaskStates /\ Separate'
      BY <2>1, <2>5, SeparateKept DEF TaskStates
    <3>2. Balanced(c, "reject")
      BY <1>1, <1>2, <1>3, <1>4, <1>5, <2>1, <2>3 DEF Balanced
    <3>3. "reject" \notin WorkStates
      BY DEF WorkStates
    <3>4. QED
      BY <2>2, <2>4, <2>5, <3>1, <3>2, <3>3, TaskMove
  <2>6. QED
    BY <1>7, <2>5 DEF ReadInvalid
<1>8. CASE ReadEnd(c)
  <2>1. task[c] = "read" /\ loop' = loop /\ backlog' = backlog
    BY <1>8 DEF ReadEnd
  <2>2. OthersTyped'
    BY <1>8, <1>1, <1>2 DEF ReadEnd, Add, OthersTyped, Fields
  <2>3. /\ free' = free /\ panics' = panics
        /\ stats'["active"] = stats["active"]
        /\ stats'["requests"] = stats["requests"]
        /\ stats'["responses"] = stats["responses"]
        /\ stats'["errors"] = stats["errors"]
    BY <1>8, <1>1 DEF ReadEnd, Add, Fields
  <2>4. \A d \in Streams \ {c} : errored'[d] = errored[d]
    BY <1>8, <1>1 DEF ReadEnd
  <2>5. CASE At(c, "count")
    <3>1. "count" \in TaskStates /\ Separate'
      BY <2>1, <2>5, SeparateKept DEF TaskStates
    <3>2. Balanced(c, "count")
      BY <1>1, <1>2, <1>3, <1>4, <1>5, <2>1, <2>3 DEF Balanced
    <3>3. "count" \notin WorkStates
      BY DEF WorkStates
    <3>4. QED
      BY <2>2, <2>4, <2>5, <3>1, <3>2, <3>3, TaskMove
  <2>6. QED
    BY <1>8, <2>5 DEF ReadEnd
<1>9. CASE ReadTimeout(c)
  <2>1. task[c] = "read" /\ loop' = loop /\ backlog' = backlog
    BY <1>9 DEF ReadTimeout
  <2>2. OthersTyped'
    BY <1>9, <1>1, <1>2 DEF ReadTimeout, Add, OthersTyped, Fields
  <2>3. /\ free' = free /\ panics' = panics
        /\ stats'["active"] = stats["active"]
        /\ stats'["requests"] = stats["requests"]
        /\ stats'["responses"] = stats["responses"]
        /\ stats'["errors"] = stats["errors"]
    BY <1>9, <1>1 DEF ReadTimeout, Add, Fields
  <2>4. \A d \in Streams \ {c} : errored'[d] = errored[d]
    BY <1>9, <1>1 DEF ReadTimeout
  <2>5. CASE At(c, "failed")
    <3>1. "failed" \in TaskStates /\ Separate'
      BY <2>1, <2>5, SeparateKept DEF TaskStates
    <3>2. Balanced(c, "failed")
      BY <1>1, <1>2, <1>3, <1>4, <1>5, <2>1, <2>3 DEF Balanced
    <3>3. "failed" \notin WorkStates
      BY DEF WorkStates
    <3>4. QED
      BY <2>2, <2>4, <2>5, <3>1, <3>2, <3>3, TaskMove
  <2>6. QED
    BY <1>9, <2>5 DEF ReadTimeout
<1>10. CASE Rejected(c)
  <2>1. task[c] = "reject" /\ loop' = loop /\ backlog' = backlog
    BY <1>10 DEF Rejected
  <2>2. OthersTyped'
    BY <1>10, <1>1, <1>2 DEF Rejected, Add, OthersTyped, Fields
  <2>3. /\ free' = free /\ panics' = panics
        /\ stats'["active"] = stats["active"]
        /\ stats'["requests"] = stats["requests"]
        /\ stats'["responses"] = stats["responses"]
        /\ stats'["errors"] = stats["errors"] + 1
    BY <1>10, <1>1 DEF Rejected, Add, Fields
  <2>4. \A d \in Streams \ {c} : errored'[d] = errored[d]
    BY <1>10, <1>1 DEF Rejected
  <2>5. CASE At(c, "read")
    <3>1. "read" \in TaskStates /\ Separate'
      BY <2>1, <2>5, SeparateKept DEF TaskStates
    <3>2. Balanced(c, "read")
      BY <1>1, <1>2, <1>3, <1>4, <1>5, <2>1, <2>3 DEF Balanced
    <3>3. "read" \notin WorkStates
      BY DEF WorkStates
    <3>4. QED
      BY <2>2, <2>4, <2>5, <3>1, <3>2, <3>3, TaskMove
  <2>6. QED
    BY <1>10, <2>5 DEF Rejected
<1>11. CASE RejectFails(c)
  <2>1. task[c] = "reject" /\ loop' = loop /\ backlog' = backlog
    BY <1>11 DEF RejectFails
  <2>2. OthersTyped'
    BY <1>11, <1>1, <1>2 DEF RejectFails, Add, OthersTyped, Fields
  <2>3. /\ free' = free /\ panics' = panics
        /\ stats'["active"] = stats["active"]
        /\ stats'["requests"] = stats["requests"]
        /\ stats'["responses"] = stats["responses"]
        /\ stats'["errors"] = stats["errors"]
    BY <1>11, <1>1 DEF RejectFails, Add, Fields
  <2>4. \A d \in Streams \ {c} : errored'[d] = errored[d]
    BY <1>11, <1>1 DEF RejectFails
  <2>5. CASE At(c, "failed")
    <3>1. "failed" \in TaskStates /\ Separate'
      BY <2>1, <2>5, SeparateKept DEF TaskStates
    <3>2. Balanced(c, "failed")
      BY <1>1, <1>2, <1>3, <1>4, <1>5, <2>1, <2>3 DEF Balanced
    <3>3. "failed" \notin WorkStates
      BY DEF WorkStates
    <3>4. QED
      BY <2>2, <2>4, <2>5, <3>1, <3>2, <3>3, TaskMove
  <2>6. QED
    BY <1>11, <2>5 DEF RejectFails
<1>12. CASE HandlerReturns(c)
  <2>1. task[c] = "handle" /\ loop' = loop /\ backlog' = backlog
    BY <1>12 DEF HandlerReturns
  <2>2. OthersTyped'
    BY <1>12, <1>1, <1>2 DEF HandlerReturns, Add, OthersTyped, Fields
  <2>3. /\ free' = free /\ panics' = panics
        /\ stats'["active"] = stats["active"]
        /\ stats'["requests"] = stats["requests"]
        /\ stats'["responses"] = stats["responses"]
        /\ stats'["errors"] = stats["errors"]
    BY <1>12, <1>1 DEF HandlerReturns, Add, Fields
  <2>4. \A d \in Streams \ {c} : errored'[d] = errored[d]
    BY <1>12, <1>1 DEF HandlerReturns
  <2>5. CASE At(c, "respond")
    <3>1. "respond" \in TaskStates /\ Separate'
      BY <2>1, <2>5, SeparateKept DEF TaskStates
    <3>2. Balanced(c, "respond")
      BY <1>1, <1>2, <1>3, <1>4, <1>5, <2>1, <2>3 DEF Balanced
    <3>3. ~errored'[c]
      BY <1>12, <2>1 DEF HandlerReturns, IInv, NothingAfterInvalid, InProgress, In, WorkStates
    <3>4. QED
      BY <2>2, <2>4, <2>5, <3>1, <3>2, <3>3, TaskMove
  <2>6. QED
    BY <1>12, <2>5 DEF HandlerReturns
<1>13. CASE HandlerTimeout(c)
  <2>1. task[c] = "handle" /\ loop' = loop /\ backlog' = backlog
    BY <1>13 DEF HandlerTimeout
  <2>2. OthersTyped'
    BY <1>13, <1>1, <1>2 DEF HandlerTimeout, Add, OthersTyped, Fields
  <2>3. /\ free' = free /\ panics' = panics
        /\ stats'["active"] = stats["active"]
        /\ stats'["requests"] = stats["requests"]
        /\ stats'["responses"] = stats["responses"]
        /\ stats'["errors"] = stats["errors"]
    BY <1>13, <1>1 DEF HandlerTimeout, Add, Fields
  <2>4. \A d \in Streams \ {c} : errored'[d] = errored[d]
    BY <1>13, <1>1 DEF HandlerTimeout
  <2>5. CASE At(c, "respond")
    <3>1. "respond" \in TaskStates /\ Separate'
      BY <2>1, <2>5, SeparateKept DEF TaskStates
    <3>2. Balanced(c, "respond")
      BY <1>1, <1>2, <1>3, <1>4, <1>5, <2>1, <2>3 DEF Balanced
    <3>3. ~errored'[c]
      BY <1>13, <2>1 DEF HandlerTimeout, IInv, NothingAfterInvalid, InProgress, In, WorkStates
    <3>4. QED
      BY <2>2, <2>4, <2>5, <3>1, <3>2, <3>3, TaskMove
  <2>6. QED
    BY <1>13, <2>5 DEF HandlerTimeout
<1>14. CASE HandlerPanics(c)
  <2>1. task[c] = "handle" /\ loop' = loop /\ backlog' = backlog
    BY <1>14 DEF HandlerPanics
  <2>2. OthersTyped'
    BY <1>14, <1>1, <1>2 DEF HandlerPanics, Add, OthersTyped, Fields
  <2>3. /\ free' = free + 1 /\ panics' = panics + 1
        /\ stats'["active"] = stats["active"]
        /\ stats'["requests"] = stats["requests"]
        /\ stats'["responses"] = stats["responses"]
        /\ stats'["errors"] = stats["errors"]
    BY <1>14, <1>1 DEF HandlerPanics, Add, Fields
  <2>4. \A d \in Streams \ {c} : errored'[d] = errored[d]
    BY <1>14, <1>1 DEF HandlerPanics
  <2>5. CASE At(c, "none")
    <3>1. "none" \in TaskStates /\ Separate'
      BY <2>1, <2>5, SeparateKept DEF TaskStates
    <3>2. Balanced(c, "none")
      <4>1. AtAccept' = AtAccept
        BY <1>4, <2>1
      <4>2. free' + AtAccept' + 0 = free + AtAccept + 1
        BY <1>1, <1>5, <2>3, <4>1
      <4>3. stats'["active"] - panics' - 0 = stats["active"] - panics - 1
        <5>1. stats["active"] \in Nat /\ panics \in Nat
          BY <1>1, <1>2
        <5>2. stats'["active"] = stats["active"] /\ panics' = panics + 1
          BY <2>3
        <5>3. QED
          BY <5>1, <5>2
      <4>4. stats'["requests"] - stats'["responses"] - stats'["errors"] - panics' - 0
              <= stats["requests"] - stats["responses"] - stats["errors"] - panics - 1
        BY <1>1, <1>2, <2>3
      <4>5. QED
        BY <1>3, <2>1, <4>2, <4>3, <4>4 DEF Balanced
    <3>3. "none" \notin WorkStates
      BY DEF WorkStates
    <3>4. QED
      BY <2>2, <2>4, <2>5, <3>1, <3>2, <3>3, TaskMove
  <2>6. QED
    BY <1>14, <2>5 DEF HandlerPanics
<1>15. CASE Respond(c)
  <2>1. task[c] = "respond" /\ loop' = loop /\ backlog' = backlog
    BY <1>15 DEF Respond
  <2>2. OthersTyped'
    BY <1>15, <1>1, <1>2 DEF Respond, Add, OthersTyped, Fields
  <2>3. /\ free' = free /\ panics' = panics
        /\ stats'["active"] = stats["active"]
        /\ stats'["requests"] = stats["requests"]
        /\ stats'["responses"] = stats["responses"] + 1
        /\ stats'["errors"] = stats["errors"]
    BY <1>15, <1>1 DEF Respond, Add, Fields
  <2>4. \A d \in Streams \ {c} : errored'[d] = errored[d]
    BY <1>15, <1>1 DEF Respond
  <2>5. CASE At(c, "count")
    <3>1. "count" \in TaskStates /\ Separate'
      BY <2>1, <2>5, SeparateKept DEF TaskStates
    <3>2. Balanced(c, "count")
      BY <1>1, <1>2, <1>3, <1>4, <1>5, <2>1, <2>3 DEF Balanced
    <3>3. "count" \notin WorkStates
      BY DEF WorkStates
    <3>4. QED
      BY <2>2, <2>4, <2>5, <3>1, <3>2, <3>3, TaskMove
  <2>6. CASE At(c, "read")
    <3>1. "read" \in TaskStates /\ Separate'
      BY <2>1, <2>6, SeparateKept DEF TaskStates
    <3>2. Balanced(c, "read")
      BY <1>1, <1>2, <1>3, <1>4, <1>5, <2>1, <2>3 DEF Balanced
    <3>3. "read" \notin WorkStates
      BY DEF WorkStates
    <3>4. QED
      BY <2>2, <2>4, <2>6, <3>1, <3>2, <3>3, TaskMove
  <2>7. QED
    BY <1>15, <2>5, <2>6 DEF Respond
<1>16. CASE RespondFails(c)
  <2>1. task[c] = "respond" /\ loop' = loop /\ backlog' = backlog
    BY <1>16 DEF RespondFails
  <2>2. OthersTyped'
    BY <1>16, <1>1, <1>2 DEF RespondFails, Add, OthersTyped, Fields
  <2>3. /\ free' = free /\ panics' = panics
        /\ stats'["active"] = stats["active"]
        /\ stats'["requests"] = stats["requests"]
        /\ stats'["responses"] = stats["responses"]
        /\ stats'["errors"] = stats["errors"] + 1
    BY <1>16, <1>1 DEF RespondFails, Add, Fields
  <2>4. \A d \in Streams \ {c} : errored'[d] = errored[d]
    BY <1>16, <1>1 DEF RespondFails
  <2>5. CASE At(c, "failed")
    <3>1. "failed" \in TaskStates /\ Separate'
      BY <2>1, <2>5, SeparateKept DEF TaskStates
    <3>2. Balanced(c, "failed")
      BY <1>1, <1>2, <1>3, <1>4, <1>5, <2>1, <2>3 DEF Balanced
    <3>3. "failed" \notin WorkStates
      BY DEF WorkStates
    <3>4. QED
      BY <2>2, <2>4, <2>5, <3>1, <3>2, <3>3, TaskMove
  <2>6. QED
    BY <1>16, <2>5 DEF RespondFails
<1>17. CASE RespondTimeout(c)
  <2>1. task[c] = "respond" /\ loop' = loop /\ backlog' = backlog
    BY <1>17 DEF RespondTimeout
  <2>2. OthersTyped'
    BY <1>17, <1>1, <1>2 DEF RespondTimeout, Add, OthersTyped, Fields
  <2>3. /\ free' = free /\ panics' = panics
        /\ stats'["active"] = stats["active"]
        /\ stats'["requests"] = stats["requests"]
        /\ stats'["responses"] = stats["responses"]
        /\ stats'["errors"] = stats["errors"] + 1
    BY <1>17, <1>1 DEF RespondTimeout, Add, Fields
  <2>4. \A d \in Streams \ {c} : errored'[d] = errored[d]
    BY <1>17, <1>1 DEF RespondTimeout
  <2>5. CASE At(c, "failed")
    <3>1. "failed" \in TaskStates /\ Separate'
      BY <2>1, <2>5, SeparateKept DEF TaskStates
    <3>2. Balanced(c, "failed")
      BY <1>1, <1>2, <1>3, <1>4, <1>5, <2>1, <2>3 DEF Balanced
    <3>3. "failed" \notin WorkStates
      BY DEF WorkStates
    <3>4. QED
      BY <2>2, <2>4, <2>5, <3>1, <3>2, <3>3, TaskMove
  <2>6. QED
    BY <1>17, <2>5 DEF RespondTimeout
<1>18. CASE CountError(c)
  <2>1. task[c] = "failed" /\ loop' = loop /\ backlog' = backlog
    BY <1>18 DEF CountError
  <2>2. OthersTyped'
    BY <1>18, <1>1, <1>2 DEF CountError, Add, OthersTyped, Fields
  <2>3. /\ free' = free /\ panics' = panics
        /\ stats'["active"] = stats["active"]
        /\ stats'["requests"] = stats["requests"]
        /\ stats'["responses"] = stats["responses"]
        /\ stats'["errors"] = stats["errors"] + 1
    BY <1>18, <1>1 DEF CountError, Add, Fields
  <2>4. \A d \in Streams \ {c} : errored'[d] = errored[d]
    BY <1>18, <1>1 DEF CountError
  <2>5. CASE At(c, "count")
    <3>1. "count" \in TaskStates /\ Separate'
      BY <2>1, <2>5, SeparateKept DEF TaskStates
    <3>2. Balanced(c, "count")
      BY <1>1, <1>2, <1>3, <1>4, <1>5, <2>1, <2>3 DEF Balanced
    <3>3. "count" \notin WorkStates
      BY DEF WorkStates
    <3>4. QED
      BY <2>2, <2>4, <2>5, <3>1, <3>2, <3>3, TaskMove
  <2>6. QED
    BY <1>18, <2>5 DEF CountError
<1>19. CASE Uncount(c)
  <2>1. task[c] = "count" /\ loop' = loop /\ backlog' = backlog
    BY <1>19 DEF Uncount
  <2>2. OthersTyped'
    BY <1>19, <1>1, <1>2 DEF Uncount, Add, OthersTyped, Fields
  <2>3. /\ free' = free /\ panics' = panics
        /\ stats'["active"] = stats["active"] - 1
        /\ stats'["requests"] = stats["requests"]
        /\ stats'["responses"] = stats["responses"]
        /\ stats'["errors"] = stats["errors"]
    BY <1>19, <1>1 DEF Uncount, Add, Fields
  <2>4. \A d \in Streams \ {c} : errored'[d] = errored[d]
    BY <1>19, <1>1 DEF Uncount
  <2>5. CASE At(c, "release")
    <3>1. "release" \in TaskStates /\ Separate'
      BY <2>1, <2>5, SeparateKept DEF TaskStates
    <3>2. Balanced(c, "release")
      BY <1>1, <1>2, <1>3, <1>4, <1>5, <2>1, <2>3 DEF Balanced
    <3>3. "release" \notin WorkStates
      BY DEF WorkStates
    <3>4. QED
      BY <2>2, <2>4, <2>5, <3>1, <3>2, <3>3, TaskMove
  <2>6. QED
    BY <1>19, <2>5 DEF Uncount
<1>20. CASE Release(c)
  <2>1. task[c] = "release" /\ loop' = loop /\ backlog' = backlog
    BY <1>20 DEF Release
  <2>2. OthersTyped'
    BY <1>20, <1>1, <1>2 DEF Release, Add, OthersTyped, Fields
  <2>3. /\ free' = free + 1 /\ panics' = panics
        /\ stats'["active"] = stats["active"]
        /\ stats'["requests"] = stats["requests"]
        /\ stats'["responses"] = stats["responses"]
        /\ stats'["errors"] = stats["errors"]
    BY <1>20, <1>1 DEF Release, Add, Fields
  <2>4. \A d \in Streams \ {c} : errored'[d] = errored[d]
    BY <1>20, <1>1 DEF Release
  <2>5. CASE At(c, "none")
    <3>1. "none" \in TaskStates /\ Separate'
      BY <2>1, <2>5, SeparateKept DEF TaskStates
    <3>2. Balanced(c, "none")
      BY <1>1, <1>2, <1>3, <1>4, <1>5, <2>1, <2>3 DEF Balanced
    <3>3. "none" \notin WorkStates
      BY DEF WorkStates
    <3>4. QED
      BY <2>2, <2>4, <2>5, <3>1, <3>2, <3>3, TaskMove
  <2>6. QED
    BY <1>20, <2>5 DEF Release
<1>21. QED
  BY <1>6, <1>7, <1>8, <1>9, <1>10, <1>11, <1>12, <1>13, <1>14, <1>15, <1>16, <1>17, <1>18, <1>19, <1>20, TaskStepCases

-----------------------------------------------------------------------------
(* The clients and the accept loop.                                        *)
LEMMA BacklogHead ==
  ASSUME IInv, backlog # <<>>
  PROVE  /\ Head(backlog) \in Streams /\ task[Head(backlog)] = "none"
         /\ Tail(backlog) \in Seq(Streams)
         /\ \A i \in DOMAIN Tail(backlog) :
              i + 1 \in DOMAIN backlog /\ Tail(backlog)[i] = backlog[i + 1]
         /\ \A i \in DOMAIN Tail(backlog) : Tail(backlog)[i] # Head(backlog)
<1>1. backlog \in Seq(Streams)
  BY DEF IInv, TypeOK
<1>2. Tail(backlog) \in Seq(Streams) /\ Len(Tail(backlog)) = Len(backlog) - 1
  BY <1>1, HeadTailProperties
<1>3. /\ DOMAIN backlog = 1..Len(backlog) /\ DOMAIN Tail(backlog) = 1..(Len(backlog) - 1)
      /\ Len(backlog) \in Nat /\ Len(backlog) > 0
      /\ Head(backlog) = backlog[1]
      /\ \A i \in 1..(Len(backlog) - 1) : Tail(backlog)[i] = backlog[i + 1]
  BY <1>1, <1>2, HeadTailProperties, LenProperties
<1>4. \A i \in 1..(Len(backlog) - 1) : i + 1 \in DOMAIN backlog
  BY <1>3
<1>5. 1 \in DOMAIN backlog
  BY <1>3
<1>6. Head(backlog) \in Streams
  BY <1>1, HeadTailProperties
<1>7. /\ \A i, j \in DOMAIN backlog : backlog[i] = backlog[j] => i = j
      /\ \A i \in DOMAIN backlog : task[backlog[i]] = "none"
  BY DEF IInv, Separate
<1>8. task[Head(backlog)] = "none"
  BY <1>3, <1>5, <1>7
<1>9. ASSUME NEW i \in DOMAIN Tail(backlog) PROVE Tail(backlog)[i] # Head(backlog)
  <2>1. i \in 1..(Len(backlog) - 1) /\ i + 1 # 1 /\ i + 1 \in DOMAIN backlog
    BY <1>3, <1>4
  <2>2. QED
    BY <2>1, <1>3, <1>5, <1>7
<1>10. QED
  BY <1>2, <1>3, <1>4, <1>6, <1>8, <1>9

LEMMA TailSeparate ==
  ASSUME IInv, backlog # <<>>, backlog' = Tail(backlog),
         \A d \in Streams \ {Head(backlog)} : task'[d] = task[d]
  PROVE  Separate'
<1>1. /\ \A i, j \in DOMAIN backlog : backlog[i] = backlog[j] => i = j
      /\ \A i \in DOMAIN backlog : task[backlog[i]] = "none"
  BY DEF IInv, Separate
<1>2. /\ \A i \in DOMAIN backlog' : i + 1 \in DOMAIN backlog /\ backlog'[i] = backlog[i + 1]
      /\ \A i \in DOMAIN backlog' : backlog'[i] # Head(backlog)
      /\ backlog' \in Seq(Streams)
  BY BacklogHead
<1>3. ASSUME NEW i \in DOMAIN backlog', NEW j \in DOMAIN backlog', backlog'[i] = backlog'[j]
      PROVE  i = j
  <2>1. i + 1 = j + 1
    BY <1>1, <1>2, <1>3
  <2>2. i \in Nat /\ j \in Nat
    BY <1>2, LenProperties
  <2>3. QED
    BY <2>1, <2>2
<1>4. ASSUME NEW i \in DOMAIN backlog' PROVE task'[backlog'[i]] = "none"
  <2>1. backlog'[i] \in Streams
    BY <1>2, ElementOfSeq, LenProperties
  <2>2. task'[backlog'[i]] = task[backlog'[i]]
    BY <1>2, <2>1
  <2>3. QED
    BY <1>1, <1>2, <2>2
<1>5. QED
  BY <1>3, <1>4 DEF Separate

LEMMA EmptySeparate ==
  ASSUME backlog' = <<>>
  PROVE  Separate' /\ backlog' \in Seq(Streams)
  BY EmptySeq DEF Separate

LEMMA SameSeparate ==
  ASSUME IInv, backlog' = backlog, task' = task
  PROVE  Separate' /\ backlog' \in Seq(Streams)
  BY DEF IInv, TypeOK, Separate

LEMMA ConnectIInv ==
  ASSUME IInv, NEW c \in Streams, Connect(c)
  PROVE  IInv'
<1>1. backlog \in Seq(Streams) /\ task \in [Streams -> TaskStates] /\ free \in Nat
  BY LimitsAssumption DEF IInv, TypeOK
<1>2. backlog' = Append(backlog, c) /\ task' = task /\ task[c] = "none"
  BY <1>1 DEF Connect, Admitted, In, AdmittedStates, CountedStates, OpenStates, WorkStates, TaskStates
<1>3. backlog' \in Seq(Streams) /\ Len(backlog') = Len(backlog) + 1
  BY <1>1, <1>2, AppendProperties
<1>4. /\ DOMAIN backlog = 1..Len(backlog) /\ DOMAIN backlog' = 1..(Len(backlog) + 1)
      /\ Len(backlog) \in Nat
  BY <1>1, <1>3, LenProperties
<1>5. /\ \A i \in 1..Len(backlog) : backlog'[i] = backlog[i]
      /\ backlog'[Len(backlog) + 1] = c
  BY <1>1, <1>2, AppendProperties
<1>6. \A i \in 1..Len(backlog) : backlog[i] # c
  BY <1>4 DEF Connect, Queued
<1>7. Separate'
  <2>1. ASSUME NEW i \in DOMAIN backlog', NEW j \in DOMAIN backlog', backlog'[i] = backlog'[j]
        PROVE  i = j
    <3>1. \A k \in DOMAIN backlog' : k \in 1..Len(backlog) \/ k = Len(backlog) + 1
      BY <1>4
    <3>2. CASE i \in 1..Len(backlog) /\ j \in 1..Len(backlog)
      BY <3>2, <2>1, <1>4, <1>5 DEF IInv, Separate
    <3>3. CASE i = Len(backlog) + 1 \/ j = Len(backlog) + 1
      BY <3>1, <3>3, <2>1, <1>5, <1>6
    <3>4. QED
      BY <3>1, <3>2, <3>3
  <2>2. ASSUME NEW i \in DOMAIN backlog' PROVE task'[backlog'[i]] = "none"
    <3>1. CASE i \in 1..Len(backlog)
      BY <3>1, <1>2, <1>4, <1>5 DEF IInv, Separate
    <3>2. CASE i = Len(backlog) + 1
      BY <3>2, <1>2, <1>5
    <3>3. QED
      BY <3>1, <3>2, <1>4
  <2>3. QED
    BY <2>1, <2>2 DEF Separate
<1>8. AtAccept' = AtAccept /\ AtAccept \in {0, 1}
  BY DEF Connect, AtAccept
<1>9. QED
  <2>1. /\ UNCHANGED <<stats, task, errored, served, panics>>
        /\ loop' \in Loops /\ signalled' \in BOOLEAN /\ gone' \subseteq Streams
        /\ free' = free
    BY DEF Connect, IInv, TypeOK
  <2>2. QED
    BY <2>1, <1>1, <1>3, <1>7, <1>8, LoopMove

LEMMA AcceptIInv ==
  ASSUME IInv, Accept
  PROVE  IInv'
<1>1. PICK c \in Streams : Spawn(c)
  BY DEF Accept
<1>2. /\ loop = "accept" /\ loop' = "permit" /\ signalled' = signalled
      /\ backlog # <<>> /\ c = Head(backlog) /\ backlog' = Tail(backlog)
      /\ At(c, "read") /\ gone' = gone /\ panics' = panics
      /\ errored' = [errored EXCEPT ![c] = FALSE] /\ served' = [served EXCEPT ![c] = 0]
      /\ free' = free
      /\ stats' = [stats EXCEPT !["connections"] = @ + 1, !["active"] = @ + 1]
  BY <1>1 DEF Spawn, Accept
<1>3. /\ free \in Nat /\ stats \in [Fields -> Nat] /\ task \in [Streams -> TaskStates]
      /\ errored \in [Streams -> BOOLEAN] /\ served \in [Streams -> Nat]
      /\ signalled \in BOOLEAN /\ gone \subseteq Streams /\ panics \in Nat
  BY LimitsAssumption DEF IInv, TypeOK
<1>4. task[c] = "none" /\ backlog' \in Seq(Streams)
  BY <1>2, BacklogHead
<1>5. Separate'
  <2>1. \A d \in Streams \ {Head(backlog)} : task'[d] = task[d]
    BY <1>2, <1>3 DEF At
  <2>2. QED
    BY <1>2, <2>1, TailSeparate
<1>6. OthersTyped'
  <2>1. stats' \in [Fields -> Int] /\ \A f \in Fields \ {"active"} : stats'[f] >= 0
    BY <1>2, <1>3 DEF Fields
  <2>2. errored' \in [Streams -> BOOLEAN] /\ served' \in [Streams -> Nat]
    BY <1>2, <1>3
  <2>3. loop' \in Loops /\ free' \in Int /\ free' >= 0
    BY <1>2, <1>3 DEF Loops
  <2>4. signalled' \in BOOLEAN /\ gone' \subseteq Streams /\ panics' \in Nat
    BY <1>2, <1>3
  <2>5. QED
    BY <1>4, <2>1, <2>2, <2>3, <2>4 DEF OthersTyped
<1>7. Balanced(c, "read")
  <2>1. AtAccept = 1 /\ AtAccept' = 0
    BY <1>2 DEF AtAccept
  <2>2. /\ stats'["active"] = stats["active"] + 1 /\ stats["active"] \in Nat
        /\ stats'["requests"] = stats["requests"] /\ stats["requests"] \in Nat
        /\ stats'["responses"] = stats["responses"] /\ stats["responses"] \in Nat
        /\ stats'["errors"] = stats["errors"] /\ stats["errors"] \in Nat
    BY <1>2, <1>3 DEF Fields
  <2>3. /\ Indicator(AdmittedStates, "none") = 0 /\ Indicator(AdmittedStates, "read") = 1
        /\ Indicator(CountedStates, "none") = 0 /\ Indicator(CountedStates, "read") = 1
        /\ Indicator(WorkStates, "none") = 0 /\ Indicator(WorkStates, "read") = 0
    BY DEF Indicator, AdmittedStates, CountedStates, OpenStates, WorkStates
  <2>4. free' + AtAccept' + 1 = free + AtAccept + 0
    BY <1>2, <1>3, <2>1
  <2>5. stats'["active"] - panics' - 1 = stats["active"] - panics - 0
    <3>1. panics \in Nat /\ panics' = panics
      BY <1>2, <1>3
    <3>2. QED
      BY <2>2, <3>1
  <2>6. stats'["requests"] - stats'["responses"] - stats'["errors"] - panics' - 0
          <= stats["requests"] - stats["responses"] - stats["errors"] - panics - 0
    <3>1. panics \in Nat /\ panics' = panics
      BY <1>2, <1>3
    <3>2. QED
      BY <2>2, <3>1
  <2>7. QED
    BY <1>4, <2>3, <2>4, <2>5, <2>6 DEF Balanced
<1>8. "read" \in TaskStates /\ "read" \notin WorkStates
  BY DEF TaskStates, WorkStates
<1>9. \A d \in Streams \ {c} : errored'[d] = errored[d]
  BY <1>2, <1>3
<1>10. QED
  BY <1>2, <1>5, <1>6, <1>7, <1>8, <1>9, TaskMove

(* The steps of serve that move no task.                                   *)
QuietLoopStep ==
  \/ Serve \/ AcquirePermit \/ Reject \/ AcceptError \/ Shutdown \/ ShutdownSeen
  \/ Drained \/ DrainTimeout \/ Cancel

LEMMA QuietLoopStepIInv ==
  ASSUME IInv, QuietLoopStep
  PROVE  IInv'
<1>1. /\ loop \in Loops /\ free \in Nat /\ gone \subseteq Streams /\ signalled \in BOOLEAN
      /\ (loop = "accept" => free + 1 \in Nat)
  BY LimitsAssumption DEF IInv, TypeOK
<1>2. UNCHANGED <<stats, task, errored, served, panics>>
  BY DEF QuietLoopStep, Serve, AcquirePermit, Reject, AcceptError, Shutdown, ShutdownSeen,
         Drained, DrainTimeout, Cancel, Unbind
<1>3. loop' \in Loops /\ signalled' \in BOOLEAN /\ gone' \subseteq Streams
  BY <1>1 DEF QuietLoopStep, Serve, AcquirePermit, Reject, AcceptError, Shutdown, ShutdownSeen,
              Drained, DrainTimeout, Cancel, Unbind, Loops
<1>4. free' \in Nat /\ free' + AtAccept' = free + AtAccept
  <2>1. CASE Serve \/ Shutdown \/ Drained \/ DrainTimeout
    BY <2>1, <1>1 DEF Serve, Shutdown, Drained, DrainTimeout, Unbind, AtAccept
  <2>2. CASE AcquirePermit
    BY <2>2, <1>1 DEF AcquirePermit, AtAccept
  <2>3. CASE Reject \/ AcceptError
    BY <2>3, <1>1 DEF Reject, AcceptError, AtAccept
  <2>4. CASE ShutdownSeen \/ Cancel
    BY <2>4, <1>1 DEF ShutdownSeen, Cancel, Unbind, AtAccept
  <2>5. QED
    BY <2>1, <2>2, <2>3, <2>4 DEF QuietLoopStep
<1>5. Separate' /\ backlog' \in Seq(Streams)
  <2>1. CASE Serve \/ AcquirePermit \/ AcceptError \/ Shutdown \/ ShutdownSeen
    BY <2>1, SameSeparate DEF Serve, AcquirePermit, AcceptError, Shutdown, ShutdownSeen
  <2>2. CASE Reject
    BY <2>2, BacklogHead, TailSeparate DEF Reject
  <2>3. CASE Drained \/ DrainTimeout \/ Cancel
    BY <2>3, EmptySeparate DEF Drained, DrainTimeout, Cancel, Unbind
  <2>4. QED
    BY <2>1, <2>2, <2>3 DEF QuietLoopStep
<1>6. QED
  BY <1>2, <1>3, <1>4, <1>5, LoopMove

LEMMA DisconnectIInv ==
  ASSUME IInv, NEW c \in Streams, Disconnect(c)
  PROVE  IInv'
<1>1. /\ loop \in Loops /\ signalled \in BOOLEAN /\ free \in Nat /\ gone \subseteq Streams
  BY LimitsAssumption DEF IInv, TypeOK
<1>2. /\ UNCHANGED <<loop, signalled, backlog, free, stats, task, errored, served, panics>>
      /\ gone' \subseteq Streams
  BY <1>1 DEF Disconnect
<1>3. AtAccept' = AtAccept /\ AtAccept \in {0, 1}
  BY <1>2 DEF AtAccept
<1>4. Separate' /\ backlog' \in Seq(Streams)
  BY <1>2, SameSeparate
<1>5. QED
  BY <1>1, <1>2, <1>3, <1>4, LoopMove

-----------------------------------------------------------------------------
(* The inductive invariant holds in every reachable state.                 *)
THEOREM IInvHolds == Spec => []IInv
<1>1. Init => IInv
  BY InitIInv
<1>2. ASSUME IInv, [Next]_vars PROVE IInv'
  <2>1. CASE QuietLoopStep
    BY <1>2, <2>1, QuietLoopStepIInv
  <2>2. CASE Accept
    BY <1>2, <2>2, AcceptIInv
  <2>3. ASSUME NEW c \in Streams, TaskStep(c) PROVE IInv'
    BY <1>2, <2>3, TaskStepIInv
  <2>4. ASSUME NEW c \in Streams, Connect(c) PROVE IInv'
    BY <1>2, <2>4, ConnectIInv
  <2>5. ASSUME NEW c \in Streams, Disconnect(c) PROVE IInv'
    BY <1>2, <2>5, DisconnectIInv
  <2>6. CASE UNCHANGED vars
    <3>1. UNCHANGED <<loop, signalled, backlog, free, stats, task, errored, served, gone, panics>>
      BY <2>6 DEF vars
    <3>2. UNCHANGED <<Admitted, Counted, InProgress, AtAccept>>
      BY <3>1 DEF Admitted, Counted, InProgress, In, AtAccept
    <3>3. QED
      BY <1>2, <3>1, <3>2 DEF IInv, TypeOK, Separate, PermitConservation, ActiveCount,
                              RequestsAccounted, NothingAfterInvalid
  <2>7. QED
    BY <1>2, <2>1, <2>2, <2>3, <2>4, <2>5, <2>6 DEF Next, QuietLoopStep
<1>3. QED
  BY <1>1, <1>2, PTL DEF Spec

(* The variables keep their types; the counters never underflow.           *)
THEOREM TypeCorrect == Spec => []TypeOK
<1>1. IInv => TypeOK
  BY DEF IInv
<1>2. QED
  BY <1>1, IInvHolds, PTL

(* No permit of connection_semaphore is lost or created by rejected        *)
(* clients, failed accepts, panics, or serve calls that are cancelled.     *)
THEOREM PermitsConserved == Spec => []PermitConservation
<1>1. IInv => PermitConservation
  BY DEF IInv
<1>2. QED
  BY <1>1, IInvHolds, PTL

(* Accepted sockets never outnumber max_connections.                       *)
THEOREM DescriptorsBounded == Spec => []DescriptorBound
<1>1. ASSUME IInv PROVE DescriptorBound
  <2>1. Open \subseteq Admitted /\ Admitted \subseteq Streams
    BY DEF Open, Admitted, In, AdmittedStates, CountedStates
  <2>2. Cardinality(Open) <= Cardinality(Admitted) /\ Cardinality(Open) \in Nat
    BY <2>1, StreamsAssumption, FS_Subset, FS_CardinalityType
  <2>3. free + AtAccept + Cardinality(Admitted) = MaxConnections /\ free \in Nat /\ AtAccept \in {0, 1}
    BY <1>1, LimitsAssumption DEF IInv, TypeOK, PermitConservation, AtAccept
  <2>4. QED
    BY <2>2, <2>3, CountsType, LimitsAssumption DEF DescriptorBound
<1>2. QED
  BY <1>1, IInvHolds, PTL

(* When the counter the drain reads is zero, every connection is closed.   *)
THEOREM DrainIsSound == Spec => []QuietAtZero
<1>1. ASSUME IInv, stats.active = 0 PROVE Open = {}
  <2>1. stats.active = Cardinality(Counted) + panics /\ panics \in Nat
    BY <1>1 DEF IInv, ActiveCount, TypeOK
  <2>2. Cardinality(Counted) = 0
    BY <1>1, <2>1, CountsType
  <2>3. IsFiniteSet(Counted)
    <3>1. Counted \subseteq Streams
      BY DEF Counted, In
    <3>2. QED
      BY <3>1, StreamsAssumption, FS_Subset
  <2>4. Counted = {}
    BY <2>2, <2>3, FS_EmptySet
  <2>5. QED
    BY <2>4 DEF Open, Counted, In, CountedStates
<1>2. IInv => QuietAtZero
  BY <1>1 DEF QuietAtZero
<1>3. QED
  BY <1>2, IInvHolds, PTL

(* No request disappears from the statistics.                              *)
THEOREM RequestsAreAccounted == Spec => []RequestsAccounted
<1>1. IInv => RequestsAccounted
  BY DEF IInv
<1>2. QED
  BY <1>1, IInvHolds, PTL

(* After a malformed request nothing more is served on its connection.     *)
THEOREM InvalidIsLast == Spec => []NothingAfterInvalid
<1>1. IInv => NothingAfterInvalid
  BY DEF IInv
<1>2. QED
  BY <1>1, IInvHolds, PTL

=============================================================================
