------------------------ MODULE StreamServerProofs ------------------------
(***************************************************************************)
(* Proofs about StreamServer: for any finite set of clients and any limits *)
(* of connections and of the channel, a client receives what it is sent    *)
(* once and in order or is told how much it has missed, and each permit    *)
(* comes back.                                                             *)
(***************************************************************************)
EXTENDS StreamServer, TLAPS, FiniteSetTheorems, SequenceTheorems

Client ==
  [task : {"new", "ended"} \cup Open \cup Ending, next : Nat \ {0}, since : Nat \ {0},
   got : Seq(Nat), listed : BOOLEAN, errors : Nat, gone : BOOLEAN]

(* What the invariant says of one client.                                  *)
Good(k) ==
  /\ k \in Client
  /\ Tracked(k)
  /\ \A i, j \in 1..Len(k.got) : i < j => k.got[i] < k.got[j]
  /\ k.task \in Open => Len(k.got) + k.errors = k.next - k.since
  /\ \A i \in 1..Len(k.got) : log[k.got[i]] = "close" => i = Len(k.got)

LEMMA ClientsGood ==
  ASSUME IInv
  PROVE  client \in [Clients -> Client] /\ \A c \in Clients : Good(client[c])
<1>1. client \in [Clients -> Client]
  BY DEF IInv, TypeOK, Client
<1>2. QED
  BY <1>1 DEF IInv, InOrder, Accounted, NothingAfterClose, Good

LEMMA GoodClients ==
  ASSUME \A c \in Clients : Good(client[c])'
  PROVE  InOrder' /\ \A c \in Clients : Tracked(client[c])'
BY DEF Good, InOrder, Accounted, NothingAfterClose

(* A sequence of positions with one more.                                  *)
LEMMA OneMore ==
  ASSUME NEW q \in Seq(Nat), NEW n \in Nat
  PROVE  /\ Append(q, n) \in Seq(Nat)
         /\ Len(q) \in Nat /\ Len(Append(q, n)) = Len(q) + 1
         /\ \A i \in 1..Len(q) : Append(q, n)[i] = q[i]
         /\ Append(q, n)[Len(q) + 1] = n
BY AppendProperties, LenProperties

(* The log only grows.                                                     *)
LogGrows == log' = log \/ \E m \in Kinds : log' = Append(log, m)

LEMMA LogStep ==
  ASSUME log \in Seq(Kinds), LogGrows
  PROVE  /\ log' \in Seq(Kinds) /\ Len(log) \in Nat /\ Len(log') \in Nat
         /\ Len(log) <= Len(log')
         /\ \A i \in 1..Len(log) : log'[i] = log[i]
<1>1. Len(log) \in Nat
  BY LenProperties
<1>2. ASSUME NEW m \in Kinds, log' = Append(log, m)
      PROVE  /\ log' \in Seq(Kinds) /\ Len(log') = Len(log) + 1
             /\ \A i \in 1..Len(log) : log'[i] = log[i]
  BY <1>2, AppendProperties
<1>3. QED
  BY <1>1, <1>2 DEF LogGrows

LEMMA GoodStays ==
  ASSUME log \in Seq(Kinds), LogGrows, NEW k, Good(k)
  PROVE  Good(k)'
<1>1. /\ Len(log) \in Nat /\ Len(log') \in Nat /\ Len(log) <= Len(log')
      /\ \A i \in 1..Len(log) : log'[i] = log[i]
  BY LogStep
<1>2. \A i \in 1..Len(k.got) : k.got[i] \in 1..Len(log) /\ log'[k.got[i]] = log[k.got[i]]
  BY <1>1 DEF Good, Tracked
<1>3. k.next \in Nat /\ k.next <= Len(log) + 1
  BY DEF Good, Tracked, Client
<1>4. \A i \in 1..Len(k.got) : k.got[i] \in 1..Len(log')
  BY <1>1, <1>2
<1>5. k.next <= Len(log') + 1
  BY <1>1, <1>3
<1>6. Tracked(k)'
  BY <1>2, <1>4, <1>5 DEF Good, Tracked
<1>7. \A i \in 1..Len(k.got) : log'[k.got[i]] = "close" => i = Len(k.got)
  BY <1>2 DEF Good
<1>8. QED
  BY <1>6, <1>7 DEF Good

-----------------------------------------------------------------------------
(* What the steps of the clients do.                                       *)

LEMMA GoesOn ==
  ASSUME NEW k, Good(k), k.task \in Open, NEW to \in Open
  PROVE  Good([k EXCEPT !.task = to])
<1>1. [k EXCEPT !.task = to] \in Client
  BY DEF Good, Client
<1>2. QED
  BY <1>1 DEF Good, Client, Tracked, Open

LEMMA Goes ==
  ASSUME NEW k, Good(k)
  PROVE  Good([k EXCEPT !.gone = TRUE])
<1>1. [k EXCEPT !.gone = TRUE] \in Client
  BY DEF Good, Client
<1>2. QED
  BY <1>1 DEF Good, Client, Tracked, Open

LEMMA Accepted ==
  ASSUME log \in Seq(Kinds), NEW k, Good(k), k.task = "new"
  PROVE  Good([k EXCEPT !.task = "recv", !.listed = TRUE, !.next = Len(log) + 1, !.since = Len(log) + 1])
<1> DEFINE n == [k EXCEPT !.task = "recv", !.listed = TRUE, !.next = Len(log) + 1, !.since = Len(log) + 1]
<1>1. Len(log) \in Nat
  BY LenProperties
<1>2. k.got = <<>> /\ k.errors = 0 /\ Len(k.got) = 0
  BY EmptySeq DEF Good, Tracked
<1>3. n \in Client
  <2>1. k \in Client /\ Len(log) + 1 \in Nat \ {0}
    BY <1>1 DEF Good
  <2>2. QED
    BY <2>1 DEF Client, Open
<1>4. n.got = <<>> /\ n.errors = 0 /\ n.next = Len(log) + 1 /\ n.since = Len(log) + 1
      /\ n.task = "recv" /\ n.listed = TRUE
  BY <1>2 DEF Good, Client
<1>5. Len(n.got) = 0
  BY <1>4, EmptySeq
<1> HIDE DEF n
<1>6. Tracked(n)
  BY <1>1, <1>4, <1>5 DEF Tracked, Open
<1>7. Good(n)
  BY <1>1, <1>3, <1>4, <1>5, <1>6 DEF Good
<1>8. QED
  BY <1>7 DEF n

(* The oldest message in the channel, for a client that is behind it.      *)
LEMMA OldestInLog ==
  ASSUME log \in Seq(Kinds)
  PROVE  Oldest \in Nat \ {0} /\ Oldest <= Len(log) + 1
BY LenProperties, ParametersAssumption DEF Oldest, Parameters

LEMMA LagCounted ==
  ASSUME log \in Seq(Kinds), NEW k, Good(k), k.task = "recv", k.next < Oldest
  PROVE  Good([k EXCEPT !.next = Oldest, !.errors = @ + Oldest - k.next])
<1> DEFINE n == [k EXCEPT !.next = Oldest, !.errors = @ + Oldest - k.next]
<1>1. Oldest \in Nat \ {0} /\ Oldest <= Len(log) + 1 /\ Len(log) \in Nat
  BY OldestInLog, LenProperties
<1>2. k.next \in Nat /\ k.errors \in Nat /\ k.since \in Nat /\ Len(k.got) \in Nat
  BY LenProperties DEF Good, Client
<1>3. k.errors + Oldest - k.next \in Nat
  BY <1>1, <1>2
<1>4. n \in Client
  BY <1>1, <1>3 DEF Good, Client
<1>5. /\ n.got = k.got /\ n.task = k.task /\ n.listed = k.listed /\ n.since = k.since
      /\ n.next = Oldest /\ n.errors = k.errors + Oldest - k.next
  BY DEF Good, Client
<1> HIDE DEF n
<1>6. \A i \in 1..Len(k.got) : k.got[i] \in 1..Len(log) /\ k.got[i] < Oldest
  BY <1>1, <1>2 DEF Good, Tracked
<1>7. Tracked(n)
  BY <1>1, <1>5, <1>6 DEF Good, Tracked
<1>8. Len(n.got) + n.errors = n.next - n.since
  <2>1. Len(k.got) + k.errors = k.next - k.since
    BY DEF Good, Open
  <2>3. /\ Len(k.got) \in Int /\ k.errors \in Int /\ k.next \in Int
        /\ k.since \in Int /\ Oldest \in Int
    BY <1>1, <1>2
  <2>4. Len(k.got) + (k.errors + Oldest - k.next) = Oldest - k.since
    <3>1. PICK a \in Int, b \in Int, c \in Int, d \in Int, e \in Int :
            a = Len(k.got) /\ b = k.errors /\ c = k.next /\ d = k.since /\ e = Oldest
      BY <2>3
    <3>2. a + b = c - d
      BY <2>1, <3>1, Zenon
    <3>3. a + (b + e - c) = e - d
      BY ONLY <3>2, a \in Int, b \in Int, c \in Int, d \in Int, e \in Int
    <3>4. QED
      BY <3>1, <3>3, Zenon
  <2>5. QED
    BY <1>5, <2>4
<1>9. Good(n)
  BY <1>4, <1>5, <1>7, <1>8 DEF Good
<1>10. QED
  BY <1>9 DEF n

LEMMA Received ==
  ASSUME log \in Seq(Kinds), NEW k, Good(k), k.task = "recv", k.next \in Oldest..Len(log),
         NEW to \in {"remove", "write", "recv"}, log[k.next] = "close" => to = "remove"
  PROVE  Good([k EXCEPT !.next = @ + 1, !.got = Append(@, k.next), !.task = to])
<1> DEFINE n == [k EXCEPT !.next = @ + 1, !.got = Append(@, k.next), !.task = to]
<1>1. k.next \in Nat \ {0} /\ k.next <= Len(log) /\ Len(log) \in Nat
  BY OldestInLog, LenProperties DEF Good, Client
<1>2. k.got \in Seq(Nat) /\ k.errors \in Nat /\ k.since \in Nat /\ Len(k.got) \in Nat
  BY LenProperties DEF Good, Client
<1>3. /\ Append(k.got, k.next) \in Seq(Nat)
      /\ Len(Append(k.got, k.next)) = Len(k.got) + 1
      /\ \A i \in 1..Len(k.got) : Append(k.got, k.next)[i] = k.got[i]
      /\ Append(k.got, k.next)[Len(k.got) + 1] = k.next
  BY <1>1, <1>2, OneMore
<1>4. n \in Client
  <2>1. k \in Client /\ k.next + 1 \in Nat \ {0}
    BY <1>1 DEF Good
  <2>2. QED
    BY <1>3, <2>1 DEF Client, Open, Ending
<1>5. /\ n.got = Append(k.got, k.next) /\ n.task = to /\ n.listed = k.listed /\ n.since = k.since
      /\ n.next = k.next + 1 /\ n.errors = k.errors
  BY DEF Good, Client
<1> HIDE DEF n
<1>6. Len(n.got) = Len(k.got) + 1
  BY <1>3, <1>5
<1>7. ASSUME NEW i \in 1..Len(n.got)
      PROVE  \/ i \in 1..Len(k.got) /\ n.got[i] = k.got[i]
             \/ i = Len(n.got) /\ n.got[i] = k.next
  BY <1>2, <1>3, <1>5, <1>6
<1>8. \A i \in 1..Len(k.got) :
        k.got[i] \in 1..Len(log) /\ k.got[i] < k.next /\ log[k.got[i]] # "close"
  BY DEF Good, Tracked, Open
<1>9. \A i \in 1..Len(n.got) : /\ n.got[i] \in 1..Len(log) /\ n.got[i] < n.next
                               /\ n.task \in Open => log[n.got[i]] # "close"
  BY <1>1, <1>5, <1>7, <1>8 DEF Open
<1>10. Tracked(n)
  BY <1>1, <1>5, <1>9 DEF Good, Tracked, Open
<1>11. \A i, j \in 1..Len(n.got) : i < j => n.got[i] < n.got[j]
  <2> SUFFICES ASSUME NEW i \in 1..Len(n.got), NEW j \in 1..Len(n.got), i < j
               PROVE  n.got[i] < n.got[j]
    OBVIOUS
  <2>1. i \in 1..Len(k.got) /\ n.got[i] = k.got[i]
    <3>1. i # Len(n.got)
      BY <1>2, <1>6
    <3>2. QED
      BY <1>7, <3>1
  <2>2. CASE j \in 1..Len(k.got) /\ n.got[j] = k.got[j]
    BY <2>1, <2>2 DEF Good
  <2>3. CASE n.got[j] = k.next
    BY <1>8, <2>1, <2>3
  <2>4. QED
    BY <1>7, <2>2, <2>3
<1>12. Len(n.got) + n.errors = n.next - n.since
  <2>1. Len(k.got) + k.errors = k.next - k.since
    BY DEF Good, Open
  <2>2. \A a, b, c, d \in Int : a + b = c - d => (a + 1) + b = (c + 1) - d
    OBVIOUS
  <2>3. (Len(k.got) + 1) + k.errors = (k.next + 1) - k.since
    BY <1>1, <1>2, <2>1, <2>2
  <2>4. QED
    BY <1>5, <1>6, <2>3
<1>13. \A i \in 1..Len(n.got) : log[n.got[i]] = "close" => i = Len(n.got)
  BY <1>7, <1>8
<1>14. Good(n)
  BY <1>4, <1>10, <1>11, <1>12, <1>13 DEF Good
<1>15. QED
  BY <1>14 DEF n

(* A task that receives no more takes nothing more.                        *)
LEMMA Over ==
  ASSUME NEW k, Good(k), k.task \in Open \cup Ending
  PROVE  /\ k.task \in Open => Good([k EXCEPT !.task = "remove"])
                            /\ Good([k EXCEPT !.task = "remove", !.errors = @ + 1])
         /\ k.task = "remove" => Good([k EXCEPT !.task = "uncount", !.listed = FALSE])
         /\ k.task = "uncount" => Good([k EXCEPT !.task = "release"])
         /\ k.task = "release" => Good([k EXCEPT !.task = "ended"])
<1> USE DEF Good, Client, Tracked, Open, Ending
<1>1. k.task \in Open => Good([k EXCEPT !.task = "remove"])
  OBVIOUS
<1>2. k.task \in Open => Good([k EXCEPT !.task = "remove", !.errors = @ + 1])
  <2>1. k \in Client /\ k.errors + 1 \in Nat
    OBVIOUS
  <2>2. [k EXCEPT !.task = "remove", !.errors = @ + 1] \in Client
    BY ONLY <2>1 DEF Client, Open, Ending
  <2>3. QED
    BY <2>2
<1>3. k.task = "remove" => Good([k EXCEPT !.task = "uncount", !.listed = FALSE])
  OBVIOUS
<1>4. k.task = "uncount" => Good([k EXCEPT !.task = "release"])
  OBVIOUS
<1>5. k.task = "release" => Good([k EXCEPT !.task = "ended"])
  OBVIOUS
<1>6. QED
  BY <1>1, <1>2, <1>3, <1>4, <1>5

-----------------------------------------------------------------------------
(* From the clients one by one to the whole state.                         *)

LEMMA ClientChanges ==
  ASSUME IInv, NEW c \in Clients, NEW k, Good(k), client' = [client EXCEPT ![c] = k], log' = log
  PROVE  client' \in [Clients -> Client] /\ \A d \in Clients : Good(client[d])'
<1>1. client \in [Clients -> Client] /\ \A d \in Clients : Good(client[d])
  BY ClientsGood
<1>2. k \in Client /\ Good(k)'
  BY GoodStays DEF Good, IInv, TypeOK, LogGrows
<1>3. ASSUME NEW d \in Clients PROVE Good(client[d])'
  <2>1. PICK n : n = client[d]
    OBVIOUS
  <2>2. Good(n)'
    BY <1>1, <2>1, GoodStays DEF IInv, TypeOK, LogGrows
  <2>3. CASE d = c
    BY <1>1, <1>2, <2>3
  <2>4. CASE d # c
    BY <1>1, <2>1, <2>2, <2>4
  <2>5. QED
    BY <2>3, <2>4
<1>4. QED
  BY <1>1, <1>2, <1>3

LEMMA ClientsStay ==
  ASSUME IInv, client' = client, LogGrows
  PROVE  client' \in [Clients -> Client] /\ \A d \in Clients : Good(client[d])'
<1>1. client \in [Clients -> Client] /\ \A d \in Clients : Good(client[d])
  BY ClientsGood
<1>2. ASSUME NEW d \in Clients PROVE Good(client[d])'
  <2>1. PICK n : n = client[d]
    OBVIOUS
  <2>2. Good(n)'
    BY <1>1, <2>1, GoodStays DEF IInv, TypeOK
  <2>3. QED
    BY <2>1, <2>2
<1>3. QED
  BY <1>1, <1>2

At(S) == {c \in Clients : client[c].task \in S}

LEMMA Places ==
  /\ Served = At(Open \cup Ending) /\ Counted = At(Open \cup {"remove", "uncount"})
  /\ Served' = At(Open \cup Ending)' /\ Counted' = At(Open \cup {"remove", "uncount"})'
BY DEF Served, Counted, At

LEMMA AtFinite ==
  ASSUME NEW S
  PROVE  /\ IsFiniteSet(At(S)) /\ Cardinality(At(S)) \in Nat
         /\ IsFiniteSet(At(S)') /\ Cardinality(At(S)') \in Nat
BY FS_Subset, FS_CardinalityType, ParametersAssumption DEF Parameters, At

(* One client's task moves.                                                *)
LEMMA AtMoves ==
  ASSUME client \in [Clients -> Client], NEW c \in Clients, NEW k,
         client' = [client EXCEPT ![c] = k], NEW S
  PROVE  /\ (k.task \in S <=> client[c].task \in S) => At(S)' = At(S)
         /\ k.task \in S /\ client[c].task \notin S
              => Cardinality(At(S)') = Cardinality(At(S)) + 1
         /\ k.task \notin S /\ client[c].task \in S
              => Cardinality(At(S)') = Cardinality(At(S)) - 1
<1>1. /\ client'[c] = k
      /\ \A d \in Clients \ {c} : client'[d] = client[d]
  OBVIOUS
<1>2. (k.task \in S <=> client[c].task \in S) => At(S)' = At(S)
  BY <1>1 DEF At
<1>3. ASSUME k.task \in S, client[c].task \notin S
      PROVE  Cardinality(At(S)') = Cardinality(At(S)) + 1
  <2>1. At(S)' = At(S) \cup {c} /\ c \notin At(S)
    BY <1>1, <1>3 DEF At
  <2>2. QED
    BY <2>1, AtFinite, FS_AddElement
<1>4. ASSUME k.task \notin S, client[c].task \in S
      PROVE  Cardinality(At(S)') = Cardinality(At(S)) - 1
  <2>1. At(S)' = At(S) \ {c} /\ c \in At(S)
    BY <1>1, <1>4 DEF At
  <2>2. QED
    BY <2>1, AtFinite, FS_RemoveElement
<1>5. QED
  BY <1>2, <1>3, <1>4

Control ==
  /\ loop \in Stages /\ {signalled, aborted} \subseteq BOOLEAN
  /\ source \in [at : {"select", "sending", "cleanup", "done", "aborted"}, kind : Sources,
                 batch : Seq(Kinds), more : BOOLEAN]
  /\ log \in Seq(Kinds)

LEMMA Whole ==
  ASSUME Control', client' \in [Clients -> Client], \A c \in Clients : Good(client[c])',
         free' \in Nat, PermitConservation', active' = Cardinality(Counted')
  PROVE  IInv'
<1>1. Cardinality(Served') \in Nat /\ Cardinality(Counted') \in Nat
  BY Places, AtFinite
<1>2. free' \in 0..MaxConnections
  <2>1. MaxConnections \in Nat
    BY ParametersAssumption DEF Parameters
  <2>2. QED
    BY <1>1, <2>1 DEF PermitConservation
<1>3. TypeOK'
  BY <1>1, <1>2 DEF TypeOK, Control, Client
<1>4. QED
  BY <1>3, GoodClients DEF IInv

(* A step that leaves the clients alone may take a permit for serve or     *)
(* give one back.                                                          *)
LEMMA ServeMoves ==
  ASSUME IInv, client' = client, active' = active, LogGrows, Control',
         free' \in Nat,
         free' + (IF loop' = "accept" THEN 1 ELSE 0) = free + (IF loop = "accept" THEN 1 ELSE 0)
  PROVE  IInv'
<1>1. Served' = Served /\ Counted' = Counted
  BY DEF Served, Counted
<1>2. PermitConservation'
  BY <1>1 DEF IInv, PermitConservation
<1>3. active' = Cardinality(Counted')
  BY <1>1 DEF IInv
<1>4. QED
  BY <1>2, <1>3, ClientsStay, Whole

(* A step of one client's task that keeps its permit and its place in the  *)
(* counter.                                                                *)
LEMMA TaskMoves ==
  ASSUME IInv, NEW c \in Clients, NEW k, Good(k), client' = [client EXCEPT ![c] = k],
         UNCHANGED <<loop, signalled, source, aborted, log, free, active>>,
         k.task \in Open \cup Ending <=> client[c].task \in Open \cup Ending,
         k.task \in Open \cup {"remove", "uncount"}
           <=> client[c].task \in Open \cup {"remove", "uncount"}
  PROVE  IInv'
<1>1. Served' = Served /\ Counted' = Counted
  BY ClientsGood, AtMoves, Places
<1>2. PermitConservation'
  BY <1>1 DEF IInv, PermitConservation
<1>3. active' = Cardinality(Counted')
  BY <1>1 DEF IInv
<1>4. Control' /\ free' \in Nat
  BY DEF IInv, TypeOK, Control
<1>5. QED
  BY <1>2, <1>3, <1>4, ClientChanges, Whole

-----------------------------------------------------------------------------
(* The steps.                                                              *)

LEMMA BatchTypes ==
  ASSUME NEW kind \in Sources, NEW b \in Batches[kind]
  PROVE  b \in Seq(Kinds)
<1>1. kind \in {"periodic", "iterator", "custom"}
  BY ParametersAssumption DEF Parameters
<1> DEFINE one == {<<m>> : m \in Kinds}
<1>0. ASSUME NEW q \in one \cup {<<>>}
      PROVE  q \in Seq(Kinds)
  <2>1. \A m \in Kinds : <<m>> \in Seq(Kinds)
    OBVIOUS
  <2>2. QED
    BY <1>0, <2>1, EmptySeq
<1>2. CASE kind = "periodic"
  <2>1. b = <<"data">>
    BY <1>2 DEF Batches
  <2>2. QED
    BY <1>0, <2>1 DEF Kinds
<1>3. CASE kind = "iterator"
  <2>1. b \in one \cup {<<>>}
    BY <1>3 DEF Batches
  <2>2. QED
    BY <1>0, <2>1
<1>4. CASE kind = "custom"
  <2>1. b \in UNION {[1..n -> Kinds] : n \in 0..MaxBatch}
    BY <1>4 DEF Batches
  <2>2. PICK n \in 0..MaxBatch : b \in [1..n -> Kinds]
    BY <2>1
  <2>3. n \in Nat
    BY <2>2, ParametersAssumption DEF Parameters
  <2>4. QED
    BY <2>2, <2>3, SeqDef
<1>5. QED
  BY <1>1, <1>2, <1>3, <1>4

LEMMA ServerStep ==
  ASSUME IInv, AcquirePermit \/ AcceptError \/ ShutdownSeen \/ SignalSource \/ AbortSource
               \/ SendClose \/ Drained \/ DrainTimeout \/ Shutdown \/ Cancel \/ DropServer
               \/ \E m \in Kinds : AppBroadcast(m)
  PROVE  IInv'
<1>1. client' = client /\ active' = active /\ LogGrows
  BY DEF AcquirePermit, AcceptError, ShutdownSeen, SignalSource, AbortSource, SendClose, Drained,
         DrainTimeout, Shutdown, Cancel, DropServer, AppBroadcast, Broadcast, LogGrows, Kinds
<1>2. log' \in Seq(Kinds)
  BY <1>1, LogStep DEF IInv, TypeOK
<1>3. Control'
  BY <1>2 DEF AcquirePermit, AcceptError, ShutdownSeen, SignalSource, AbortSource, SendClose, Drained,
         DrainTimeout, Shutdown, Cancel, DropServer, AppBroadcast, IInv, TypeOK, Control, Stages
<1>4. free \in Nat
  BY DEF IInv, TypeOK
<1>5. /\ free' \in Nat
      /\ free' + (IF loop' = "accept" THEN 1 ELSE 0) = free + (IF loop = "accept" THEN 1 ELSE 0)
  BY <1>4 DEF AcquirePermit, AcceptError, ShutdownSeen, SignalSource, AbortSource, SendClose, Drained,
         DrainTimeout, Shutdown, Cancel, DropServer, AppBroadcast
<1>6. QED
  BY <1>1, <1>3, <1>5, ServeMoves

LEMMA SourceStep ==
  ASSUME IInv, SourceTask
  PROVE  IInv'
<1>1. UNCHANGED <<loop, signalled, aborted, client, free, active>>
  BY DEF SourceTask, Produces, Sends, BatchEnds, SourceFails, TurnEnds, SourceStops, SourceAborted,
         SourceCleans
<1>2. LogGrows
  <2>1. ASSUME Sends PROVE LogGrows
    <3>1. Head(source.batch) \in Kinds
      BY <2>1, HeadTailProperties DEF Sends, IInv, TypeOK
    <3>2. QED
      BY <2>1, <3>1 DEF Sends, Broadcast, LogGrows
  <2>2. QED
    BY <2>1 DEF SourceTask, Produces, BatchEnds, SourceFails, TurnEnds, SourceStops, SourceAborted,
                SourceCleans, LogGrows
<1>3. source' \in [at : {"select", "sending", "cleanup", "done", "aborted"}, kind : Sources,
                   batch : Seq(Kinds), more : BOOLEAN]
  <2>1. CASE Produces
    <3>1. PICK b \in Batches[source.kind] :
            source' = [source EXCEPT !.at = "sending", !.batch = b,
                                     !.more = source.kind # "iterator" \/ b # <<>>]
      BY <2>1 DEF Produces
    <3>2. b \in Seq(Kinds)
      BY BatchTypes DEF IInv, TypeOK
    <3>3. QED
      BY <3>1, <3>2 DEF IInv, TypeOK
  <2>2. CASE Sends
    <3>1. Tail(source.batch) \in Seq(Kinds)
      BY <2>2, HeadTailProperties DEF Sends, IInv, TypeOK
    <3>2. QED
      BY <2>2, <3>1 DEF Sends, IInv, TypeOK
  <2>3. CASE BatchEnds \/ SourceFails
    BY <2>3 DEF BatchEnds, SourceFails, TurnEnds, IInv, TypeOK
  <2>4. CASE SourceStops \/ SourceAborted \/ SourceCleans
    BY <2>4 DEF SourceStops, SourceAborted, SourceCleans, IInv, TypeOK
  <2>5. QED
    BY <2>1, <2>2, <2>3, <2>4 DEF SourceTask
<1>4. Control'
  BY <1>1, <1>2, <1>3, LogStep DEF Control, IInv, TypeOK
<1>5. QED
  BY <1>1, <1>2, <1>4, ServeMoves DEF IInv, TypeOK

LEMMA AcceptStep ==
  ASSUME IInv, NEW c \in Clients, Accept(c)
  PROVE  IInv'
<1> DEFINE k == [client[c] EXCEPT !.task = "recv", !.listed = TRUE,
                                  !.next = Len(log) + 1, !.since = Len(log) + 1]
<1>1. client[c] \in Client /\ client[c].task = "new" /\ Good(client[c])
  BY ClientsGood DEF Accept
<1>2. Good(k)
  BY <1>1, Accepted DEF IInv, TypeOK
<1>3. client' = [client EXCEPT ![c] = k] /\ k.task = "recv"
  BY <1>1, ClientsGood DEF Accept, Client
<1> HIDE DEF k
<1>4. /\ Cardinality(Served') = Cardinality(Served) + 1
      /\ Cardinality(Counted') = Cardinality(Counted) + 1
  BY <1>1, <1>3, ClientsGood, AtMoves, Places DEF Open, Ending
<1>5. /\ Cardinality(Served) \in Nat /\ free \in Nat /\ free' = free
      /\ loop = "accept" /\ loop' = "permit" /\ active' = active + 1
      /\ log' = log /\ UNCHANGED <<signalled, source, aborted>>
  BY Places, AtFinite DEF IInv, TypeOK, Accept
<1>6. PermitConservation'
  BY <1>4, <1>5 DEF IInv, PermitConservation
<1>7. active' = Cardinality(Counted')
  BY <1>4, <1>5 DEF IInv
<1>8. Control'
  BY <1>5 DEF Control, IInv, TypeOK, Stages
<1>9. QED
  BY <1>2, <1>3, <1>5, <1>6, <1>7, <1>8, ClientChanges, Whole

(* The steps of a task while it receives, and the client that goes.        *)
LEMMA ReceiverStep ==
  ASSUME IInv, NEW c \in Clients,
         Disconnect(c) \/ Lagged(c) \/ Recv(c) \/ RecvClosed(c) \/ Wrote(c) \/ WriteFails(c)
           \/ Ping(c) \/ Pinged(c) \/ PingFails(c)
  PROVE  IInv'
<1>1. /\ client \in [Clients -> Client] /\ Good(client[c]) /\ client[c] \in Client
      /\ log \in Seq(Kinds)
      /\ UNCHANGED <<loop, signalled, source, aborted, log, free, active>>
  BY ClientsGood DEF IInv, TypeOK, Disconnect, Lagged, Recv, RecvClosed, Wrote, WriteFails, Ping,
                     Pinged, PingFails
<1>2. ASSUME NEW k, Good(k), client' = [client EXCEPT ![c] = k], client[c].task \in Open,
             k.task \in Open \cup {"remove"}
      PROVE  IInv'
  BY <1>1, <1>2, TaskMoves DEF Ending
<1>3. CASE Disconnect(c)
  <2>1. PICK k : k = [client[c] EXCEPT !.gone = TRUE]
    OBVIOUS
  <2>2. Good(k) /\ k.task = client[c].task
    BY <1>1, <2>1, Goes DEF Client
  <2>3. client' = [client EXCEPT ![c] = k]
    BY <1>1, <1>3, <2>1 DEF Disconnect
  <2>4. QED
    BY <1>1, <2>2, <2>3, TaskMoves
<1>4. CASE Lagged(c)
  <2>1. PICK k : k = [client[c] EXCEPT !.next = Oldest, !.errors = @ + Oldest - client[c].next]
    OBVIOUS
  <2>2. Good(k) /\ k.task = "recv"
    BY <1>1, <1>4, <2>1, LagCounted DEF Client, Lagged
  <2>3. client' = [client EXCEPT ![c] = k] /\ client[c].task = "recv"
    BY <1>1, <1>4, <2>1 DEF Lagged
  <2>4. QED
    BY <1>2, <2>2, <2>3 DEF Open
<1>5. CASE Recv(c)
  <2>1. PICK to \in IF log[client[c].next] = "close" THEN {"remove"} ELSE {"write", "recv"} :
          client' = [client EXCEPT ![c].next = @ + 1, ![c].got = Append(@, client[c].next),
                                   ![c].task = to]
    BY <1>5 DEF Recv
  <2>2. PICK k : k = [client[c] EXCEPT !.next = @ + 1, !.got = Append(@, client[c].next), !.task = to]
    OBVIOUS
  <2>3. /\ client[c].task = "recv" /\ client[c].next \in Oldest..Len(log)
        /\ to \in {"remove", "write", "recv"}
        /\ log[client[c].next] = "close" => to = "remove"
    BY <1>5, <2>1 DEF Recv
  <2>4. Good(k) /\ k.task = to
    BY <1>1, <2>2, <2>3, Received DEF Client
  <2>5. client' = [client EXCEPT ![c] = k]
    BY <1>1, <2>1, <2>2
  <2>6. QED
    BY <1>2, <2>3, <2>4, <2>5 DEF Open
<1>6. CASE Wrote(c) \/ Ping(c) \/ Pinged(c)
  <2>1. PICK to \in Open : client' = [client EXCEPT ![c].task = to]
    BY <1>6 DEF Wrote, Ping, Pinged, Open
  <2>2. PICK k : k = [client[c] EXCEPT !.task = to]
    OBVIOUS
  <2>3. client[c].task \in Open
    BY <1>6 DEF Wrote, Ping, Pinged, Open
  <2>4. Good(k) /\ k.task = to
    BY <1>1, <2>2, <2>3, GoesOn DEF Client
  <2>5. client' = [client EXCEPT ![c] = k]
    BY <1>1, <2>1, <2>2
  <2>6. QED
    BY <1>2, <2>3, <2>4, <2>5
<1>7. CASE RecvClosed(c) \/ PingFails(c)
  <2>1. PICK k : k = [client[c] EXCEPT !.task = "remove"]
    OBVIOUS
  <2>2. client[c].task \in Open /\ client' = [client EXCEPT ![c] = k]
    BY <1>1, <1>7, <2>1 DEF RecvClosed, PingFails, Open
  <2>3. Good(k) /\ k.task = "remove"
    BY <1>1, <2>1, <2>2, Over DEF Client
  <2>4. QED
    BY <1>2, <2>2, <2>3
<1>8. CASE WriteFails(c)
  <2>1. PICK k : k = [client[c] EXCEPT !.task = "remove", !.errors = @ + 1]
    OBVIOUS
  <2>2. client[c].task \in Open /\ client' = [client EXCEPT ![c] = k]
    BY <1>1, <1>8, <2>1 DEF WriteFails, Open
  <2>3. Good(k) /\ k.task = "remove"
    BY <1>1, <2>1, <2>2, Over DEF Client
  <2>4. QED
    BY <1>2, <2>2, <2>3
<1>9. QED
  BY <1>3, <1>4, <1>5, <1>6, <1>7, <1>8

(* The end of a client's task: the list, the counter, the permit.          *)
LEMMA EndStep ==
  ASSUME IInv, NEW c \in Clients, Ends(c)
  PROVE  IInv'
<1>1. /\ client \in [Clients -> Client] /\ Good(client[c]) /\ client[c] \in Client
      /\ UNCHANGED <<loop, signalled, source, aborted, log>>
      /\ client[c].task \in Ending /\ free \in Nat /\ active \in Nat
      /\ Cardinality(Served) \in Nat
  BY ClientsGood, Places, AtFinite DEF IInv, TypeOK, Ends, Remove, Uncount, Release, Ending
<1>2. Control'
  BY <1>1 DEF Control, IInv, TypeOK
<1>3. CASE Remove(c)
  <2>1. PICK k : k = [client[c] EXCEPT !.task = "uncount", !.listed = FALSE]
    OBVIOUS
  <2>2. client[c].task = "remove" /\ client' = [client EXCEPT ![c] = k]
    BY <1>1, <1>3, <2>1 DEF Remove
  <2>3. Good(k) /\ k.task = "uncount"
    BY <1>1, <2>1, <2>2, Over DEF Client
  <2>4. QED
    BY <1>1, <1>3, <2>2, <2>3, TaskMoves DEF Remove, Ending
<1>4. CASE Uncount(c)
  <2>1. PICK k : k = [client[c] EXCEPT !.task = "release"]
    OBVIOUS
  <2>2. /\ client[c].task = "uncount" /\ client' = [client EXCEPT ![c] = k]
        /\ free' = free
    BY <1>1, <1>4, <2>1 DEF Uncount
  <2>3. Good(k) /\ k.task = "release"
    BY <1>1, <2>1, <2>2, Over DEF Client, Ending
  <2>4. /\ Served' = Served
        /\ Cardinality(Counted') = Cardinality(Counted) - 1
    BY <1>1, <2>2, <2>3, AtMoves, Places DEF Open, Ending
  <2>5. active' = Cardinality(Counted')
    <3>1. Cardinality(Counted') \in Nat /\ active = Cardinality(Counted)
      BY Places, AtFinite DEF IInv
    <3>2. active # 0
      BY <1>1, <2>4, <3>1
    <3>3. QED
      BY <1>4, <2>4, <3>1, <3>2 DEF Uncount
  <2>6. PermitConservation'
    BY <1>1, <2>2, <2>4 DEF IInv, PermitConservation
  <2>7. QED
    BY <1>1, <1>2, <2>2, <2>3, <2>5, <2>6, ClientChanges, Whole
<1>5. CASE Release(c)
  <2>1. PICK k : k = [client[c] EXCEPT !.task = "ended"]
    OBVIOUS
  <2>2. /\ client[c].task = "release" /\ client' = [client EXCEPT ![c] = k]
        /\ free' = free + 1 /\ active' = active
    BY <1>1, <1>5, <2>1 DEF Release
  <2>3. Good(k) /\ k.task = "ended"
    BY <1>1, <2>1, <2>2, Over DEF Client, Ending
  <2>4. /\ Counted' = Counted
        /\ Cardinality(Served') = Cardinality(Served) - 1
    BY <1>1, <2>2, <2>3, AtMoves, Places DEF Open, Ending
  <2>5. active' = Cardinality(Counted')
    BY <2>2, <2>4 DEF IInv
  <2>6. PermitConservation'
    BY <1>1, <2>2, <2>4 DEF IInv, PermitConservation
  <2>7. free' \in Nat
    BY <1>1, <2>2
  <2>8. QED
    BY <1>1, <1>2, <2>2, <2>3, <2>5, <2>6, <2>7, ClientChanges, Whole
<1>6. QED
  BY <1>3, <1>4, <1>5 DEF Ends

LEMMA InitIInv == Init => IInv
<1> SUFFICES ASSUME Init PROVE IInv
  OBVIOUS
<1> USE DEF Init, NewClient
<1>1. <<>> \in Seq(Kinds) /\ <<>> \in Seq(Nat) /\ Len(<<>>) = 0
  BY EmptySeq
<1>2. Served = {} /\ Counted = {}
  BY DEF Served, Counted, Open, Ending
<1>3. PermitConservation /\ active = Cardinality(Counted)
  BY <1>2, FS_EmptySet, ParametersAssumption DEF PermitConservation, Parameters
<1>4. TypeOK
  <2>1. NewClient \in Client
    BY <1>1 DEF Client
  <2>2. client \in [Clients -> Client]
    BY <2>1
  <2>3. free \in 0..MaxConnections
    BY ParametersAssumption DEF Parameters
  <2>4. source \in [at : {"select", "sending", "cleanup", "done", "aborted"}, kind : Sources,
                    batch : Seq(Kinds), more : BOOLEAN]
    BY <1>1
  <2>5. QED
    BY <1>1, <2>2, <2>3, <2>4 DEF TypeOK, Stages, Client
<1>5. \A c \in Clients : client[c].got = <<>> /\ client[c].task = "new"
  OBVIOUS
<1>6. InOrder
  BY <1>1, <1>5 DEF InOrder, Accounted, NothingAfterClose, Open
<1>7. \A c \in Clients : Tracked(client[c])
  BY <1>1 DEF Tracked, Open
<1>8. QED
  BY <1>3, <1>4, <1>6, <1>7 DEF IInv

LEMMA StepIInv == IInv /\ [Next]_vars => IInv'
<1>1. ASSUME IInv, Next PROVE IInv'
  BY <1>1, ServerStep, SourceStep, AcceptStep, ReceiverStep, EndStep
  DEF Next, Server, Delivers, Writes
<1>2. ASSUME IInv, UNCHANGED vars PROVE IInv'
  BY <1>2 DEF vars, IInv, TypeOK, PermitConservation, Served, Counted, InOrder, Accounted,
              NothingAfterClose, Tracked
<1>3. QED
  BY <1>1, <1>2

-----------------------------------------------------------------------------
(* The inductive invariant of the stream server.                           *)
THEOREM IInvHolds == Spec => []IInv
  BY InitIInv, StepIInv, PTL DEF Spec

(* What is broadcast after a client was accepted it receives once and in   *)
(* the order of the channel, or its error_count tells how much it missed   *)
(* when it was further behind than the capacity of the channel; nothing    *)
(* comes behind a Close it has received.                                   *)
THEOREM MessagesDelivered == Spec => []Delivered
<1>1. IInv => Delivered
  BY DEF IInv, Delivered
<1>2. QED
  BY <1>1, IInvHolds, PTL

(* No permit of the connection semaphore is lost or duplicated, and when   *)
(* the counter the drain waits for is zero, no client is served any more   *)
(* and none is listed.                                                     *)
THEOREM PermitsAllReturn == Spec => []PermitsReturn
<1>1. IInv => PermitsReturn
  <2> SUFFICES ASSUME IInv PROVE PermitsReturn
    OBVIOUS
  <2>1. ASSUME active = 0, NEW c \in Clients
        PROVE  client[c].task \notin Open /\ ~client[c].listed
    <3>1. Counted = {}
      BY <2>1, Places, AtFinite, FS_EmptySet DEF IInv
    <3>2. client[c].task \notin Open \cup {"remove", "uncount"}
      BY <3>1 DEF Counted
    <3>3. client[c].listed \in BOOLEAN
      BY ClientsGood DEF Client
    <3>4. QED
      BY <3>2, <3>3 DEF IInv, Tracked
  <2>2. QED
    BY <2>1 DEF IInv, PermitsReturn, QuietAtZero
<1>2. QED
  BY <1>1, IInvHolds, PTL
=============================================================================
