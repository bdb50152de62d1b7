--------------------------- MODULE FramingProofs ---------------------------
(***************************************************************************)
(* The safety of what goes over a connection: the decoding of requests,    *)
(* for any conversation of well-formed requests and any limits, and the    *)
(* reading of a response, for any response a server may mean to send.      *)
(***************************************************************************)
EXTENDS HttpFraming, Integers, Sequences, SequenceTheorems, WellFoundedInduction, TLAPS

-----------------------------------------------------------------------------
(* Sets of natural numbers, and concatenation.                             *)

(* A set of natural numbers has a smallest element.                        *)
LEMMA LeastOfNaturals ==
  \A S \in SUBSET Nat : S # {} => \E m \in S : \A n \in S : m <= n
PROOF
<1> SUFFICES ASSUME NEW S \in SUBSET Nat, S # {}
             PROVE  \E m \in S : \A n \in S : m <= n
  OBVIOUS
<1> DEFINE Less == OpToRel(<, Nat)
<1>1. \A n, m \in Nat : n < m => <<n, m>> \in Less
  BY DEF OpToRel
<1>2. IsWellFoundedOn(Less, Nat)
  BY NatLessThanWellFounded
<1> HIDE DEF Less
<1>3. PICK m \in S : \A n \in S : ~ (<<n, m>> \in Less)
  BY <1>2, WFMin
<1>4. ASSUME NEW n \in S PROVE m <= n
  <2>1. n \in Nat /\ m \in Nat /\ ~ (n < m)
    BY <1>1, <1>3
  <2>2. QED BY <2>1
<1>5. QED BY <1>3, <1>4

(* Induction: a set of natural numbers with zero and with the successor of *)
(* each of its elements has them all.                                      *)
LEMMA InductionOnSets ==
  ASSUME NEW S, 0 \in S, \A n \in Nat : n \in S => n + 1 \in S
  PROVE  \A n \in Nat : n \in S
PROOF
<1> SUFFICES ASSUME \E n \in Nat : n \notin S PROVE FALSE
  OBVIOUS
<1>1. PICK T : T = {n \in Nat : n \notin S} OBVIOUS
<1>2. T \in SUBSET Nat /\ T # {} BY <1>1
<1>3. PICK m \in T : \A n \in T : m <= n
  <2>1. T \in SUBSET Nat => (T # {} => \E m \in T : \A n \in T : m <= n)
    BY Zenon, LeastOfNaturals
  <2>2. QED BY <1>2, <2>1
<1>4. m \in Nat /\ m \notin S /\ m # 0 BY <1>1
<1>5. m - 1 \in Nat /\ ~ (m <= m - 1) BY <1>4
<1>6. m - 1 \in S BY <1>1, <1>3, <1>5
<1>7. m - 1 + 1 \in S BY <1>5, <1>6
<1>8. m - 1 + 1 = m BY <1>4
<1>9. QED BY <1>4, <1>7, <1>8

(* The concatenations of the first pieces of p, up to the nth.             *)
Joined(S, p, f, n) ==
  /\ f \in [0..n -> Seq(S)]
  /\ f[0] = <<>>
  /\ \A i \in 1..n : f[i] = f[i - 1] \o p[i]

(* There is a sequence of concatenations for any pieces.                   *)
LEMMA JoinedExists ==
  ASSUME NEW S, NEW p \in Seq(Seq(S))
  PROVE  \E f : Joined(S, p, f, Len(p))
PROOF
<1>1. PICK N : N = {n \in Nat : n <= Len(p) => \E f : Joined(S, p, f, n)} OBVIOUS
<1>2. Joined(S, p, [i \in 0..0 |-> <<>>], 0)
  <2>1. <<>> \in Seq(S) BY EmptySeq
  <2>2. QED BY <2>1 DEF Joined
<1>3. 0 \in N BY <1>1, <1>2
<1>4. ASSUME NEW n \in Nat, n \in N PROVE n + 1 \in N
  <2>1. SUFFICES ASSUME n + 1 <= Len(p) PROVE \E f : Joined(S, p, f, n + 1)
    BY <1>1
  <2>2. Len(p) \in Nat BY LenProperties
  <2>3. PICK f : Joined(S, p, f, n) BY <1>1, <1>4, <2>1, <2>2
  <2>4. PICK h : h = [i \in 0..(n + 1) |-> IF i <= n THEN f[i] ELSE f[n] \o p[n + 1]] OBVIOUS
  <2>5. f[n] \in Seq(S) /\ p[n + 1] \in Seq(S)
    <3>1. n \in 0..n /\ n + 1 \in 1..Len(p) BY <2>1, <2>2
    <3>2. QED BY <2>3, <3>1, ElementOfSeq DEF Joined
  <2>6. f[n] \o p[n + 1] \in Seq(S) BY <2>5, ConcatProperties
  <2>7. \A i \in 0..n : h[i] = f[i] /\ f[i] \in Seq(S) BY <2>3, <2>4 DEF Joined
  <2>8. h[n + 1] = f[n] \o p[n + 1]
    <3>1. n + 1 \in 0..(n + 1) /\ ~ (n + 1 <= n) OBVIOUS
    <3>2. QED BY Zenon, <2>4, <3>1
  <2>9. ASSUME NEW i \in 0..(n + 1)
        PROVE  (IF i <= n THEN f[i] ELSE f[n] \o p[n + 1]) \in Seq(S)
    <3>1. CASE i <= n
      <4>1. i \in 0..n BY <3>1
      <4>2. QED BY <2>7, <3>1, <4>1
    <3>2. CASE ~ (i <= n) BY <2>6, <3>2
    <3>3. QED BY <3>1, <3>2
  <2>10. h \in [0..(n + 1) -> Seq(S)] BY <2>4, <2>9
  <2>11. h[0] = <<>>
    <3>1. 0 \in 0..n OBVIOUS
    <3>2. QED BY <2>3, <2>7, <3>1 DEF Joined
  <2>12. ASSUME NEW i \in 1..(n + 1) PROVE h[i] = h[i - 1] \o p[i]
    <3>1. CASE i = n + 1
      <4>1. i - 1 = n /\ n \in 0..n BY <3>1
      <4>2. h[i - 1] = f[n] BY <2>7, <4>1
      <4>3. QED BY <2>8, <3>1, <4>2
    <3>2. CASE i # n + 1
      <4>1. i \in 1..n /\ i \in 0..n /\ i - 1 \in 0..n BY <3>2
      <4>2. f[i] = f[i - 1] \o p[i] BY <2>3, <4>1 DEF Joined
      <4>3. QED BY <2>7, <4>1, <4>2
    <3>3. QED BY <3>1, <3>2
  <2>13. Joined(S, p, h, n + 1) BY <2>10, <2>11, <2>12 DEF Joined
  <2>14. QED BY <2>13
<1>5. \A n \in Nat : n \in N BY <1>3, <1>4, InductionOnSets
<1>6. QED BY <1>1, <1>5, LenProperties

(* What has been concatenated stays at the front of what follows.          *)
LEMMA JoinedGrows ==
  ASSUME NEW S, NEW p \in Seq(Seq(S)), NEW f, Joined(S, p, f, Len(p)),
         NEW k \in Nat, NEW m \in Nat, k <= m, m <= Len(p)
  PROVE  /\ f[k] \in Seq(S) /\ f[m] \in Seq(S) /\ Len(f[k]) <= Len(f[m])
         /\ \A i \in 1..Len(f[k]) : f[m][i] = f[k][i]
PROOF
<1>0. Len(p) \in Nat BY LenProperties
<1>1. \A i \in 0..Len(p) : f[i] \in Seq(S) BY DEF Joined
<1>2. PICK N : N = {n \in Nat : k + n <= Len(p) =>
                      /\ Len(f[k]) <= Len(f[k + n])
                      /\ \A i \in 1..Len(f[k]) : f[k + n][i] = f[k][i]}
  OBVIOUS
<1>3. 0 \in N
  <2>1. k \in 0..Len(p) BY <1>0
  <2>2. Len(f[k]) \in Nat BY <1>1, <2>1, LenProperties
  <2>3. k + 0 = k OBVIOUS
  <2>4. QED BY <1>2, <2>2, <2>3
<1>4. ASSUME NEW n \in Nat, n \in N PROVE n + 1 \in N
  <2>1. SUFFICES ASSUME k + (n + 1) <= Len(p)
                 PROVE  /\ Len(f[k]) <= Len(f[k + (n + 1)])
                        /\ \A i \in 1..Len(f[k]) : f[k + (n + 1)][i] = f[k][i]
    BY <1>2
  <2>2. PICK j \in Nat : j = k + n OBVIOUS
  <2>3. k + (n + 1) = j + 1 /\ j + 1 \in 1..Len(p) /\ j \in 0..Len(p) /\ k \in 0..Len(p)
        /\ (j + 1) - 1 = j
    BY <1>0, <2>1, <2>2
  <2>4. f[j + 1] = f[j] \o p[j + 1] BY <2>3 DEF Joined
  <2>5. f[j] \in Seq(S) /\ f[k] \in Seq(S) /\ p[j + 1] \in Seq(S) BY <1>1, <2>3, ElementOfSeq
  <2>6. PICK a \in Seq(S), b \in Seq(S), c \in Seq(S) :
             a = f[j] /\ b = p[j + 1] /\ c = f[k]
    BY <2>5
  <2>7. /\ Len(a \o b) = Len(a) + Len(b)
        /\ \A i \in 1..Len(a) + Len(b) : (a \o b)[i] = IF i <= Len(a) THEN a[i] ELSE b[i - Len(a)]
    BY ConcatProperties
  <2>8. Len(a) \in Nat /\ Len(b) \in Nat /\ Len(c) \in Nat BY LenProperties
  <2>9. Len(c) <= Len(a) /\ \A i \in 1..Len(c) : a[i] = c[i]
    BY <1>0, <1>2, <1>4, <2>1, <2>2, <2>3, <2>6
  <2>10. \A i \in 1..Len(c) : (a \o b)[i] = c[i] BY <2>7, <2>8, <2>9
  <2>11. Len(c) <= Len(a \o b) BY <2>7, <2>8, <2>9
  <2>12. f[k + (n + 1)] = a \o b /\ f[k] = c BY <2>3, <2>4, <2>6
  <2>13. QED BY <2>10, <2>11, <2>12
<1>5. \A n \in Nat : n \in N BY <1>3, <1>4, InductionOnSets
<1>6. PICK n \in Nat : m = k + n
  <2>1. m - k \in Nat /\ m = k + (m - k) OBVIOUS
  <2>2. QED BY <2>1
<1>7. n \in N BY <1>5
<1>8. k \in 0..Len(p) /\ m \in 0..Len(p) BY <1>0
<1>9. QED BY <1>1, <1>2, <1>6, <1>7, <1>8

(* FlattenSeq computes the concatenations of the first pieces.             *)
LEMMA FlattenIsJoined ==
  ASSUME NEW S, NEW p \in Seq(Seq(S)), NEW f, Joined(S, p, f, Len(p)), NEW k \in 0..Len(p)
  PROVE  Codec!FlattenSeq(SubSeq(p, 1, k)) = f[k] /\ Response!FlattenSeq(SubSeq(p, 1, k)) = f[k]
PROOF
<1>1. PICK n \in Nat : n = Len(p) BY LenProperties
<1>2. PICK q : q = SubSeq(p, 1, k) OBVIOUS
<1>3. CASE k = 0
  <2>1. q = <<>> BY <1>2, <1>3, SubSeqEmpty
  <2>2. Len(<<>>) = 0 OBVIOUS
  <2>3. f[k] = <<>> BY <1>3 DEF Joined
  <2>4. Codec!FlattenSeq(q) = <<>> /\ Response!FlattenSeq(q) = <<>>
    BY <2>1, <2>2 DEF Codec!FlattenSeq, Response!FlattenSeq
  <2>5. QED BY <1>2, <2>3, <2>4
<1>4. CASE k # 0
  <2>1. k \in Nat /\ k \in 1..k /\ k <= n BY <1>1, <1>4
  <2>2. \A i \in 1..k : p[i] \in Seq(S) BY <1>1, <2>1, ElementOfSeq
  <2>3. Len(q) = k /\ \A i \in 1..k : q[i] = p[i] BY <1>2, <2>1, <2>2, SubSeqProperties
  <2>4. ASSUME NEW i \in 1..k PROVE f[i] \in Seq(S) /\ f[i] = f[i - 1] \o p[i]
    <3>1. i \in 0..Len(p) /\ i \in 1..Len(p) BY <1>1, <2>1
    <3>2. f[i] \in Seq(S) BY <3>1 DEF Joined
    <3>3. f[i] = f[i - 1] \o p[i] BY <3>1 DEF Joined
    <3>4. QED BY <3>2, <3>3
  <2>5. f[1] = p[1]
    <3>1. 1 \in 1..k /\ 1 - 1 = 0 BY <2>1, <1>4
    <3>2. f[1] = <<>> \o p[1] BY <2>4, <3>1 DEF Joined
    <3>3. QED BY <2>2, <3>1, <3>2, ConcatEmptySeq
  <2>6. PICK h : h = [i \in 1..k |-> f[i]] OBVIOUS
  <2>7. ASSUME NEW i \in 1..k PROVE h[i] = IF i = 1 THEN q[i] ELSE h[i - 1] \o q[i]
    <3>1. CASE i = 1 BY <2>3, <2>5, <2>6, <3>1
    <3>2. CASE i # 1
      <4>1. i - 1 \in 1..k BY <3>2
      <4>2. h[i - 1] = f[i - 1] /\ h[i] = f[i] BY <2>6, <4>1
      <4>3. QED BY <2>3, <2>4, <3>2, <4>2
    <3>3. QED BY <3>1, <3>2
  <2>8. h = [i \in 1..k |-> IF i = 1 THEN q[i] ELSE h[i - 1] \o q[i]] BY <2>6, <2>7
  <2>9. PICK g : g = CHOOSE e : e = [i \in 1..k |-> IF i = 1 THEN q[i] ELSE e[i - 1] \o q[i]]
    OBVIOUS
  <2>10. g = [i \in 1..k |-> IF i = 1 THEN q[i] ELSE g[i - 1] \o q[i]] BY <2>8, <2>9
  <2>11. PICK N : N = {i \in Nat : i + 1 <= k => g[i + 1] = f[i + 1]} OBVIOUS
  <2>12. 0 \in N
    <3>1. 0 + 1 = 1 /\ 1 \in 1..k BY <2>1, <1>4
    <3>2. g[1] = f[1] BY <2>3, <2>5, <2>10, <3>1
    <3>3. QED BY <2>11, <3>1, <3>2
  <2>13. ASSUME NEW i \in Nat, i \in N PROVE i + 1 \in N
    <3>1. SUFFICES ASSUME (i + 1) + 1 <= k PROVE g[(i + 1) + 1] = f[(i + 1) + 1]
      BY <2>11
    <3>2. PICK j \in 1..k : j = (i + 1) + 1 BY <2>1, <3>1
    <3>3. j # 1 /\ j - 1 = i + 1 /\ i + 1 <= k BY <2>1, <3>1, <3>2
    <3>4. g[j] = g[j - 1] \o q[j] BY <2>10, <3>3
    <3>5. g[j - 1] = f[j - 1] BY <2>11, <2>13, <3>3
    <3>6. QED BY <2>3, <2>4, <3>2, <3>4, <3>5
  <2>14. \A i \in Nat : i \in N BY <2>12, <2>13, InductionOnSets
  <2>15. g[k] = f[k]
    <3>1. PICK i \in Nat : i + 1 = k
      <4>1. k - 1 \in Nat /\ (k - 1) + 1 = k BY <2>1, <1>4
      <4>2. QED BY <4>1
    <3>2. i \in N BY <2>14
    <3>3. QED BY <2>11, <3>1, <3>2, <2>1
  <2>16. Codec!FlattenSeq(q) = g[k]
    BY <2>3, <2>9, <1>4 DEF Codec!FlattenSeq
  <2>17. Response!FlattenSeq(q) = g[k]
    BY <2>3, <2>9, <1>4 DEF Response!FlattenSeq
  <2>18. QED BY <1>2, <2>15, <2>16, <2>17
<1>5. QED BY <1>3, <1>4

-----------------------------------------------------------------------------
(* Slices.                                                                 *)

(* The elements of a slice.                                                *)
LEMMA Slice ==
  ASSUME NEW S, NEW s \in Seq(S), NEW m \in Nat, NEW n \in Nat, m <= n, n <= Len(s)
  PROVE  /\ SubSeq(s, m + 1, n) \in Seq(S) /\ Len(SubSeq(s, m + 1, n)) = n - m
         /\ \A i \in 1..(n - m) : SubSeq(s, m + 1, n)[i] = s[m + i]
PROOF
<1>1. Len(s) \in Nat BY LenProperties
<1>2. PICK a \in Nat : a = m + 1 OBVIOUS
<1>3. \A i \in a..n : s[i] \in S BY <1>1, <1>2, ElementOfSeq
<1>4. /\ SubSeq(s, a, n) \in Seq(S) /\ Len(SubSeq(s, a, n)) = IF a <= n THEN n - a + 1 ELSE 0
      /\ \A i \in 1..(n - a + 1) : SubSeq(s, a, n)[i] = s[a + i - 1]
  BY <1>2, <1>3, SubSeqProperties
<1>5. n - a + 1 = n - m BY <1>2
<1>6. ASSUME NEW i \in 1..(n - m) PROVE SubSeq(s, a, n)[i] = s[m + i]
  <2>1. a + i - 1 = m + i BY <1>2
  <2>2. QED BY <1>4, <1>5, <2>1
<1>7. Len(SubSeq(s, a, n)) = n - m BY <1>2, <1>4
<1>8. QED BY <1>2, <1>4, <1>6, <1>7

(* The rest of a slice.                                                    *)
LEMMA SliceOfSlice ==
  ASSUME NEW S, NEW s \in Seq(S), NEW m \in Nat, NEW n \in Nat, NEW j \in Nat,
         m + j <= n, n <= Len(s)
  PROVE  SubSeq(SubSeq(s, m + 1, n), j + 1, n - m) = SubSeq(s, m + j + 1, n)
PROOF
<1>1. PICK t : t = SubSeq(s, m + 1, n) OBVIOUS
<1>2. m <= n OBVIOUS
<1>3. t \in Seq(S) /\ Len(t) = n - m /\ \A i \in 1..(n - m) : t[i] = s[m + i]
  BY <1>1, <1>2, Slice
<1>4. PICK l \in Nat : l = n - m BY <1>2
<1>5. PICK k \in Nat : k = m + j OBVIOUS
<1>6. j <= l /\ l <= Len(t) /\ k <= n /\ l - j = n - k BY <1>3, <1>4, <1>5
<1>7. PICK u \in Seq(S) : u = SubSeq(t, j + 1, l) BY <1>3, <1>6, Slice
<1>8. Len(u) = l - j /\ \A i \in 1..(l - j) : u[i] = t[j + i] BY <1>3, <1>6, <1>7, Slice
<1>9. PICK v \in Seq(S) : v = SubSeq(s, k + 1, n) BY <1>6, Slice
<1>10. Len(v) = n - k /\ \A i \in 1..(n - k) : v[i] = s[k + i] BY <1>6, <1>9, Slice
<1>11. ASSUME NEW i \in 1..Len(u) PROVE u[i] = v[i]
  <2>1. i \in 1..(l - j) /\ i \in 1..(n - k) BY <1>6, <1>8
  <2>2. j + i \in 1..(n - m) /\ m + (j + i) = k + i BY <1>4, <1>5, <2>1
  <2>3. t[j + i] = s[k + i] BY <1>3, <2>2
  <2>4. QED BY <1>8, <1>10, <2>1, <2>3
<1>12. Len(u) = Len(v) BY <1>6, <1>8, <1>10
<1>13. u = v BY <1>11, <1>12, SeqEqual
<1>14. QED BY <1>1, <1>4, <1>5, <1>7, <1>9, <1>13

(* Two slices that meet.                                                   *)
LEMMA SlicesJoin ==
  ASSUME NEW S, NEW s \in Seq(S), NEW m \in Nat, NEW k \in Nat, NEW n \in Nat,
         m <= k, k <= n, n <= Len(s)
  PROVE  SubSeq(s, m + 1, k) \o SubSeq(s, k + 1, n) = SubSeq(s, m + 1, n)
PROOF
<1>1. Len(s) \in Nat BY LenProperties
<1>2. PICK a : a = m + 1 OBVIOUS
<1>3. a \in 1..(Len(s) + 1) /\ k \in (a - 1)..Len(s) /\ n \in k..Len(s) BY <1>1, <1>2
<1>4. SubSeq(s, a, k) \o SubSeq(s, k + 1, n) = SubSeq(s, a, n)
  BY <1>3, ConcatAdjacentSubSeq
<1>5. QED BY <1>2, <1>4

(* A slice of one element.                                                 *)
LEMMA SliceOfOne ==
  ASSUME NEW S, NEW s \in Seq(S), NEW l \in 1..Len(s)
  PROVE  SubSeq(s, l, l) = <<s[l]>>
PROOF
<1>1. Len(s) \in Nat BY LenProperties
<1>2. l \in 1..Len(s) /\ l \in l..Len(s) /\ l < l + 1 /\ l \in Int /\ l + 1 \in Int BY <1>1
<1>3. SubSeq(s, l, l) = <<s[l]>> \o SubSeq(s, l + 1, l) BY <1>2, SubSeqRecursiveFirst
<1>4. SubSeq(s, l + 1, l) = <<>> BY <1>2, SubSeqEmpty
<1>5. PICK x \in S : x = s[l] BY ElementOfSeq
<1>6. <<x>> \in Seq(S) OBVIOUS
<1>7. <<x>> \o <<>> = <<x>> BY <1>6, ConcatEmptySeq
<1>8. QED BY <1>3, <1>4, <1>5, <1>7

(* The next prefix of a sequence.                                          *)
LEMMA NextPrefix ==
  ASSUME NEW S, NEW s \in Seq(S), NEW k \in Nat, k < Len(s)
  PROVE  SubSeq(s, 1, k + 1) = Append(SubSeq(s, 1, k), s[k + 1])
PROOF
<1>1. Len(s) \in Nat BY LenProperties
<1>2. PICK n \in Nat : n = k + 1 OBVIOUS
<1>3. 1 \in 1..Len(s) /\ n \in 1..Len(s) /\ n - 1 = k BY <1>1, <1>2
<1>4. SubSeq(s, 1, n) = SubSeq(s, 1, n - 1) \o <<s[n]>> BY <1>3, SubSeqRecursiveSecond
<1>5. s[n] \in S BY <1>3, ElementOfSeq
<1>6. \A i \in 1..k : s[i] \in S BY <1>1, ElementOfSeq
<1>7. SubSeq(s, 1, k) \in Seq(S) BY <1>6, SubSeqProperties
<1>8. Append(SubSeq(s, 1, k), s[n]) = SubSeq(s, 1, k) \o <<s[n]>> BY <1>5, <1>7, AppendIsConcat
<1>9. QED BY <1>2, <1>3, <1>4, <1>8

-----------------------------------------------------------------------------
(* The decoding of requests.                                               *)

(* The end of a head ends at place i of b.                                 *)
Closes(b, i) == i \in 4..Len(b) /\ SubSeq(b, i - 3, i) = Codec!HeaderEnd

(* find_header_end finds the first one, if there is one.                   *)
LEMMA HeadersLenIs ==
  ASSUME NEW b \in Seq(Codec!Units)
  PROVE  /\ Codec!HeadersLen(b) \in Nat
         /\ Codec!HeadersLen(b) # 0 => Closes(b, Codec!HeadersLen(b))
         /\ \A i \in Nat : Closes(b, i) =>
              Codec!HeadersLen(b) # 0 /\ Codec!HeadersLen(b) <= i
PROOF
<1>1. PICK E : E = {i \in 4..Len(b) : SubSeq(b, i - 3, i) = Codec!HeaderEnd} OBVIOUS
<1>2. Len(b) \in Nat BY LenProperties
<1>3. \A i \in Nat : i \in E <=> Closes(b, i) BY <1>1 DEF Closes
<1>4. E \in SUBSET Nat /\ \A i \in E : i # 0 BY <1>1, <1>2
<1>5. CASE E = {}
  <2>1. Codec!HeadersLen(b) = 0 BY <1>1, <1>5 DEF Codec!HeadersLen
  <2>2. QED BY <1>3, <1>5, <2>1
<1>6. CASE E # {}
  <2>1. PICK m \in E : \A n \in E : m <= n BY <1>4, <1>6, LeastOfNaturals
  <2>2. Codec!Min(E) \in E /\ \A n \in E : Codec!Min(E) <= n BY <2>1 DEF Codec!Min
  <2>3. Codec!HeadersLen(b) = Codec!Min(E) BY <1>1, <1>6 DEF Codec!HeadersLen
  <2>4. QED BY <1>3, <1>4, <2>2, <2>3
<1>7. QED BY <1>5, <1>6

(* Two sequences that begin alike have the same ends of heads there.       *)
LEMMA ClosesAlike ==
  ASSUME NEW b \in Seq(Codec!Units), NEW c \in Seq(Codec!Units), NEW i \in Nat,
         i <= Len(c), \A j \in 1..i : b[j] = c[j], Closes(b, i)
  PROVE  Closes(c, i)
PROOF
<1>1. Len(b) \in Nat /\ Len(c) \in Nat BY LenProperties
<1>2. i \in 4..Len(b) /\ i \in 4..Len(c) BY <1>1 DEF Closes
<1>3. PICK m \in Nat : m = i - 3 /\ m > 0 BY <1>2
<1>4. \A j \in m..i : b[j] \in Codec!Units /\ c[j] \in Codec!Units /\ b[j] = c[j]
  BY <1>1, <1>2, <1>3, ElementOfSeq
<1>5. i - m + 1 = 4 /\ m <= i /\ m \in Int /\ i \in Int BY <1>3
<1>6. PICK s : s = SubSeq(b, m, i) OBVIOUS
<1>7. PICK t : t = SubSeq(c, m, i) OBVIOUS
<1>8. s \in Seq(Codec!Units) /\ Len(s) = 4 /\ \A j \in 1..4 : s[j] = b[m + j - 1]
  BY <1>4, <1>5, <1>6, SubSeqProperties
<1>9. t \in Seq(Codec!Units) /\ Len(t) = 4 /\ \A j \in 1..4 : t[j] = c[m + j - 1]
  BY <1>4, <1>5, <1>7, SubSeqProperties
<1>10. \A j \in 1..4 : m + j - 1 \in m..i BY <1>3
<1>11. \A j \in 1..4 : s[j] = t[j] BY <1>4, <1>8, <1>9, <1>10
<1>12. s = t BY <1>8, <1>9, <1>11, SeqEqual
<1>13. QED BY <1>2, <1>3, <1>6, <1>7, <1>12 DEF Closes

(* In a buffer that begins with a head, or with a part of one, the end of  *)
(* a head is found once the whole head is there, and it is its own.        *)
LEMMA HeadFound ==
  ASSUME NEW b \in Seq(Codec!Units), NEW c \in Seq(Codec!Units), c # <<>>,
         Codec!HeadersLen(c) = Len(c),
         \A i \in 1..Len(b) : i <= Len(c) => b[i] = c[i]
  PROVE  /\ Len(b) < Len(c) => Codec!HeadersLen(b) = 0
         /\ Len(b) >= Len(c) => Codec!HeadersLen(b) = Len(c) /\ SubSeq(b, 1, Len(c)) = c
         /\ Len(c) >= 4 /\ (Len(c) = 4 => c = Codec!HeaderEnd)
PROOF
<1>1. Len(b) \in Nat /\ Len(c) \in Nat /\ Len(c) # 0 BY LenProperties, EmptySeq
<1>2. PICK h \in Nat : h = Codec!HeadersLen(b) BY HeadersLenIs
<1>3. Closes(c, Len(c)) BY <1>1, HeadersLenIs
<1>4. \A i \in Nat : Closes(c, i) => Len(c) <= i BY <1>1, HeadersLenIs
<1>5. ASSUME Len(b) < Len(c) PROVE h = 0
  <2>1. SUFFICES ASSUME h # 0 PROVE FALSE
    OBVIOUS
  <2>2. Closes(b, h) BY <1>2, <2>1, HeadersLenIs
  <2>3. h <= Len(b) BY <1>1, <2>2 DEF Closes
  <2>4. h <= Len(c) /\ \A j \in 1..h : b[j] = c[j] BY <1>1, <1>5, <2>3
  <2>5. Closes(c, h) BY <2>2, <2>4, ClosesAlike
  <2>6. QED BY <1>1, <1>4, <1>5, <2>3, <2>5
<1>6. ASSUME Len(b) >= Len(c) PROVE h = Len(c) /\ SubSeq(b, 1, Len(c)) = c
  <2>1. \A j \in 1..Len(c) : c[j] = b[j] /\ b[j] \in Codec!Units /\ c[j] \in Codec!Units
    BY <1>1, <1>6, ElementOfSeq
  <2>2. Closes(b, Len(c)) BY <1>1, <1>3, <1>6, <2>1, ClosesAlike
  <2>3. h # 0 /\ h <= Len(c) BY <1>1, <1>2, <2>2, HeadersLenIs
  <2>4. Closes(b, h) BY <1>2, <2>3, HeadersLenIs
  <2>5. Closes(c, h)
    <3>1. \A j \in 1..h : b[j] = c[j] BY <1>1, <2>1, <2>3
    <3>2. QED BY <1>1, <2>3, <2>4, <3>1, ClosesAlike
  <2>6. h = Len(c) BY <1>1, <1>4, <2>3, <2>5
  <2>7. PICK s \in Seq(Codec!Units) : s = SubSeq(b, 1, Len(c)) BY <1>1, <2>1, SubSeqProperties
  <2>8. Len(s) = Len(c) /\ \A j \in 1..Len(c) : s[j] = b[j]
    BY <1>1, <2>1, <2>7, SubSeqProperties
  <2>9. s = c BY <2>1, <2>8, SeqEqual
  <2>10. QED BY <2>6, <2>7, <2>9
<1>7. Len(c) >= 4 BY <1>1, <1>3 DEF Closes
<1>8. ASSUME Len(c) = 4 PROVE c = Codec!HeaderEnd
  <2>1. SubSeq(c, 1, Len(c)) = Codec!HeaderEnd
    <3>1. Len(c) - 3 = 1 BY <1>8
    <3>2. QED BY <1>3, <3>1 DEF Closes
  <2>2. QED BY <2>1, SubSeqFull
<1>9. QED BY <1>2, <1>5, <1>6, <1>7, <1>8

(* The bytes of the first requests of a conversation.                      *)
LEMMA BytesJoined ==
  ASSUME Codec!Parameters, NEW c \in Conversations
  PROVE  \E p, f :
           /\ p \in Seq(Seq(Codec!Units))
           /\ Len(p) = Len(c) /\ Joined(Codec!Units, p, f, Len(p))
           /\ \A k \in 1..Len(c) : p[k] = c[k].head \o c[k].body
           /\ \A k \in 0..Len(c) : Codec!Bytes(SubSeq(c, 1, k)) = f[k]
           /\ Codec!Bytes(c) = f[Len(c)]
PROOF
<1> DEFINE Requests == [head : Seq(Codec!Units), body : Seq(Codec!Units)]
           Piece(r) == r.head \o r.body
<1>1. c \in Seq(Requests) BY DEF Codec!Parameters, Codec!Requests
<1>2. Len(c) \in Nat /\ DOMAIN c = 1..Len(c) BY <1>1, LenProperties
<1>3. PICK p : p = [k \in 1..Len(c) |-> Piece(c[k])] OBVIOUS
<1>4. ASSUME NEW k \in 1..Len(c) PROVE c[k] \in Requests /\ Piece(c[k]) \in Seq(Codec!Units)
  <2>1. c[k] \in Requests BY <1>1, ElementOfSeq
  <2>2. c[k].head \in Seq(Codec!Units) /\ c[k].body \in Seq(Codec!Units) BY <2>1
  <2>3. QED BY <2>1, <2>2, ConcatProperties
<1>5. p \in Seq(Seq(Codec!Units)) /\ Len(p) = Len(c)
  <2>1. p \in [1..Len(c) -> Seq(Codec!Units)] BY <1>3, <1>4
  <2>2. QED BY <1>2, <2>1
<1>6. PICK f : Joined(Codec!Units, p, f, Len(p)) BY <1>5, JoinedExists
<1>7. ASSUME NEW k \in 0..Len(c) PROVE Codec!Bytes(SubSeq(c, 1, k)) = f[k]
  <2>1. PICK q : q = SubSeq(c, 1, k) OBVIOUS
  <2>2. k \in Nat /\ 1 \in Int /\ k \in Int BY <1>2
  <2>3. \A i \in 1..k : c[i] \in Requests BY <1>2, <1>4, <2>2
  <2>4. q \in Seq(Requests) /\ Len(q) = k /\ \A i \in 1..k : q[i] = c[i]
    BY <2>1, <2>2, <2>3, SubSeqProperties
  <2>5. DOMAIN q = 1..k BY <2>4, LenProperties
  <2>6. PICK s : s = SubSeq(p, 1, k) OBVIOUS
  <2>7. \A i \in 1..k : p[i] \in Seq(Codec!Units) BY <1>2, <1>3, <1>4, <2>2
  <2>8. s \in Seq(Seq(Codec!Units)) /\ Len(s) = k /\ \A i \in 1..k : s[i] = p[i]
    BY <2>2, <2>6, <2>7, SubSeqProperties
  <2>9. s = [i \in DOMAIN q |-> q[i].head \o q[i].body]
    <3>1. ASSUME NEW i \in 1..k PROVE s[i] = q[i].head \o q[i].body
      <4>1. i \in 1..Len(c) BY <1>2, <2>2
      <4>2. p[i] = Piece(c[i]) BY <1>3, <4>1
      <4>3. q[i] = c[i] /\ s[i] = p[i] BY <2>4, <2>8
      <4>4. s[i] = Piece(q[i]) BY <4>2, <4>3
      <4>5. QED BY <4>4
    <3>2. s = [i \in 1..k |-> s[i]] BY <2>8, LenProperties
    <3>3. QED BY <2>5, <3>1, <3>2
  <2>10. Codec!Bytes(q) = Codec!FlattenSeq(s) BY <2>9 DEF Codec!Bytes
  <2>11. QED BY <1>5, <1>6, <2>1, <2>6, <2>10, FlattenIsJoined
<1>8. Codec!Bytes(c) = f[Len(c)]
  <2>1. SubSeq(c, 1, Len(c)) = c BY <1>1, SubSeqFull
  <2>2. Len(c) \in 0..Len(c) BY <1>2
  <2>3. QED BY <1>7, <2>1, <2>2
<1>9. \A k \in 1..Len(c) : p[k] = c[k].head \o c[k].body BY <1>3
<1>10. QED BY <1>5, <1>6, <1>7, <1>8, <1>9

(* Where the requests are in the bytes of a conversation.                  *)
LEMMA RequestPlaced ==
  ASSUME Codec!Parameters, NEW c \in Conversations
  PROVE  /\ Codec!Bytes(c) \in Seq(Codec!Units)
         /\ Len(Codec!Bytes(SubSeq(c, 1, 0))) = 0
         /\ \A k \in 0..Len(c) : Len(Codec!Bytes(SubSeq(c, 1, k))) \in Nat
         /\ Len(Codec!Bytes(SubSeq(c, 1, Len(c)))) = Len(Codec!Bytes(c))
         /\ \A k \in 0..(Len(c) - 1) :
              LET r == c[k + 1]
                  n == Len(Codec!Bytes(SubSeq(c, 1, k)))
                  m == Len(Codec!Bytes(SubSeq(c, 1, k + 1))) IN
              /\ m = n + Len(r.head \o r.body) /\ m <= Len(Codec!Bytes(c))
              /\ \A i \in 1..Len(r.head \o r.body) :
                   Codec!Bytes(c)[n + i] = (r.head \o r.body)[i]
PROOF
<1>1. PICK p, f :
        /\ p \in Seq(Seq(Codec!Units))
        /\ Len(p) = Len(c) /\ Joined(Codec!Units, p, f, Len(p))
        /\ \A k \in 1..Len(c) : p[k] = c[k].head \o c[k].body
        /\ \A k \in 0..Len(c) : Codec!Bytes(SubSeq(c, 1, k)) = f[k]
        /\ Codec!Bytes(c) = f[Len(c)]
  BY BytesJoined
<1>2. PICK L \in Nat : L = Len(c) BY <1>1, LenProperties
<1>3. \A k \in 0..L : f[k] \in Seq(Codec!Units) BY <1>1, <1>2 DEF Joined
<1>4. L \in 0..L /\ 0 \in 0..L /\ f[0] = <<>> BY <1>1, <1>2 DEF Joined
<1>5. ASSUME NEW k \in 0..(L - 1)
      PROVE  LET r == c[k + 1]
                 n == Len(f[k])
                 m == Len(f[k + 1]) IN
             /\ m = n + Len(r.head \o r.body) /\ m <= Len(f[L])
             /\ \A i \in 1..Len(r.head \o r.body) : f[L][n + i] = (r.head \o r.body)[i]
  <2>1. k \in Nat /\ k + 1 \in 1..L /\ k \in 0..L /\ k + 1 \in 0..L /\ (k + 1) - 1 = k OBVIOUS
  <2>2. PICK a \in Seq(Codec!Units), b \in Seq(Codec!Units) : a = f[k] /\ b = p[k + 1]
    <3>1. p[k + 1] \in Seq(Codec!Units) BY <1>1, <1>2, <2>1, ElementOfSeq
    <3>2. QED BY <1>3, <2>1, <3>1
  <2>3. f[k + 1] = a \o b BY <1>1, <1>2, <2>1, <2>2 DEF Joined
  <2>4. b = c[k + 1].head \o c[k + 1].body BY <1>1, <1>2, <2>1, <2>2
  <2>5. /\ Len(a \o b) = Len(a) + Len(b)
        /\ \A i \in 1..Len(a) + Len(b) : (a \o b)[i] = IF i <= Len(a) THEN a[i] ELSE b[i - Len(a)]
    BY ConcatProperties
  <2>6. Len(a) \in Nat /\ Len(b) \in Nat BY LenProperties
  <2>7. /\ Len(a \o b) <= Len(f[L])
        /\ \A i \in 1..Len(a \o b) : f[L][i] = (a \o b)[i]
    <3>1. p \in Seq(Seq(Codec!Units)) /\ Joined(Codec!Units, p, f, Len(p)) /\ L <= Len(p)
      BY <1>1, <1>2
    <3>2. PICK j \in Nat : j = k + 1 /\ j <= L BY <2>1
    <3>3. \A x, y \in Nat : x <= y => (y <= Len(p) =>
            Len(f[x]) <= Len(f[y]) /\ \A i \in 1..Len(f[x]) : f[y][i] = f[x][i])
      <4>1. SUFFICES ASSUME NEW x \in Nat, NEW y \in Nat, x <= y, y <= Len(p)
                     PROVE  Len(f[x]) <= Len(f[y]) /\ \A i \in 1..Len(f[x]) : f[y][i] = f[x][i]
        OBVIOUS
      <4>2. QED BY <3>1, <4>1, JoinedGrows
    <3>4. Len(f[j]) <= Len(f[L]) /\ \A i \in 1..Len(f[j]) : f[L][i] = f[j][i]
      BY <3>1, <3>2, <3>3
    <3>5. QED BY <2>3, <3>2, <3>4
  <2>8. ASSUME NEW i \in 1..Len(b) PROVE f[L][Len(a) + i] = b[i]
    <3>1. Len(a) + i \in 1..Len(a) + Len(b) /\ ~ (Len(a) + i <= Len(a))
          /\ (Len(a) + i) - Len(a) = i
      BY <2>6
    <3>2. (a \o b)[Len(a) + i] = b[i] BY <2>5, <3>1
    <3>3. QED BY <2>5, <2>7, <3>1, <3>2
  <2>9. QED BY <2>2, <2>3, <2>4, <2>5, <2>7, <2>8
<1>6. Len(<<>>) = 0 OBVIOUS
<1>7. \A k \in 0..L : Len(f[k]) \in Nat BY <1>3, LenProperties
<1>8. ASSUME NEW k \in 0..(L - 1)
      PROVE  Codec!Bytes(SubSeq(c, 1, k)) = f[k] /\ Codec!Bytes(SubSeq(c, 1, k + 1)) = f[k + 1]
  <2>1. k \in 0..L /\ k + 1 \in 0..L OBVIOUS
  <2>2. QED BY <1>1, <1>2, <2>1
<1>9. Codec!Bytes(c) = f[L] BY <1>1, <1>2
<1>10. Codec!Bytes(c) \in Seq(Codec!Units) BY <1>3, <1>4, <1>9
<1>11. Len(Codec!Bytes(SubSeq(c, 1, 0))) = 0 BY <1>1, <1>2, <1>4, <1>6
<1>12. \A k \in 0..Len(c) : Len(Codec!Bytes(SubSeq(c, 1, k))) \in Nat BY <1>1, <1>2, <1>7
<1>13. Len(Codec!Bytes(SubSeq(c, 1, Len(c)))) = Len(Codec!Bytes(c)) BY <1>1, <1>2, <1>4
<1>14. ASSUME NEW k \in 0..(Len(c) - 1)
       PROVE  LET r == c[k + 1]
                  n == Len(Codec!Bytes(SubSeq(c, 1, k)))
                  m == Len(Codec!Bytes(SubSeq(c, 1, k + 1))) IN
              /\ m = n + Len(r.head \o r.body) /\ m <= Len(Codec!Bytes(c))
              /\ \A i \in 1..Len(r.head \o r.body) :
                   Codec!Bytes(c)[n + i] = (r.head \o r.body)[i]
  <2>1. k \in 0..(L - 1) BY <1>2
  <2>2. Codec!Bytes(SubSeq(c, 1, k)) = f[k] /\ Codec!Bytes(SubSeq(c, 1, k + 1)) = f[k + 1]
    BY <1>8, <2>1
  <2>3. QED BY Zenon, <1>5, <1>9, <2>1, <2>2
<1>15. QED BY <1>10, <1>11, <1>12, <1>13, <1>14

(* A body found behind its head.                                           *)
LEMMA BodyFound ==
  ASSUME NEW S, NEW b \in Seq(S), NEW c \in Seq(S), NEW y \in Seq(S), NEW w, w = c \o y,
         Len(w) <= Len(b), \A i \in 1..Len(b) : i <= Len(w) => b[i] = w[i]
  PROVE  SubSeq(b, Len(c) + 1, Len(c) + Len(y)) = y
PROOF
<1>1. /\ Len(c \o y) = Len(c) + Len(y)
      /\ \A i \in 1..Len(c) + Len(y) :
           (c \o y)[i] = IF i <= Len(c) THEN c[i] ELSE y[i - Len(c)]
  BY ConcatProperties
<1>2. PICK h \in Nat, l \in Nat : h = Len(c) /\ l = Len(c) + Len(y) /\ Len(y) = l - h
  <2>1. Len(c) \in Nat /\ Len(y) \in Nat BY LenProperties
  <2>2. QED BY <2>1
<1>3. Len(b) \in Nat BY LenProperties
<1>4. h <= l /\ l <= Len(b) /\ Len(w) = l
  <2>1. Len(y) \in Nat BY LenProperties
  <2>2. QED BY <1>1, <1>2, <2>1
<1>5. PICK z \in Seq(S) : z = SubSeq(b, h + 1, l) BY <1>4, Slice
<1>6. Len(z) = l - h /\ \A i \in 1..(l - h) : z[i] = b[h + i] BY <1>4, <1>5, Slice
<1>7. ASSUME NEW i \in 1..Len(z) PROVE z[i] = y[i]
  <2>1. h + i \in 1..l /\ ~ (h + i <= h) /\ (h + i) - h = i BY <1>6
  <2>2. h + i \in 1..Len(b) /\ h + i <= Len(w) BY <1>3, <1>4, <2>1
  <2>3. b[h + i] = w[h + i] BY <2>2
  <2>4. w[h + i] = y[i] BY <1>1, <1>2, <2>1
  <2>5. QED BY <1>6, <2>3, <2>4
<1>8. z = y BY <1>2, <1>6, <1>7, SeqEqual
<1>9. QED BY <1>2, <1>5, <1>8

(* What decode makes of a buffer that begins with a request, or with a     *)
(* part of one: the request, never a part of it or more than it; an error  *)
(* for one that is not good; and a wait while it is not whole.             *)
LEMMA Decodes ==
  ASSUME Codec!Parameters, NEW r \in Codec!Requests, Codec!Framed(r),
         NEW b \in Seq(Codec!Units), NEW w, w = r.head \o r.body,
         \A i \in 1..Len(b) : i <= Len(w) => b[i] = w[i]
  PROVE  LET d == Codec!Decode(b) IN
         /\ d.is = "request" => d.head = r.head /\ d.body = r.body /\ Len(w) <= Len(b)
         /\ d.is = "error" => ~Codec!Good(r)
         /\ d.is = "more" => Codec!Blank(r) \/ Len(b) < Len(w)
         /\ d.is \in {"request", "error", "more"}
PROOF
<1>1. PICK c \in Seq(Codec!Units), y \in Seq(Codec!Units) : c = r.head /\ y = r.body
  BY DEF Codec!Requests
<1>2. Len(b) \in Nat /\ Len(c) \in Nat /\ Len(y) \in Nat BY LenProperties
<1>3. /\ w \in Seq(Codec!Units) /\ Len(w) = Len(c) + Len(y)
      /\ \A i \in 1..Len(c) + Len(y) : w[i] = IF i <= Len(c) THEN c[i] ELSE y[i - Len(c)]
  <2>1. w = c \o y BY <1>1
  <2>2. /\ c \o y \in Seq(Codec!Units) /\ Len(c \o y) = Len(c) + Len(y)
        /\ \A i \in 1..Len(c) + Len(y) :
             (c \o y)[i] = IF i <= Len(c) THEN c[i] ELSE y[i - Len(c)]
    BY ConcatProperties
  <2>3. QED BY <2>1, <2>2
<1>4. c # <<>> /\ Codec!HeadersLen(c) = Len(c) /\ Codec!ContentLength(c) = Len(y)
  BY <1>1 DEF Codec!Framed
<1>5. ASSUME NEW i \in 1..Len(b), i <= Len(c) PROVE b[i] = c[i]
  <2>1. i \in 1..Len(c) + Len(y) /\ i <= Len(w) BY <1>2, <1>3, <1>5
  <2>2. w[i] = c[i] BY <1>3, <1>5, <2>1
  <2>3. QED BY <2>1, <2>2
<1>6. /\ Len(b) < Len(c) => Codec!HeadersLen(b) = 0
      /\ Len(b) >= Len(c) => Codec!HeadersLen(b) = Len(c) /\ SubSeq(b, 1, Len(c)) = c
      /\ Len(c) >= 4 /\ (Len(c) = 4 => c = Codec!HeaderEnd)
  BY <1>4, <1>5, HeadFound
<1>7. MaxHeaderSize \in Nat /\ MaxRequestSize \in Nat BY DEF Codec!Parameters
<1>8. CASE Len(b) < Len(c)
  <2>1. Codec!HeadersLen(b) = 0 BY <1>6, <1>8
  <2>2. Codec!Decode(b) = IF Len(b) > MaxHeaderSize THEN Codec!Error ELSE Codec!More
    BY <2>1 DEF Codec!Decode
  <2>3. CASE Len(b) > MaxHeaderSize
    <3>1. Codec!Decode(b).is = "error" BY <2>2, <2>3 DEF Codec!Error
    <3>2. ~ (Len(c) <= MaxHeaderSize) BY <1>2, <1>7, <1>8, <2>3
    <3>3. ~Codec!Good(r) BY <1>1, <3>2 DEF Codec!Good
    <3>4. QED BY <3>1, <3>3
  <2>4. CASE ~ (Len(b) > MaxHeaderSize)
    <3>1. Codec!Decode(b).is = "more" BY <2>2, <2>4 DEF Codec!More
    <3>2. Len(b) < Len(w) BY <1>2, <1>3, <1>8
    <3>3. QED BY <3>1, <3>2
  <2>5. QED BY <2>3, <2>4
<1>9. CASE Len(b) >= Len(c)
  <2>1. PICK h \in Nat, n \in Nat : h = Len(c) /\ n = Len(y) BY <1>2
  <2>2. Codec!HeadersLen(b) = h /\ SubSeq(b, 1, h) = c /\ h >= 4 BY <1>6, <1>9, <2>1
  <2>3. Codec!Decode(b) =
          IF h \in {0, 4} THEN Codec!More
          ELSE IF Codec!Contains(c, Codec!Malformed) \/ h + n > MaxRequestSize THEN Codec!Error
          ELSE IF Len(b) < h + n THEN Codec!More
          ELSE IF Codec!Contains(c, Codec!BadUri) THEN Codec!Error
          ELSE Codec!Request(b, h, n)
    <3>1. h # 0 BY <2>2
    <3>2. Codec!ContentLength(SubSeq(b, 1, Codec!HeadersLen(b))) = n BY <1>4, <2>1, <2>2
    <3>3. QED BY Zenon, <2>2, <3>1, <3>2 DEF Codec!Decode
  <2>4. CASE h \in {0, 4}
    <3>1. Codec!Decode(b).is = "more" BY <2>3, <2>4 DEF Codec!More
    <3>2. h = 4 BY <2>2, <2>4
    <3>3. Codec!Blank(r) BY <1>1, <1>6, <2>1, <3>2 DEF Codec!Blank
    <3>4. QED BY <3>1, <3>3
  <2>5. CASE h \notin {0, 4}
             /\ (Codec!Contains(c, Codec!Malformed) \/ h + n > MaxRequestSize)
    <3>1. Codec!Decode(b) = Codec!Error BY <2>3, <2>5
    <3>2. Codec!Decode(b).is = "error" BY <3>1 DEF Codec!Error
    <3>3. ~ (h + n <= MaxRequestSize) \/ Codec!Contains(c, Codec!Malformed) BY <1>7, <2>5
    <3>4. ~Codec!Good(r) BY <1>1, <2>1, <3>3 DEF Codec!Good
    <3>5. QED BY <3>2, <3>4
  <2>6. CASE /\ h \notin {0, 4}
             /\ ~ (Codec!Contains(c, Codec!Malformed) \/ h + n > MaxRequestSize)
             /\ Len(b) < h + n
    <3>1. Codec!Decode(b) = Codec!More BY <2>3, <2>6
    <3>2. Codec!Decode(b).is = "more" BY <3>1 DEF Codec!More
    <3>3. Len(b) < Len(w) BY <1>3, <2>1, <2>6
    <3>4. QED BY <3>2, <3>3
  <2>7. CASE /\ h \notin {0, 4}
             /\ ~ (Codec!Contains(c, Codec!Malformed) \/ h + n > MaxRequestSize)
             /\ ~ (Len(b) < h + n)
             /\ Codec!Contains(c, Codec!BadUri)
    <3>1. Codec!Decode(b) = Codec!Error BY <2>3, <2>7
    <3>2. Codec!Decode(b).is = "error" BY <3>1 DEF Codec!Error
    <3>3. ~Codec!Good(r) BY <1>1, <2>7 DEF Codec!Good
    <3>4. QED BY <3>2, <3>3
  <2>8. CASE /\ h \notin {0, 4}
             /\ ~ (Codec!Contains(c, Codec!Malformed) \/ h + n > MaxRequestSize)
             /\ ~ (Len(b) < h + n)
             /\ ~Codec!Contains(c, Codec!BadUri)
    <3>1. Codec!Decode(b) = Codec!Request(b, h, n) BY <2>3, <2>8
    <3>2. PICK l \in Nat : l = h + n BY <2>1
    <3>3. h <= l /\ l <= Len(b) /\ l - h = n /\ l = Len(w) BY <1>2, <1>3, <2>1, <2>8, <3>2
    <3>4. w = c \o y /\ Len(w) <= Len(b) BY <1>1, <3>3
    <3>5. SubSeq(b, Len(c) + 1, Len(c) + Len(y)) = y BY Zenon, <3>4, BodyFound
    <3>6. SubSeq(b, h + 1, l) = y BY <2>1, <3>2, <3>5
    <3>8. Codec!Decode(b) = [is |-> "request", head |-> c, body |-> y]
      BY <2>2, <3>1, <3>2, <3>6 DEF Codec!Request
    <3>9. PICK d : d = Codec!Decode(b) OBVIOUS
    <3>10. d.is = "request" /\ d.head = c /\ d.body = y BY <3>8, <3>9
    <3>11. Len(w) <= Len(b) BY <3>3
    <3>12. QED BY <1>1, <3>9, <3>10, <3>11
  <2>9. QED BY <2>4, <2>5, <2>6, <2>7, <2>8
<1>10. Len(b) < Len(c) \/ Len(b) >= Len(c) BY <1>2
<1>11. QED BY Zenon, <1>8, <1>9, <1>10

(* What is in the buffer: nothing, once every request has been handed on;  *)
(* otherwise it begins with the next request, or with a part of it.        *)
LEMMA Buffered ==
  ASSUME Codec!Parameters, Codec!TypeOK, Codec!Kept
  PROVE  /\ Len(out) \in 0..Len(conversation)
         /\ Len(out) = Len(conversation) => buf = <<>>
         /\ Len(out) # Len(conversation) =>
              LET r == conversation[Len(out) + 1] IN
              /\ r \in Codec!Requests /\ Codec!Framed(r) /\ Len(r.head \o r.body) \in Nat \ {0}
              /\ \A i \in 1..Len(buf) : i <= Len(r.head \o r.body) => buf[i] = (r.head \o r.body)[i]
              /\ Len(Codec!Bytes(SubSeq(conversation, 1, Len(out) + 1)))
                   = read - Len(buf) + Len(r.head \o r.body)
PROOF
<1>1. PICK c \in Conversations : c = conversation BY DEF Codec!TypeOK
<1>2. c \in Seq(Codec!Requests) /\ \A i \in DOMAIN c : Codec!Framed(c[i]) BY DEF Codec!Parameters
<1>3. Len(c) \in Nat /\ DOMAIN c = 1..Len(c) BY <1>2, LenProperties
<1>4. PICK B \in Seq(Codec!Units) : B = Codec!Bytes(c) BY RequestPlaced
<1>5. PICK k \in 0..Len(c) : k = Len(out)
  <2>1. Len(out) \in Nat BY LenProperties DEF Codec!TypeOK
  <2>2. Len(out) <= Len(c) BY <1>1 DEF Codec!Kept
  <2>3. QED BY <1>3, <2>1, <2>2
<1>6. PICK n \in Nat : n = Len(Codec!Bytes(SubSeq(c, 1, k))) BY RequestPlaced
<1>7. read \in 0..Len(B) /\ buf \in Seq(Codec!Units) BY <1>1, <1>4 DEF Codec!TypeOK
<1>8. PICK b \in Nat : b = Len(buf) BY <1>7, LenProperties
<1>9. Len(B) \in Nat BY LenProperties
<1>10. read = n + b /\ buf = SubSeq(B, n + 1, read)
  BY <1>1, <1>4, <1>5, <1>6, <1>8 DEF Codec!Kept
<1>11. CASE k = Len(c)
  <2>1. n = Len(B) BY <1>4, <1>6, <1>11, RequestPlaced
  <2>2. Len(buf) = 0 BY <1>7, <1>8, <1>9, <1>10, <2>1
  <2>3. buf = <<>> BY <1>7, <2>2, EmptySeq, SeqEqual
  <2>4. QED BY <1>1, <1>5, <1>11, <2>3
<1>12. CASE k # Len(c)
  <2>1. k \in Nat /\ k \in 0..(Len(c) - 1) /\ k + 1 \in 1..Len(c)
    <3>1. PICK L \in Nat : L = Len(c) BY <1>3
    <3>2. k \in 0..L /\ k # L BY <1>12, <3>1
    <3>3. k \in Nat /\ k \in 0..(L - 1) /\ k + 1 \in 1..L BY <3>2
    <3>4. QED BY <3>1, <3>3
  <2>2. PICK r : r = c[k + 1] OBVIOUS
  <2>3. r \in Codec!Requests /\ Codec!Framed(r) BY <1>2, <1>3, <2>1, <2>2, ElementOfSeq
  <2>4. PICK w : w = r.head \o r.body OBVIOUS
  <2>5. /\ Len(Codec!Bytes(SubSeq(c, 1, k + 1))) = n + Len(w)
        /\ \A i \in 1..Len(w) : B[n + i] = w[i]
    BY <1>4, <1>6, <2>1, <2>2, <2>4, RequestPlaced
  <2>6. Len(w) \in Nat \ {0}
    <3>1. PICK x \in Seq(Codec!Units), y \in Seq(Codec!Units) : x = r.head /\ y = r.body
      BY <2>3 DEF Codec!Requests
    <3>2. x # <<>> BY <2>3, <3>1 DEF Codec!Framed
    <3>3. Len(x) \in Nat \ {0} /\ Len(y) \in Nat BY <3>2, LenProperties, EmptySeq
    <3>4. Len(x \o y) = Len(x) + Len(y) BY ConcatProperties
    <3>5. w = x \o y BY <2>4, <3>1
    <3>6. Len(w) = Len(x) + Len(y) BY <3>4, <3>5
    <3>7. QED BY <3>3, <3>6
  <2>7. ASSUME NEW i \in 1..Len(buf), i <= Len(w) PROVE buf[i] = w[i]
    <3>1. i \in 1..(read - n) /\ i \in 1..Len(w) BY <1>8, <1>10, <2>6, <2>7
    <3>2. n <= read /\ read <= Len(B) /\ read \in Nat BY <1>7, <1>8, <1>9, <1>10
    <3>3. \A j \in 1..(read - n) : SubSeq(B, n + 1, read)[j] = B[n + j] BY <3>2, Slice
    <3>4. buf[i] = B[n + i] BY <1>10, <3>1, <3>3
    <3>5. QED BY <2>5, <3>1, <3>4
  <2>8. n = read - Len(buf) BY <1>7, <1>8, <1>10
  <2>9. PICK l : l = Len(out) + 1 OBVIOUS
  <2>10. r = conversation[l] /\ Len(Codec!Bytes(SubSeq(conversation, 1, l))) = n + Len(w)
    BY <1>1, <1>5, <2>2, <2>5, <2>9
  <2>11. Len(out) \in 0..Len(conversation) /\ Len(out) # Len(conversation) BY <1>1, <1>5, <1>12
  <2>12. QED BY <2>3, <2>4, <2>6, <2>7, <2>8, <2>9, <2>10, <2>11
<1>13. QED BY <1>11, <1>12

(* What the decoder makes of the buffer: the next request of the           *)
(* conversation, or an error or a wait that the request accounts for.      *)
LEMMA Decoded ==
  ASSUME Codec!Parameters, Codec!TypeOK, Codec!Kept, buf # <<>>
  PROVE  LET d == Codec!Decode(buf) r == conversation[Len(out) + 1] IN
         /\ Len(out) + 1 \in 1..Len(conversation) /\ r \in Codec!Requests
         /\ d.is = "request" => d.head = r.head /\ d.body = r.body
                                /\ Len(r.head \o r.body) <= Len(buf)
         /\ d.is = "error" => ~Codec!Good(r)
         /\ d.is = "more" => \/ Codec!Blank(r)
                             \/ read < Len(Codec!Bytes(SubSeq(conversation, 1, Len(out) + 1)))
PROOF
<1>1. Len(out) \in 0..Len(conversation) /\ Len(out) # Len(conversation) BY Buffered
<1>2. PICK r : r = conversation[Len(out) + 1] OBVIOUS
<1>3. PICK w : w = r.head \o r.body OBVIOUS
<1>4. r \in Codec!Requests /\ Codec!Framed(r) BY <1>1, <1>2, Buffered
<1>5. Len(w) \in Nat /\ \A i \in 1..Len(buf) : i <= Len(w) => buf[i] = w[i]
  BY <1>1, <1>2, <1>3, Buffered
<1>6. Len(Codec!Bytes(SubSeq(conversation, 1, Len(out) + 1))) = read - Len(buf) + Len(w)
  BY <1>1, <1>2, <1>3, Buffered
<1>7. buf \in Seq(Codec!Units) BY DEF Codec!TypeOK
<1>8. PICK d : d = Codec!Decode(buf) OBVIOUS
<1>9. /\ d.is = "request" => d.head = r.head /\ d.body = r.body /\ Len(w) <= Len(buf)
      /\ d.is = "error" => ~Codec!Good(r)
      /\ d.is = "more" => Codec!Blank(r) \/ Len(buf) < Len(w)
  BY <1>3, <1>4, <1>5, <1>7, <1>8, Decodes
<1>10. Len(out) + 1 \in 1..Len(conversation)
  <2>1. Len(conversation) \in Nat BY LenProperties DEF Codec!TypeOK, Codec!Parameters
  <2>2. QED BY <1>1, <2>1
<1>11. read \in Nat /\ Len(buf) \in Nat
  <2>1. read \in 0..Len(Codec!Bytes(conversation)) BY DEF Codec!TypeOK
  <2>2. QED BY <1>7, <2>1, LenProperties
<1>12. Len(buf) < Len(w) => read < Len(Codec!Bytes(SubSeq(conversation, 1, Len(out) + 1)))
  BY <1>5, <1>6, <1>11
<1>13. QED BY <1>2, <1>3, <1>4, <1>8, <1>9, <1>10, <1>12

(* What has arrived is kept, and in its place, when more of it arrives.    *)
LEMMA ReadKeeps ==
  ASSUME Codec!Parameters, Codec!TypeOK, Codec!Kept,
         NEW n \in 1..(Len(Codec!Bytes(conversation)) - read), Codec!Read(n)
  PROVE  Codec!TypeOK' /\ Codec!Kept'
PROOF
<1>1. PICK c \in Conversations : c = conversation BY DEF Codec!TypeOK
<1>2. PICK B \in Seq(Codec!Units) : B = Codec!Bytes(c) BY RequestPlaced
<1>3. PICK L \in Nat : L = Len(B) BY LenProperties
<1>4. read \in 0..L /\ buf \in Seq(Codec!Units) BY <1>1, <1>2, <1>3 DEF Codec!TypeOK
<1>5. Len(out) \in 0..Len(c) BY <1>1, Buffered
<1>6. PICK m \in Nat : m = Len(Codec!Bytes(SubSeq(c, 1, Len(out)))) BY <1>5, RequestPlaced
<1>7. Len(buf) \in Nat BY <1>4, LenProperties
<1>8. read = m + Len(buf) /\ buf = SubSeq(B, m + 1, read)
  BY <1>1, <1>2, <1>6 DEF Codec!Kept
<1>9. PICK r \in Nat, q \in Nat : r = read /\ q = read + n /\ r <= q /\ q <= L /\ m <= r
  <2>1. n \in 1..(L - read) BY <1>1, <1>2, <1>3
  <2>2. read \in Nat /\ read + n \in Nat /\ read <= read + n /\ read + n <= L /\ m <= read
    BY <1>3, <1>4, <1>7, <1>8, <2>1
  <2>3. QED BY <2>2
<1>10. buf' = buf \o SubSeq(B, r + 1, q)
  BY <1>1, <1>2, <1>9 DEF Codec!Read
<1>11. buf = SubSeq(B, m + 1, r) BY <1>8, <1>9
<1>12. SubSeq(B, m + 1, r) \o SubSeq(B, r + 1, q) = SubSeq(B, m + 1, q)
  BY <1>3, <1>9, SlicesJoin
<1>13. buf' = SubSeq(B, m + 1, q) BY <1>10, <1>11, <1>12
<1>14. buf' \in Seq(Codec!Units) /\ Len(buf') = q - m
  <2>1. m <= q /\ q <= Len(B) BY <1>3, <1>9
  <2>2. SubSeq(B, m + 1, q) \in Seq(Codec!Units) /\ Len(SubSeq(B, m + 1, q)) = q - m
    BY <2>1, Slice
  <2>3. QED BY <1>13, <2>2
<1>15. read' = q /\ UNCHANGED <<conversation, out, eof, state>> /\ readable' = TRUE
  BY <1>9 DEF Codec!Read
<1>16. Codec!TypeOK'
  <2>1. read' \in 0..Len(Codec!Bytes(conversation)) BY <1>1, <1>2, <1>3, <1>9, <1>15
  <2>2. QED BY <1>14, <1>15, <2>1 DEF Codec!TypeOK
<1>17. Codec!Kept'
  <2>1. q = m + Len(buf') BY <1>9, <1>14
  <2>2. Len(out) <= Len(conversation) /\ out = SubSeq(conversation, 1, Len(out))
    BY DEF Codec!Kept
  <2>3. QED BY <1>1, <1>2, <1>6, <1>13, <1>15, <2>1, <2>2 DEF Codec!Kept
<1>18. QED BY <1>16, <1>17

(* A request handed on is the next one of the conversation, and takes its  *)
(* own bytes from the buffer, no more and no less.                         *)
LEMMA FrameKeeps ==
  ASSUME Codec!Parameters, Codec!TypeOK, Codec!Kept, Codec!Frame
  PROVE  Codec!TypeOK' /\ Codec!Kept'
PROOF
<1>1. PICK c \in Conversations : c = conversation BY DEF Codec!TypeOK
<1>2. PICK B \in Seq(Codec!Units) : B = Codec!Bytes(c) BY RequestPlaced
<1>3. PICK k \in Nat : k = Len(out) /\ k \in 0..Len(c) BY <1>1, Buffered
<1>4. PICK d : d = Codec!Decode(buf) OBVIOUS
<1>5. PICK r : r = conversation[k + 1] OBVIOUS
<1>6. /\ k + 1 \in 1..Len(c) /\ r \in Codec!Requests
      /\ d.head = r.head /\ d.body = r.body /\ Len(r.head \o r.body) <= Len(buf)
  BY <1>1, <1>3, <1>4, <1>5, Decoded DEF Codec!Frame
<1>7. PICK n \in Nat : n = Len(Codec!Bytes(SubSeq(c, 1, k))) BY <1>3, RequestPlaced
<1>8. c \in Seq(Codec!Requests) /\ Len(c) \in Nat BY LenProperties DEF Codec!Parameters
<1>9. PICK l \in Nat : l = Len(r.head \o r.body)
                       /\ Len(Codec!Bytes(SubSeq(c, 1, k + 1))) = n + l
  <2>1. k \in 0..(Len(c) - 1) BY <1>3, <1>6, <1>8
  <2>2. Len(r.head \o r.body) \in Nat
    <3>1. r.head \o r.body \in Seq(Codec!Units) BY <1>6, ConcatProperties DEF Codec!Requests
    <3>2. QED BY <3>1, LenProperties
  <2>3. Len(Codec!Bytes(SubSeq(c, 1, k + 1))) = n + Len(r.head \o r.body)
    BY <1>1, <1>5, <1>7, <2>1, RequestPlaced
  <2>4. QED BY <2>2, <2>3
<1>10. /\ read \in 0..Len(B) /\ buf \in Seq(Codec!Units) /\ Len(buf) \in Nat /\ Len(B) \in Nat
       /\ read = n + Len(buf) /\ buf = SubSeq(B, n + 1, read)
  BY <1>1, <1>2, <1>3, <1>7, LenProperties DEF Codec!TypeOK, Codec!Kept
<1>11. buf' = SubSeq(buf, l + 1, Len(buf)) BY <1>4, <1>6, <1>9 DEF Codec!Frame
<1>12. PICK q \in Nat : q = read /\ q - n = Len(buf) /\ n + l <= q /\ q <= Len(B) /\ l <= Len(buf)
  <2>1. l <= Len(buf) BY <1>6, <1>9
  <2>2. read \in Nat /\ read - n = Len(buf) /\ n + l <= read /\ read <= Len(B)
    BY <1>10, <2>1
  <2>3. QED BY <2>1, <2>2
<1>13. buf' = SubSeq(B, n + l + 1, q)
  <2>1. SubSeq(SubSeq(B, n + 1, q), l + 1, q - n) = SubSeq(B, n + l + 1, q)
    BY <1>12, SliceOfSlice
  <2>2. QED BY <1>10, <1>11, <1>12, <2>1
<1>14. PICK m \in Nat : m = n + l OBVIOUS
<1>15. buf' \in Seq(Codec!Units) /\ Len(buf') = q - m
  <2>1. SubSeq(B, m + 1, q) \in Seq(Codec!Units) /\ Len(SubSeq(B, m + 1, q)) = q - m
    BY <1>12, <1>14, Slice
  <2>2. QED BY <1>13, <1>14, <2>1
<1>16. out' = Append(out, r)
  <2>1. out' = Append(out, [head |-> d.head, body |-> d.body]) BY <1>4 DEF Codec!Frame
  <2>2. r = [head |-> r.head, body |-> r.body] BY <1>6 DEF Codec!Requests
  <2>3. QED BY <1>6, <2>1, <2>2
<1>17. out \in Seq(Codec!Requests) /\ out = SubSeq(c, 1, k)
  BY <1>1, <1>3 DEF Codec!TypeOK, Codec!Kept
<1>18. out' \in Seq(Codec!Requests) /\ Len(out') = k + 1
  BY <1>3, <1>6, <1>16, <1>17, AppendProperties
<1>19. out' = SubSeq(c, 1, k + 1)
  <2>1. k < Len(c) BY <1>3, <1>6, <1>8
  <2>2. SubSeq(c, 1, k + 1) = Append(SubSeq(c, 1, k), c[k + 1]) BY <1>3, <1>8, <2>1, NextPrefix
  <2>3. QED BY <1>1, <1>5, <1>16, <1>17, <2>2
<1>20. UNCHANGED <<conversation, read, readable, eof, state>> BY DEF Codec!Frame
<1>21. Codec!TypeOK' BY <1>15, <1>18, <1>20 DEF Codec!TypeOK
<1>22. Codec!Kept'
  <2>1. k + 1 <= Len(c) BY <1>6, <1>8
  <2>2. read = m + Len(buf') BY <1>10, <1>12, <1>14, <1>15
  <2>3. buf' = SubSeq(B, m + 1, read) BY <1>12, <1>13, <1>14
  <2>4. PICK j : j = k + 1 OBVIOUS
  <2>5. /\ Len(out') = j /\ j <= Len(c) /\ out' = SubSeq(c, 1, j)
        /\ Len(Codec!Bytes(SubSeq(c, 1, j))) = m
    BY <1>9, <1>14, <1>18, <1>19, <2>1, <2>4
  <2>6. QED BY <1>1, <1>2, <1>20, <2>2, <2>3, <2>5 DEF Codec!Kept
<1>23. QED BY <1>21, <1>22

(* The invariant of the decoding holds at the start ...                    *)
LEMMA CodecStarts ==
  ASSUME Codec!Parameters, Codec!Init
  PROVE  Codec!IInv
PROOF
<1>1. conversation \in Conversations BY DEF Codec!Init
<1>2. /\ Codec!Bytes(conversation) \in Seq(Codec!Units)
      /\ Len(Codec!Bytes(SubSeq(conversation, 1, 0))) = 0
  BY <1>1, RequestPlaced
<1>3. conversation \in Seq(Codec!Requests) BY <1>1 DEF Codec!Parameters
<1>4. Len(conversation) \in Nat /\ Len(Codec!Bytes(conversation)) \in Nat
  BY <1>2, <1>3, LenProperties
<1>5. Len(<<>>) = 0 /\ SubSeq(conversation, 1, 0) = <<>>
      /\ SubSeq(Codec!Bytes(conversation), 1, 0) = <<>>
  BY SubSeqEmpty
<1>6. Codec!TypeOK
  <2>1. buf \in Seq(Codec!Units) /\ out \in Seq(Codec!Requests) BY EmptySeq DEF Codec!Init
  <2>2. read \in 0..Len(Codec!Bytes(conversation)) BY <1>4 DEF Codec!Init
  <2>3. {readable, eof} \subseteq BOOLEAN /\ state = "open" BY DEF Codec!Init
  <2>4. QED BY <1>1, <2>1, <2>2, <2>3 DEF Codec!TypeOK
<1>7. Len(out) = 0 /\ Len(buf) = 0 BY <1>5 DEF Codec!Init
<1>8. Codec!Kept
  <2>1. read = 0 + Len(buf) /\ 0 + 1 = 1 /\ 0 <= Len(conversation) BY <1>4, <1>7 DEF Codec!Init
  <2>2. out = <<>> /\ buf = <<>> /\ read = 0 BY DEF Codec!Init
  <2>3. QED BY <1>2, <1>5, <1>7, <2>1, <2>2 DEF Codec!Kept
<1>9. Codec!RefusedForCause BY DEF Codec!Init, Codec!RefusedForCause
<1>10. Codec!NoneWaits
  <2>1. CASE Len(conversation) = 0 BY <1>7, <2>1 DEF Codec!NoneWaits
  <2>2. CASE Len(conversation) # 0
    <3>1. Len(out) # Len(conversation) BY <1>7, <2>2
    <3>2. PICK l \in Nat \ {0} : Len(Codec!Bytes(SubSeq(conversation, 1, Len(out) + 1)))
                                   = read - Len(buf) + l
      BY <1>6, <1>8, <3>1, Buffered
    <3>3. read = 0 BY DEF Codec!Init
    <3>4. read < Len(Codec!Bytes(SubSeq(conversation, 1, Len(out) + 1))) BY <1>7, <3>2, <3>3
    <3>5. QED BY <3>4 DEF Codec!NoneWaits
  <2>3. QED BY <2>1, <2>2
<1>11. QED BY <1>6, <1>8, <1>9, <1>10 DEF Codec!IInv

(* Why no request waits: a decoder that asks for more has not got all of   *)
(* the next one.                                                           *)
LEMMA AsksForMore ==
  ASSUME Codec!Parameters, Codec!TypeOK, Codec!Kept,
         buf = <<>> \/ Codec!Decode(buf).is = "more"
  PROVE  \/ Len(out) = Len(conversation)
         \/ read < Len(Codec!Bytes(SubSeq(conversation, 1, Len(out) + 1)))
         \/ Codec!Blank(conversation[Len(out) + 1])
PROOF
<1>1. CASE buf = <<>> /\ Len(out) # Len(conversation)
  <2>1. PICK l \in Nat \ {0} : Len(Codec!Bytes(SubSeq(conversation, 1, Len(out) + 1)))
                                 = read - Len(buf) + l
    BY <1>1, Buffered
  <2>2. Len(buf) = 0 /\ read \in Nat
    <3>1. Len(<<>>) = 0 OBVIOUS
    <3>2. read \in 0..Len(Codec!Bytes(conversation)) BY DEF Codec!TypeOK
    <3>3. QED BY <1>1, <3>1, <3>2
  <2>3. read < Len(Codec!Bytes(SubSeq(conversation, 1, Len(out) + 1))) BY <2>1, <2>2
  <2>4. QED BY <2>3
<1>2. CASE buf # <<>> BY <1>2, Decoded
<1>3. QED BY <1>1, <1>2

(* ... and every action keeps it.                                         *)
LEMMA CodecSteps ==
  ASSUME Codec!Parameters, Codec!IInv, [Codec!Next]_(Codec!vars)
  PROVE  Codec!IInv'
PROOF
<1>1. Codec!TypeOK /\ Codec!Kept /\ Codec!RefusedForCause /\ Codec!NoneWaits
  BY DEF Codec!IInv
<1>2. ASSUME NEW n \in 1..(Len(Codec!Bytes(conversation)) - read), Codec!Read(n)
      PROVE  Codec!IInv'
  <2>1. Codec!TypeOK' /\ Codec!Kept' BY <1>1, <1>2, ReadKeeps
  <2>2. state' = "open" /\ readable' = TRUE BY <1>2 DEF Codec!Read
  <2>3. Codec!RefusedForCause' BY <2>2 DEF Codec!RefusedForCause
  <2>4. Codec!NoneWaits' BY <2>2 DEF Codec!NoneWaits
  <2>5. QED BY <2>1, <2>3, <2>4 DEF Codec!IInv
<1>3. ASSUME Codec!ReadEof PROVE Codec!IInv'
  <2>1. state' = "open" /\ readable' = TRUE /\ eof' = TRUE
        /\ UNCHANGED <<conversation, read, buf, out, state>>
    BY <1>3 DEF Codec!ReadEof
  <2>2. Codec!TypeOK' BY <1>1, <2>1 DEF Codec!TypeOK
  <2>3. Codec!Kept' BY <1>1, <2>1 DEF Codec!Kept
  <2>4. Codec!RefusedForCause' BY <2>1 DEF Codec!RefusedForCause
  <2>5. Codec!NoneWaits' BY <2>1 DEF Codec!NoneWaits
  <2>6. QED BY <2>2, <2>3, <2>4, <2>5 DEF Codec!IInv
<1>4. ASSUME Codec!Frame PROVE Codec!IInv'
  <2>1. Codec!TypeOK' /\ Codec!Kept' BY <1>1, <1>4, FrameKeeps
  <2>2. state' = "open" /\ readable' = TRUE
    <3>1. readable = TRUE BY <1>1, <1>4 DEF Codec!Frame, Codec!TypeOK
    <3>2. QED BY <1>4, <3>1 DEF Codec!Frame
  <2>3. Codec!RefusedForCause' BY <2>2 DEF Codec!RefusedForCause
  <2>4. Codec!NoneWaits' BY <2>2 DEF Codec!NoneWaits
  <2>5. QED BY <2>1, <2>3, <2>4 DEF Codec!IInv
<1>5. ASSUME Codec!NeedMore PROVE Codec!IInv'
  <2>1. state' = "open" /\ readable' = FALSE
        /\ UNCHANGED <<conversation, read, buf, eof, out, state>>
    BY <1>5 DEF Codec!NeedMore
  <2>2. Codec!TypeOK' BY <1>1, <2>1 DEF Codec!TypeOK
  <2>3. Codec!Kept' BY <1>1, <2>1 DEF Codec!Kept
  <2>4. Codec!RefusedForCause' BY <2>1 DEF Codec!RefusedForCause
  <2>5. \/ Len(out) = Len(conversation)
        \/ read < Len(Codec!Bytes(SubSeq(conversation, 1, Len(out) + 1)))
        \/ Codec!Blank(conversation[Len(out) + 1])
    BY <1>1, <1>5, AsksForMore DEF Codec!NeedMore
  <2>6. Codec!NoneWaits' BY <2>1, <2>5 DEF Codec!NoneWaits
  <2>7. QED BY <2>2, <2>3, <2>4, <2>6 DEF Codec!IInv
<1>6. ASSUME Codec!Refuse PROVE Codec!IInv'
  <2>1. state' = "refused" /\ UNCHANGED <<conversation, read, buf, readable, eof, out>>
    BY <1>6 DEF Codec!Refuse
  <2>2. Codec!TypeOK' BY <1>1, <2>1 DEF Codec!TypeOK
  <2>3. Codec!Kept' BY <1>1, <2>1 DEF Codec!Kept
  <2>4. /\ Len(out) + 1 \in 1..Len(conversation)
        /\ \/ ~Codec!Good(conversation[Len(out) + 1])
           \/ eof /\ read < Len(Codec!Bytes(SubSeq(conversation, 1, Len(out) + 1)))
           \/ Codec!Blank(conversation[Len(out) + 1])
    <3>1. buf # <<>> /\ (Codec!Decode(buf).is = "error" \/ (eof /\ Codec!Decode(buf).is = "more"))
      BY <1>6 DEF Codec!Refuse
    <3>2. QED BY <1>1, <3>1, Decoded
  <2>5. Len(out) < Len(conversation)
    <3>1. Len(out) \in 0..Len(conversation) BY <1>1, Buffered
    <3>2. QED BY <2>4, <3>1
  <2>6. Codec!RefusedForCause' BY <2>1, <2>4, <2>5 DEF Codec!RefusedForCause
  <2>7. Codec!NoneWaits' BY <2>1 DEF Codec!NoneWaits
  <2>8. QED BY <2>2, <2>3, <2>6, <2>7 DEF Codec!IInv
<1>7. ASSUME Codec!End PROVE Codec!IInv'
  <2>1. state' = "ended" /\ UNCHANGED <<conversation, read, buf, readable, eof, out>>
    BY <1>7 DEF Codec!End
  <2>2. Codec!TypeOK' BY <1>1, <2>1 DEF Codec!TypeOK
  <2>3. Codec!Kept' BY <1>1, <2>1 DEF Codec!Kept
  <2>4. Codec!RefusedForCause' BY <2>1 DEF Codec!RefusedForCause
  <2>5. \/ Len(out) = Len(conversation)
        \/ read < Len(Codec!Bytes(SubSeq(conversation, 1, Len(out) + 1)))
        \/ Codec!Blank(conversation[Len(out) + 1])
    BY <1>1, <1>7, AsksForMore DEF Codec!End
  <2>6. Codec!NoneWaits' BY <2>1, <2>5 DEF Codec!NoneWaits
  <2>7. QED BY <2>2, <2>3, <2>4, <2>6 DEF Codec!IInv
<1>8. ASSUME Codec!ReadTimeout PROVE Codec!IInv'
  <2>1. state' = "timed out" /\ UNCHANGED <<conversation, read, buf, readable, eof, out>>
    BY <1>8 DEF Codec!ReadTimeout
  <2>2. Codec!TypeOK' BY <1>1, <2>1 DEF Codec!TypeOK
  <2>3. Codec!Kept' BY <1>1, <2>1 DEF Codec!Kept
  <2>4. Codec!RefusedForCause' BY <2>1 DEF Codec!RefusedForCause
  <2>5. Codec!NoneWaits' BY <1>1, <1>8, <2>1 DEF Codec!NoneWaits, Codec!ReadTimeout
  <2>6. QED BY <2>2, <2>3, <2>4, <2>5 DEF Codec!IInv
<1>9. ASSUME UNCHANGED Codec!vars PROVE Codec!IInv'
  <2>1. UNCHANGED <<conversation, read, buf, readable, eof, out, state>> BY <1>9 DEF Codec!vars
  <2>2. Codec!TypeOK' BY <1>1, <2>1 DEF Codec!TypeOK
  <2>3. Codec!Kept' BY <1>1, <2>1 DEF Codec!Kept
  <2>4. Codec!RefusedForCause' BY <1>1, <2>1 DEF Codec!RefusedForCause
  <2>5. Codec!NoneWaits' BY <1>1, <2>1 DEF Codec!NoneWaits
  <2>6. QED BY <2>2, <2>3, <2>4, <2>5 DEF Codec!IInv
<1>10. QED
  BY <1>2, <1>3, <1>4, <1>5, <1>6, <1>7, <1>8, <1>9 DEF Codec!Next

(* The requests handed on are a prefix of the conversation.                *)
LEMMA KeptAsSent ==
  ASSUME Codec!Parameters, Codec!TypeOK, Codec!Kept
  PROVE  Codec!AsSent
PROOF
<1>1. Len(out) <= Len(conversation) /\ out = SubSeq(conversation, 1, Len(out))
  BY DEF Codec!Kept
<1>2. out \in Seq(Codec!Requests) BY DEF Codec!TypeOK
<1>3. SubSeq(out, 1, Len(out)) = out BY <1>2, SubSeqFull
<1>4. QED BY Zenon, <1>1, <1>3 DEF Codec!AsSent, Codec!IsPrefix

(* However a stream of well-formed requests is cut, and whatever the       *)
(* limits of the server, the router gets the requests the client sent, one *)
(* by one and in order (the loop over framed.next() in handle_connection); *)
(* a connection is refused only for its next request, and no request that  *)
(* has arrived whole waits.                                                *)
THEOREM RequestsAreAsSent ==
  ASSUME Codec!Parameters
  PROVE  Codec!Spec => []RequestsAsSent
PROOF
<1>1. Codec!Init => Codec!IInv BY CodecStarts
<1>2. Codec!IInv /\ [Codec!Next]_(Codec!vars) => Codec!IInv' BY CodecSteps
<1>3. Codec!IInv => RequestsAsSent BY KeptAsSent DEF Codec!IInv, RequestsAsSent
<1>4. QED BY <1>1, <1>2, <1>3, PTL DEF Codec!Spec

-----------------------------------------------------------------------------
(* The reading of a response.                                              *)

(* A bounded set of natural numbers has a largest element.                 *)
LEMMA LargestOfBounded ==
  ASSUME NEW n \in Nat, NEW S \in SUBSET (1..n), S # {}
  PROVE  \E m \in S : \A x \in S : x <= m
PROOF
<1>1. PICK T : T = {k \in Nat : \A x \in S : x <= k} OBVIOUS
<1>2. n \in T BY <1>1
<1>3. T \in SUBSET Nat /\ T # {} BY <1>1, <1>2
<1>4. PICK m \in T : \A k \in T : m <= k BY <1>3, LeastOfNaturals
<1>5. m \in Nat /\ \A x \in S : x \in Nat /\ x > 0 /\ x <= m BY <1>1
<1>6. m \in S
  <2>1. SUFFICES ASSUME m \notin S PROVE FALSE
    OBVIOUS
  <2>2. \A x \in S : x <= m - 1 BY <1>5, <2>1
  <2>3. m # 0
    <3>1. PICK x \in S : TRUE OBVIOUS
    <3>2. QED BY <1>5, <3>1
  <2>4. m - 1 \in Nat /\ ~ (m <= m - 1) BY <1>5, <2>3
  <2>5. m - 1 \in T BY <1>1, <2>2, <2>4
  <2>6. QED BY <1>4, <2>4, <2>5
<1>7. QED BY <1>5, <1>6

(* The length that a head declares is one of its fields.                   *)
LEMMA DeclaredIn ==
  ASSUME NEW fields \in Seq(Response!Tokens), Response!Declares(fields)
  PROVE  /\ Response!Declared(fields) \in DOMAIN Response!Lengths \cup {Response!Invalid}
         /\ \E i \in 1..Len(fields) : fields[i] = Response!Declared(fields)
PROOF
<1>1. PICK n \in Nat : n = Len(fields) /\ DOMAIN fields = 1..n BY LenProperties
<1>2. PICK V : V = DOMAIN Response!Lengths \cup {Response!Invalid} OBVIOUS
<1>3. PICK E : E = {i \in DOMAIN fields : fields[i] \in V} OBVIOUS
<1>4. PICK i \in DOMAIN fields : fields[i] \in V
  BY <1>2 DEF Response!Declares, Response!ToSet
<1>5. E # {} /\ E \in SUBSET (1..n) BY <1>1, <1>3, <1>4
<1>6. PICK m \in E : \A x \in E : x <= m BY <1>5, LargestOfBounded
<1>7. \A x \in E : x \in Nat BY <1>5
<1>8. \E x \in E : \A y \in E : x >= y BY <1>6, <1>7
<1>9. Response!Max(E) \in E BY <1>8 DEF Response!Max
<1>10. Response!Declared(fields) = fields[Response!Max(E)]
  BY <1>2, <1>3 DEF Response!Declared
<1>11. QED BY <1>1, <1>2, <1>3, <1>9, <1>10

(* The bytes of the body among the first tokens of a response.             *)
Gathered(s, n) == Response!BodyOf(SubSeq(s, 1, n))

(* They are gathered one by one.                                           *)
LEMMA BodyJoined ==
  ASSUME NEW s \in Seq(Response!Tokens)
  PROVE  \E p, f :
           /\ p \in Seq(Seq(Response!Data))
           /\ Len(p) = Len(s) /\ Joined(Response!Data, p, f, Len(p))
           /\ \A k \in 1..Len(s) : p[k] = IF s[k] \in Response!Data THEN <<s[k]>> ELSE <<>>
           /\ \A k \in 0..Len(s) : Gathered(s, k) = f[k]
           /\ Response!BodyOf(s) = f[Len(s)]
PROOF
<1> DEFINE Piece(x) == IF x \in Response!Data THEN <<x>> ELSE <<>>
<1>1. Len(s) \in Nat /\ DOMAIN s = 1..Len(s) BY LenProperties
<1>2. PICK p : p = [k \in 1..Len(s) |-> Piece(s[k])] OBVIOUS
<1>3. ASSUME NEW x PROVE Piece(x) \in Seq(Response!Data)
  <2>1. CASE x \in Response!Data BY <2>1
  <2>2. CASE x \notin Response!Data BY <2>2, EmptySeq
  <2>3. QED BY <2>1, <2>2
<1>4. p \in Seq(Seq(Response!Data)) /\ Len(p) = Len(s)
  <2>1. p \in [1..Len(s) -> Seq(Response!Data)] BY <1>2, <1>3
  <2>2. QED BY <1>1, <2>1
<1>5. PICK f : Joined(Response!Data, p, f, Len(p)) BY <1>4, JoinedExists
<1>6. ASSUME NEW k \in 0..Len(s) PROVE Gathered(s, k) = f[k]
  <2>1. PICK q : q = SubSeq(s, 1, k) OBVIOUS
  <2>2. k \in Nat /\ 1 \in Int /\ k \in Int BY <1>1
  <2>3. \A i \in 1..k : s[i] \in Response!Tokens BY <1>1, <2>2, ElementOfSeq
  <2>4. q \in Seq(Response!Tokens) /\ Len(q) = k /\ \A i \in 1..k : q[i] = s[i]
    BY <2>1, <2>2, <2>3, SubSeqProperties
  <2>5. DOMAIN q = 1..k BY <2>4, LenProperties
  <2>6. PICK t : t = SubSeq(p, 1, k) OBVIOUS
  <2>7. \A i \in 1..k : p[i] \in Seq(Response!Data) BY <1>1, <1>2, <1>3, <2>2
  <2>8. t \in Seq(Seq(Response!Data)) /\ Len(t) = k /\ \A i \in 1..k : t[i] = p[i]
    BY <2>2, <2>6, <2>7, SubSeqProperties
  <2>9. ASSUME NEW i \in 1..k
        PROVE  t[i] = IF q[i] \in Response!Data THEN <<q[i]>> ELSE <<>>
    <3>1. i \in 1..Len(s) BY <1>1, <2>2
    <3>2. p[i] = Piece(s[i]) BY <1>2, <3>1
    <3>3. q[i] = s[i] /\ t[i] = p[i] BY <2>4, <2>8
    <3>4. t[i] = Piece(q[i]) BY <3>2, <3>3
    <3>5. QED BY <3>4
  <2>10. t = [i \in 1..k |-> t[i]] BY <2>8, LenProperties
  <2>11. t = [i \in DOMAIN q |-> IF q[i] \in Response!Data THEN <<q[i]>> ELSE <<>>]
    BY <2>5, <2>9, <2>10
  <2>12. Response!BodyOf(q) = Response!FlattenSeq(t) BY <2>11 DEF Response!BodyOf
  <2>13. QED BY <1>4, <1>5, <2>1, <2>6, <2>12, FlattenIsJoined DEF Gathered
<1>7. Response!BodyOf(s) = f[Len(s)]
  <2>1. SubSeq(s, 1, Len(s)) = s BY SubSeqFull
  <2>2. Len(s) \in 0..Len(s) BY <1>1
  <2>3. QED BY <1>6, <2>1, <2>2 DEF Gathered
<1>8. ASSUME NEW k \in 1..Len(s)
      PROVE  p[k] = IF s[k] \in Response!Data THEN <<s[k]>> ELSE <<>>
  BY <1>2
<1>9. QED BY <1>4, <1>5, <1>6, <1>7, <1>8

(* One token more: a byte of the body is gathered, a line is not.          *)
LEMMA GatherOne ==
  ASSUME NEW s \in Seq(Response!Tokens), NEW n \in Nat, n < Len(s)
  PROVE  /\ Gathered(s, n) \in Seq(Response!Data)
         /\ Gathered(s, n + 1) = IF s[n + 1] \in Response!Data
                                 THEN Append(Gathered(s, n), s[n + 1]) ELSE Gathered(s, n)
PROOF
<1>1. PICK p, f :
        /\ p \in Seq(Seq(Response!Data))
        /\ Len(p) = Len(s) /\ Joined(Response!Data, p, f, Len(p))
        /\ \A k \in 1..Len(s) : p[k] = IF s[k] \in Response!Data THEN <<s[k]>> ELSE <<>>
        /\ \A k \in 0..Len(s) : Gathered(s, k) = f[k]
        /\ Response!BodyOf(s) = f[Len(s)]
  BY BodyJoined
<1>2. PICK L \in Nat : L = Len(s) BY LenProperties
<1>3. PICK j \in Nat : j = n + 1 OBVIOUS
<1>4. j \in 1..L /\ n \in 0..L /\ j \in 0..L /\ j - 1 = n BY <1>2, <1>3
<1>5. Gathered(s, n) = f[n] /\ Gathered(s, j) = f[j] BY <1>1, <1>2, <1>4
<1>6. f[j] = f[n] \o p[j] /\ f[n] \in Seq(Response!Data) BY <1>1, <1>2, <1>4 DEF Joined
<1>7. p[j] = IF s[j] \in Response!Data THEN <<s[j]>> ELSE <<>> BY <1>1, <1>2, <1>4
<1>8. CASE s[j] \in Response!Data
  <2>1. PICK a \in Seq(Response!Data) : a = f[n] BY <1>6
  <2>2. Append(a, s[j]) = a \o <<s[j]>> BY <1>8, AppendIsConcat
  <2>3. QED BY <1>3, <1>5, <1>6, <1>7, <1>8, <2>1, <2>2
<1>9. CASE s[j] \notin Response!Data
  <2>1. PICK a \in Seq(Response!Data) : a = f[n] BY <1>6
  <2>2. a \o <<>> = a BY ConcatEmptySeq
  <2>3. QED BY <1>3, <1>5, <1>6, <1>7, <1>9, <2>1, <2>2
<1>10. QED BY <1>8, <1>9

(* What has been gathered is where the body begins, and all of it at the   *)
(* end.                                                                    *)
LEMMA GatheredPrefix ==
  ASSUME NEW s \in Seq(Response!Tokens), NEW n \in Nat, n <= Len(s)
  PROVE  /\ Gathered(s, n) \in Seq(Response!Data)
         /\ Response!IsPrefix(Gathered(s, n), Response!BodyOf(s))
         /\ Gathered(s, 0) = <<>> /\ Gathered(s, Len(s)) = Response!BodyOf(s)
PROOF
<1>1. PICK p, f :
        /\ p \in Seq(Seq(Response!Data))
        /\ Len(p) = Len(s) /\ Joined(Response!Data, p, f, Len(p))
        /\ \A k \in 1..Len(s) : p[k] = IF s[k] \in Response!Data THEN <<s[k]>> ELSE <<>>
        /\ \A k \in 0..Len(s) : Gathered(s, k) = f[k]
        /\ Response!BodyOf(s) = f[Len(s)]
  BY BodyJoined
<1>2. PICK L \in Nat : L = Len(s) BY LenProperties
<1>3. n \in 0..L /\ 0 \in 0..L /\ L \in 0..L /\ n <= L /\ L <= Len(p) BY <1>1, <1>2
<1>4. PICK a \in Seq(Response!Data), b \in Seq(Response!Data) :
           a = Gathered(s, n) /\ b = Response!BodyOf(s) /\ a = f[n] /\ b = f[L]
    BY <1>1, <1>2, <1>3 DEF Joined
<1>5. Len(f[n]) <= Len(f[L]) /\ \A i \in 1..Len(f[n]) : f[L][i] = f[n][i]
  <2>1. p \in Seq(Seq(Response!Data)) /\ Joined(Response!Data, p, f, Len(p)) BY <1>1
  <2>2. QED BY <1>3, <2>1, JoinedGrows
<1>6. Len(a) <= Len(b) /\ \A i \in 1..Len(a) : b[i] = a[i] BY <1>4, <1>5
<1>7. PICK l \in Nat : l = Len(a) BY LenProperties
<1>8. Len(b) \in Nat BY LenProperties
<1>9. l <= Len(b) /\ 0 <= l /\ 0 + 1 = 1 BY <1>6, <1>7
<1>10. SubSeq(a, 1, l) = a BY <1>7, SubSeqFull
<1>11. SubSeq(b, 1, l) = a
  <2>1. 1 \in Int /\ l \in Int /\ \A i \in 1..l : b[i] \in Response!Data
    BY <1>8, <1>9, ElementOfSeq
  <2>2. PICK c \in Seq(Response!Data) : c = SubSeq(b, 1, l)
    <3>1. SubSeq(b, 1, l) \in Seq(Response!Data) BY <2>1, SubSeqProperties
    <3>2. QED BY <3>1
  <2>3. Len(c) = l /\ \A i \in 1..l : c[i] = b[i] BY <2>1, <2>2, SubSeqProperties
  <2>4. c = a BY <1>6, <1>7, <2>3, SeqEqual
  <2>5. QED BY <2>2, <2>4
<1>12. Response!IsPrefix(a, b) BY <1>7, <1>9, <1>10, <1>11 DEF Response!IsPrefix
<1>13. Gathered(s, 0) = <<>> BY <1>1, <1>2, <1>3 DEF Joined
<1>14. Gathered(s, Len(s)) = Response!BodyOf(s) BY <1>1, <1>2, <1>3
<1>15. QED BY <1>4, <1>12, <1>13, <1>14

(* A run of lines adds nothing, ...                                        *)
LEMMA GatherLines ==
  ASSUME NEW s \in Seq(Response!Tokens), NEW n \in Nat, NEW m \in Nat, n <= m, m <= Len(s),
         \A i \in (n + 1)..m : s[i] \notin Response!Data
  PROVE  Gathered(s, m) = Gathered(s, n)
PROOF
<1>1. Len(s) \in Nat BY LenProperties
<1>2. PICK N : N = {j \in Nat : n + j <= m => Gathered(s, n + j) = Gathered(s, n)} OBVIOUS
<1>3. 0 \in N
  <2>1. n + 0 = n OBVIOUS
  <2>2. QED BY <1>2, <2>1
<1>4. ASSUME NEW j \in Nat, j \in N PROVE j + 1 \in N
  <2>1. SUFFICES ASSUME n + (j + 1) <= m PROVE Gathered(s, n + (j + 1)) = Gathered(s, n)
    BY <1>2
  <2>2. PICK k \in Nat : k = n + j OBVIOUS
  <2>3. n + (j + 1) = k + 1 /\ k < Len(s) /\ k + 1 \in (n + 1)..m /\ k <= m
    BY <1>1, <2>1, <2>2
  <2>4. Gathered(s, k) = Gathered(s, n) BY <1>2, <1>4, <2>2, <2>3
  <2>5. Gathered(s, k + 1) = Gathered(s, k)
    <3>1. s[k + 1] \notin Response!Data BY <2>3
    <3>2. QED BY <2>3, <3>1, GatherOne
  <2>6. QED BY <2>3, <2>4, <2>5
<1>5. \A j \in Nat : j \in N BY <1>3, <1>4, InductionOnSets
<1>6. PICK j \in Nat : m = n + j
  <2>1. m - n \in Nat /\ m = n + (m - n) OBVIOUS
  <2>2. QED BY <2>1
<1>7. j \in N BY <1>5
<1>8. QED BY <1>2, <1>6, <1>7

(* ... so that the body is whole once no byte is left, ...                 *)
LEMMA NothingMore ==
  ASSUME NEW s \in Seq(Response!Tokens), NEW n \in Nat, n <= Len(s),
         \A i \in 1..Len(s) : n < i => s[i] \notin Response!Data
  PROVE  Gathered(s, n) = Response!BodyOf(s)
PROOF
<1>1. PICK m \in Nat : m = Len(s) BY LenProperties
<1>2. \A i \in (n + 1)..m : i \in 1..Len(s) /\ n < i BY <1>1
<1>3. n <= m /\ m <= Len(s) BY <1>1
<1>4. Gathered(s, m) = Gathered(s, n) BY <1>2, <1>3, GatherLines
<1>5. Gathered(s, m) = Response!BodyOf(s) BY <1>1, GatheredPrefix
<1>6. QED BY <1>4, <1>5

(* ... and a run of bytes is gathered whole.                               *)
LEMMA GatherData ==
  ASSUME NEW s \in Seq(Response!Tokens), NEW n \in Nat, NEW m \in Nat, n <= m, m <= Len(s),
         \A i \in (n + 1)..m : s[i] \in Response!Data
  PROVE  Gathered(s, m) = Gathered(s, n) \o SubSeq(s, n + 1, m)
PROOF
<1>1. Len(s) \in Nat BY LenProperties
<1>2. PICK g \in Seq(Response!Tokens) : g = Gathered(s, n)
  <2>1. Gathered(s, n) \in Seq(Response!Data) BY <1>1, GatheredPrefix
  <2>2. Response!Data \subseteq Response!Tokens BY DEF Response!Tokens
  <2>3. Gathered(s, n) \in Seq(Response!Tokens) BY <2>1, <2>2, SeqMonotonic
  <2>4. QED BY <2>3
<1> DEFINE Whole(k) == Gathered(s, k) = g \o SubSeq(s, n + 1, k)
<1> HIDE DEF Whole
<1>3. PICK N : N = {j \in Nat : n + j <= m => Whole(n + j)} OBVIOUS
<1>4. 0 \in N
  <2>1. n + 0 = n /\ n < n + 1 OBVIOUS
  <2>2. SubSeq(s, n + 1, n) = <<>> BY <2>1, SubSeqEmpty
  <2>3. g \o <<>> = g BY ConcatEmptySeq
  <2>4. Whole(n) BY <1>2, <2>2, <2>3 DEF Whole
  <2>5. QED BY <1>3, <2>1, <2>4
<1>5. ASSUME NEW j \in Nat, j \in N PROVE j + 1 \in N
  <2>1. SUFFICES ASSUME NEW l \in Nat, l = n + (j + 1), l <= m PROVE Whole(l)
    BY <1>3
  <2>2. PICK k \in Nat : k = n + j OBVIOUS
  <2>3. l = k + 1 BY <2>1, <2>2
  <2>4. /\ k < Len(s) /\ l \in (n + 1)..m /\ k <= m /\ n <= k
        /\ l \in 1..Len(s) /\ l <= Len(s) /\ k <= l
    BY <1>1, <2>1, <2>2, <2>3
  <2>5. Gathered(s, k) = g \o SubSeq(s, n + 1, k) BY <1>3, <1>5, <2>2, <2>4 DEF Whole
  <2>6. Gathered(s, l) = Append(Gathered(s, k), s[l])
    <3>1. s[l] \in Response!Data BY <2>4
    <3>2. QED BY <2>3, <2>4, <3>1, GatherOne
  <2>7. PICK c \in Seq(Response!Tokens) : c = SubSeq(s, n + 1, k)
    <3>1. k <= Len(s) BY <2>4
    <3>2. SubSeq(s, n + 1, k) \in Seq(Response!Tokens) BY <2>4, <3>1, Slice
    <3>3. QED BY <3>2
  <2>8. PICK x \in Response!Tokens : x = s[l] BY <2>4, ElementOfSeq
  <2>9. SubSeq(s, n + 1, l) = c \o <<x>>
    <3>1. SubSeq(s, n + 1, k) \o SubSeq(s, k + 1, l) = SubSeq(s, n + 1, l)
      BY <2>4, SlicesJoin
    <3>2. SubSeq(s, l, l) = <<x>> BY <2>4, <2>8, SliceOfOne
    <3>3. QED BY <2>3, <2>7, <3>1, <3>2
  <2>10. Append(g \o c, x) = g \o (c \o <<x>>)
    <3>1. g \o c \in Seq(Response!Tokens) BY ConcatProperties
    <3>2. Append(g \o c, x) = (g \o c) \o <<x>> BY <3>1, AppendIsConcat
    <3>3. <<x>> \in Seq(Response!Tokens) OBVIOUS
    <3>4. (g \o c) \o <<x>> = g \o (c \o <<x>>) BY <3>3, ConcatAssociative
    <3>5. QED BY <3>2, <3>4
  <2>11. QED BY <2>5, <2>6, <2>7, <2>8, <2>9, <2>10 DEF Whole
<1>6. \A j \in Nat : j \in N BY <1>4, <1>5, InductionOnSets
<1>7. PICK j \in Nat : m = n + j
  <2>1. m - n \in Nat /\ m = n + (m - n) OBVIOUS
  <2>2. QED BY <2>1
<1>8. Whole(m)
  <2>1. j \in N BY <1>6
  <2>2. QED BY <1>3, <1>7, <2>1
<1>9. QED BY <1>2, <1>8 DEF Whole

(* A response is as its server means it, from the blank line after its     *)
(* head on.                                                                *)
LEMMA HeadEndIs ==
  ASSUME Response!Parameters, sent \in Responses
  PROVE  /\ sent \in Seq(Response!Tokens) /\ Response!HeadEnd \in 2..Len(sent)
         /\ Response!MeantAt(sent, Response!HeadEnd)
PROOF
<1>1. sent \in Seq(Response!Tokens) BY DEF Response!Parameters
<1>2. PICK e \in 2..Len(sent) : Response!MeantAt(sent, e) BY DEF Response!Parameters
<1>3. Len(sent) \in Nat /\ DOMAIN sent = 1..Len(sent) BY <1>1, LenProperties
<1>4. PICK E : E = {i \in DOMAIN sent : sent[i] = Response!End} OBVIOUS
<1>5. sent[e] = Response!End /\ \A i \in 1..(e - 1) : sent[i] # Response!End
  BY <1>2 DEF Response!MeantAt
<1>6. e \in E BY <1>3, <1>4, <1>5
<1>7. \A i \in E : e <= i
  <2>1. SUFFICES ASSUME NEW i \in E, ~ (e <= i) PROVE FALSE
    OBVIOUS
  <2>2. i \in 1..Len(sent) /\ sent[i] = Response!End BY <1>3, <1>4
  <2>3. i \in 1..(e - 1) BY <1>3, <2>1, <2>2
  <2>4. QED BY <1>5, <2>2, <2>3
<1>8. PICK m : m = Response!Min(E) OBVIOUS
<1>9. m \in E /\ \A i \in E : m <= i BY <1>6, <1>7, <1>8 DEF Response!Min
<1>10. E \in SUBSET Nat BY <1>3, <1>4
<1>11. m = e
  <2>1. m <= e /\ e <= m /\ m \in Nat /\ e \in Nat BY <1>6, <1>7, <1>9, <1>10
  <2>2. QED BY <2>1
<1>12. Response!HeadEnd = e BY <1>4, <1>8, <1>11 DEF Response!HeadEnd
<1>13. QED BY <1>1, <1>2, <1>12

(* Where the reader is.                                                    *)
LEMMA Place ==
  ASSUME Response!Parameters, Response!TypeOK, Response!Placed
  PROVE  /\ sent \in Seq(Response!Tokens) /\ Len(sent) \in Nat /\ Response!HeadEnd \in 2..Len(sent)
         /\ pos \in Nat /\ arrived \in Nat /\ pos <= arrived /\ arrived <= Len(sent)
         /\ Len(Response!AtHand) = arrived - pos
         /\ \A i \in 1..(arrived - pos) : Response!AtHand[i] = sent[pos + i]
         /\ Response!AtHand = <<>> <=> pos = arrived
         /\ phase # "error" => body = Gathered(sent, pos) /\ head = Response!Fields
PROOF
<1>1. sent \in Seq(Response!Tokens) /\ Response!HeadEnd \in 2..Len(sent)
  BY HeadEndIs DEF Response!TypeOK
<1>2. Len(sent) \in Nat BY <1>1, LenProperties
<1>3. pos \in Nat /\ arrived \in Nat /\ pos <= arrived /\ arrived <= Len(sent)
  <2>1. arrived \in 0..Len(sent) /\ pos \in 0..arrived BY DEF Response!TypeOK
  <2>2. QED BY <1>2, <2>1
<1>4. PICK a : a = Response!AtHand OBVIOUS
<1>5. /\ a \in Seq(Response!Tokens) /\ Len(a) = arrived - pos
      /\ \A i \in 1..(arrived - pos) : a[i] = sent[pos + i]
  BY <1>1, <1>3, <1>4, Slice DEF Response!AtHand
<1>6. a = <<>> <=> pos = arrived
  <2>1. a = <<>> <=> Len(a) = 0 BY <1>5, EmptySeq, SeqEqual
  <2>2. QED BY <1>3, <1>5, <2>1
<1>7. phase # "error" => body = Gathered(sent, pos) /\ head = Response!Fields
  BY DEF Response!Placed, Gathered
<1>8. QED BY <1>1, <1>2, <1>3, <1>4, <1>5, <1>6, <1>7

(* A reading that fails keeps the beginning of the body that it has.       *)
LEMMA FailKeeps ==
  ASSUME Response!Parameters, Response!IInv, Response!Fail,
         UNCHANGED <<sent, arrived, closed>>, pos' \in Nat, pos <= pos', pos' <= arrived
  PROVE  Response!IInv'
PROOF
<1>1. Response!TypeOK /\ Response!Placed BY DEF Response!IInv
<1>2. phase' = "error" /\ UNCHANGED <<head, left, body, empty>> BY DEF Response!Fail
<1>3. pos \in Nat /\ arrived \in Nat BY <1>1, Place
<1>4. Response!TypeOK' BY <1>1, <1>2, <1>3 DEF Response!TypeOK
<1>5. Response!Placed'
  <2>1. PICK n \in 0..pos : body = Response!BodyOf(SubSeq(sent, 1, n))
    BY <1>1 DEF Response!Placed
  <2>2. n \in 0..pos' BY <1>3, <2>1
  <2>3. body' = Response!BodyOf(SubSeq(sent', 1, n)) BY <1>2, <2>1
  <2>4. phase' \notin Response!Parsed /\ phase' # "status" /\ phase' # "head"
    BY <1>2 DEF Response!Parsed
  <2>5. QED BY <1>2, <2>2, <2>3, <2>4 DEF Response!Placed
<1>6. Response!Knows' BY <1>2 DEF Response!Knows
<1>7. QED BY <1>4, <1>5, <1>6 DEF Response!IInv

(* Behind the head: the body is gathered up to the place of the reader.    *)
LEMMA Advances ==
  ASSUME Response!Parameters, Response!TypeOK, Response!Placed, phase \in Response!Parsed,
         UNCHANGED <<sent, arrived, closed, head>>, pos' \in Nat, pos <= pos', pos' <= arrived,
         body' = Gathered(sent, pos'), phase' \in Response!Parsed, left' \in Nat, empty' \in 0..2
  PROVE  Response!TypeOK' /\ Response!Placed'
PROOF
<1>1. /\ sent \in Seq(Response!Tokens) /\ Len(sent) \in Nat /\ Response!HeadEnd \in 2..Len(sent)
      /\ pos \in Nat /\ arrived \in Nat /\ pos <= arrived /\ arrived <= Len(sent)
  BY Place
<1>2. phase # "error" /\ phase' \notin {"error", "status", "head"}
      /\ phase' \in Response!Reading \cup {"ok", "error"}
  BY DEF Response!Parsed, Response!Reading
<1>3. body' \in Seq(Response!Data)
  <2>1. pos' <= Len(sent) BY <1>1
  <2>2. QED BY <1>1, <2>1, GatheredPrefix
<1>4. Response!TypeOK'
  <2>1. \A i \in DOMAIN body' : body'[i] \in Response!Data BY <1>3, LenProperties, ElementOfSeq
  <2>2. pos' \in 0..arrived BY <1>1
  <2>3. QED BY <1>2, <2>1, <2>2 DEF Response!TypeOK
<1>5. Response!HeadEnd' = Response!HeadEnd BY DEF Response!HeadEnd
<1>6. pos < Response!HeadEnd => closed = "between" /\ arrived = pos BY DEF Response!Placed
<1>7. Response!Fields' = Response!Fields
  <2>1. CASE pos < Response!HeadEnd
    <3>1. pos' = pos BY <1>1, <1>6, <2>1
    <3>2. QED BY <1>5, <3>1 DEF Response!Fields
  <2>2. CASE ~ (pos < Response!HeadEnd)
    <3>1. ~ (pos' < Response!HeadEnd) BY <1>1, <2>2
    <3>2. QED BY <1>5, <2>2, <3>1 DEF Response!Fields
  <2>3. QED BY <2>1, <2>2
<1>8. head' = Response!Fields' BY <1>2, <1>7, Place
<1>9. pos' < Response!HeadEnd => closed' = "between" /\ arrived' = pos' BY <1>1, <1>6
<1>10. \E n \in 0..pos' : body' = Response!BodyOf(SubSeq(sent', 1, n)) /\ n = pos'
  <2>1. pos' \in 0..pos' OBVIOUS
  <2>2. body' = Response!BodyOf(SubSeq(sent', 1, pos')) BY DEF Gathered
  <2>3. QED BY <2>1, <2>2
<1>11. Response!Placed' BY <1>2, <1>5, <1>8, <1>9, <1>10 DEF Response!Placed
<1>12. QED BY <1>4, <1>11

(* More arrives, or the connection ends: what is known stays true.         *)
LEMMA OutsideKeeps ==
  ASSUME Response!Parameters, Response!IInv,
         Response!Arrive \/ \E how \in {"between", "within", "reset"} : Response!Close(how)
  PROVE  Response!IInv'
PROOF
<1>1. Response!TypeOK /\ Response!Placed /\ Response!Knows BY DEF Response!IInv
<1>2. /\ sent \in Seq(Response!Tokens) /\ Len(sent) \in Nat
      /\ pos \in Nat /\ arrived \in Nat /\ pos <= arrived /\ arrived <= Len(sent)
  BY <1>1, Place
<1>3. closed = "no" /\ UNCHANGED <<sent, pos, phase, head, left, body, empty>>
  BY DEF Response!Arrive, Response!Close
<1>4. /\ arrived' \in Nat /\ arrived <= arrived' /\ arrived' <= Len(sent)
      /\ closed' \in {"no", "between", "within", "reset"}
  <2>1. CASE Response!Arrive BY <1>2, <2>1 DEF Response!Arrive
  <2>2. CASE \E how \in {"between", "within", "reset"} : Response!Close(how)
    BY <1>2, <2>2 DEF Response!Close
  <2>3. QED BY <2>1, <2>2
<1>5. Response!TypeOK'
  <2>1. arrived' \in 0..Len(sent) /\ pos \in 0..arrived' BY <1>2, <1>4
  <2>2. QED BY <1>1, <1>3, <1>4, <2>1 DEF Response!TypeOK
<1>6. Response!HeadEnd' = Response!HeadEnd BY <1>3 DEF Response!HeadEnd
<1>7. Response!Fields' = Response!Fields BY <1>3, <1>6 DEF Response!Fields
<1>8. phase \in Response!Parsed => ~ (pos < Response!HeadEnd) BY <1>1, <1>3 DEF Response!Placed
<1>9. Response!Placed' BY <1>1, <1>3, <1>6, <1>7, <1>8 DEF Response!Placed
<1>10. Response!Meant' = Response!Meant BY <1>3 DEF Response!Meant
<1>11. Response!Knows' BY <1>1, <1>3, <1>6, <1>10 DEF Response!Knows
<1>12. QED BY <1>5, <1>9, <1>11 DEF Response!IInv

(* A line of the head is read.                                             *)
LEMMA HeadLine ==
  ASSUME Response!Parameters, Response!IInv, phase \in {"status", "head"},
         pos + 1 < Response!HeadEnd, pos < arrived,
         head' = SubSeq(sent, 1, pos + 1), pos' = pos + 1, phase' = "head",
         UNCHANGED <<sent, arrived, closed, left, body, empty>>
  PROVE  Response!IInv'
PROOF
<1>1. Response!TypeOK /\ Response!Placed /\ Response!Knows BY DEF Response!IInv
<1>2. /\ sent \in Seq(Response!Tokens) /\ Len(sent) \in Nat /\ Response!HeadEnd \in 2..Len(sent)
      /\ pos \in Nat /\ arrived \in Nat /\ pos <= arrived /\ arrived <= Len(sent)
      /\ body = Gathered(sent, pos)
  BY <1>1, Place
<1>3. \A i \in 1..(Response!HeadEnd - 1) : sent[i] \notin {Response!End} \cup Response!Data
  BY <1>1, HeadEndIs DEF Response!TypeOK, Response!MeantAt
<1>4. PICK q \in Nat : q = pos + 1 /\ q < Response!HeadEnd /\ q <= arrived BY <1>2
<1>5. Response!HeadEnd' = Response!HeadEnd BY DEF Response!HeadEnd
<1>6. Response!Fields' = head'
  <2>1. Response!Fields' = SubSeq(sent, 1, q) BY <1>4, <1>5 DEF Response!Fields
  <2>2. QED BY <1>4, <2>1
<1>7. body' = Response!BodyOf(SubSeq(sent', 1, q))
  <2>1. sent[pos + 1] \notin Response!Data
    <3>1. pos + 1 \in 1..(Response!HeadEnd - 1) BY <1>2, <1>4
    <3>2. QED BY <1>3, <3>1
  <2>2. pos < Len(sent) BY <1>2
  <2>3. Gathered(sent, pos + 1) = Gathered(sent, pos) BY <1>2, <2>1, <2>2, GatherOne
  <2>4. QED BY <1>2, <1>4, <2>3 DEF Gathered
<1>8. Response!TypeOK'
  <2>1. \A i \in DOMAIN head' : head'[i] \in Response!Tokens \ {Response!End}
    <3>1. \A i \in 1..q : sent[i] \in Response!Tokens \ {Response!End}
      <4>1. \A i \in 1..q : i \in 1..Len(sent) /\ i \in 1..(Response!HeadEnd - 1) BY <1>2, <1>4
      <4>2. QED BY <1>2, <1>3, <4>1, ElementOfSeq
    <3>2. SubSeq(sent, 1, q) \in Seq(Response!Tokens \ {Response!End})
      <4>1. 1 \in Int /\ q \in Int OBVIOUS
      <4>2. QED BY <3>1, <4>1, SubSeqProperties
    <3>3. head' \in Seq(Response!Tokens \ {Response!End}) BY <1>4, <3>2
    <3>4. QED BY <3>3, LenProperties, ElementOfSeq
  <2>2. pos' \in 0..arrived BY <1>2, <1>4
  <2>3. phase' \in Response!Reading BY DEF Response!Reading
  <2>4. QED BY <1>1, <2>1, <2>2, <2>3 DEF Response!TypeOK
<1>9. Response!Placed'
  <2>1. q \in 0..q /\ pos' = q BY <1>4
  <2>2. phase' \notin Response!Parsed BY DEF Response!Parsed
  <2>3. \E n \in 0..pos' : body' = Response!BodyOf(SubSeq(sent', 1, n)) /\ n = pos'
    BY <1>7, <2>1
  <2>4. QED BY <1>4, <1>5, <1>6, <2>1, <2>2, <2>3 DEF Response!Placed
<1>10. Response!Knows'
  <2>1. empty' = 0 BY <1>1 DEF Response!Knows
  <2>2. QED BY <2>1 DEF Response!Knows
<1>11. QED BY <1>8, <1>9, <1>10 DEF Response!IInv

(* The status line and the fields of a head are read one by one.           *)
LEMMA HeadLinesKeep ==
  ASSUME Response!Parameters, Response!IInv, Response!ReadStatus \/ Response!ReadField
  PROVE  Response!IInv'
PROOF
<1>1. Response!TypeOK /\ Response!Placed /\ Response!Knows BY DEF Response!IInv
<1>2. phase \in {"status", "head"} /\ Response!AtHand # <<>> /\ phase' = "head"
      /\ pos' = pos + 1 /\ UNCHANGED <<sent, arrived, closed, left, body, empty>>
  BY DEF Response!ReadStatus, Response!ReadField, Response!Takes
<1>3. /\ sent \in Seq(Response!Tokens) /\ Len(sent) \in Nat /\ Response!HeadEnd \in 2..Len(sent)
      /\ pos \in Nat /\ arrived \in Nat /\ pos < arrived /\ arrived <= Len(sent)
      /\ head = Response!Fields
  <2>1. pos # arrived BY <1>1, <1>2, Place
  <2>2. QED BY <1>1, <1>2, <2>1, Place
<1>4. Response!AtHand[1] = sent[pos + 1]
  <2>1. 1 \in 1..(arrived - pos) BY <1>3
  <2>2. QED BY <1>1, <2>1, Place
<1>5. sent[Response!HeadEnd] = Response!End
  BY <1>1, HeadEndIs DEF Response!TypeOK, Response!MeantAt
<1>6. CASE Response!ReadStatus
  <2>1. pos = 0 BY <1>1, <1>6 DEF Response!Placed, Response!ReadStatus
  <2>2. pos + 1 < Response!HeadEnd \/ Response!HeadEnd = 1 BY <1>3, <2>1
  <2>3. head' = <<sent[1]>> BY <1>4, <1>6, <2>1 DEF Response!ReadStatus
  <2>4. SubSeq(sent, 1, 1) = <<sent[1]>>
    <3>1. 1 \in 1..Len(sent) BY <1>3
    <3>2. QED BY <1>3, <3>1, SliceOfOne
  <2>5. pos + 1 = 1 /\ pos + 1 < Response!HeadEnd BY <1>3, <2>1
  <2>6. head' = SubSeq(sent, 1, pos + 1) BY <2>3, <2>4, <2>5
  <2>7. QED BY <1>2, <1>3, <2>5, <2>6, HeadLine
<1>7. CASE Response!ReadField
  <2>1. phase = "head" /\ Response!AtHand[1] # Response!End
        /\ head' = Append(head, Response!AtHand[1])
    BY <1>7 DEF Response!ReadField
  <2>2. pos < Response!HeadEnd BY <1>1, <2>1 DEF Response!Placed
  <2>3. pos + 1 # Response!HeadEnd BY <1>4, <1>5, <2>1
  <2>4. pos + 1 < Response!HeadEnd BY <1>3, <2>2, <2>3
  <2>5. head = SubSeq(sent, 1, pos) BY <1>3, <2>2 DEF Response!Fields
  <2>6. SubSeq(sent, 1, pos + 1) = Append(SubSeq(sent, 1, pos), sent[pos + 1])
    <3>1. pos < Len(sent) BY <1>3
    <3>2. QED BY <1>3, <3>1, NextPrefix
  <2>7. head' = SubSeq(sent, 1, pos + 1) BY <1>4, <2>1, <2>5, <2>6
  <2>8. QED BY <1>2, <1>3, <2>4, <2>7, HeadLine
<1>8. QED BY <1>6, <1>7

(* There is nothing of a body in a head.                                   *)
LEMMA NoBodyInHead ==
  ASSUME Response!Parameters, sent \in Responses, NEW n \in Nat, n <= Response!HeadEnd
  PROVE  Gathered(sent, n) = <<>>
PROOF
<1>1. /\ sent \in Seq(Response!Tokens) /\ Response!HeadEnd \in 2..Len(sent)
      /\ Response!MeantAt(sent, Response!HeadEnd)
  BY HeadEndIs
<1>2. Len(sent) \in Nat BY <1>1, LenProperties
<1>3. \A i \in 1..n : sent[i] \notin Response!Data
  <2>1. SUFFICES ASSUME NEW i \in 1..n PROVE sent[i] \notin Response!Data
    OBVIOUS
  <2>2. i \in 1..(Response!HeadEnd - 1) \/ i = Response!HeadEnd BY <1>1
  <2>3. CASE i \in 1..(Response!HeadEnd - 1) BY <1>1, <2>3 DEF Response!MeantAt
  <2>4. CASE i = Response!HeadEnd
    <3>1. sent[i] = Response!End BY <1>1, <2>4 DEF Response!MeantAt
    <3>2. QED BY <3>1 DEF Response!End, Response!Data
  <2>5. QED BY <2>2, <2>3, <2>4
<1>4. 0 <= n /\ n <= Len(sent) /\ 0 + 1 = 1 /\ 0 \in Nat BY <1>1, <1>2
<1>5. Gathered(sent, n) = Gathered(sent, 0) BY <1>1, <1>3, <1>4, GatherLines
<1>6. QED BY <1>1, <1>4, <1>5, GatheredPrefix

(* A head that declares no bytes: there is none behind it either.          *)
LEMMA NothingDeclared ==
  ASSUME Response!Parameters, sent \in Responses, NEW n \in Nat, n < Response!HeadEnd,
         NEW fields, fields = SubSeq(sent, 1, n), Response!Declares(fields),
         Response!Declared(fields) # Response!Invalid,
         Response!Lengths[Response!Declared(fields)] = 0
  PROVE  \A i \in 1..Len(sent) : sent[i] \notin Response!Data
PROOF
<1>1. /\ sent \in Seq(Response!Tokens) /\ Response!HeadEnd \in 2..Len(sent)
      /\ Response!MeantAt(sent, Response!HeadEnd)
  BY HeadEndIs
<1>2. PICK h \in Nat : h = Response!HeadEnd - 1 /\ n <= h /\ h <= Len(sent) /\ h \in Int
  <2>1. Len(sent) \in Nat BY <1>1, LenProperties
  <2>2. Response!HeadEnd - 1 \in Nat /\ n <= Response!HeadEnd - 1
        /\ Response!HeadEnd - 1 <= Len(sent)
    BY <1>1, <2>1
  <2>3. QED BY <2>2
<1>3. \A i \in 1..h : sent[i] \in Response!Tokens
  <2>1. Len(sent) \in Nat BY <1>1, LenProperties
  <2>2. QED BY <1>1, <1>2, <2>1, ElementOfSeq
<1>4. PICK f : f = SubSeq(sent, 1, h) OBVIOUS
<1>5. Len(f) = h /\ \A i \in 1..h : f[i] = sent[i] BY <1>2, <1>3, <1>4, SubSeqProperties
<1>6. fields \in Seq(Response!Tokens) /\ Len(fields) = n /\ \A i \in 1..n : fields[i] = sent[i]
  <2>1. 1 \in Int /\ n \in Int /\ \A i \in 1..n : sent[i] \in Response!Tokens BY <1>2, <1>3
  <2>2. QED BY <2>1, SubSeqProperties
<1>7. PICK d : d = Response!Declared(fields) OBVIOUS
<1>8. PICK i \in 1..n : fields[i] = d BY <1>6, <1>7, DeclaredIn
<1>9. d = "cl0"
  <2>1. d \in DOMAIN Response!Lengths BY <1>6, <1>7, DeclaredIn
  <2>2. Response!Lengths[d] = 0 BY <1>7
  <2>3. QED BY <2>1, <2>2 DEF Response!Lengths
<1>10. Response!Contains(f, "cl0")
  <2>1. i \in 1..h /\ f[i] = "cl0" BY <1>2, <1>5, <1>6, <1>8, <1>9
  <2>2. QED BY <1>5, <2>1 DEF Response!Contains
<1>11. \A j \in (Response!HeadEnd + 1)..Len(sent) : sent[j] \notin Response!Data
  BY <1>1, <1>2, <1>4, <1>10 DEF Response!MeantAt
<1>12. \A j \in 1..(Response!HeadEnd - 1) : sent[j] \notin Response!Data
  BY <1>1 DEF Response!MeantAt
<1>13. sent[Response!HeadEnd] \notin Response!Data
  <2>1. sent[Response!HeadEnd] = Response!End BY <1>1 DEF Response!MeantAt
  <2>2. QED BY <2>1 DEF Response!End, Response!Data
<1>14. ASSUME NEW j \in 1..Len(sent) PROVE sent[j] \notin Response!Data
  <2>1. Len(sent) \in Nat BY <1>1, LenProperties
  <2>2. \/ j \in (Response!HeadEnd + 1)..Len(sent)
        \/ j \in 1..(Response!HeadEnd - 1)
        \/ j = Response!HeadEnd
    BY <1>1, <2>1
  <2>3. QED BY <1>11, <1>12, <1>13, <2>2
<1>15. QED BY <1>14

(* The place after a head, whether the blank line was read or the          *)
(* connection has ended in the head.                                       *)
LEMMA AfterHead ==
  ASSUME Response!Parameters, Response!IInv, Response!EndHead
  PROVE  /\ UNCHANGED <<sent, arrived, closed, head, body, empty>>
         /\ pos' \in Nat /\ pos <= pos' /\ pos' <= arrived /\ pos' <= Response!HeadEnd
         /\ body = Gathered(sent, pos')
         /\ head = SubSeq(sent, 1, IF pos' < Response!HeadEnd THEN pos' ELSE Response!HeadEnd - 1)
         /\ pos' < Response!HeadEnd => closed = "between" /\ arrived = pos'
         /\ empty = 0
PROOF
<1>1. Response!TypeOK /\ Response!Placed /\ Response!Knows BY DEF Response!IInv
<1>2. phase = "head" /\ Response!Parse BY DEF Response!EndHead
<1>3. /\ sent \in Seq(Response!Tokens) /\ Len(sent) \in Nat /\ Response!HeadEnd \in 2..Len(sent)
      /\ pos \in Nat /\ arrived \in Nat /\ pos <= arrived /\ arrived <= Len(sent)
      /\ body = Gathered(sent, pos) /\ head = Response!Fields
  BY <1>1, <1>2, Place
<1>4. UNCHANGED <<head, body, empty>> BY <1>2 DEF Response!Parse, Response!Fail, Response!Body
<1>5. UNCHANGED <<sent, arrived, closed>> BY DEF Response!EndHead, Response!Takes
<1>6. empty = 0 /\ pos < Response!HeadEnd BY <1>1, <1>2 DEF Response!Knows, Response!Placed
<1>7. head = SubSeq(sent, 1, pos) BY <1>3, <1>6 DEF Response!Fields
<1>8. CASE Response!AtHand # <<>> /\ Response!AtHand[1] = Response!End /\ Response!Takes(1)
  <2>1. pos < arrived
    <3>1. pos # arrived BY <1>1, <1>8, Place
    <3>2. QED BY <1>3, <3>1
  <2>2. Response!AtHand[1] = sent[pos + 1]
    <3>1. 1 \in 1..(arrived - pos) BY <1>3, <2>1
    <3>2. QED BY <1>1, <3>1, Place
  <2>3. ~ (pos + 1 < Response!HeadEnd)
    <3>1. SUFFICES ASSUME pos + 1 < Response!HeadEnd PROVE FALSE
      OBVIOUS
    <3>2. pos + 1 \in 1..(Response!HeadEnd - 1) BY <1>3, <3>1
    <3>3. sent[pos + 1] # Response!End
      BY <1>1, <3>2, HeadEndIs DEF Response!TypeOK, Response!MeantAt
    <3>4. QED BY <1>8, <2>2, <3>3
  <2>4. pos' = pos + 1 BY <1>8 DEF Response!Takes
  <2>5. PICK h \in Nat : h = Response!HeadEnd BY <1>3
  <2>6. pos' = h /\ pos = h - 1 BY <1>3, <1>6, <2>3, <2>4, <2>5
  <2>7. head = SubSeq(sent, 1, h - 1) /\ ~ (pos' < h) /\ pos <= pos' /\ pos' <= arrived
    BY <1>3, <1>7, <2>1, <2>6
  <2>8. Gathered(sent, h) = <<>> /\ Gathered(sent, pos) = <<>>
    <3>1. sent \in Responses /\ h <= Response!HeadEnd /\ pos <= Response!HeadEnd
      BY <1>1, <1>3, <1>6, <2>5 DEF Response!TypeOK
    <3>2. QED BY <1>3, <3>1, NoBodyInHead
  <2>9. body = Gathered(sent, pos') BY <1>3, <2>6, <2>8
  <2>10. pos' \in Nat /\ pos' <= Response!HeadEnd BY <2>5, <2>6
  <2>11. QED BY <1>4, <1>5, <1>6, <2>5, <2>7, <2>9, <2>10
<1>9. CASE Response!AtHand = <<>> /\ closed = "between" /\ Response!Takes(0)
  <2>1. pos' = pos BY <1>3, <1>9 DEF Response!Takes
  <2>2. arrived = pos BY <1>1, <1>9, Place
  <2>3. pos' <= Response!HeadEnd BY <1>3, <1>6, <2>1
  <2>4. QED BY <1>3, <1>4, <1>5, <1>6, <1>7, <1>9, <2>1, <2>2, <2>3
<1>10. QED BY <1>8, <1>9 DEF Response!EndHead

(* The head is parsed.                                                     *)
LEMMA EndHeadKeeps ==
  ASSUME Response!Parameters, Response!IInv, Response!EndHead
  PROVE  Response!IInv'
PROOF
<1>1. Response!TypeOK /\ Response!Placed /\ Response!Knows BY DEF Response!IInv
<1>2. /\ UNCHANGED <<sent, arrived, closed, head, body, empty>>
      /\ pos' \in Nat /\ pos <= pos' /\ pos' <= arrived /\ pos' <= Response!HeadEnd
      /\ body = Gathered(sent, pos')
      /\ head = SubSeq(sent, 1, IF pos' < Response!HeadEnd THEN pos' ELSE Response!HeadEnd - 1)
      /\ pos' < Response!HeadEnd => closed = "between" /\ arrived = pos'
      /\ empty = 0
  BY AfterHead
<1>3. /\ sent \in Seq(Response!Tokens) /\ Len(sent) \in Nat /\ Response!HeadEnd \in 2..Len(sent)
      /\ pos \in Nat /\ arrived \in Nat /\ pos <= arrived /\ arrived <= Len(sent)
      /\ sent \in Responses
  BY <1>1, Place DEF Response!TypeOK
<1>4. Response!HeadEnd' = Response!HeadEnd BY <1>2 DEF Response!HeadEnd
<1>5. PICK n \in Nat : n = IF pos' < Response!HeadEnd THEN pos' ELSE Response!HeadEnd - 1
  <2>1. Response!HeadEnd - 1 \in Nat BY <1>3
  <2>2. QED BY <1>2, <2>1
<1>6. n < Response!HeadEnd /\ head = SubSeq(sent, 1, n) BY <1>2, <1>3, <1>5
<1>7. head \in Seq(Response!Tokens)
  <2>1. 1 \in Int /\ n \in Int /\ \A i \in 1..n : i \in 1..Len(sent) BY <1>3, <1>6
  <2>2. \A i \in 1..n : sent[i] \in Response!Tokens BY <1>3, <2>1, ElementOfSeq
  <2>3. SubSeq(sent, 1, n) \in Seq(Response!Tokens) BY <2>1, <2>2, SubSeqProperties
  <2>4. QED BY <1>6, <2>3
<1>8. ASSUME phase' \in {"size", "rest", "ok", "fixed"}, left' \in Nat
      PROVE  Response!TypeOK' /\ Response!Placed'
  <2>1. phase' \in Response!Reading \cup {"ok", "error"} /\ phase' \in Response!Parsed
        /\ phase' \notin {"status", "head", "error"}
    BY <1>8 DEF Response!Reading, Response!Parsed
  <2>2. pos' \in 0..arrived BY <1>2, <1>3
  <2>3. Response!TypeOK' BY <1>1, <1>2, <1>8, <2>1, <2>2 DEF Response!TypeOK
  <2>4. Response!Fields' = head' BY <1>2, <1>4 DEF Response!Fields
  <2>5. \E m \in 0..pos' : body' = Response!BodyOf(SubSeq(sent', 1, m)) /\ m = pos'
    <3>1. pos' \in 0..pos' BY <1>2
    <3>2. body' = Response!BodyOf(SubSeq(sent', 1, pos')) BY <1>2 DEF Gathered
    <3>3. QED BY <3>1, <3>2
  <2>6. Response!Placed' BY <1>2, <1>4, <2>1, <2>4, <2>5 DEF Response!Placed
  <2>7. QED BY <2>3, <2>6
<1>9. CASE Response!Fail BY <1>2, <1>9, FailKeeps
<1>10. CASE Response!Contains(head, Response!Chunked) /\ Response!Body("size", 0)
  <2>1. phase' = "size" /\ left' = 0 BY <1>10 DEF Response!Body
  <2>2. Response!Knows' BY <1>2, <1>10, <2>1 DEF Response!Knows
  <2>3. QED BY <1>8, <2>1, <2>2 DEF Response!IInv
<1>11. CASE /\ ~Response!Contains(head, Response!Chunked) /\ ~Response!Declares(head)
            /\ Response!Body("rest", 0)
  <2>1. phase' = "rest" /\ left' = 0 BY <1>11 DEF Response!Body
  <2>2. ~Response!LeavesClean(head) BY <1>11 DEF Response!LeavesClean
  <2>3. Response!Knows' BY <1>2, <2>1, <2>2 DEF Response!Knows
  <2>4. QED BY <1>8, <2>1, <2>3 DEF Response!IInv
<1>12. ASSUME NEW l, l = Response!Lengths[Response!Declared(head)],
              Response!Declares(head), Response!Declared(head) # Response!Invalid,
              ~Response!Contains(head, Response!Chunked),
              Response!Body(IF l = 0 THEN "ok" ELSE "fixed", l)
       PROVE  Response!IInv'
  <2>1. l \in Nat
    <3>1. Response!Declared(head) \in DOMAIN Response!Lengths BY <1>7, <1>12, DeclaredIn
    <3>2. QED BY <1>12, <3>1 DEF Response!Lengths
  <2>2. left' = l /\ phase' = IF l = 0 THEN "ok" ELSE "fixed" BY <1>12 DEF Response!Body
  <2>3. Response!TypeOK' /\ Response!Placed' BY <1>8, <2>1, <2>2
  <2>4. CASE l # 0
    <3>1. phase' = "fixed" /\ left' > 0 BY <2>1, <2>2, <2>4
    <3>2. Response!Knows' BY <1>2, <1>4, <1>12, <2>2, <3>1 DEF Response!Knows
    <3>3. QED BY <2>3, <3>2 DEF Response!IInv
  <2>5. CASE l = 0
    <3>1. \A i \in 1..Len(sent) : sent[i] \notin Response!Data
      BY <1>3, <1>6, <1>12, <2>5, NothingDeclared
    <3>2. body = Response!Meant
      <4>1. PICK q \in Nat : q = pos' /\ q <= Len(sent) BY <1>2, <1>3
      <4>2. \A i \in 1..Len(sent) : q < i => sent[i] \notin Response!Data BY <3>1
      <4>3. Gathered(sent, q) = Response!BodyOf(sent) BY <1>3, <4>1, <4>2, NothingMore
      <4>4. QED BY <1>2, <4>1, <4>3 DEF Response!Meant
    <3>3. pos' >= Response!HeadEnd => pos' = Len(sent)
      <4>1. SUFFICES ASSUME pos' >= Response!HeadEnd PROVE pos' = Len(sent)
        OBVIOUS
      <4>2. pos' = Response!HeadEnd /\ n = Response!HeadEnd - 1 BY <1>2, <1>3, <1>5, <4>1
      <4>3. head = SubSeq(sent, 1, Response!HeadEnd - 1) BY <1>6, <4>2
      <4>4. Response!MeantAt(sent, Response!HeadEnd) BY <1>3, HeadEndIs
      <4>5. Len(sent) = Response!HeadEnd + l
        BY <1>12, <4>3, <4>4 DEF Response!MeantAt
      <4>6. QED BY <1>3, <2>5, <4>2, <4>5
    <3>4. phase' = "ok" BY <2>2, <2>5
    <3>5. Response!Meant' = Response!Meant BY <1>2 DEF Response!Meant
    <3>6. Response!Knows' BY <1>2, <1>4, <3>2, <3>3, <3>4, <3>5 DEF Response!Knows
    <3>7. QED BY <2>3, <3>6 DEF Response!IInv
  <2>6. QED BY <2>4, <2>5
<1>13. Response!Parse BY DEF Response!EndHead
<1>14. QED BY <1>9, <1>10, <1>11, <1>12, <1>13 DEF Response!Parse

(* Once the head has been parsed and there is more to read, all of the     *)
(* head was read.                                                          *)
LEMMA Behind ==
  ASSUME Response!Parameters, Response!IInv, phase \in Response!Parsed, pos # arrived
  PROVE  /\ Response!HeadEnd <= pos /\ pos < arrived
         /\ head = SubSeq(sent, 1, Response!HeadEnd - 1)
         /\ Response!MeantAt(sent, Response!HeadEnd)
PROOF
<1>1. Response!TypeOK /\ Response!Placed BY DEF Response!IInv
<1>2. /\ Response!HeadEnd \in 2..Len(sent) /\ Len(sent) \in Nat
      /\ pos \in Nat /\ arrived \in Nat /\ pos <= arrived
  BY <1>1, Place
<1>3. ~ (pos < Response!HeadEnd) BY <1>1 DEF Response!Placed
<1>4. head = Response!Fields BY <1>1, Place DEF Response!Parsed
<1>5. Response!MeantAt(sent, Response!HeadEnd) BY <1>1, HeadEndIs DEF Response!TypeOK
<1>6. QED BY <1>2, <1>3, <1>4, <1>5 DEF Response!Fields

(* The bytes at hand, when they are bytes of the body, are the next ones   *)
(* of it.                                                                  *)
LEMMA TakesBytes ==
  ASSUME Response!Parameters, Response!TypeOK, Response!Placed, phase # "error",
         NEW l \in Nat, l <= arrived - pos,
         \A j \in 1..l : sent[pos + j] \in Response!Data
  PROVE  Gathered(sent, pos + l) = body \o SubSeq(Response!AtHand, 1, l)
PROOF
<1>1. /\ sent \in Seq(Response!Tokens) /\ Len(sent) \in Nat
      /\ pos \in Nat /\ arrived \in Nat /\ pos <= arrived /\ arrived <= Len(sent)
      /\ body = Gathered(sent, pos)
  BY Place
<1>2. PICK a : a = Response!AtHand OBVIOUS
<1>3. a \in Seq(Response!Tokens) /\ Len(a) = arrived - pos
      /\ \A i \in 1..(arrived - pos) : a[i] = sent[pos + i]
  BY <1>1, <1>2, Slice DEF Response!AtHand
<1>4. PICK m \in Nat : m = pos + l /\ pos <= m /\ m <= Len(sent) /\ m - pos = l
  <2>1. PICK m \in Nat : m = pos + l BY <1>1
  <2>2. pos <= m /\ m <= Len(sent) /\ m - pos = l BY <1>1, <2>1
  <2>3. QED BY <2>1, <2>2
<1>5. PICK c \in Seq(Response!Tokens) : c = SubSeq(sent, pos + 1, m)
  <2>1. SubSeq(sent, pos + 1, m) \in Seq(Response!Tokens) BY <1>1, <1>4, Slice
  <2>2. QED BY <2>1
<1>6. Len(c) = l /\ \A i \in 1..l : c[i] = sent[pos + i]
  <2>1. Len(c) = m - pos /\ \A i \in 1..(m - pos) : c[i] = sent[pos + i]
    BY <1>1, <1>4, <1>5, Slice
  <2>2. QED BY <1>4, <2>1
<1>7. \A i \in 1..l : a[i] \in Response!Tokens /\ a[i] = sent[pos + i]
  <2>1. \A i \in 1..l : i \in 1..(arrived - pos) BY <1>1
  <2>2. \A i \in 1..l : i \in 1..Len(a) BY <1>3, <2>1
  <2>3. QED BY <1>3, <2>1, <2>2, ElementOfSeq
<1>8. PICK b \in Seq(Response!Tokens) : b = SubSeq(a, 1, l)
  <2>1. 1 \in Int /\ l \in Int OBVIOUS
  <2>2. SubSeq(a, 1, l) \in Seq(Response!Tokens) BY <1>7, <2>1, SubSeqProperties
  <2>3. QED BY <2>2
<1>9. Len(b) = l /\ \A i \in 1..l : b[i] = a[i]
  <2>1. 1 \in Int /\ l \in Int OBVIOUS
  <2>2. QED BY <1>7, <1>8, <2>1, SubSeqProperties
<1>10. b = c BY <1>6, <1>7, <1>9, SeqEqual
<1>11. \A i \in (pos + 1)..m : sent[i] \in Response!Data
  <2>1. SUFFICES ASSUME NEW i \in (pos + 1)..m PROVE sent[i] \in Response!Data
    OBVIOUS
  <2>2. PICK j \in 1..l : i = pos + j
    <3>1. i - pos \in 1..l /\ i = pos + (i - pos) BY <1>1, <1>4
    <3>2. QED BY <3>1
  <2>3. QED BY <2>2
<1>12. Gathered(sent, m) = Gathered(sent, pos) \o SubSeq(sent, pos + 1, m)
  BY <1>1, <1>4, <1>11, GatherData
<1>13. QED BY <1>1, <1>2, <1>4, <1>5, <1>8, <1>10, <1>12

(* A body of a declared length is read whole.                              *)
LEMMA ReadFixedKeeps ==
  ASSUME Response!Parameters, Response!IInv, Response!ReadFixed
  PROVE  Response!IInv'
PROOF
<1>1. Response!TypeOK /\ Response!Placed /\ Response!Knows BY DEF Response!IInv
<1>2. /\ phase = "fixed" /\ Len(Response!AtHand) >= left /\ phase' = "ok"
      /\ body' = SubSeq(Response!AtHand, 1, left) /\ pos' = pos + left
      /\ UNCHANGED <<sent, arrived, closed, head, left, empty>>
  BY DEF Response!ReadFixed, Response!Takes
<1>3. /\ sent \in Seq(Response!Tokens) /\ Len(sent) \in Nat /\ Response!HeadEnd \in 2..Len(sent)
      /\ pos \in Nat /\ arrived \in Nat /\ pos <= arrived /\ arrived <= Len(sent)
      /\ Len(Response!AtHand) = arrived - pos /\ body = Gathered(sent, pos)
      /\ sent \in Responses /\ left \in Nat
  BY <1>1, <1>2, Place DEF Response!TypeOK
<1>4. /\ ~Response!Contains(head, Response!Chunked) /\ Response!Declares(head)
      /\ pos <= Response!HeadEnd /\ Response!Declared(head) # Response!Invalid
      /\ left = Response!Lengths[Response!Declared(head)] /\ left > 0
  BY <1>1, <1>2 DEF Response!Knows
<1>5. pos # arrived BY <1>2, <1>3, <1>4
<1>6. phase \in Response!Parsed /\ phase' \in Response!Parsed BY <1>2 DEF Response!Parsed
<1>7. /\ Response!HeadEnd <= pos /\ head = SubSeq(sent, 1, Response!HeadEnd - 1)
      /\ Response!MeantAt(sent, Response!HeadEnd)
  BY <1>5, <1>6, Behind
<1>8. pos = Response!HeadEnd BY <1>3, <1>4, <1>7
<1>9. /\ Len(sent) = Response!HeadEnd + left
      /\ \A i \in (Response!HeadEnd + 1)..Len(sent) : sent[i] \in Response!Data
  BY <1>4, <1>7 DEF Response!MeantAt
<1>10. pos' = Len(sent) /\ pos' \in Nat /\ pos <= pos' /\ pos' <= arrived /\ left <= arrived - pos
  BY <1>2, <1>3, <1>8, <1>9
<1>11. \A j \in 1..left : sent[pos + j] \in Response!Data BY <1>3, <1>8, <1>9
<1>12. Gathered(sent, pos + left) = body \o SubSeq(Response!AtHand, 1, left)
  BY <1>1, <1>2, <1>3, <1>10, <1>11, TakesBytes
<1>13. body = <<>> BY <1>3, <1>4, NoBodyInHead
<1>14. body' = Gathered(sent, pos')
  <2>1. PICK t \in Seq(Response!Tokens) : t = Response!AtHand BY <1>3, Slice DEF Response!AtHand
  <2>2. SubSeq(t, 1, left) \in Seq(Response!Tokens)
    <3>1. 1 \in Int /\ left \in Int BY <1>3
    <3>2. \A i \in 1..left : i \in 1..Len(t) BY <1>2, <1>3, <1>10, <2>1
    <3>3. \A i \in 1..left : t[i] \in Response!Tokens BY <3>2, ElementOfSeq
    <3>4. QED BY <3>1, <3>3, SubSeqProperties
  <2>3. <<>> \o SubSeq(t, 1, left) = SubSeq(t, 1, left) BY <2>2, ConcatEmptySeq
  <2>4. QED BY <1>2, <1>12, <1>13, <2>1, <2>3
<1>15. body' = Response!Meant
  <2>1. Gathered(sent, Len(sent)) = Response!BodyOf(sent) BY <1>3, GatheredPrefix
  <2>2. QED BY <1>10, <1>14, <2>1 DEF Response!Meant
<1>16. empty' \in 0..2 /\ left' \in Nat BY <1>1, <1>2 DEF Response!TypeOK
<1>17. Response!TypeOK' /\ Response!Placed'
  BY <1>1, <1>2, <1>6, <1>10, <1>14, <1>16, Advances
<1>18. Response!Meant' = Response!Meant BY <1>2 DEF Response!Meant
<1>19. Response!Knows' BY <1>2, <1>10, <1>15, <1>18 DEF Response!Knows
<1>20. QED BY <1>17, <1>19 DEF Response!IInv

(* The size of the next chunk is read.                                     *)
LEMMA ReadSizeKeeps ==
  ASSUME Response!Parameters, Response!IInv, Response!ReadSize
  PROVE  Response!IInv'
PROOF
<1>1. Response!TypeOK /\ Response!Placed /\ Response!Knows BY DEF Response!IInv
<1>2. /\ phase = "size" /\ Response!AtHand # <<>> /\ pos' = pos + 1
      /\ UNCHANGED <<sent, arrived, closed>>
  BY DEF Response!ReadSize, Response!Takes
<1>3. /\ sent \in Seq(Response!Tokens) /\ Len(sent) \in Nat /\ Response!HeadEnd \in 2..Len(sent)
      /\ pos \in Nat /\ arrived \in Nat /\ pos <= arrived /\ arrived <= Len(sent)
      /\ body = Gathered(sent, pos) /\ pos # arrived
  BY <1>1, <1>2, Place
<1>4. pos' \in Nat /\ pos <= pos' /\ pos' <= arrived /\ pos < arrived BY <1>2, <1>3
<1>5. phase \in Response!Parsed BY <1>2 DEF Response!Parsed
<1>6. Response!HeadEnd <= pos BY <1>3, <1>5, Behind
<1>7. PICK t : t = sent[pos + 1] OBVIOUS
<1>8. Response!AtHand[1] = t
  <2>1. 1 \in 1..(arrived - pos) BY <1>3, <1>4
  <2>2. QED BY <1>1, <1>7, <2>1, Place
<1>9. CASE t \notin DOMAIN Response!Chunks
  <2>1. Response!Fail BY <1>8, <1>9 DEF Response!ReadSize
  <2>2. QED BY <1>2, <1>4, <2>1, FailKeeps
<1>10. CASE t \in DOMAIN Response!Chunks
  <2>1. PICK n : n = Response!Chunks[t] OBVIOUS
  <2>2. n \in Nat BY <1>10, <2>1 DEF Response!Chunks
  <2>3. Response!Body(IF n = 0 THEN "trailer" ELSE "chunk", n)
    BY <1>8, <1>10, <2>1 DEF Response!ReadSize
  <2>4. left' = n /\ phase' = (IF n = 0 THEN "trailer" ELSE "chunk")
        /\ UNCHANGED <<head, body, empty>>
    BY <2>3 DEF Response!Body
  <2>5. t \notin Response!Data BY <1>10 DEF Response!Chunks, Response!Data
  <2>6. Gathered(sent, pos + 1) = Gathered(sent, pos)
    <3>1. pos < Len(sent) BY <1>3, <1>4
    <3>2. QED BY <1>3, <1>7, <2>5, <3>1, GatherOne
  <2>7. body' = Gathered(sent, pos') BY <1>2, <1>3, <2>4, <2>6
  <2>8. phase' \in Response!Parsed BY <2>4 DEF Response!Parsed
  <2>9. empty' \in 0..2 BY <1>1, <2>4 DEF Response!TypeOK
  <2>10. Response!TypeOK' /\ Response!Placed'
    BY <1>1, <1>2, <1>4, <1>5, <2>2, <2>4, <2>7, <2>8, <2>9, Advances
  <2>11. Response!Contains(head, Response!Chunked) BY <1>1, <1>2 DEF Response!Knows
  <2>12. Response!HeadEnd' = Response!HeadEnd BY <1>2 DEF Response!HeadEnd
  <2>13. sent'[pos'] = t BY <1>2, <1>7
  <2>14. pos' > Response!HeadEnd BY <1>2, <1>3, <1>6
  <2>15. CASE n = 0
    <3>1. phase' = "trailer" BY <2>4, <2>15
    <3>2. pos' \in (Response!HeadEnd + 1)..pos' BY <1>3, <1>4, <2>14
    <3>3. \E i \in (Response!HeadEnd + 1)..pos' :
             sent'[i] \in DOMAIN Response!Chunks /\ Response!Chunks[sent'[i]] = 0
      BY <1>10, <2>1, <2>13, <2>15, <3>2
    <3>4. Response!Knows' BY <2>4, <2>11, <2>12, <2>14, <3>1, <3>3 DEF Response!Knows
    <3>5. QED BY <2>10, <3>4 DEF Response!IInv
  <2>16. CASE n # 0
    <3>1. phase' = "chunk" /\ n > 0 BY <2>2, <2>4, <2>16
    <3>2. Response!Knows'
      BY <1>10, <2>1, <2>4, <2>11, <2>12, <2>13, <2>14, <3>1 DEF Response!Knows
    <3>3. QED BY <2>10, <3>2 DEF Response!IInv
  <2>17. QED BY <2>15, <2>16
<1>11. QED BY <1>9, <1>10

(* A chunk is read with its line end.                                      *)
LEMMA ReadChunkKeeps ==
  ASSUME Response!Parameters, Response!IInv, Response!ReadChunk
  PROVE  Response!IInv'
PROOF
<1>1. Response!TypeOK /\ Response!Placed /\ Response!Knows BY DEF Response!IInv
<1>2. /\ phase = "chunk" /\ Len(Response!AtHand) > left /\ pos' = pos + (left + 1)
      /\ UNCHANGED <<sent, arrived, closed>>
  BY DEF Response!ReadChunk, Response!Takes
<1>3. /\ sent \in Seq(Response!Tokens) /\ Len(sent) \in Nat /\ Response!HeadEnd \in 2..Len(sent)
      /\ pos \in Nat /\ arrived \in Nat /\ pos <= arrived /\ arrived <= Len(sent)
      /\ Len(Response!AtHand) = arrived - pos /\ body = Gathered(sent, pos)
      /\ left \in Nat
  BY <1>1, <1>2, Place DEF Response!TypeOK
<1>4. /\ pos > Response!HeadEnd /\ Response!Contains(head, Response!Chunked)
      /\ sent[pos] \in DOMAIN Response!Chunks /\ left = Response!Chunks[sent[pos]]
  BY <1>1, <1>2 DEF Response!Knows
<1>5. pos # arrived /\ left <= arrived - pos /\ left + 1 <= arrived - pos BY <1>2, <1>3
<1>6. pos' \in Nat /\ pos <= pos' /\ pos' <= arrived BY <1>2, <1>3, <1>5
<1>7. phase \in Response!Parsed BY <1>2 DEF Response!Parsed
<1>8. Response!MeantAt(sent, Response!HeadEnd) /\ head = SubSeq(sent, 1, Response!HeadEnd - 1)
  BY <1>5, <1>7, Behind
<1>9. pos \in (Response!HeadEnd + 1)..Len(sent) BY <1>3, <1>4
<1>10. \A j \in 1..left : sent[pos + j] \in Response!Data
  <2>1. \A j \in 1..left :
           pos + j \in (Response!HeadEnd + 1)..Len(sent) => sent[pos + j] \in Response!Data
    BY <1>4, <1>8, <1>9 DEF Response!MeantAt
  <2>2. \A j \in 1..left : pos + j \in (Response!HeadEnd + 1)..Len(sent) BY <1>3, <1>4, <1>5
  <2>3. QED BY <2>1, <2>2
<1>11. Gathered(sent, pos + left) = body \o SubSeq(Response!AtHand, 1, left)
  BY <1>1, <1>2, <1>3, <1>5, <1>10, TakesBytes
<1>12. Response!AtHand[left + 1] = sent[pos + (left + 1)]
  <2>1. left + 1 \in 1..(arrived - pos) BY <1>3, <1>5
  <2>2. QED BY <1>1, <2>1, Place
<1>13. CASE Response!AtHand[left + 1] # Response!LineEnd
  <2>1. Response!Fail BY <1>13 DEF Response!ReadChunk
  <2>2. QED BY <1>2, <1>6, <2>1, FailKeeps
<1>14. CASE Response!AtHand[left + 1] = Response!LineEnd
  <2>1. body' = body \o SubSeq(Response!AtHand, 1, left) /\ phase' = "size"
        /\ UNCHANGED <<head, left, empty>>
    BY <1>14 DEF Response!ReadChunk
  <2>2. PICK q \in Nat : q = pos + left /\ q + 1 = pos' /\ q < Len(sent)
    <3>1. PICK q \in Nat : q = pos + left BY <1>3
    <3>2. q + 1 = pos' /\ q < Len(sent) BY <1>2, <1>3, <1>5, <3>1
    <3>3. QED BY <3>1, <3>2
  <2>3. sent[q + 1] \notin Response!Data
    <3>1. sent[q + 1] = Response!LineEnd BY <1>2, <1>12, <1>14, <2>2
    <3>2. QED BY <3>1 DEF Response!LineEnd, Response!Data
  <2>4. Gathered(sent, q + 1) = Gathered(sent, q) BY <1>3, <2>2, <2>3, GatherOne
  <2>5. body' = Gathered(sent, pos') BY <1>11, <2>1, <2>2, <2>4
  <2>6. phase' \in Response!Parsed BY <2>1 DEF Response!Parsed
  <2>7. empty' \in 0..2 /\ left' \in Nat BY <1>1, <2>1 DEF Response!TypeOK
  <2>8. Response!TypeOK' /\ Response!Placed'
    BY <1>1, <1>2, <1>6, <1>7, <2>1, <2>5, <2>6, <2>7, Advances
  <2>9. Response!Knows' BY <1>4, <2>1 DEF Response!Knows
  <2>10. QED BY <2>8, <2>9 DEF Response!IInv
<1>15. QED BY <1>13, <1>14

(* A line of the trailer is read, or its end.                              *)
LEMMA ReadTrailerKeeps ==
  ASSUME Response!Parameters, Response!IInv, Response!ReadTrailer
  PROVE  Response!IInv'
PROOF
<1>1. Response!TypeOK /\ Response!Placed /\ Response!Knows BY DEF Response!IInv
<1>2. /\ phase = "trailer" /\ Response!AtHand # <<>> /\ pos' = pos + 1
      /\ UNCHANGED <<sent, arrived, closed, head, left, body, empty>>
      /\ phase' = IF Response!AtHand[1] = Response!End THEN "ok" ELSE "trailer"
  BY DEF Response!ReadTrailer, Response!Takes
<1>3. /\ sent \in Seq(Response!Tokens) /\ Len(sent) \in Nat /\ Response!HeadEnd \in 2..Len(sent)
      /\ pos \in Nat /\ arrived \in Nat /\ pos <= arrived /\ arrived <= Len(sent)
      /\ body = Gathered(sent, pos) /\ pos # arrived /\ left \in Nat
  BY <1>1, <1>2, Place DEF Response!TypeOK
<1>4. pos' \in Nat /\ pos <= pos' /\ pos' <= arrived /\ pos < arrived BY <1>2, <1>3
<1>5. phase \in Response!Parsed /\ phase' \in Response!Parsed BY <1>2 DEF Response!Parsed
<1>6. Response!MeantAt(sent, Response!HeadEnd) /\ head = SubSeq(sent, 1, Response!HeadEnd - 1)
  BY <1>3, <1>5, Behind
<1>7. Response!Contains(head, Response!Chunked) /\ pos > Response!HeadEnd
  BY <1>1, <1>2 DEF Response!Knows
<1>8. PICK i \in (Response!HeadEnd + 1)..pos :
        sent[i] \in DOMAIN Response!Chunks /\ Response!Chunks[sent[i]] = 0
  BY <1>1, <1>2 DEF Response!Knows
<1>9. \A j \in (i + 1)..Len(sent) :
         sent[j] \notin Response!Data /\ (sent[j] = Response!End => j = Len(sent))
  <2>1. i \in (Response!HeadEnd + 1)..Len(sent) BY <1>3
  <2>2. QED BY <1>6, <1>7, <1>8, <2>1 DEF Response!MeantAt
<1>10. pos + 1 \in (i + 1)..Len(sent) BY <1>3, <1>4
<1>11. Response!AtHand[1] = sent[pos + 1]
  <2>1. 1 \in 1..(arrived - pos) BY <1>3, <1>4
  <2>2. QED BY <1>1, <2>1, Place
<1>12. body' = Gathered(sent, pos')
  <2>1. sent[pos + 1] \notin Response!Data /\ pos < Len(sent) BY <1>3, <1>4, <1>9, <1>10
  <2>2. Gathered(sent, pos + 1) = Gathered(sent, pos) BY <1>3, <2>1, GatherOne
  <2>3. QED BY <1>2, <1>3, <2>2
<1>13. empty' \in 0..2 /\ left' \in Nat BY <1>1, <1>2 DEF Response!TypeOK
<1>14. Response!TypeOK' /\ Response!Placed'
  BY <1>1, <1>2, <1>4, <1>5, <1>12, <1>13, Advances
<1>15. Response!HeadEnd' = Response!HeadEnd BY <1>2 DEF Response!HeadEnd
<1>16. CASE Response!AtHand[1] = Response!End
  <2>1. phase' = "ok" /\ pos' = Len(sent) BY <1>2, <1>9, <1>10, <1>11, <1>16
  <2>2. body' = Response!Meant
    <3>1. Gathered(sent, Len(sent)) = Response!BodyOf(sent) BY <1>3, GatheredPrefix
    <3>2. QED BY <1>12, <2>1, <3>1 DEF Response!Meant
  <2>3. Response!Meant' = Response!Meant BY <1>2 DEF Response!Meant
  <2>4. Response!Knows' BY <1>2, <2>1, <2>2, <2>3 DEF Response!Knows
  <2>5. QED BY <1>14, <2>4 DEF Response!IInv
<1>17. CASE Response!AtHand[1] # Response!End
  <2>1. phase' = "trailer" BY <1>2, <1>17
  <2>2. i \in (Response!HeadEnd + 1)..pos' /\ pos' > Response!HeadEnd BY <1>3, <1>4, <1>7
  <2>3. \E k \in (Response!HeadEnd + 1)..pos' :
           sent'[k] \in DOMAIN Response!Chunks /\ Response!Chunks[sent'[k]] = 0
    BY <1>2, <1>8, <2>2
  <2>4. Response!Knows' BY <1>2, <1>7, <1>15, <2>1, <2>2, <2>3 DEF Response!Knows
  <2>5. QED BY <1>14, <2>4 DEF Response!IInv
<1>18. QED BY <1>16, <1>17

(* A body without a length: what is there is taken, ...                    *)
LEMMA ReadSomeKeeps ==
  ASSUME Response!Parameters, Response!IInv,
         NEW n \in 1..Len(Response!AtHand), Response!ReadSome(n)
  PROVE  Response!IInv'
PROOF
<1>1. Response!TypeOK /\ Response!Placed /\ Response!Knows BY DEF Response!IInv
<1>2. /\ phase = "rest" /\ pos' = pos + n
      /\ body' = body \o SubSeq(Response!AtHand, 1, n) /\ empty' = 0
      /\ phase' = (IF Len(body') > MaxRead THEN "error" ELSE "rest")
      /\ UNCHANGED <<sent, arrived, closed, head, left>>
  BY DEF Response!ReadSome, Response!Takes
<1>3. /\ sent \in Seq(Response!Tokens) /\ Len(sent) \in Nat /\ Response!HeadEnd \in 2..Len(sent)
      /\ pos \in Nat /\ arrived \in Nat /\ pos <= arrived /\ arrived <= Len(sent)
      /\ Len(Response!AtHand) = arrived - pos /\ body = Gathered(sent, pos)
      /\ left \in Nat
  BY <1>1, <1>2, Place DEF Response!TypeOK
<1>4. n \in Nat /\ n <= arrived - pos /\ pos # arrived BY <1>3
<1>5. pos' \in Nat /\ pos <= pos' /\ pos' <= arrived BY <1>2, <1>3, <1>4
<1>6. phase \in Response!Parsed BY <1>2 DEF Response!Parsed
<1>7. /\ Response!HeadEnd <= pos /\ Response!MeantAt(sent, Response!HeadEnd)
      /\ head = SubSeq(sent, 1, Response!HeadEnd - 1)
  BY <1>4, <1>6, Behind
<1>8. ~Response!Declares(head) /\ ~Response!Contains(head, Response!Chunked)
  BY <1>1, <1>2 DEF Response!Knows, Response!LeavesClean
<1>9. \A i \in (Response!HeadEnd + 1)..Len(sent) : sent[i] \in Response!Data
  BY <1>7, <1>8 DEF Response!MeantAt
<1>10. \A j \in 1..n : sent[pos + j] \in Response!Data
  <2>1. \A j \in 1..n : pos + j \in (Response!HeadEnd + 1)..Len(sent) BY <1>3, <1>4, <1>7
  <2>2. QED BY <1>9, <2>1
<1>11. body' = Gathered(sent, pos') BY <1>1, <1>2, <1>4, <1>10, TakesBytes
<1>12. CASE phase' = "rest"
  <2>1. phase' \in Response!Parsed BY <1>12 DEF Response!Parsed
  <2>2. Response!TypeOK' /\ Response!Placed'
    BY <1>1, <1>2, <1>3, <1>5, <1>6, <1>11, <2>1, Advances
  <2>3. ~Response!LeavesClean(head') BY <1>2, <1>8 DEF Response!LeavesClean
  <2>4. Response!Knows' BY <1>2, <1>12, <2>3 DEF Response!Knows
  <2>5. QED BY <2>2, <2>4 DEF Response!IInv
<1>13. CASE phase' = "error"
  <2>1. body' \in Seq(Response!Data)
    <3>1. pos' <= Len(sent) BY <1>3, <1>5
    <3>2. QED BY <1>3, <1>5, <1>11, <3>1, GatheredPrefix
  <2>2. Response!TypeOK'
    <3>1. \A i \in DOMAIN body' : body'[i] \in Response!Data
      BY <2>1, LenProperties, ElementOfSeq
    <3>2. pos' \in 0..arrived BY <1>3, <1>5
    <3>3. QED BY <1>1, <1>2, <1>13, <3>1, <3>2 DEF Response!TypeOK
  <2>3. Response!Placed'
    <3>1. pos' \in 0..pos' BY <1>5
    <3>2. body' = Response!BodyOf(SubSeq(sent', 1, pos')) BY <1>2, <1>11 DEF Gathered
    <3>3. \E m \in 0..pos' : body' = Response!BodyOf(SubSeq(sent', 1, m)) BY <3>1, <3>2
    <3>4. phase' \notin Response!Parsed BY <1>13 DEF Response!Parsed
    <3>5. QED BY <1>13, <3>3, <3>4 DEF Response!Placed
  <2>4. Response!Knows' BY <1>13 DEF Response!Knows
  <2>5. QED BY <2>2, <2>3, <2>4 DEF Response!IInv
<1>14. QED BY <1>2, <1>12, <1>13

(* ... until there is a silence, or the connection ends.                   *)
LEMMA RestKeeps ==
  ASSUME Response!Parameters, Response!IInv, Response!Silence \/ Response!RestEnds
  PROVE  Response!IInv'
PROOF
<1>1. Response!TypeOK /\ Response!Placed /\ Response!Knows BY DEF Response!IInv
<1>2. /\ phase = "rest" /\ pos' = pos + 0
      /\ (empty' = empty \/ empty' = empty + 1)
      /\ phase' \in {"ok", "rest"} /\ (phase' = "rest" => ~ (empty' >= 2))
      /\ UNCHANGED <<sent, arrived, closed, head, left, body>>
  BY DEF Response!Silence, Response!RestEnds, Response!Takes
<1>3. /\ sent \in Seq(Response!Tokens) /\ pos \in Nat /\ arrived \in Nat /\ pos <= arrived
      /\ body = Gathered(sent, pos) /\ left \in Nat
  BY <1>1, <1>2, Place DEF Response!TypeOK
<1>4. ~Response!LeavesClean(head) /\ empty \in 0..2 /\ empty <= 1
  BY <1>1, <1>2 DEF Response!Knows, Response!TypeOK
<1>5. empty' \in 0..2 /\ (phase' = "rest" => empty' <= 1) BY <1>2, <1>4
<1>6. pos' = pos BY <1>2, <1>3
<1>7. phase \in Response!Parsed /\ phase' \in Response!Parsed BY <1>2 DEF Response!Parsed
<1>8. Response!TypeOK' /\ Response!Placed' BY <1>1, <1>2, <1>3, <1>5, <1>6, <1>7, Advances
<1>9. ~Response!LeavesClean(head') BY <1>2, <1>4
<1>10. Response!Knows' BY <1>2, <1>5, <1>9 DEF Response!Knows
<1>11. QED BY <1>8, <1>10 DEF Response!IInv

(* The invariant of the reading holds at the start ...                     *)
LEMMA ResponseStarts ==
  ASSUME Response!Parameters, Response!Init
  PROVE  Response!IInv
PROOF
<1>1. /\ sent \in Responses /\ arrived = 0 /\ closed = "no" /\ pos = 0 /\ phase = "status"
      /\ head = <<>> /\ body = <<>> /\ left = 0 /\ empty = 0
  BY DEF Response!Init
<1>2. sent \in Seq(Response!Tokens) /\ Response!HeadEnd \in 2..Len(sent) BY <1>1, HeadEndIs
<1>3. Len(sent) \in Nat BY <1>2, LenProperties
<1>4. Response!TypeOK
  <2>1. DOMAIN <<>> = {} OBVIOUS
  <2>2. phase \in Response!Reading BY <1>1 DEF Response!Reading
  <2>3. arrived \in 0..Len(sent) /\ pos \in 0..arrived BY <1>1, <1>3
  <2>4. QED BY <1>1, <2>1, <2>2, <2>3 DEF Response!TypeOK
<1>5. Response!Placed
  <2>1. Gathered(sent, 0) = <<>>
    <3>1. 0 \in Nat /\ 0 <= Len(sent) BY <1>3
    <3>2. QED BY <1>2, <3>1, GatheredPrefix
  <2>2. 0 \in 0..pos /\ pos = 0 BY <1>1
  <2>3. \E n \in 0..pos : body = Response!BodyOf(SubSeq(sent, 1, n)) /\ n = pos
    BY <1>1, <2>1, <2>2 DEF Gathered
  <2>4. pos < Response!HeadEnd BY <1>1, <1>2
  <2>5. head = Response!Fields
    <3>1. SubSeq(sent, 1, 0) = <<>> BY SubSeqEmpty
    <3>2. QED BY <1>1, <2>4, <3>1 DEF Response!Fields
  <2>6. phase \notin Response!Parsed BY <1>1 DEF Response!Parsed
  <2>7. QED BY <1>1, <2>2, <2>3, <2>4, <2>5, <2>6 DEF Response!Placed
<1>6. Response!Knows BY <1>1 DEF Response!Knows
<1>7. QED BY <1>4, <1>5, <1>6 DEF Response!IInv

(* ... and every step keeps it.                                            *)
LEMMA ResponseSteps ==
  ASSUME Response!Parameters, Response!IInv, [Response!Next]_(Response!vars)
  PROVE  Response!IInv'
PROOF
<1>1. Response!TypeOK /\ Response!Placed /\ Response!Knows BY DEF Response!IInv
<1>2. ASSUME Response!Cut PROVE Response!IInv'
  <2>1. Response!Fail /\ UNCHANGED <<sent, arrived, closed>> /\ pos' = pos + 0
    BY <1>2 DEF Response!Cut, Response!Takes
  <2>2. pos \in Nat /\ arrived \in Nat /\ pos <= arrived BY <1>1, Place
  <2>3. pos' \in Nat /\ pos <= pos' /\ pos' <= arrived BY <2>1, <2>2
  <2>4. QED BY <2>1, <2>3, FailKeeps
<1>3. ASSUME Response!Step PROVE Response!IInv'
  BY <1>2, <1>3, HeadLinesKeep, EndHeadKeeps, ReadFixedKeeps, ReadSizeKeeps, ReadChunkKeeps,
     ReadTrailerKeeps, ReadSomeKeeps, RestKeeps
     DEF Response!Step
<1>4. ASSUME UNCHANGED Response!vars PROVE Response!IInv'
  <2>1. UNCHANGED <<sent, arrived, closed, pos, phase, head, left, body, empty>>
    BY <1>4 DEF Response!vars
  <2>2. Response!HeadEnd' = Response!HeadEnd /\ Response!Meant' = Response!Meant
    BY <2>1 DEF Response!HeadEnd, Response!Meant
  <2>3. Response!Fields' = Response!Fields BY <2>1, <2>2 DEF Response!Fields
  <2>4. Response!TypeOK' BY <1>1, <2>1 DEF Response!TypeOK
  <2>5. Response!Placed' BY <1>1, <2>1, <2>2, <2>3 DEF Response!Placed
  <2>6. Response!Knows' BY <1>1, <2>1, <2>2 DEF Response!Knows
  <2>7. QED BY <2>4, <2>5, <2>6 DEF Response!IInv
<1>5. QED BY <1>3, <1>4, OutsideKeeps DEF Response!Next

(* A response is returned whole or not at all: it is over only where its   *)
(* server meant it to be.                                                  *)
LEMMA PlacedWhole ==
  ASSUME Response!Parameters, Response!IInv
  PROVE  Response!WholeOrError /\ Response!ReusedIsClean
PROOF
<1>1. Response!TypeOK /\ Response!Placed /\ Response!Knows BY DEF Response!IInv
<1>2. /\ sent \in Seq(Response!Tokens) /\ Len(sent) \in Nat /\ Response!HeadEnd \in 2..Len(sent)
      /\ pos \in Nat /\ arrived \in Nat /\ pos <= arrived /\ arrived <= Len(sent)
      /\ phase # "error" => head = Response!Fields
  BY <1>1, Place
<1>3. sent \in Responses BY <1>1 DEF Response!TypeOK
<1>4. Response!IsPrefix(body, Response!Meant)
  <2>1. PICK n \in 0..pos : body = Gathered(sent, n) BY <1>1 DEF Response!Placed, Gathered
  <2>2. n \in Nat /\ n <= Len(sent) BY <1>2
  <2>3. QED BY <1>2, <2>1, <2>2, GatheredPrefix DEF Response!Meant
<1>5. phase = "ok" /\ Response!LeavesClean(head) =>
         body = Response!Meant /\ (pos >= Response!HeadEnd => pos = Len(sent))
  BY <1>1 DEF Response!Knows
<1>6. phase = "ok" /\ pos < Response!HeadEnd => closed = "between" /\ arrived = pos
  BY <1>1 DEF Response!Placed, Response!Parsed
<1>7. ASSUME phase = "ok", Response!Framed, arrived >= Response!HeadEnd
      PROVE  Response!LeavesClean(head)
  <2>1. ~ (pos < Response!HeadEnd) BY <1>2, <1>6, <1>7
  <2>2. PICK h \in Nat : h = Response!HeadEnd - 1 /\ h <= Len(sent) /\ h \in Int
    <3>1. Response!HeadEnd - 1 \in Nat /\ Response!HeadEnd - 1 <= Len(sent) BY <1>2
    <3>2. QED BY <3>1
  <2>3. head = SubSeq(sent, 1, h) BY <1>2, <1>7, <2>1, <2>2 DEF Response!Fields
  <2>4. \A i \in 1..h : sent[i] \in Response!Tokens BY <1>2, <2>2, ElementOfSeq
  <2>5. head \in Seq(Response!Tokens) /\ Len(head) = h /\ \A i \in 1..h : head[i] = sent[i]
    BY <2>2, <2>3, <2>4, SubSeqProperties
  <2>6. PICK i \in 1..Len(sent) : sent[i] \in {Response!Chunked} \cup DOMAIN Response!Lengths
    <3>1. DOMAIN sent = 1..Len(sent) BY <1>2, LenProperties
    <3>2. QED BY <1>7, <3>1 DEF Response!Framed
  <2>7. i \in 1..h
    <3>1. /\ sent[Response!HeadEnd] = Response!End
          /\ \A j \in (Response!HeadEnd + 1)..Len(sent) :
                sent[j] \notin {Response!Chunked} \cup DOMAIN Response!Lengths
      BY <1>3, HeadEndIs DEF Response!MeantAt
    <3>2. Response!End \notin {Response!Chunked} \cup DOMAIN Response!Lengths
      BY DEF Response!End, Response!Chunked, Response!Lengths
    <3>3. i # Response!HeadEnd /\ i \notin (Response!HeadEnd + 1)..Len(sent) BY <2>6, <3>1, <3>2
    <3>4. QED BY <1>2, <2>2, <3>3
  <2>8. head[i] = sent[i] /\ i \in DOMAIN head /\ i \in 1..Len(head)
    BY <2>5, <2>7, LenProperties
  <2>9. CASE sent[i] = Response!Chunked
    <3>1. Response!Contains(head, Response!Chunked) BY <2>8, <2>9 DEF Response!Contains
    <3>2. QED BY <3>1 DEF Response!LeavesClean
  <2>10. CASE sent[i] \in DOMAIN Response!Lengths
    <3>1. Response!Declares(head) BY <2>8, <2>10 DEF Response!Declares, Response!ToSet
    <3>2. QED BY <3>1 DEF Response!LeavesClean
  <2>11. QED BY <2>6, <2>9, <2>10
<1>8. Response!WholeOrError BY <1>4, <1>5, <1>7 DEF Response!WholeOrError
<1>9. Response!ReusedIsClean
  <2>1. closed = "between" => closed # "no" OBVIOUS
  <2>2. pos < Response!HeadEnd \/ pos >= Response!HeadEnd BY <1>2
  <2>3. QED BY <1>5, <1>6, <2>1, <2>2 DEF Response!ReusedIsClean
<1>10. QED BY <1>8, <1>9

(* Wherever the connection ends and however the response arrives, and      *)
(* whatever the limits of the client, a response with a length or in       *)
(* chunks is returned whole or not at all (parse_response), and nothing of *)
(* it is left on a connection that is given another request                *)
(* (leaves_stream_clean).                                                  *)
THEOREM ResponsesAreWhole ==
  ASSUME Response!Parameters
  PROVE  Response!Spec => []ResponsesWhole
PROOF
<1>1. Response!Init => Response!IInv BY ResponseStarts
<1>2. Response!IInv /\ [Response!Next]_(Response!vars) => Response!IInv' BY ResponseSteps
<1>3. Response!IInv => ResponsesWhole BY PlacedWhole DEF ResponsesWhole
<1>4. QED BY <1>1, <1>2, <1>3, PTL DEF Response!Spec
=============================================================================
