---------------------------- MODULE ParserCache -----------------------------
(***************************************************************************)
(* HttpParserCache of src/src/parser_cache.rs: a queue of idle parsers     *)
(* behind a lock.  A CachedParser takes one out and puts it back when it   *)
(* is dropped, if the cache, of which it has only a weak reference, still  *)
(* exists and has room.  parse_response holds one across no await.         *)
(***************************************************************************)
EXTENDS Integers, Sequences, FiniteSets

CONSTANTS
  Users,        \* threads that parse
  Parsers,      \* identities of parsers
  MaxCacheSize, \* max_cache_size
  NoParser

Parameters ==
  /\ MaxCacheSize \in Nat /\ IsFiniteSet(Parsers) /\ IsFiniteSet(Users)
  /\ NoParser \notin Parsers

VARIABLES
  parsers, \* the queue
  has,     \* what CachedParser a user has
  alive    \* the cache has not been dropped: "yes" or "no"

vars == <<parsers, has, alive>>

Init == parsers = <<>> /\ has = [u \in Users |-> NoParser] /\ alive = "yes"

Idle == {parsers[i] : i \in 1..Len(parsers)}
New  == Parsers \ (Idle \cup {has[u] : u \in Users})

Get(u) ==
  /\ alive = "yes" /\ has[u] = NoParser
  /\ IF parsers # <<>>
     THEN has' = [has EXCEPT ![u] = Head(parsers)] /\ parsers' = Tail(parsers)
     ELSE \E p \in New : has' = [has EXCEPT ![u] = p] /\ UNCHANGED parsers
  /\ UNCHANGED alive

(* Drop of a CachedParser                                                  *)
PutBack(u) ==
  /\ has[u] # NoParser /\ has' = [has EXCEPT ![u] = NoParser]
  /\ parsers' = IF alive = "yes" /\ Len(parsers) < MaxCacheSize
                THEN Append(parsers, has[u]) ELSE parsers
  /\ UNCHANGED alive

(* warm_up with a count that asks for n new parsers; the difference to the *)
(* limit is one of unsigned numbers.                                       *)
Lacking == MaxCacheSize - Len(parsers)

WarmUp(n) ==
  /\ alive = "yes" /\ n <= Lacking
  /\ \E s \in [1..n -> New] :
       /\ \A i, j \in 1..n : s[i] = s[j] => i = j
       /\ parsers' = parsers \o s
  /\ UNCHANGED <<has, alive>>

DropCache == alive = "yes" /\ alive' = "no" /\ parsers' = <<>> /\ UNCHANGED has

Next ==
  \/ \E u \in Users : Get(u) \/ PutBack(u)
  \/ \E n \in 1..MaxCacheSize : WarmUp(n)
  \/ DropCache

Spec == Init /\ [][Next]_vars

-----------------------------------------------------------------------------
TypeOK ==
  /\ parsers \in Seq(Parsers) /\ has \in [Users -> Parsers \cup {NoParser}]
  /\ alive \in {"yes", "no"}

(* No parser is used by two threads, or idle twice, or both.               *)
OneUser ==
  /\ \A u, v \in Users : has[u] = has[v] /\ has[u] # NoParser => u = v
  /\ \A u \in Users : has[u] \notin Idle
  /\ \A i, j \in 1..Len(parsers) : parsers[i] = parsers[j] => i = j

(* However many threads parsed at once, the cache never has more than its  *)
(* limit, so that the subtraction of warm_up does not underflow.           *)
WithinLimit == Lacking >= 0

IInv == TypeOK /\ OneUser /\ WithinLimit
=============================================================================
