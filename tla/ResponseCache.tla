--------------------------- MODULE ResponseCache ----------------------------
(***************************************************************************)
(* ResponseCache of src/src/parser_cache.rs: responses by method, path and *)
(* a hash of some of the headers, behind one lock, each with the time at   *)
(* which it was made and, perhaps, one at which it expires.  The hash is   *)
(* taken to be injective.                                                  *)
(***************************************************************************)
EXTENDS Integers, Sequences, FiniteSets

CONSTANTS
  Requests,    \* [path, headers], the headers a sequence of [name, value]
  MaxEntries,  \* max_entries
  Lifetime,    \* what separates cached_at and expires_at, where there is one
  MaxPuts, MaxTime \* bounds

Parameters == {MaxEntries, Lifetime, MaxPuts, MaxTime} \subseteq Nat

VARIABLES
  cache,   \* the entries: a function on some of the keys
  clock,
  puts,    \* every put: its request and response
  answer   \* the last get: its request, when, and its result, if any

vars == <<cache, clock, puts, answer>>

NoEntry == [id |-> 0]

(* Mutant: no header counts.                                               *)
PathKey(r) == <<r.path, <<>>>>

(* CacheKey::new: the headers that do not matter are left out.             *)
Relevant(headers) == SelectSeq(headers, LAMBDA h : h.name \notin {"date", "etag"})

CacheKey(r) == <<r.path, Relevant(r.headers)>>

Keys == {CacheKey(r) : r \in Requests}

Init ==
  /\ cache = <<>> /\ clock = 0 /\ puts = <<>>
  /\ answer = [request |-> NoEntry, at |-> 0, result |-> NoEntry]

Without(k) == [x \in DOMAIN cache \ {k} |-> cache[x]]

Expired(e) == e.expires >= 0 /\ clock > e.expires

Get(r) ==
  LET k == CacheKey(r) IN
  /\ IF k \notin DOMAIN cache THEN answer' = [request |-> r, at |-> clock, result |-> NoEntry]
                                   /\ UNCHANGED cache
     ELSE IF Expired(cache[k]) THEN answer' = [request |-> r, at |-> clock, result |-> NoEntry]
                                    /\ cache' = Without(k)
     ELSE answer' = [request |-> r, at |-> clock, result |-> cache[k]]
          /\ UNCHANGED cache
  /\ UNCHANGED <<clock, puts>>

(* Mutant: the entry with the largest time is removed.                     *)
NewestOut ==
  IF Cardinality(DOMAIN cache) < MaxEntries THEN {cache}
  ELSE {Without(k) : k \in {x \in DOMAIN cache : \A y \in DOMAIN cache : cache[x].at >= cache[y].at}}

(* What put leaves of the entries before it inserts.  Of several that are  *)
(* equally old the order of the hash map decides.                          *)
OldestOut ==
  IF Cardinality(DOMAIN cache) < MaxEntries \/ cache = <<>> THEN {cache}
  ELSE {Without(k) : k \in {x \in DOMAIN cache : \A y \in DOMAIN cache : cache[x].at <= cache[y].at}}

Insert(c, k, e) == [x \in DOMAIN c \cup {k} |-> IF x = k THEN e ELSE c[x]]

(* The caller says when the response was made, which may be a while ago.   *)
Put(r, at, lives) ==
  LET e == [id |-> Len(puts) + 1, at |-> at, expires |-> IF lives THEN at + Lifetime ELSE -1]
  IN
  /\ Len(puts) < MaxPuts
  /\ puts' = Append(puts, [request |-> r, response |-> e])
  /\ \E c \in OldestOut : cache' = Insert(c, CacheKey(r), e)
  /\ UNCHANGED <<clock, answer>>

CleanupExpired ==
  /\ \E k \in DOMAIN cache : Expired(cache[k])
  /\ cache' = [k \in {x \in DOMAIN cache : ~Expired(cache[x])} |-> cache[k]]
  /\ UNCHANGED <<clock, puts, answer>>

Clear ==
  /\ DOMAIN cache # {} /\ cache' = <<>>
  /\ UNCHANGED <<clock, puts, answer>>

Tick == clock < MaxTime /\ clock' = clock + 1 /\ UNCHANGED <<cache, puts, answer>>

Next ==
  \/ \E r \in Requests : Get(r)
  \/ \E r \in Requests, at \in 0..clock, lives \in BOOLEAN : Put(r, at, lives)
  \/ CleanupExpired \/ Clear \/ Tick

Spec == Init /\ [][Next]_vars

-----------------------------------------------------------------------------
Entry == [id : 1..MaxPuts, at : 0..MaxTime, expires : Int]

TypeOK ==
  /\ DOMAIN cache \subseteq Keys /\ IsFiniteSet(DOMAIN cache)
  /\ \A k \in DOMAIN cache : cache[k] \in Entry
  /\ clock \in 0..MaxTime
  /\ puts \in Seq([request : Requests, response : Entry])

(* What get returns was put for a request that differs at most in the      *)
(* headers that do not matter, and had not expired; that it is the latest  *)
(* such response is EntryIsLatest.                                         *)
AnswerIsLatest ==
  LET same(p) == /\ p.request.path = answer.request.path
                 /\ Relevant(p.request.headers) = Relevant(answer.request.headers)
  IN answer.result # NoEntry =>
       /\ \E i \in 1..Len(puts) : same(puts[i]) /\ puts[i].response = answer.result
       /\ answer.result.expires >= 0 => answer.at <= answer.result.expires

(* The entry of a key is its latest response.                              *)
EntryIsLatest ==
  \A k \in DOMAIN cache :
    \A i \in 1..Len(puts) : CacheKey(puts[i].request) = k => puts[i].response.id <= cache[k].id

(* Why: an entry is what was put for its key, and so is an answer.         *)
PutFor(e, k) ==
  \E i \in 1..Len(puts) : puts[i].response = e /\ CacheKey(puts[i].request) = k

Numbered == \A i \in 1..Len(puts) : puts[i].response.id = i
Stored   == \A k \in DOMAIN cache : PutFor(cache[k], k)
Answered ==
  answer.result # NoEntry =>
    /\ PutFor(answer.result, CacheKey(answer.request))
    /\ answer.result.expires >= 0 => answer.at <= answer.result.expires

IInv == TypeOK /\ Numbered /\ Stored /\ Answered /\ EntryIsLatest

(* The cache does not grow beyond its limit, by whatever sequence of puts. *)
Bounded == Cardinality(DOMAIN cache) <= MaxEntries

(* A put removes at most one entry, and none that is younger than one it   *)
(* keeps.                                                                  *)
EvictsOldest ==
  [][Len(puts') > Len(puts) =>
       LET lost == DOMAIN cache \ DOMAIN cache' IN
       /\ Cardinality(lost) <= 1
       /\ \A k \in lost, x \in DOMAIN cache \ lost : cache[k].at <= cache[x].at]_vars
=============================================================================
