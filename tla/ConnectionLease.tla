-------------------------- MODULE ConnectionLease --------------------------
(***************************************************************************)
(* What the connection pool of src/src/pool.rs promises: at most MaxSize   *)
(* streams are open under its control; a stream is lent to one client at a *)
(* time; it goes back to the idle ones only when no response is pending on *)
(* it, so a client is never lent a stream that still carries somebody      *)
(* else's response.                                                        *)
(***************************************************************************)
EXTENDS Naturals, FiniteSets

CONSTANTS Clients, Conns, MaxSize, Idle, Closed

VARIABLES
  lease,    \* who has each stream: a client, Idle or Closed
  tainted   \* the streams with an unfinished exchange

vars == <<lease, tainted>>

Open == {c \in Conns : lease[c] # Closed}

HasNone(t) == \A c \in Conns : lease[c] # t

Init == lease = [c \in Conns |-> Closed] /\ tainted = {}

Connect(t, c) ==
  /\ lease[c] = Closed /\ HasNone(t)
  /\ Cardinality(Open) < MaxSize
  /\ lease' = [lease EXCEPT ![c] = t]
  /\ UNCHANGED tainted

Lend(t, c) ==
  /\ lease[c] = Idle /\ HasNone(t)
  /\ c \notin tainted
  /\ lease' = [lease EXCEPT ![c] = t]
  /\ UNCHANGED tainted

Send(t, c) ==
  /\ lease[c] = t
  /\ tainted' = tainted \cup {c}
  /\ UNCHANGED lease

Receive(t, c) ==
  /\ lease[c] = t
  /\ tainted' = tainted \ {c}
  /\ UNCHANGED lease

Park(t, c) ==
  /\ lease[c] = t /\ c \notin tainted
  /\ lease' = [lease EXCEPT ![c] = Idle]
  /\ UNCHANGED tainted

Discard(c) ==
  /\ lease[c] # Closed
  /\ lease' = [lease EXCEPT ![c] = Closed]
  /\ tainted' = tainted \ {c}

Next ==
  \E c \in Conns :
    \/ \E t \in Clients : \/ Connect(t, c) \/ Lend(t, c) \/ Park(t, c)
                          \/ Send(t, c) \/ Receive(t, c)
    \/ Discard(c)

Spec == Init /\ [][Next]_vars
=============================================================================
