------------------------ MODULE ConnectionPoolLease ------------------------
(***************************************************************************)
(* ConnectionPool implements ConnectionLease: the mapping from the pool's  *)
(* state to who has each stream.                                           *)
(***************************************************************************)
EXTENDS ConnectionPool

CONSTANTS Idle, Closed

ASSUME LeaseAssumption == Idle # Closed /\ {Idle, Closed} \cap Tasks = {}

(* A stream is lent from the moment a task has it until the task drops the *)
(* permit: after that the stream is no longer the pool's.                  *)
Lease ==
  [c \in Conns |->
     IF \E i \in DOMAIN idle : idle[i].conn = c THEN Idle
     ELSE IF \E t \in Tasks : conn[t] = c /\ pc[t] # "unpooled"
          THEN CHOOSE t \in Tasks : conn[t] = c
          ELSE Closed]

Tainted == {c \in dirty : Lease[c] # Closed}

Abstract ==
  INSTANCE ConnectionLease
    WITH Clients <- Tasks, MaxSize <- Cardinality(Permits), lease <- Lease, tainted <- Tainted

(* Every step of the pool is a step that ConnectionLease allows: no more   *)
(* than max_size streams are lent or idle, each lent to one task, none     *)
(* lent while a response to somebody else is pending on it.                *)
Refines == Abstract!Spec
=============================================================================
