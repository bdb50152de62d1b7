------------------------------ MODULE Metrics ------------------------------
(***************************************************************************)
(* MetricsCollector of src/src/metrics.rs, shared by the calls of a        *)
(* client: IpcHttpClient's send in src/src/ipc_http_client.rs starts a     *)
(* RequestTracker, takes a connection, and completes the tracker with what *)
(* the exchange returned; its future may be dropped in between.  A step is *)
(* one atomic operation or one critical section of a lock.  The client has *)
(* no pool, so that a connection is closed after its exchange.             *)
(***************************************************************************)
EXTENDS Integers, FiniteSets

CONSTANTS
  Calls,           \* requests; each is sent once
  Methods,
  Statuses, ErrorTypes,
  None

Parameters ==
  /\ IsFiniteSet(Calls)
  /\ Methods \cap (Statuses \cup ErrorTypes) = {} /\ Statuses \cap ErrorTypes = {}

VARIABLES
  pc,       \* where a call is
  method,   \* its method
  outcome,  \* the status or the error type it completes with
  counter,  \* the counters
  by        \* the maps: requests_by_method, requests_by_status, errors_by_type

vars == <<pc, method, outcome, counter, by>>

Counters == {"total", "active", "successful", "failed", "connections",
             "active_connections", "failed_connections", "total_errors"}
Keys     == Methods \cup Statuses \cup ErrorTypes
Add(c, n) == counter' = [counter EXCEPT ![c] = @ + n]
Go(c, to) == pc' = [pc EXCEPT ![c] = to]

Init ==
  /\ pc = [c \in Calls |-> "new"]
  /\ method \in [Calls -> Methods]
  /\ outcome = [c \in Calls |-> None]
  /\ counter = [k \in Counters |-> 0]
  /\ by = [k \in Keys |-> 0]           \* 0: no entry

-----------------------------------------------------------------------------
(* request_start                                                           *)
Start(c) ==
  /\ pc[c] = "new" /\ Add("total", 1) /\ Go(c, "started")
  /\ UNCHANGED <<method, outcome, by>>

Activate(c) ==
  /\ pc[c] = "started" /\ Add("active", 1) /\ Go(c, "lookup")
  /\ UNCHANGED <<method, outcome, by>>

(* Under the read lock: a counter that is there is incremented.            *)
Lookup(c) ==
  /\ pc[c] = "lookup"
  /\ IF by[method[c]] > 0
     THEN by' = [by EXCEPT ![method[c]] = @ + 1] /\ Go(c, "connect")
     ELSE UNCHANGED by /\ Go(c, "insert")
  /\ UNCHANGED <<method, outcome, counter>>

(* Under the write lock: an entry that has come meanwhile is left alone.   *)
Insert(c) ==
  /\ pc[c] = "insert"
  /\ by' = [by EXCEPT ![method[c]] = IF @ = 0 THEN 1 ELSE @]
  /\ Go(c, "connect")
  /\ UNCHANGED <<method, outcome, counter>>

-----------------------------------------------------------------------------
(* get_connection with its metrics, and the exchange                       *)
Connect(c) ==
  /\ pc[c] = "connect"
  /\ counter' = [counter EXCEPT !["connections"] = @ + 1, !["active_connections"] = @ + 1]
  /\ Go(c, "exchange")
  /\ UNCHANGED <<method, outcome, by>>

ConnectFails(c) ==
  /\ pc[c] = "connect" /\ Add("failed_connections", 1)
  /\ \E e \in ErrorTypes : outcome' = [outcome EXCEPT ![c] = e]
  /\ Go(c, "error")
  /\ UNCHANGED <<method, by>>

Exchange(c) ==
  /\ pc[c] = "exchange"
  /\ \E r \in Statuses \cup ErrorTypes :
       /\ outcome' = [outcome EXCEPT ![c] = r]
       /\ Go(c, IF r \in ErrorTypes THEN "error" ELSE "deactivate")
  /\ UNCHANGED <<method, counter, by>>

(* The future of send is dropped: RequestTracker has no Drop.              *)
Dropped(c) ==
  /\ pc[c] \in {"connect", "exchange"}
  /\ Go(c, "dropped")
  /\ UNCHANGED <<method, outcome, counter, by>>

-----------------------------------------------------------------------------
(* RequestTracker::success and failure                                     *)
RecordError(c) ==
  /\ pc[c] = "error" /\ Add("total_errors", 1) /\ Go(c, "error_type")
  /\ UNCHANGED <<method, outcome, by>>

RecordErrorType(c) ==
  /\ pc[c] = "error_type"
  /\ by' = [by EXCEPT ![outcome[c]] = @ + 1]
  /\ Go(c, "deactivate")
  /\ UNCHANGED <<method, outcome, counter>>

Deactivate(c) ==
  /\ pc[c] = "deactivate" /\ Add("active", -1) /\ Go(c, "count")
  /\ UNCHANGED <<method, outcome, by>>

Count(c) ==
  /\ pc[c] = "count"
  /\ IF outcome[c] \in Statuses
     THEN Add("successful", 1) /\ Go(c, "status")
     ELSE Add("failed", 1) /\ Go(c, "done")
  /\ UNCHANGED <<method, outcome, by>>

RecordStatus(c) ==
  /\ pc[c] = "status"
  /\ by' = [by EXCEPT ![outcome[c]] = @ + 1]
  /\ Go(c, "done")
  /\ UNCHANGED <<method, outcome, counter>>

Tracks(c) ==
  \/ Start(c) \/ Activate(c) \/ Lookup(c) \/ Insert(c)
  \/ RecordError(c) \/ RecordErrorType(c) \/ Deactivate(c) \/ Count(c) \/ RecordStatus(c)

Next ==
  \E c \in Calls : Tracks(c) \/ Connect(c) \/ ConnectFails(c) \/ Exchange(c) \/ Dropped(c)

Spec == Init /\ [][Next]_vars

-----------------------------------------------------------------------------
At(places) == {c \in Calls : pc[c] \in places}

TypeOK ==
  /\ pc \in [Calls -> {"new", "started", "lookup", "insert", "connect", "exchange", "error",
                       "error_type", "deactivate", "count", "status", "done", "dropped"}]
  /\ method \in [Calls -> Methods]
  /\ outcome \in [Calls -> Statuses \cup ErrorTypes \cup {None}]
  /\ counter \in [Counters -> Nat] /\ by \in [Keys -> Nat]

(* Every request that has started is active, successful or failed, but for *)
(* those between two atomic operations, and one whose caller gave up stays *)
(* active; every failed request is in the errors, by total and by type.    *)
Balanced ==
  /\ counter["total"] =
       counter["active"] + counter["successful"] + counter["failed"]
         + Cardinality(At({"started", "count"}))
  /\ counter["total_errors"] =
       counter["failed"] + Cardinality({c \in At({"error_type", "deactivate", "count"}) :
                                   outcome[c] \in ErrorTypes})

(* The maps are of the requests that have happened: every answer and every *)
(* error is there once, and a method is there as soon as one of its        *)
(* requests has been, with no more of them than there were.  It may have   *)
(* fewer: two calls that are the first of their method insert one entry.   *)
MapsCounted ==
  /\ \A s \in Statuses : by[s] = Cardinality({c \in At({"done"}) : outcome[c] = s})
  /\ \A e \in ErrorTypes :
       by[e] = Cardinality({c \in At({"deactivate", "count", "done"}) : outcome[c] = e})
  /\ \A m \in Methods :
       LET n == Cardinality({c \in Calls \ At({"new", "started", "lookup", "insert"}) :
                               method[c] = m})
       IN  by[m] <= n /\ (n > 0 => by[m] > 0)

(* Why: who is active, and with what outcome.                              *)
Active   == {"lookup", "insert", "connect", "exchange", "error", "error_type", "deactivate",
             "dropped"}
Counting == counter["active"] = Cardinality(At(Active))

Ends(c) ==
  /\ pc[c] \in {"error", "error_type"} => outcome[c] \in ErrorTypes
  /\ pc[c] = "status" => outcome[c] \in Statuses
  /\ pc[c] \in {"deactivate", "count", "done"} => outcome[c] \in Statuses \cup ErrorTypes

IInv ==
  TypeOK /\ Counting /\ (\A c \in Calls : Ends(c)) /\ Balanced /\ MapsCounted
=============================================================================
