--------------------------- MODULE CircuitBreaker ---------------------------
(***************************************************************************)
(* CircuitBreaker of src/src/retry.rs.  execute borrows the breaker        *)
(* mutably, so that one call runs at a time; its future may be dropped     *)
(* while the operation runs.  since is the time since the last failure,    *)
(* counted up to recovery_timeout.                                         *)
(***************************************************************************)
EXTENDS Integers

CONSTANTS
  Threshold,  \* failure_threshold
  Recovery,   \* recovery_timeout
  MaxFailures \* bound: consecutive failures that are counted apart

ASSUME ThresholdAssumption == Threshold \in Nat
ASSUME RecoveryAssumption  == Recovery \in Nat
ASSUME BoundAssumption     == MaxFailures \in Nat /\ MaxFailures > Threshold

VARIABLES
  state,    \* CircuitState
  failures, \* consecutive_failures
  last,     \* last_failure_time: None or Some
  since,
  call      \* whether the operation of a call is running

vars == <<state, failures, last, since, call>>

Init ==
  /\ state = "closed" /\ failures = 0 /\ last = "never" /\ since = 0
  /\ call = "none"

Waiting == last = "known" /\ since < Recovery

(* execute with the breaker open and not yet ready for a probe.            *)
Refuse ==
  /\ call = "none" /\ state = "open" /\ (Waiting \/ last = "never")
  /\ UNCHANGED vars

Pass ==
  /\ call = "none" /\ state # "open"
  /\ call' = "running"
  /\ UNCHANGED <<state, failures, last, since>>

Probe ==
  /\ call = "none" /\ state = "open" /\ last = "known" /\ ~Waiting
  /\ state' = "half_open" /\ call' = "running"
  /\ UNCHANGED <<failures, last, since>>

Success ==
  /\ call = "running" /\ call' = "none"
  /\ state' = "closed" /\ failures' = 0 /\ last' = "never" /\ since' = 0

Count == IF failures < MaxFailures THEN failures + 1 ELSE failures

(* Mutant: the time of a failure is not recorded.                          *)
FailureUntimed ==
  /\ call = "running" /\ call' = "none"
  /\ failures' = Count /\ since' = 0
  /\ state' = IF Count >= Threshold THEN "open" ELSE state
  /\ UNCHANGED last

Failure ==
  /\ call = "running" /\ call' = "none"
  /\ failures' = Count /\ last' = "known" /\ since' = 0
  /\ state' = IF Count >= Threshold THEN "open" ELSE state

Cancel ==
  /\ call = "running" /\ call' = "none"
  /\ UNCHANGED <<state, failures, last, since>>

(* Mutant: only the state is reset.                                        *)
ResetState ==
  /\ call = "none" /\ state' = "closed"
  /\ UNCHANGED <<failures, last, since, call>>

Reset ==
  /\ call = "none"
  /\ state' = "closed" /\ failures' = 0 /\ last' = "never" /\ since' = 0
  /\ UNCHANGED call

Tick ==
  /\ Waiting /\ since' = since + 1
  /\ UNCHANGED <<state, failures, last, call>>

Call == Refuse \/ Pass \/ Probe
Next == Call \/ Success \/ Failure \/ Cancel \/ Reset \/ Tick

Spec == Init /\ [][Next]_vars

-----------------------------------------------------------------------------
TypeOK ==
  /\ state \in {"closed", "open", "half_open"}
  /\ failures \in 0..MaxFailures /\ since \in 0..Recovery
  /\ last \in {"never", "known"} /\ call \in {"none", "running"}

(* A breaker that is not closed has seen its threshold of failures and     *)
(* knows the time of the last one: it can never be open without a way out, *)
(* and a probe that fails opens it again at once.                          *)
OpenHasCause == state # "closed" => failures >= Threshold /\ failures > 0 /\ last = "known"

(* A service that has failed as often as the threshold is left alone for   *)
(* recovery_timeout after each failure, also when a probe was cancelled or *)
(* failed, and when the breaker was reset in between.                      *)
LeavesAlone == call = "running" /\ failures >= Threshold => ~Waiting

(* An open breaker is tried again, or reset, at some time.                 *)
Recovers == state = "open" ~> state # "open"

=============================================================================
