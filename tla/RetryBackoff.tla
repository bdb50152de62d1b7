---------------------------- MODULE RetryBackoff ----------------------------
(***************************************************************************)
(* RetryExecutor of src/src/retry.rs: the attempts of one execute and the  *)
(* delays between them, in milliseconds.  A multiplier is a fraction.      *)
(***************************************************************************)
EXTENDS RetryConfigs, Integers, FiniteSets

CONSTANTS
  Configs,  \* the configurations to run with
  Step      \* of the random delays, every Step-th is looked at and the longest

VARIABLES config, state, pc, error, slept

vars == <<config, state, pc, error, slept>>

Nonzero == Nat \ {0}

(* A multiplier is at least one, as that of every preset is.               *)
Backoffs ==
  [kind : {"fixed"}] \cup [kind : {"linear"}, increment : Nat]
  \cup {b \in [kind : {"exponential"}, multiplier : Nonzero \X Nonzero] :
          b.multiplier[1] >= b.multiplier[2]}

Parameters ==
  /\ Step \in Nonzero
  /\ \A c \in Configs :
       /\ {c.max_attempts, c.base_delay, c.max_delay} \subseteq Nat
       /\ c.backoff \in Backoffs /\ c.jitter \in Jitters /\ c.custom \in BOOLEAN

(* The range of a decorrelated jitter is not empty.                        *)
BaseBelowMax == \A c \in Configs : c.jitter = "decorrelated" => c.base_delay <= c.max_delay

Power(x, n) == LET p[k \in Nat] == IF k = 0 THEN 1 ELSE x * p[k - 1] IN p[n]

Lesser(a, b)  == IF a < b THEN a ELSE b
Greater(a, b) == IF a > b THEN a ELSE b

NewState == [attempt |-> 0, last_delay |-> 0]

Init ==
  /\ config \in Configs
  /\ state = NewState /\ pc = "attempt" /\ error = "none" /\ slept = 0

-----------------------------------------------------------------------------
Backoff(n) ==
  CASE config.backoff.kind = "fixed"  -> config.base_delay
    [] config.backoff.kind = "linear" -> config.base_delay + config.backoff.increment * (n - 1)
    [] config.backoff.kind = "exponential" ->
         (config.base_delay * Power(config.backoff.multiplier[1], n - 1))
           \div Power(config.backoff.multiplier[2], n - 1)

Capped(n) == Lesser(Backoff(n), config.max_delay)

(* random_range; it panics on an empty range.                              *)
Between(low, high) ==
  {low + k * Step : k \in 0..((high - low) \div Step)} \cup (IF low <= high THEN {high} ELSE {})

Decorrelated ==
  Between(config.base_delay,
          Lesser(Greater(state.last_delay * 3, config.base_delay), config.max_delay))

Delays ==
  CASE config.jitter = "none"    -> {Capped(state.attempt)}
    [] config.jitter = "full"    -> {Capped(state.attempt) + j : j \in Between(0, Capped(state.attempt) \div 2)}
    [] config.jitter = "partial" -> {Capped(state.attempt) + j : j \in Between(0, Capped(state.attempt) \div 4)}
    [] config.jitter = "decorrelated" -> Decorrelated

Errors == {"transient", "pool_exhausted", "final"}

(* Io, Connection, Timeout, StreamClosed and 5xx are transient; a custom   *)
(* should_retry decides as it likes.                                       *)
ShouldRetry ==
  IF config.custom THEN BOOLEAN
  ELSE {error = "transient" \/ (error = "pool_exhausted" /\ state.attempt <= 5)}

(* execute                                                                 *)
Attempt ==
  /\ pc = "attempt"
  /\ state' = [state EXCEPT !.attempt = @ + 1]
  /\ pc' = "running"
  /\ UNCHANGED <<config, error, slept>>

Succeeds ==
  /\ pc = "running" /\ pc' = "ok"
  /\ UNCHANGED <<config, state, error, slept>>

Fails ==
  /\ pc = "running" /\ pc' = "failed"
  /\ error' \in Errors
  /\ UNCHANGED <<config, state, slept>>

GivesUp ==
  /\ pc = "failed"
  /\ FALSE \in ShouldRetry \/ state.attempt >= config.max_attempts
  /\ pc' = "error"
  /\ UNCHANGED <<config, state, error, slept>>

(* Mutant: one attempt too many.                                           *)
SleepsAgain ==
  /\ pc = "failed" /\ TRUE \in ShouldRetry /\ state.attempt <= config.max_attempts
  /\ \E d \in Delays :
       /\ state' = [state EXCEPT !.last_delay = d]
       /\ slept' = slept + d
  /\ pc' = "attempt"
  /\ UNCHANGED <<config, error>>

Sleeps ==
  /\ pc = "failed" /\ TRUE \in ShouldRetry /\ state.attempt < config.max_attempts
  /\ \E d \in Delays :
       /\ state' = [state EXCEPT !.last_delay = d]
       /\ slept' = slept + d
  /\ pc' = "attempt"
  /\ UNCHANGED <<config, error>>

Panics ==
  /\ pc = "failed" /\ TRUE \in ShouldRetry /\ state.attempt < config.max_attempts
  /\ Delays = {}
  /\ pc' = "panic"
  /\ UNCHANGED <<config, state, error, slept>>

Next == Attempt \/ Succeeds \/ Fails \/ GivesUp \/ Sleeps \/ Panics

Spec == Init /\ [][Next]_vars

-----------------------------------------------------------------------------
TypeOK ==
  /\ config.jitter \in Jitters /\ slept \in Nat
  /\ state \in [attempt : Nat, last_delay : Nat]
  /\ pc \in {"attempt", "running", "failed", "ok", "error", "panic"}
  /\ error \in Errors \cup {"none"}

(* What a caller can rely on for its own timeouts: the whole wait is at    *)
(* most the longest delay with its jitter, for each attempt but one; and   *)
(* no attempt is made beyond max_attempts, of which 0 counts as 1.         *)
WaitBounded ==
  /\ slept * 2 <= 3 * config.max_delay * Greater(config.max_attempts - 1, 0)
  /\ state.attempt <= Greater(config.max_attempts, 1)

(* A peer that fails is not hammered: unless the maximum is smaller, every *)
(* retry waits for at least the base delay.                                *)
WaitsAtLeast ==
  state.attempt > 0 /\ pc = "attempt" =>
    state.last_delay >= Lesser(config.base_delay, config.max_delay)

(* calculate_delay has a delay for every configuration the builder takes.  *)
NeverPanics == pc # "panic"

DelaysBounded == WaitBounded /\ WaitsAtLeast /\ NeverPanics

(* What has been waited for, and how many attempts there have been.        *)
Waits == IF pc = "attempt" THEN state.attempt ELSE state.attempt - 1

Counted ==
  /\ slept * 2 <= 3 * config.max_delay * Waits
  /\ pc = "attempt" => state.attempt = 0 \/ state.attempt < config.max_attempts
  /\ pc # "attempt" =>
       state.attempt > 0 /\ state.attempt <= Greater(config.max_attempts, 1)

IInv == TypeOK /\ config \in Configs /\ DelaysBounded /\ Counted

(* Every execute ends.                                                     *)
Ends == <>(pc \in {"ok", "error", "panic"})
=============================================================================
