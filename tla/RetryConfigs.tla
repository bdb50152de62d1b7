---------------------------- MODULE RetryConfigs ----------------------------
(* RetryConfig of src/src/retry.rs: delays in milliseconds, a multiplier   *)
(* as a fraction.                                                          *)
EXTENDS Integers

Fixed           == [kind |-> "fixed"]
Exponential(m)  == [kind |-> "exponential", multiplier |-> m]
Linear(i)       == [kind |-> "linear", increment |-> i]
Jitters         == {"none", "full", "partial", "decorrelated"}

Config(attempts, base, max, backoff, jitter, decide) ==
  [max_attempts |-> attempts, base_delay |-> base, max_delay |-> max,
   backoff |-> backoff, jitter |-> jitter, custom |-> decide]

(* RetryConfig::default and the for_... constructors.                      *)
Presets ==
  { Config(3, 100, 30000, Exponential(<<2, 1>>), "partial", FALSE),
    Config(5, 50, 10000, Exponential(<<2, 1>>), "full", FALSE),
    Config(10, 1000, 60000, Exponential(<<3, 2>>), "decorrelated", FALSE),
    Config(2, 10, 100, Fixed, "none", FALSE),
    Config(2, 25, 200, Exponential(<<3, 2>>), "partial", FALSE),
    Config(3, 50, 500, Linear(50), "partial", FALSE) }

(* The builder takes every combination, also of a base above the maximum.  *)
Built(attempts, delays) ==
  {Config(n, base, max, b, j, f) :
     n \in attempts, base \in delays, max \in delays,
     b \in {Fixed, Exponential(<<2, 1>>), Linear(3)}, j \in Jitters, f \in BOOLEAN}

-----------------------------------------------------------------------------
(* The presets, and small numbers for the builder.                         *)
SmallConfigs == Built({0, 1, 4}, {0, 2, 7})
CappedConfigs == {c \in SmallConfigs : c.base_delay <= c.max_delay}
AllConfigs == Presets \cup CappedConfigs \cup {c \in SmallConfigs : c.jitter # "decorrelated"}
=============================================================================
