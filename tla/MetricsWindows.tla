--------------------------- MODULE MetricsWindows ---------------------------
(***************************************************************************)
(* The trackers of src/src/metrics.rs that keep recent values, and the     *)
(* health check that is computed from them: LatencyTracker,                *)
(* ThroughputTracker, HealthChecker.  One critical section is one step.    *)
(***************************************************************************)
EXTENDS Integers, Sequences, FiniteSets

CONSTANTS
  Latencies,   \* the latencies that occur
  MaxSamples,  \* LatencyTracker's max_samples
  WindowSize,  \* ThroughputTracker's window_size
  MaxWindows,  \* its max_windows
  MaxRecords,  \* bound: requests
  MaxTime      \* bound: the clock

(* The code's trackers are new(1000) and new(500), with 100 windows; one of *)
(* no sample or of one never drops any, and one of no window panics.       *)
Parameters ==
  /\ Latencies \subseteq Nat
  /\ {MaxSamples, WindowSize, MaxWindows, MaxRecords, MaxTime} \subseteq Nat
  /\ MaxSamples >= 2 /\ MaxWindows >= 1

VARIABLES
  samples,  \* LatencyTracker::samples
  latest,   \* every latency that was recorded
  from,     \* how many of them the last reset has removed
  windows,  \* ThroughputTracker::windows
  starts,   \* the times of all requests
  clock,
  failed    \* how many of the requests failed

vars == <<samples, latest, from, windows, starts, clock, failed>>

Init ==
  /\ samples = <<>> /\ latest = <<>> /\ windows = <<>> /\ starts = <<>>
  /\ clock = 0 /\ failed = 0 /\ from = 0

-----------------------------------------------------------------------------
(* Mutant: truncate instead of drain, which drops the latest samples.      *)
RoomTruncates == IF Len(samples) >= MaxSamples
                 THEN SubSeq(samples, 1, Len(samples) - MaxSamples \div 2) ELSE samples

Room == IF Len(samples) >= MaxSamples
        THEN SubSeq(samples, MaxSamples \div 2 + 1, Len(samples)) ELSE samples

RecordLatency(l, ok) ==
  /\ Len(latest) < Len(starts)
  /\ samples' = Append(Room, l) /\ latest' = Append(latest, l)
  /\ failed' = IF ok THEN failed ELSE failed + 1
  /\ UNCHANGED <<from, windows, starts, clock>>

(* The positions of a sequence, each once, in the order of its values.     *)
Sorts(r, s) ==
  /\ \A i, j \in 1..Len(s) : i # j => r[i] # r[j]
  /\ \A i, j \in 1..Len(s) : i <= j => s[r[i]] <= s[r[j]]

Sorted ==
  LET r == CHOOSE q \in [1..Len(samples) -> 1..Len(samples)] : Sorts(q, samples)
  IN [i \in 1..Len(samples) |-> samples[r[i]]]

(* round((n - 1) * p / 100), counted from one.                             *)
Index(n, p) == (2 * (n - 1) * p + 100) \div 200 + 1

Percentile(p) == Sorted[Index(Len(samples), p)]

SumOf(s) ==
  LET upTo[i \in 0..Len(s)] == IF i = 0 THEN 0 ELSE upTo[i - 1] + s[i] IN upTo[Len(s)]

Average == SumOf(samples) \div Len(samples)

(* The windows that are not too old; the last of them counts the request.  *)
Fresh ==
  LET kept[i \in 0..Len(windows)] ==
        IF i = 0 THEN <<>>
        ELSE IF clock - windows[i].at > WindowSize THEN kept[i - 1]
        ELSE Append(kept[i - 1], windows[i])
  IN kept[Len(windows)]

RecordRequest ==
  /\ Len(starts) < MaxRecords
  /\ windows' = IF Fresh # <<>> THEN [Fresh EXCEPT ![Len(Fresh)].count = @ + 1]
                ELSE <<[at |-> clock, count |-> 1]>>
  /\ starts' = Append(starts, clock)
  /\ UNCHANGED <<samples, latest, from, clock, failed>>

Tick == clock < MaxTime /\ clock' = clock + 1 /\ UNCHANGED <<samples, latest, from, windows, starts, failed>>

Reset ==
  /\ samples' = <<>> /\ from' = Len(latest)
  /\ UNCHANGED <<latest, windows, starts, clock, failed>>

-----------------------------------------------------------------------------
(* check_health: four checks in their order.  An issue of latency or of    *)
(* connections warns, unless something is critical already.                *)
Thresholds == [rate |-> 50, average |-> 2, p95 |-> 3]

Warn(status) == IF status = "healthy" THEN "warning" ELSE status

Health(connections, limit) ==
  LET rate == IF starts # <<>> /\ failed * 100 > Thresholds.rate * Len(starts)
              THEN "critical" ELSE "healthy"
      average == IF samples # <<>> /\ Average > Thresholds.average THEN Warn(rate) ELSE rate
      p95 == IF samples # <<>> /\ Percentile(95) > Thresholds.p95 THEN "critical" ELSE average
  IN IF connections > limit THEN Warn(p95) ELSE p95

Next ==
  \/ RecordRequest \/ Tick \/ Reset
  \/ \E l \in Latencies, ok \in BOOLEAN : RecordLatency(l, ok)

Spec == Init /\ [][Next]_vars

-----------------------------------------------------------------------------
TypeOK ==
  /\ samples \in Seq(Latencies) /\ latest \in Seq(Latencies)
  /\ windows \in Seq([at : Nat, count : Nat \ {0}]) /\ starts \in Seq(Nat)
  /\ {clock, failed, from} \subseteq Nat

(* The samples are the last ones recorded, and never fewer than half of    *)
(* the room as long as so many have been recorded since the last reset.    *)
RecentKept ==
  LET n == Len(samples) IN
  /\ n <= Len(latest) - from /\ samples = SubSeq(latest, Len(latest) - n + 1, Len(latest))
  /\ n < Len(latest) - from => 2 * n > MaxSamples

(* "Keep only recent samples": the memory of a tracker is bounded.         *)
SamplesBounded == Len(samples) <= MaxSamples

(* The p-th percentile is a sample that at least that share of the samples *)
(* does not exceed, half a sample allowed; the percentiles of a snapshot   *)
(* are ordered and the average lies between the extremes.                  *)
PercentileCovers ==
  samples # <<>> =>
    LET n == Len(samples)
        AtMost(v) == Cardinality({i \in 1..n : samples[i] <= v}) IN
    /\ \A p \in {0, 50, 95, 99, 100} :
         200 * AtMost(Percentile(p)) >= 2 * (n - 1) * p + 100
    /\ Percentile(50) <= Percentile(95) /\ Percentile(95) <= Percentile(99)
    /\ Percentile(0) <= Average /\ Average <= Percentile(100)

(* The status is that of the worst issue, whatever the order of the checks.*)
HealthIsWorst ==
  \A connections, limit \in 0..1 :
    LET critical == \/ starts # <<>> /\ 2 * failed > Len(starts)
                    \/ samples # <<>> /\ Percentile(95) > Thresholds.p95
        warning  == \/ samples # <<>> /\ Average > Thresholds.average
                    \/ connections > limit
    IN Health(connections, limit) =
         IF critical THEN "critical" ELSE IF warning THEN "warning" ELSE "healthy"

(* No request is counted twice, and none that is older than two windows.   *)
WindowsRecent ==
  LET counted == SumOf([i \in 1..Len(windows) |-> windows[i].count]) IN
  /\ Len(windows) <= MaxWindows
  /\ counted <= Cardinality({i \in 1..Len(starts) :
       starts[i] >= starts[Len(starts)] - WindowSize})

(* What makes that inductive: the clock does not go back, and the one      *)
(* window there ever is has counted the requests since the one that made   *)
(* it, none of them later than it lasts.                                   *)
ClockRuns ==
  /\ \A i, j \in 1..Len(starts) : i <= j => starts[i] <= starts[j]
  /\ \A i \in 1..Len(starts) : starts[i] <= clock

OneWindow ==
  /\ Len(windows) <= 1
  /\ windows # <<>> =>
       \E k \in 1..Len(starts) :
         /\ windows[1] = [at |-> starts[k], count |-> Len(starts) - k + 1]
         /\ starts[Len(starts)] <= starts[k] + WindowSize

IInv ==
  TypeOK /\ RecentKept /\ SamplesBounded /\ ClockRuns /\ OneWindow
=============================================================================
