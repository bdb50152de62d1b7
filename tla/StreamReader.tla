---------------------------- MODULE StreamReader ----------------------------
(***************************************************************************)
(* One call of the streaming client: src/src/ipc_stream_client.rs connects *)
(* and sends the request within a timeout, src/src/stream_client.rs reads  *)
(* the headers and then, in one of six ways, line after line until the     *)
(* stream ends, fails, the handler has enough, or a timer fires.  When a   *)
(* line is there and the timer has fired, select takes either.             *)
(***************************************************************************)
EXTENDS Integers, Sequences

CONSTANTS
  Ways,        \* the methods of StreamingResponse that are called
  MaxRetries,  \* StreamClientConfig::max_retries
  RetryDelay,  \* its retry_delay
  Timeout,     \* the caller's timeout, of the request and of the reading
  LinesCap,    \* the five seconds of process_lines_with_timeout
  TextCap,     \* the thirty seconds of collect_text_with_timeout
  MaxLines, MaxTime, \* bounds
  Late         \* bound: how long after its timer a call may be polled

Idle == {"lines_timeout", "text_timeout"}
Json == {"json", "process_json"}
Timed == Idle \cup Json
AllWays == Timed \cup {"lines", "text"}

Parameters ==
  /\ Ways \subseteq AllWays
  /\ {MaxRetries, RetryDelay, Timeout, LinesCap, TextCap, MaxLines, MaxTime, Late} \subseteq Nat

VARIABLES
  way,    \* how the lines are read
  at,     \* "connect", "sleep", "headers", "read" or "done"
  tries,  \* attempts to connect
  lines,  \* the lines the server has sent
  link,   \* the connection, seen from the server: "open", "eof" or "broken"
  taken,  \* how many lines the stream has yielded
  got,    \* the results, or what the handler was given
  clock,
  since,  \* when the current wait began
  last,   \* when the last line was taken, or the reading began
  cause   \* why the call is over

vars == <<way, at, tries, lines, link, taken, got, clock, since, last, cause>>

Init ==
  /\ way \in Ways /\ at = "connect" /\ tries = 0 /\ lines = <<>> /\ link = "open"
  /\ taken = 0 /\ got = <<>> /\ clock = 0 /\ since = 0 /\ last = 0 /\ cause = "none"

Over(c) == at' = "done" /\ cause' = c

Smaller(a, b) == IF a < b THEN a ELSE b

Limit ==
  CASE way = "lines_timeout" -> Smaller(Timeout, LinesCap)
    [] way = "text_timeout"  -> Smaller(Timeout, TextCap)
    [] OTHER -> Timeout

-----------------------------------------------------------------------------
(* create_connection and send_request_internal                             *)

Connect ==
  /\ at = "connect" /\ tries < MaxRetries
  /\ tries' = tries + 1
  /\ \/ at' = "headers" /\ UNCHANGED <<since, cause>>
     \/ IF tries' < MaxRetries THEN at' = "sleep" /\ since' = clock /\ UNCHANGED cause
        ELSE Over("not connected") /\ UNCHANGED since
  /\ UNCHANGED <<way, lines, link, taken, got, clock, last>>

NoAttempt ==
  /\ at = "connect" /\ MaxRetries = 0 /\ Over("not connected")
  /\ UNCHANGED <<way, tries, lines, link, taken, got, clock, since, last>>

Slept ==
  /\ at = "sleep" /\ clock - since >= RetryDelay /\ at' = "connect"
  /\ UNCHANGED <<way, tries, lines, link, taken, got, clock, since, last, cause>>

RequestTimeout ==
  /\ at \in {"connect", "sleep", "headers"} /\ clock >= Timeout /\ Over("timeout")
  /\ UNCHANGED <<way, tries, lines, link, taken, got, clock, since, last>>

(* parse_streaming_response: complete headers, or an error.                *)
Headers ==
  /\ at = "headers"
  /\ \/ link = "open" /\ at' = "read" /\ since' = clock /\ last' = clock /\ UNCHANGED cause
     \/ Over("bad response") /\ UNCHANGED <<since, last>>
  /\ UNCHANGED <<way, tries, lines, link, taken, got, clock>>

-----------------------------------------------------------------------------
(* The server sends lines that are JSON objects, blank or something else,  *)
(* or that cannot be decoded; a line that is cut by the end is a line.     *)

Send(kind) ==
  /\ at = "read" /\ link = "open" /\ Len(lines) < MaxLines
  /\ lines' = Append(lines, kind)
  /\ UNCHANGED <<way, at, tries, link, taken, got, clock, since, last, cause>>

End(how) ==
  /\ at \in {"headers", "read"} /\ link = "open" /\ link' = how
  /\ UNCHANGED <<way, at, tries, lines, taken, got, clock, since, last, cause>>

(* Whatever keeps a call busy, it is polled some time after its timer.     *)
NotLate ==
  /\ at \in {"connect", "sleep", "headers"} => clock < Timeout + Late
  /\ at = "read" /\ way \in Timed => clock - since < Limit + Late

Tick ==
  /\ at # "done" /\ clock < MaxTime /\ NotLate /\ clock' = clock + 1
  /\ UNCHANGED <<way, at, tries, lines, link, taken, got, since, last, cause>>

-----------------------------------------------------------------------------
(* Mutant: the timer runs on.                                              *)
TakeNoReset ==
  LET line == lines[taken + 1] IN
  /\ at = "read" /\ taken < Len(lines) /\ line # "garbled"
  /\ taken' = taken + 1 /\ last' = clock
  /\ got' = IF way \in Json /\ line # "good" THEN got ELSE Append(got, line)
  /\ UNCHANGED <<way, at, tries, lines, link, clock, since, cause>>

(* A line is yielded, handled, and the idle timer starts again.            *)
Take ==
  LET line == lines[taken + 1] IN
  /\ at = "read" /\ taken < Len(lines) /\ line # "garbled"
  /\ taken' = taken + 1 /\ last' = clock
  /\ got' = IF way \in Json /\ line # "good" THEN got ELSE Append(got, line)
  /\ since' = IF way \in Idle THEN clock ELSE since
  /\ UNCHANGED <<way, at, tries, lines, link, clock, cause>>

(* The handler fails, or returns false.                                    *)
Enough ==
  /\ at = "read" /\ taken < Len(lines) /\ lines[taken + 1] # "garbled"
  /\ taken' = taken + 1 /\ got' = Append(got, lines[taken + 1])
  /\ \/ way \in {"lines", "lines_timeout"} /\ Over("handler error")
     \/ way = "lines_timeout" /\ Over("stop")
  /\ UNCHANGED <<way, tries, lines, link, clock, since, last>>

StreamEnds ==
  /\ at = "read"
  /\ \/ taken = Len(lines) /\ link = "eof" /\ Over("end")
     \/ taken = Len(lines) /\ link = "broken" /\ Over("stream error")
     \/ taken < Len(lines) /\ lines[taken + 1] = "garbled" /\ Over("stream error")
  /\ UNCHANGED <<way, tries, lines, link, taken, got, clock, since, last>>

TimeUp ==
  /\ at = "read" /\ way \in Timed /\ clock - since >= Limit /\ Over("time")
  /\ UNCHANGED <<way, tries, lines, link, taken, got, clock, since, last>>

Next ==
  \/ Connect \/ NoAttempt \/ Slept \/ RequestTimeout \/ Headers
  \/ Take \/ Enough \/ StreamEnds \/ TimeUp \/ Tick
  \/ \E kind \in {"good", "blank", "junk", "garbled"} : Send(kind)
  \/ \E how \in {"eof", "broken"} : End(how)

Spec == Init /\ [][Next]_vars

-----------------------------------------------------------------------------
(* The methods that collect JSON return what they have got, also after an  *)
(* error; a timer that fires is a success for all.                         *)
Succeeds == cause \in {"end", "stop", "time"} \/ (cause = "stream error" /\ way \in Json)

TypeOK ==
  /\ way \in Ways /\ at \in {"connect", "sleep", "headers", "read", "done"}
  /\ tries \in 0..MaxRetries /\ link \in {"open", "eof", "broken"}
  /\ lines \in Seq({"good", "blank", "junk", "garbled"}) /\ got \in Seq({"good", "blank", "junk"})
  /\ taken \in 0..Len(lines) /\ {clock, since, last} \subseteq 0..MaxTime
  /\ cause \in {"none", "not connected", "timeout", "bad response", "end", "stop", "time",
                "handler error", "stream error"}

(* "ignore failures for robustness": whatever lies between them, the lines *)
(* that parse are all returned, in their order, and the others are passed  *)
(* to whoever wants every line; a reading that has come to the end has     *)
(* passed over nothing.                                                    *)
Wanted(k) == way \in Json => lines[k] = "good"

KeptFrom(place) ==
  /\ \A i, j \in DOMAIN got : i < j => place[i] < place[j]
  /\ \A i \in DOMAIN got : got[i] = lines[place[i]]
  /\ {place[i] : i \in DOMAIN got} = {k \in 1..taken : Wanted(k)}

NothingSkipped ==
  /\ \E place \in [DOMAIN got -> 1..taken] : KeptFrom(place)
  /\ cause = "end" => taken = Len(lines) /\ link = "eof"

(* Without a timer, success of a reading means the whole stream.           *)
WholeStream ==
  way \in {"lines", "text"} /\ Succeeds =>
    link = "eof" /\ got = lines /\ \A i \in 1..Len(lines) : lines[i] # "garbled"

(* An idle timer ends a reading only if no line has been taken for as long *)
(* as the timer runs, however late the call is polled.                     *)
OnlyIdleTimesOut ==
  cause = "time" /\ way \in Idle => clock - last >= Smaller(Timeout, IF way = "text_timeout" THEN TextCap ELSE LinesCap)

LinesRead == NothingSkipped /\ WholeStream /\ OnlyIdleTimesOut

(* Who does not parse the lines gets every one that is yielded, and none   *)
(* that cannot be decoded is.  An idle timer has run since the last line.  *)
Yielded ==
  /\ \A k \in 1..taken : lines[k] # "garbled"
  /\ way \notin Json => Len(got) = taken /\ \A k \in 1..taken : got[k] = lines[k]

Running ==
  /\ at = "done" <=> cause # "none"
  /\ at = "read" /\ way \in Idle => since = last
  /\ cause = "stop" => way = "lines_timeout"
  /\ cause = "time" => way \in Timed

IInv == TypeOK /\ LinesRead /\ Yielded /\ Running

(* With a timeout, the call ends although the server is silent or never    *)
(* accepts, in every phase.                                                *)
CallEnds == way \in Timed ~> at = "done"
=============================================================================
