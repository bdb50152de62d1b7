------------------------------ MODULE PutBatch ------------------------------
(***************************************************************************)
(* put_batch (src/src/ipc_http_client.rs): the requests of a batch are     *)
(* sent in chunks of max_concurrent_requests; the requests of a chunk run  *)
(* together and are all awaited before the next chunk is begun.  How one   *)
(* of them is sent is RequestExchange; here it reaches the server or not,  *)
(* and the client learns of it or not.                                     *)
(***************************************************************************)
EXTENDS Integers, Sequences, FiniteSets, SequencesExt, FiniteSetsExt

CONSTANTS
  MaxBatch,   \* bound: requests of a batch
  MaxLimit    \* bound: max_concurrent_requests

Parameters == MaxBatch \in Nat /\ MaxLimit \in Nat

VARIABLES
  size, limit,  \* requests.len(), ClientConfig::max_concurrent_requests
  pending,      \* the futures collected, by the number of their request
  running,      \* the futures of the chunk join_all awaits
  send,         \* where each request is
  effect,       \* ghost: the requests whose effect the server has had
  responses,    \* responses
  next,         \* the request the loop is at
  state         \* "loop", "join", or how the call ended

vars == <<size, limit, pending, running, send, effect, responses, next, state>>

All == 1..size
Ended == {"ok", "failed", "cancelled"}

ConcurrentLimit == Min({limit, size})

Init ==
  /\ size \in 0..MaxBatch /\ limit \in 0..MaxLimit
  /\ pending = <<>> /\ running = <<>> /\ responses = <<>>
  /\ send = [r \in All |-> "unsent"]
  /\ effect = {}
  /\ next = 1
  /\ state = IF size = 0 THEN "ok" ELSE "loop"

(* A future does nothing before it is joined.                              *)
Push ==
  /\ state = "loop" /\ next <= size
  /\ next' = next + 1
  /\ LET all == Append(pending, next)
     IN  IF Len(all) = ConcurrentLimit
         THEN running' = all /\ pending' = <<>> /\ state' = "join"
         ELSE pending' = all /\ UNCHANGED <<running, state>>
  /\ UNCHANGED <<size, limit, send, effect, responses>>

(* What is left after the loop.                                            *)
LastChunk ==
  /\ state = "loop" /\ next > size
  /\ IF pending = <<>> THEN state' = "ok" /\ UNCHANGED running
     ELSE state' = "join" /\ running' = pending
  /\ pending' = <<>>
  /\ UNCHANGED <<size, limit, send, effect, responses, next>>

InChunk(r) == state = "join" /\ Contains(running, r)

Begin(r) ==
  /\ InChunk(r) /\ send[r] = "unsent"
  /\ send' = [send EXCEPT ![r] = "sent"]
  /\ UNCHANGED <<size, limit, pending, running, effect, responses, next, state>>

Execute(r) ==
  /\ InChunk(r) /\ send[r] = "sent"
  /\ effect' = effect \cup {r}
  /\ UNCHANGED <<size, limit, pending, running, send, responses, next, state>>

(* A request may fail before or after it had its effect.                   *)
Finish(r, how) ==
  /\ InChunk(r) /\ send[r] = "sent"
  /\ how = "done" => r \in effect
  /\ send' = [send EXCEPT ![r] = how]
  /\ UNCHANGED <<size, limit, pending, running, effect, responses, next, state>>

(* join_all is over when all of the chunk is, whatever came of it; its     *)
(* results are in the order of the requests.                               *)
Collect ==
  /\ state = "join"
  /\ \A i \in DOMAIN running : send[running[i]] \in {"done", "lost"}
  /\ LET bad  == {i \in DOMAIN running : send[running[i]] = "lost"}
         good == IF bad = {} THEN running ELSE SubSeq(running, 1, Min(bad) - 1)
     IN  /\ responses' = responses \o good
         /\ state' = IF bad = {} THEN "loop" ELSE "failed"
  /\ running' = <<>>
  /\ UNCHANGED <<size, limit, pending, send, effect, next>>

(* The caller drops the call: a request it had sent may still have its     *)
(* effect.                                                                 *)
Cancel ==
  /\ state \notin Ended
  /\ state' = "cancelled" /\ running' = <<>> /\ pending' = <<>>
  /\ UNCHANGED <<size, limit, send, effect, responses, next>>

Next ==
  \/ Push \/ LastChunk \/ Collect \/ Cancel
  \/ \E r \in All :
       Begin(r) \/ Execute(r) \/ \E how \in {"done", "lost"} : Finish(r, how)

Spec == Init /\ [][Next]_vars

-----------------------------------------------------------------------------
(* Properties.                                                             *)

TypeOK ==
  /\ size \in 0..MaxBatch /\ limit \in 0..MaxLimit
  /\ pending \in Seq(All) /\ running \in Seq(All) /\ responses \in Seq(All)
  /\ send \in [All -> {"unsent", "sent", "done", "lost"}]
  /\ effect \subseteq All
  /\ next \in 1..(size + 1)
  /\ state \in {"loop", "join"} \cup Ended

InFlight == {r \in All : send[r] = "sent"}

(* A batch that succeeds has one response per request, the nth to the nth, *)
(* and none of them was given up.                                          *)
ResponsesInOrder ==
  /\ \A i \in DOMAIN responses : responses[i] = i
  /\ state = "ok" => Len(responses) = size /\ effect = All

(* A request does not run next to one of a later chunk, and after an error *)
(* no later chunk is begun; none is still running when the call returns.   *)
ChunkByChunk ==
  /\ state \in {"ok", "failed"} => InFlight = {}
  /\ limit > 0 =>
       \A r, q \in All :
         r < q /\ send[r] # "done" /\ send[q] # "unsent" =>
           (r - 1) \div limit = (q - 1) \div limit

BatchesWhole == ResponsesInOrder /\ ChunkByChunk

(* The chunk that is collected, or sent, is what follows the responses: it *)
(* is as long as the limit allows, and only the last one is shorter.       *)
Chunk == IF state = "join" THEN running ELSE pending

InStep ==
  state \notin Ended =>
    /\ size > 0
    /\ state = "loop" => running = <<>>
    /\ state = "join" => pending = <<>>
    /\ next = Len(responses) + Len(Chunk) + 1
    /\ \A i \in DOMAIN Chunk : Chunk[i] = Len(responses) + i
    /\ limit > 0 =>
         /\ Len(Chunk) <= limit
         /\ state = "loop" => Len(Chunk) < ConcurrentLimit
         /\ state = "join" => Len(Chunk) = ConcurrentLimit \/ next > size
         /\ Len(responses) % limit = 0 \/ (next > size /\ Chunk = <<>>)

(* What has a response is done, and what is behind the chunk is not begun. *)
Begun ==
  /\ \A r \in All : send[r] = "done" => r \in effect
  /\ state \notin Ended => \A r \in All :
       /\ r <= Len(responses) => send[r] = "done"
       /\ r > Len(responses) + Len(running) => send[r] = "unsent"

IInv == TypeOK /\ BatchesWhole /\ InStep /\ Begun
=============================================================================
