--------------------------- MODULE ResponseReader ---------------------------
(***************************************************************************)
(* parse_response (src/src/http_client.rs): one response read from a       *)
(* connection on which it arrives piece by piece, and may stop anywhere,   *)
(* and whether the connection may serve another request afterwards         *)
(* (leaves_stream_clean, ipc_http_client.rs).                              *)
(*                                                                         *)
(* A response is a sequence of tokens: a line with its line end, or a byte *)
(* of the body.  A connection that ends within a line is one of the ways   *)
(* it ends.  What a server declares is what it means to send, but in the   *)
(* answer to HEAD: a Content-Length it got wrong is left out.              *)
(***************************************************************************)
EXTENDS ResponseEncoder, Integers, FiniteSetsExt

CONSTANTS
  Responses,   \* what a server may send
  MaxBody,     \* 10 MiB, for a declared length
  MaxRead      \* 20 MiB, for a body without one

VARIABLES
  sent,      \* the response
  arrived,   \* how much of it is there to be read
  closed,    \* "no", or where the connection ended: "between" two tokens,
             \* "within" a line; or "reset"
  pos,       \* how much of it has been read
  phase,     \* what the reader waits for, or how it ended
  head,      \* the lines of the head
  left,      \* the length of the body or chunk to read
  body,      \* body_buffer
  empty      \* consecutive_empty_reads

vars == <<sent, arrived, closed, pos, phase, head, left, body, empty>>

Reading == {"status", "head", "fixed", "size", "chunk", "trailer", "rest"}

-----------------------------------------------------------------------------
(* header_map keeps the last of several values.                            *)
Declared(fields) ==
  LET all == {i \in DOMAIN fields : fields[i] \in DOMAIN Lengths \cup {Invalid}}
  IN  fields[Max(all)]

(* A response as a server means it, with its head ending at e: a status    *)
(* line and fields, and then a body of the length declared, chunks of at   *)
(* least the size they announce up to an empty one and its trailer, or     *)
(* bytes to the end.  Two lengths may differ, but where one is zero there  *)
(* is no body.                                                             *)
MeantAt(r, e) ==
  LET fields == SubSeq(r, 1, e - 1)
      rest   == (e + 1)..Len(r) IN
  /\ r[e] = End
  /\ \A i \in 1..(e - 1) : r[i] \notin {End} \cup Data
  /\ \A i \in rest : r[i] \notin {Chunked} \cup DOMAIN Lengths
  /\ Contains(fields, "cl0") => \A i \in rest : r[i] \notin Data
  /\ Contains(fields, Chunked) =>
       \A i \in rest : r[i] \in DOMAIN Chunks =>
         /\ \A j \in 1..Chunks[r[i]] : i + j \in rest => r[i + j] \in Data
         /\ Chunks[r[i]] = 0 =>
              \A j \in (i + 1)..Len(r) : r[j] \notin Data /\ (r[j] = End => j = Len(r))
  /\ ~Contains(fields, Chunked) /\ (Declares(fields) => Declared(fields) # Invalid) =>
       /\ \A i \in rest : r[i] \in Data
       /\ Declares(fields) => Len(r) = e + Lengths[Declared(fields)]

Parameters ==
  /\ \A r \in Responses : r \in Seq(Tokens) /\ \E e \in 2..Len(r) : MeantAt(r, e)
  /\ {MaxBody, MaxRead} \subseteq Nat

(* Mutant: a connection whose response had no length is used again.        *)
LeavesCleanAlways(fields) == fields # <<>>

(* leaves_stream_clean                                                     *)
LeavesClean(fields) == Declares(fields) \/ Contains(fields, Chunked)

-----------------------------------------------------------------------------
Init ==
  /\ sent \in Responses
  /\ arrived = 0 /\ closed = "no"
  /\ pos = 0 /\ phase = "status" /\ head = <<>> /\ body = <<>>
  /\ left = 0 /\ empty = 0

Arrive ==
  /\ closed = "no" /\ arrived < Len(sent)
  /\ arrived' = arrived + 1
  /\ UNCHANGED <<sent, closed, pos, phase, head, left, body, empty>>

(* The server closes after its response, or too early.                     *)
Close(how) ==
  /\ closed = "no"
  /\ how = "within" =>
       arrived < Len(sent) /\ sent[arrived + 1] \notin Data
  /\ closed' = how
  /\ UNCHANGED <<sent, arrived, pos, phase, head, left, body, empty>>

AtHand == SubSeq(sent, pos + 1, arrived)

Takes(n) == pos' = pos + n /\ UNCHANGED <<sent, arrived, closed>>

Fail == phase' = "error" /\ UNCHANGED <<head, left, body, empty>>

ReadStatus ==
  /\ phase = "status" /\ AtHand # <<>>
  /\ head' = <<AtHand[1]>> /\ phase' = "head" /\ Takes(1)
  /\ UNCHANGED <<left, body, empty>>

ReadField ==
  /\ phase = "head" /\ AtHand # <<>> /\ AtHand[1] # End
  /\ head' = Append(head, AtHand[1]) /\ Takes(1)
  /\ UNCHANGED <<phase, left, body, empty>>

Body(to, n) == phase' = to /\ left' = n /\ UNCHANGED <<head, body, empty>>

(* The head is parsed and the framing of the body chosen.                  *)
Parse ==
  IF \/ Contains(head, Bad)
     \/ Declares(head) /\ Declared(head) = Invalid THEN Fail
  ELSE IF Contains(head, Chunked)                  THEN Body("size", 0)
  ELSE IF ~Declares(head)                          THEN Body("rest", 0)
  ELSE LET n == Lengths[Declared(head)]
       IN  IF n > MaxBody THEN Fail
           ELSE Body(IF n = 0 THEN "ok" ELSE "fixed", n)

(* A head ends with a blank line, and also where the connection ends after *)
(* a line.                                                                 *)
EndHead ==
  /\ phase = "head"
  /\ \/ AtHand # <<>> /\ AtHand[1] = End /\ Takes(1)
     \/ AtHand = <<>> /\ closed = "between" /\ Takes(0)
  /\ Parse

ReadFixed ==
  /\ phase = "fixed" /\ Len(AtHand) >= left
  /\ body' = SubSeq(AtHand, 1, left) /\ Takes(left)
  /\ phase' = "ok"
  /\ UNCHANGED <<head, left, empty>>

ReadSize ==
  /\ phase = "size" /\ AtHand # <<>> /\ Takes(1)
  /\ IF AtHand[1] \notin DOMAIN Chunks THEN Fail
     ELSE LET n == Chunks[AtHand[1]]
          IN  Body(IF n = 0 THEN "trailer" ELSE "chunk", n)

ReadChunk ==
  /\ phase = "chunk" /\ Len(AtHand) > left /\ Takes(left + 1)
  /\ IF AtHand[left + 1] # LineEnd THEN Fail
     ELSE /\ body' = body \o SubSeq(AtHand, 1, left)
          /\ phase' = "size"
          /\ UNCHANGED <<head, left, empty>>

ReadTrailer ==
  /\ phase = "trailer" /\ AtHand # <<>> /\ Takes(1)
  /\ phase' = IF AtHand[1] = End THEN "ok" ELSE "trailer"
  /\ UNCHANGED <<head, left, body, empty>>

(* A body without a length: what is there is taken as it comes ...         *)
ReadSome(n) ==
  /\ phase = "rest" /\ n \in 1..Len(AtHand) /\ Takes(n)
  /\ body' = body \o SubSeq(AtHand, 1, n)
  /\ empty' = 0
  /\ phase' = IF Len(body') > MaxRead THEN "error" ELSE "rest"
  /\ UNCHANGED <<head, left>>

(* Mutant: a silence is only counted between pieces.                       *)
SilenceUncounted ==
  /\ phase = "rest" /\ AtHand = <<>> /\ closed = "no" /\ Takes(0)
  /\ empty' = IF body = <<>> THEN 0 ELSE empty + 1
  /\ phase' = IF empty' >= 2 THEN "ok" ELSE "rest"
  /\ UNCHANGED <<head, left, body>>

(* ... until nothing has come for 25 ms and then for another 50 ms, ...    *)
Silence ==
  /\ phase = "rest" /\ AtHand = <<>> /\ closed = "no" /\ Takes(0)
  /\ empty' = empty + 1
  /\ phase' = IF empty' >= 2 THEN "ok" ELSE "rest"
  /\ UNCHANGED <<head, left, body>>

(* ... or the connection ends.                                             *)
RestEnds ==
  /\ phase = "rest" /\ AtHand = <<>> /\ closed \in {"between", "within"}
  /\ phase' = "ok" /\ Takes(0)
  /\ UNCHANGED <<head, left, body, empty>>

(* A read that cannot be satisfied any more.  Half a line of the head is   *)
(* completed by a line end and found to be no head.                        *)
Cut ==
  /\ CASE phase = "fixed" -> Len(AtHand) < left /\ closed # "no"
       [] phase = "chunk" -> Len(AtHand) <= left /\ closed # "no"
       [] phase \in {"status", "size", "trailer"} ->
            AtHand = <<>> /\ closed # "no"
       [] phase = "head" -> AtHand = <<>> /\ closed \in {"within", "reset"}
       [] phase = "rest" -> AtHand = <<>> /\ closed = "reset"
       [] OTHER -> FALSE
  /\ Fail /\ Takes(0)

Step ==
  \/ ReadStatus \/ ReadField \/ EndHead \/ ReadFixed
  \/ ReadSize \/ ReadChunk \/ ReadTrailer
  \/ \E n \in 1..Len(AtHand) : ReadSome(n)
  \/ Silence \/ RestEnds \/ Cut

Next ==
  \/ Arrive
  \/ \E how \in {"between", "within", "reset"} : Close(how)
  \/ Step

Spec == Init /\ [][Next]_vars

-----------------------------------------------------------------------------
(* Properties.                                                             *)

TypeOK ==
  /\ sent \in Responses
  /\ arrived \in 0..Len(sent) /\ pos \in 0..arrived
  /\ closed \in {"no", "between", "within", "reset"}
  /\ phase \in Reading \cup {"ok", "error"}
  /\ \A i \in DOMAIN head : head[i] \in Tokens \ {End}
  /\ \A i \in DOMAIN body : body[i] \in Data
  /\ left \in Nat /\ empty \in 0..2

Framed   == \E i \in DOMAIN sent : sent[i] \in {Chunked} \cup DOMAIN Lengths
BodyOf(r) == FlattenSeq([i \in DOMAIN r |-> IF r[i] \in Data THEN <<r[i]>> ELSE <<>>])
Meant    == BodyOf(sent)
HeadEnd  == Min({i \in DOMAIN sent : sent[i] = End})

(* What has been read is the beginning of what was sent, and a response    *)
(* with a declared length or in chunks is returned whole or not at all,    *)
(* wherever the connection ends in its body.                               *)
WholeOrError ==
  /\ IsPrefix(body, Meant)
  /\ phase = "ok" /\ Framed /\ arrived >= HeadEnd => body = Meant

(* A connection that is given another request has nothing of the last      *)
(* response on it: not a chunk's trailer, nor the end of a body that was   *)
(* believed to be over.                                                    *)
ReusedIsClean ==
  phase = "ok" /\ LeavesClean(head) =>
    body = Meant /\ (pos = Len(sent) \/ closed # "no")

(* A response without a length ends with a silence although the server     *)
(* never closes; any other reading ends once everything is there, or the   *)
(* connection ends.                                                        *)
ReadingEnds ==
  (phase = "rest" \/ arrived = Len(sent) \/ closed # "no")
    ~> phase \in {"ok", "error"}

(* Why: where the reader is in the response.  What it has read of the body *)
(* is what there was up to its place, and when the head has been parsed,   *)
(* it was the whole head, or the connection has ended in it.               *)
Parsed == {"fixed", "size", "chunk", "trailer", "rest", "ok"}
Fields == SubSeq(sent, 1, IF pos < HeadEnd THEN pos ELSE HeadEnd - 1)

Placed ==
  /\ \E n \in 0..pos : body = BodyOf(SubSeq(sent, 1, n)) /\ (phase # "error" => n = pos)
  /\ phase # "error" => head = Fields
  /\ phase = "status" => pos = 0
  /\ phase = "head" => pos < HeadEnd
  /\ phase \in Parsed /\ pos < HeadEnd => closed = "between" /\ arrived = pos

(* ... and what it knows of the rest from the phase it is in.              *)
Knows ==
  /\ phase \in {"status", "head"} => empty = 0
  /\ phase = "fixed" => /\ ~Contains(head, Chunked) /\ Declares(head) /\ pos <= HeadEnd
                        /\ Declared(head) # Invalid /\ left = Lengths[Declared(head)] /\ left > 0
  /\ phase \in {"size", "chunk", "trailer"} => Contains(head, Chunked)
  /\ phase \in {"chunk", "trailer"} => pos > HeadEnd
  /\ phase = "chunk" =>
       sent[pos] \in DOMAIN Chunks /\ left = Chunks[sent[pos]] /\ left > 0
  /\ phase = "trailer" =>
       \E i \in (HeadEnd + 1)..pos : sent[i] \in DOMAIN Chunks /\ Chunks[sent[i]] = 0
  /\ phase = "rest" => ~LeavesClean(head) /\ empty <= 1
  /\ phase = "ok" /\ LeavesClean(head) => body = Meant /\ (pos >= HeadEnd => pos = Len(sent))

IInv == TypeOK /\ Placed /\ Knows
=============================================================================
