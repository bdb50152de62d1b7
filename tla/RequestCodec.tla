---------------------------- MODULE RequestCodec ----------------------------
(***************************************************************************)
(* HttpIpcCodec::decode (src/src/codec.rs) under the Framed stream of      *)
(* handle_connection (ipc_http_server.rs): the requests that come out of a *)
(* byte stream which arrives in pieces cut anywhere.                       *)
(***************************************************************************)
EXTENDS RequestUnits, Integers, FiniteSets, SequencesExt, FiniteSetsExt

CONSTANTS
  Conversations,   \* what a client may send: sequences of requests
  MaxHeaderSize,   \* ServerConfig::max_header_size
  MaxRequestSize   \* ServerConfig::max_request_size

VARIABLES
  sent,      \* ghost: the conversation of this connection
  taken,     \* units read from the socket
  buf,       \* FramedImpl: the read buffer
  readable,  \* FramedImpl: is_readable, the buffer has not been decoded yet
  eof,       \* FramedImpl: eof
  out,       \* the requests handed to the router
  state      \* "open", or how the connection ended

vars == <<sent, taken, buf, readable, eof, out, state>>

Bytes(c) == FlattenSeq([i \in DOMAIN c |-> c[i].head \o c[i].body])

-----------------------------------------------------------------------------
(* find_header_end: the first place where a head ends, 0 when there is     *)
(* none.                                                                   *)
HeadersLen(b) ==
  LET ends == {i \in 4..Len(b) : SubSeq(b, i - 3, i) = HeaderEnd}
  IN  IF ends = {} THEN 0 ELSE Min(ends)

(* The last Content-Length that can be parsed; zero without one.           *)
ContentLength(head) ==
  LET fields == {i \in DOMAIN head : head[i] \in DOMAIN Lengths}
  IN  IF fields = {} THEN 0 ELSE Lengths[head[Max(fields)]]

Requests == [head : Seq(Units), body : Seq(Units)]

(* A request as a client means it: the first end of a head in it is that   *)
(* of its own head, and the length is the one declared there.              *)
Framed(r) ==
  /\ r.head # <<>> /\ HeadersLen(r.head) = Len(r.head)
  /\ ContentLength(r.head) = Len(r.body)

Parameters ==
  /\ \A c \in Conversations : c \in Seq(Requests) /\ \A i \in DOMAIN c : Framed(c[i])
  /\ {MaxHeaderSize, MaxRequestSize} \subseteq Nat

More       == [is |-> "more"]
Error      == [is |-> "error"]
Request(b, h, n) ==
  [is |-> "request", head |-> SubSeq(b, 1, h), body |-> SubSeq(b, h + 1, h + n)]

(* decode, on a buffer that is not empty.  To httparse a head of nothing   *)
(* but line ends is one that has not begun.                                *)
Decode(b) ==
  LET h == HeadersLen(b) n == ContentLength(SubSeq(b, 1, h))
  IN  IF h = 0 /\ Len(b) > MaxHeaderSize        THEN Error
      ELSE IF h \in {0, 4}                      THEN More
      ELSE IF Contains(SubSeq(b, 1, h), Malformed)
              \/ h + n > MaxRequestSize         THEN Error
      ELSE IF Len(b) < h + n                    THEN More
      ELSE IF Contains(SubSeq(b, 1, h), BadUri) THEN Error
      ELSE Request(b, h, n)

-----------------------------------------------------------------------------
Init ==
  /\ sent \in Conversations
  /\ taken = 0 /\ buf = <<>> /\ out = <<>>
  /\ readable = FALSE /\ eof = FALSE
  /\ state = "open"

(* framed.next() waits for the socket and gets the next n units.           *)
Read(n) ==
  /\ state = "open" /\ ~readable /\ ~eof
  /\ buf' = buf \o SubSeq(Bytes(sent), taken + 1, taken + n)
  /\ taken' = taken + n
  /\ readable' = TRUE
  /\ UNCHANGED <<sent, eof, out, state>>

(* The client closes, wherever it is in its conversation.                  *)
ReadEof ==
  /\ state = "open" /\ ~readable /\ ~eof
  /\ readable' = TRUE /\ eof' = TRUE
  /\ UNCHANGED <<sent, taken, buf, out, state>>

(* Mutant: after a request the buffer is not looked at again.              *)
FrameOnce ==
  /\ state = "open" /\ readable /\ buf # <<>> /\ Decode(buf).is = "request"
  /\ LET r == Decode(buf)
     IN  /\ out' = Append(out, [head |-> r.head, body |-> r.body])
         /\ buf' = SubSeq(buf, Len(r.head \o r.body) + 1, Len(buf))
  /\ readable' = eof
  /\ UNCHANGED <<sent, taken, eof, state>>

(* A request is decoded, answered by the handler, and the next one is      *)
(* looked for in the same buffer first.                                    *)
Frame ==
  /\ state = "open" /\ readable /\ buf # <<>> /\ Decode(buf).is = "request"
  /\ LET r == Decode(buf)
     IN  /\ out' = Append(out, [head |-> r.head, body |-> r.body])
         /\ buf' = SubSeq(buf, Len(r.head \o r.body) + 1, Len(buf))
  /\ UNCHANGED <<sent, taken, readable, eof, state>>

NeedMore ==
  /\ state = "open" /\ readable /\ ~eof
  /\ buf = <<>> \/ Decode(buf).is = "more"
  /\ readable' = FALSE
  /\ UNCHANGED <<sent, taken, buf, eof, out, state>>

(* The error is answered with 400; the stream then yields nothing.  At the *)
(* end of the stream what is left over is an error too (decode_eof).       *)
Refuse ==
  /\ state = "open" /\ readable /\ buf # <<>>
  /\ Decode(buf).is = "error" \/ (eof /\ Decode(buf).is = "more")
  /\ state' = "refused"
  /\ UNCHANGED <<sent, taken, buf, readable, eof, out>>

End ==
  /\ state = "open" /\ readable /\ eof /\ buf = <<>>
  /\ state' = "ended"
  /\ UNCHANGED <<sent, taken, buf, readable, eof, out>>

(* read_timeout, while framed.next() waits.                                *)
ReadTimeout ==
  /\ state = "open" /\ ~readable
  /\ state' = "timed out"
  /\ UNCHANGED <<sent, taken, buf, readable, eof, out>>

Next ==
  \/ \E n \in 1..(Len(Bytes(sent)) - taken) : Read(n)
  \/ ReadEof \/ Frame \/ NeedMore \/ Refuse \/ End \/ ReadTimeout

Spec == Init /\ [][Next]_vars

-----------------------------------------------------------------------------
(* Properties.                                                             *)

TypeOK ==
  /\ sent \in Conversations
  /\ taken \in 0..Len(Bytes(sent))
  /\ buf \in Seq(Units) /\ out \in Seq(Requests)
  /\ {readable, eof} \subseteq BOOLEAN
  /\ state \in {"open", "refused", "ended", "timed out"}

(* A request the server is to serve.                                       *)
Good(r) ==
  /\ ~Contains(r.head, Malformed) /\ ~Contains(r.head, BadUri)
  /\ Len(r.head) <= MaxHeaderSize
  /\ Len(r.head) + Len(r.body) <= MaxRequestSize

(* A conversation that starts a request with two blank lines: the decoder  *)
(* waits for a head that it believes has not begun, until the read times   *)
(* out.                                                                    *)
Blank(r) == r.head = HeaderEnd

(* However the stream was cut, what the router gets is what the client     *)
(* sent, request by request: nothing skipped or repeated, no part of one   *)
(* body taken for a request, no head with another one's body.              *)
AsSent == IsPrefix(out, sent)

(* A connection is refused only for its next request, which is not a good  *)
(* one, or which the client did not finish: never for where the pieces     *)
(* were cut or for what was pipelined behind it.                           *)
RefusedForCause ==
  state = "refused" =>
    /\ Len(out) < Len(sent)
    /\ \/ ~Good(sent[Len(out) + 1])
       \/ eof /\ taken < Len(Bytes(SubSeq(sent, 1, Len(out) + 1)))
       \/ Blank(sent[Len(out) + 1])

(* While the connection waits for bytes, every request that has arrived    *)
(* whole has been handed on.                                               *)
NoneWaits ==
  state \in {"timed out", "ended"} \/ (state = "open" /\ ~readable) =>
    \/ Len(out) = Len(sent)
    \/ taken < Len(Bytes(SubSeq(sent, 1, Len(out) + 1)))
    \/ Blank(sent[Len(out) + 1])

(* Why: the requests handed on and the buffer are what has been read.      *)
Kept ==
  LET k == Len(out)
      n == Len(Bytes(SubSeq(sent, 1, k))) IN
  /\ k <= Len(sent) /\ out = SubSeq(sent, 1, k)
  /\ taken = n + Len(buf) /\ buf = SubSeq(Bytes(sent), n + 1, taken)

IInv == TypeOK /\ Kept /\ RefusedForCause /\ NoneWaits
=============================================================================
