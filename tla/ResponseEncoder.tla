--------------------------- MODULE ResponseEncoder --------------------------
(***************************************************************************)
(* What a response is made of, as far as parse_response tells it apart     *)
(* (src/src/http_client.rs); HttpIpcCodec::encode (codec.rs); and a few    *)
(* responses.  A token is a line with its line end, or a byte of the body. *)
(***************************************************************************)
EXTENDS SequencesExt

Status  == "status"
Bad     == "bad"         \* a line httparse, HeaderName or HeaderValue refuses
End     == "end"         \* the blank line
Chunked == "chunked"     \* Transfer-Encoding: chunked
Other   == "field"       \* any other header, or a chunk's trailer
LineEnd == "nl"          \* after a chunk's data
Lengths == [cl0 |-> 0, cl1 |-> 1, cl2 |-> 2, cl3 |-> 3]   \* Content-Length
Invalid == "clx"         \* a Content-Length that is not a number
Chunks  == [s0 |-> 0, s1 |-> 1, s2 |-> 2]                 \* chunk size lines
Data    == {"d1", "d2", "d3", "d4"}
Tokens  == {Status, Bad, End, Chunked, Other, LineEnd, Invalid} \cup Data
           \cup DOMAIN Lengths \cup DOMAIN Chunks

-----------------------------------------------------------------------------
(* HttpIpcCodec::encode: the length is added unless the handler set one.   *)
Declares(fields) ==
  ToSet(fields) \cap (DOMAIN Lengths \cup {Invalid}) # {}

Encode(fields, bytes) ==
  <<Status>> \o fields
  \o (IF Declares(fields) THEN <<>>
      ELSE <<CHOOSE l \in DOMAIN Lengths : Lengths[l] = Len(bytes)>>)
  \o <<End>> \o bytes

-----------------------------------------------------------------------------
(* What IpcHttpServer encodes, and what other servers send: chunks with    *)
(* and without a trailer, a body without a length, two lengths, a length   *)
(* that is none, lengths over the limits, lines that do not parse.         *)
Two   == <<"d1", "d2">>
Pieces == <<"s2", "d1", "d2", LineEnd, "s1", "d3", LineEnd, "s0">>

Encoded == {Encode(f, b) : f \in {<<>>, <<Other>>}, b \in {<<>>, <<"d1">>, Two}}
           \cup {Encode(<<"cl2", Other>>, Two), Encode(<<>>, <<"d1", "d2", "d3">>)}
InChunks ==
  { <<Status, Chunked, End>> \o Pieces \o <<End>>,
    <<Status, Other, Chunked, End>> \o Pieces \o <<Other, Other, End>>,
    <<Status, "cl1", Chunked, End, "s2", "d1", "d2", LineEnd, "s0", End>>,
    <<Status, Chunked, End, "s0", End>> }
Foreign ==
  { <<Status, End>> \o Two, <<Status, Other, End>>,
    <<Status, End, "d1", "d2", "d3", "d4">>,
    <<Status, "cl1", "cl2", End>> \o Two }
Wrong ==
  { <<Status, Invalid, End>> \o Two, <<Bad, End>>, <<Status, Bad, "cl1", End, "d1">>,
    <<Status, Chunked, End, "d1", "s0", End>>,
    <<Status, Chunked, End, "s1", "d1", "d2", LineEnd, "s0", End>> }

All == Encoded \cup InChunks \cup Foreign \cup Wrong
=============================================================================
