---------------------------- MODULE HttpFraming -----------------------------
(***************************************************************************)
(* What goes over a connection, in both directions and for any values of   *)
(* the constants: requests as the server decodes them and responses as the *)
(* client reads them.  The two share no state.                             *)
(***************************************************************************)
CONSTANTS
  Conversations, MaxHeaderSize, MaxRequestSize,           \* RequestCodec
  Responses, MaxBody, MaxRead                             \* ResponseReader

VARIABLES
  conversation, read, buf, readable, eof, out, state,         \* RequestCodec
  sent, arrived, closed, pos, phase, head, left, body, empty  \* ResponseReader

Codec    == INSTANCE RequestCodec WITH sent <- conversation, taken <- read
Response == INSTANCE ResponseReader

-----------------------------------------------------------------------------
(* However the bytes of a connection are cut, the router gets the requests *)
(* the client sent, one by one and in order; a connection is refused only  *)
(* for its next request, never for where the pieces were cut or for what   *)
(* was pipelined behind it; and while it waits for bytes, every request    *)
(* that has arrived whole has been handed on.                              *)
RequestsAsSent ==
  Codec!IInv /\ Codec!AsSent /\ Codec!RefusedForCause /\ Codec!NoneWaits

(* A response with a length or in chunks is returned whole or not at all,  *)
(* wherever the connection ends in its body; and a connection that is      *)
(* given another request has nothing of the last response on it.           *)
ResponsesWhole == Response!IInv /\ Response!WholeOrError /\ Response!ReusedIsClean
=============================================================================
