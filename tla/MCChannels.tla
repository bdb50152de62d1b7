----------------------------- MODULE MCChannels -----------------------------
(***************************************************************************)
(* The two ends of a channel and what goes over it: the Unix listener, the *)
(* Windows pipe and its listener, the stream server and the reading of a   *)
(* stream, the decoding of requests and of responses.  The parts do not    *)
(* share state.  A behaviour picks one of them at the start and is a       *)
(* behaviour of that part; the variables of the others stay as they are.   *)
(* Two parts run in two ways: "unix" lets every process remove a stale     *)
(* socket but one at a time into bind, "refuse" lets all three into bind   *)
(* and none remove one; "order" sends data to one client of a channel that *)
(* is too small, "permits" has two clients and sends no more than a Close. *)
(* Threads, clients and processes are interchangeable: the parts only      *)
(* compare them.                                                           *)
(***************************************************************************)
EXTENDS Channels, HttpFraming, TLC

VARIABLE part   \* the part that runs

StreamVars   == <<loop, signalled, source, aborted, log, client, free, active>>
PipeVars     == <<stream, dirty, flush, unread, peer, pump, queue, working, threads, refused>>
UnixVars     == <<path, pc, own, live, seen, guard, attempted>>
ListenerVars == <<owner, user, pending, streams, pipe_client>>
ReaderVars   == <<way, at, tries, lines, link, taken, got, clock, since, last, cause>>
CodecVars    == <<conversation, read, buf, readable, eof, out, state>>
ResponseVars == <<sent, arrived, closed, pos, phase, head, left, body, empty>>

Units   == INSTANCE RequestUnits
Encoder == INSTANCE ResponseEncoder

Refuse == INSTANCE UnixListener WITH Overwriters <- {}, MaxBinders <- 3

(* The values of the constants that a configuration cannot write down.     *)
MCConversations == Units!Mixed
MCResponses     == Encoder!All

ASSUME PartsAssumption ==
  Unix!Parameters /\ Unix!OneAtATime /\ Refuse!Parameters /\ Refuse!OneAtATime
  /\ Pipe!Parameters /\ Listener!Parameters /\ Reader!Parameters
  /\ Codec!Parameters /\ Response!Parameters

Symmetry == Permutations(Pipes)

-----------------------------------------------------------------------------
(* A part that does not run has one initial state.                         *)
Start ==
  /\ part \in {"order", "permits", "pipe", "unix", "refuse", "listener", "reader", "codec",
               "response"}
  /\ Init /\ source.kind = IF part = "permits" THEN "iterator" ELSE "custom"
  /\ Pipe!Init
  /\ Unix!Init /\ (part \notin {"unix", "refuse"} => path = Absent)
  /\ Listener!Init
  /\ Reader!Init /\ (part # "reader" => way = "json")
  /\ Codec!Init /\ (part # "codec" => conversation = <<Units!Plain>>)
  /\ Response!Init /\ (part # "response" => sent = Encoder!Encode(<<>>, <<>>))

(* The second client stays away.                                           *)
OneClient == client["c2"].task = "new" /\ UNCHANGED client["c2"]

(* The source has nothing to send, nor has the application.                *)
NoData == source'.batch = <<>> /\ \A i \in 1..Len(log') : i = 1 /\ log'[i] = "close"

Move ==
  \/ part = "order" /\ Next /\ OneClient
     /\ UNCHANGED <<part, PipeVars, UnixVars, ListenerVars, ReaderVars, CodecVars, ResponseVars>>
  \/ part = "permits" /\ Next /\ NoData
     /\ UNCHANGED <<part, PipeVars, UnixVars, ListenerVars, ReaderVars, CodecVars, ResponseVars>>
  \/ part = "pipe" /\ Pipe!Next
     /\ UNCHANGED <<part, StreamVars, UnixVars, ListenerVars, ReaderVars, CodecVars, ResponseVars>>
  \/ part = "unix" /\ Unix!Next
     /\ UNCHANGED <<part, StreamVars, PipeVars, ListenerVars, ReaderVars, CodecVars, ResponseVars>>
  \/ part = "refuse" /\ Refuse!Next
     /\ UNCHANGED <<part, StreamVars, PipeVars, ListenerVars, ReaderVars, CodecVars, ResponseVars>>
  \/ part = "listener" /\ Listener!Next
     /\ UNCHANGED <<part, StreamVars, PipeVars, UnixVars, ReaderVars, CodecVars, ResponseVars>>
  \/ part = "reader" /\ Reader!Next
     /\ UNCHANGED <<part, StreamVars, PipeVars, UnixVars, ListenerVars, CodecVars, ResponseVars>>
  \/ part = "codec" /\ Codec!Next
     /\ UNCHANGED <<part, StreamVars, PipeVars, UnixVars, ListenerVars, ReaderVars, ResponseVars>>
  \/ part = "response" /\ Response!Next
     /\ UNCHANGED <<part, StreamVars, PipeVars, UnixVars, ListenerVars, ReaderVars, CodecVars>>

PartsSpec ==
  Start /\ [][Move]_<<part, StreamVars, PipeVars, UnixVars, ListenerVars, ReaderVars, CodecVars,
                     ResponseVars>>
=============================================================================
