------------------------------ MODULE Channels ------------------------------
(***************************************************************************)
(* The two ends of a channel between processes, for any values of the      *)
(* constants: the stream server and the client that reads a stream, the    *)
(* Windows pipe, the listeners of Unix sockets and of pipes.  They share   *)
(* no state.  The properties of the stream server keep their names; those  *)
(* of the others are stated here.                                          *)
(***************************************************************************)
EXTENDS StreamServer

CONSTANTS
  Pipes, PipeCapacity, QueueCapacity,                  \* PipeStream
  Processes, Overwriters, Reclaimers, MaxBinders,      \* UnixListener
  Inodes, Regular, Absent, None,
  Servers, PipeClients, Instances, Trusted,            \* PipeListener
  Ways, MaxRetries, RetryDelay, Timeout,               \* StreamReader
  LinesCap, TextCap, MaxLines, MaxTime, Late

VARIABLES
  stream, dirty, flush, unread, peer, pump, queue, working, threads, refused, \* PipeStream
  path, pc, own, live, seen, guard, attempted,                           \* UnixListener
  owner, user, pending, streams, pipe_client,                            \* PipeListener
  way, at, tries, lines, link, taken, got, clock, since, last, cause     \* StreamReader

Pipe     == INSTANCE PipeStream WITH Capacity <- PipeCapacity
Unix     == INSTANCE UnixListener
Listener == INSTANCE PipeListener WITH Clients <- PipeClients, client <- pipe_client
Reader   == INSTANCE StreamReader

-----------------------------------------------------------------------------
(* A flush that reports success, or a stream that counts as clean, means   *)
(* that the peer has read everything: nothing can have been written while  *)
(* the flush ran or before its result was seen.                            *)
CleanIsRead == Pipe!CleanIsRead

(* What was written is not lost by dropping the stream in any state, be it *)
(* dirty, clean, with a flush running, failed or unobserved: the end stays *)
(* open until the peer has read or is gone.  Only a handle that cannot be  *)
(* duplicated ends this.                                                   *)
NothingLost == Pipe!IInv /\ Pipe!NothingLost

(* Who has a name.  A Unix listener that is neither dropped nor crashed    *)
(* can be reached by its path, while one process at a time is in bind or   *)
(* none replaces sockets, and one that is dropped removes its own path.    *)
(* The name of a pipe belongs to one server, whose open connections keep   *)
(* it after the listener has gone; an instance is the listener's or a      *)
(* stream's, so that a connected client is accepted once and is not        *)
(* dropped by an accept that fails; and the process behind a pipe a client *)
(* works with has passed verification.                                     *)
NamesOwned ==
  /\ Unix!Orderly /\ Unix!NamesOwned
  /\ Listener!IInv /\ Listener!NamesOwned

(* "Stale-socket replacement refuses regular files and live listeners":    *)
(* whatever the processes do, a file that is not a socket stays at the     *)
(* path, and the path of a socket that listens is removed by its own       *)
(* process only.  While a server listens on a pipe, no client is told that *)
(* the name does not exist.                                                *)
NamesKept == Unix!NamesKept /\ Listener!NamesKept

(* The lines of a stream that parse are returned, all and in order, up to  *)
(* where the reading ends, whatever lies between them; without a timer,    *)
(* success means the whole stream; and an idle timer ends a reading only   *)
(* if no line has been taken for as long as it runs, however late the call *)
(* is polled.                                                              *)
LinesRead == Reader!IInv /\ Reader!LinesRead
=============================================================================
