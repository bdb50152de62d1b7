----------------------------- MODULE PipeStream -----------------------------
(***************************************************************************)
(* src/src/transport/windows.rs, PipeStream: one end of a named pipe that  *)
(* counts as dirty until a flush has shown that the other end has read     *)
(* everything.  A dirty stream that is dropped leaves a duplicate of its   *)
(* handle to a flush job: all jobs share one worker thread and a bounded   *)
(* queue, a job that does not fit gets a thread of its own, and if even    *)
(* that fails it runs in place.                                            *)
(*                                                                         *)
(* Of the operating system: a flush returns when nothing is unread or the  *)
(* peer is gone, and what is unread when the last handle of an end closes  *)
(* is lost.                                                                *)
(***************************************************************************)
EXTENDS Integers, Sequences

CONSTANTS
  Pipes,
  Capacity,      \* bound: messages that fit into a pipe
  QueueCapacity  \* FLUSH_QUEUE_CAPACITY

Parameters == {Capacity, QueueCapacity} \subseteq Nat

VARIABLES
  stream,   \* "open" or "closed": the PipeStream
  dirty,    \* its flag
  flush,    \* its flush task: "none", "running", or its result, not yet seen
  unread,   \* what the peer has not read
  peer,     \* "here" or "gone"
  pump,     \* flush_sender's thread: "unborn", "running" or "failed"
  queue,    \* the jobs waiting for it
  working,  \* the job it runs, as a set
  threads,  \* the jobs with a thread of their own, or run in place
  refused   \* the pipes whose handle could not be duplicated on drop

vars == <<stream, dirty, flush, unread, peer, pump, queue, working, threads, refused>>

Init ==
  /\ stream = [p \in Pipes |-> "open"] /\ dirty = [p \in Pipes |-> "clean"]
  /\ flush = [p \in Pipes |-> "none"] /\ unread = [p \in Pipes |-> 0]
  /\ peer = [p \in Pipes |-> "here"] /\ pump = "unborn"
  /\ queue = <<>> /\ working = {} /\ threads = {} /\ refused = {}

Lingers(p) == p \in working \cup threads \/ \E i \in 1..Len(queue) : queue[i] = p

(* The end is open as long as anybody has a handle of it.                  *)
Held(p) == stream[p] = "open" \/ flush[p] = "running" \/ Lingers(p)

-----------------------------------------------------------------------------
(* The streams.  A task that was begun is settled before anything else.    *)

(* Mutant: writes do not settle the flush.                                 *)
WriteEager(p) ==
  /\ stream[p] = "open" /\ peer[p] = "here" /\ unread[p] < Capacity
  /\ unread' = [unread EXCEPT ![p] = @ + 1] /\ dirty' = [dirty EXCEPT ![p] = "dirty"]
  /\ UNCHANGED <<stream, flush, peer, pump, queue, working, threads, refused>>

(* poll_write and poll_write_vectored                                      *)
Write(p) ==
  /\ stream[p] = "open" /\ flush[p] \in {"none", "ok"}
  /\ peer[p] = "here" /\ unread[p] < Capacity
  /\ unread' = [unread EXCEPT ![p] = @ + 1] /\ dirty' = [dirty EXCEPT ![p] = "dirty"]
  /\ flush' = [flush EXCEPT ![p] = "none"]
  /\ UNCHANGED <<stream, peer, pump, queue, working, threads, refused>>

(* Mutant: an error marks the stream as clean, too.                        *)
SettleClean(p) ==
  /\ stream[p] = "open" /\ flush[p] \in {"ok", "failed"}
  /\ flush' = [flush EXCEPT ![p] = "none"] /\ dirty' = [dirty EXCEPT ![p] = "clean"]
  /\ UNCHANGED <<stream, unread, peer, pump, queue, working, threads, refused>>

(* poll_pending_flush sees a result; after an error the stream stays dirty.*)
Settle(p) ==
  /\ stream[p] = "open" /\ flush[p] \in {"ok", "failed"}
  /\ flush' = [flush EXCEPT ![p] = "none"]
  /\ dirty' = IF flush[p] = "ok" THEN [dirty EXCEPT ![p] = "clean"] ELSE dirty
  /\ UNCHANGED <<stream, unread, peer, pump, queue, working, threads, refused>>

(* poll_flush on a dirty stream; a handle that cannot be duplicated is an  *)
(* error that changes nothing.  poll_shutdown flushes first, too.          *)
BeginFlush(p) ==
  /\ stream[p] = "open" /\ flush[p] = "none" /\ dirty[p] = "dirty"
  /\ flush' = [flush EXCEPT ![p] = "running"]
  /\ UNCHANGED <<stream, dirty, unread, peer, pump, queue, working, threads, refused>>

(* The blocking task returns, whether its stream still exists or not.  It  *)
(* may fail at any time.                                                   *)
FlushReturns(p) ==
  /\ flush[p] = "running"
  /\ \/ unread[p] = 0 /\ flush' = [flush EXCEPT ![p] = "ok"]
     \/ flush' = [flush EXCEPT ![p] = "failed"]
  /\ UNCHANGED <<stream, dirty, unread, peer, pump, queue, working, threads, refused>>

-----------------------------------------------------------------------------
(* The jobs.  The first job starts the worker.                             *)

(* Mutant: the job is queued whatever became of the worker.                *)
EnqueueBlind(p, q) ==
  IF Len(queue) < QueueCapacity
  THEN queue' = Append(queue, p) /\ UNCHANGED threads
  ELSE threads' = threads \cup {p} /\ UNCHANGED queue

(* enqueue_linger with a worker in state q: full or disconnected           *)
Enqueue(p, q) ==
  IF q = "running" /\ Len(queue) < QueueCapacity
  THEN queue' = Append(queue, p) /\ UNCHANGED threads
  ELSE threads' = threads \cup {p} /\ UNCHANGED queue

Drop(p) ==
  /\ stream[p] = "open" /\ stream' = [stream EXCEPT ![p] = "closed"]
  /\ \/ dirty[p] = "clean" /\ UNCHANGED <<pump, queue, threads, refused>>
     \/ /\ dirty[p] = "dirty" /\ refused' = refused \cup {p}
        /\ UNCHANGED <<pump, queue, threads>>
     \/ /\ dirty[p] = "dirty" /\ UNCHANGED refused
        /\ pump' \in IF pump = "unborn" THEN {"running", "failed"} ELSE {pump}
        /\ Enqueue(p, pump')
  /\ UNCHANGED <<dirty, flush, unread, peer, working>>

TakeJob ==
  /\ pump = "running" /\ working = {} /\ queue # <<>>
  /\ working' = {Head(queue)} /\ queue' = Tail(queue)
  /\ UNCHANGED <<stream, dirty, flush, unread, peer, pump, threads, refused>>

JobEnds(p) ==
  /\ p \in working \cup threads /\ (unread[p] = 0 \/ peer[p] = "gone")
  /\ working' = working \ {p} /\ threads' = threads \ {p}
  /\ UNCHANGED <<stream, dirty, flush, unread, peer, pump, queue, refused>>

-----------------------------------------------------------------------------
(* The other end.                                                          *)

PeerReads(p) ==
  /\ peer[p] = "here" /\ Held(p) /\ unread[p] > 0
  /\ unread' = [unread EXCEPT ![p] = @ - 1]
  /\ UNCHANGED <<stream, dirty, flush, peer, pump, queue, working, threads, refused>>

PeerLeaves(p) ==
  /\ peer[p] = "here" /\ peer' = [peer EXCEPT ![p] = "gone"]
  /\ UNCHANGED <<stream, dirty, flush, unread, pump, queue, working, threads, refused>>

Owner(p) == Write(p) \/ Settle(p) \/ BeginFlush(p) \/ Drop(p)

Next ==
  \/ TakeJob
  \/ \E p \in Pipes : Owner(p) \/ FlushReturns(p) \/ JobEnds(p) \/ PeerReads(p) \/ PeerLeaves(p)

Spec == Init /\ [][Next]_vars

-----------------------------------------------------------------------------
TypeOK ==
  /\ stream \in [Pipes -> {"open", "closed"}] /\ dirty \in [Pipes -> {"clean", "dirty"}]
  /\ flush \in [Pipes -> {"none", "running", "ok", "failed"}]
  /\ unread \in [Pipes -> Nat] /\ peer \in [Pipes -> {"here", "gone"}]
  /\ pump \in {"unborn", "running", "failed"} /\ queue \in Seq(Pipes)
  /\ working \subseteq Pipes /\ threads \subseteq Pipes /\ refused \subseteq Pipes

(* A flush that reports success means that the peer has read everything:   *)
(* nothing can have been written while it ran or before its result was     *)
(* seen.                                                                   *)
CleanIsRead ==
  \A p \in Pipes : stream[p] = "open" /\ peer[p] = "here" =>
    (dirty[p] = "clean" \/ flush[p] = "ok" => unread[p] = 0)

(* What was written is not lost by dropping the stream in any state, be it *)
(* dirty, clean, with a flush running, failed or unobserved: the end stays *)
(* open until the peer has read or is gone.  Only a handle that cannot be  *)
(* duplicated ends this.                                                   *)
NothingLost ==
  \A p \in Pipes : peer[p] = "here" /\ unread[p] > 0 => Held(p) \/ p \in refused

(* The strengthening under which these are inductive: a flush is only      *)
(* begun on a dirty stream, which stays dirty until its result is seen,    *)
(* and a closed stream with unread data has a job, if it could have one.   *)
FlushedWasDirty ==
  \A p \in Pipes : flush[p] # "none" => dirty[p] = "dirty"

JobLeft ==
  \A p \in Pipes :
    stream[p] = "closed" /\ peer[p] = "here" /\ unread[p] > 0 => Lingers(p) \/ p \in refused

IInv == TypeOK /\ FlushedWasDirty /\ CleanIsRead /\ JobLeft

(* If the peers read, every dropped end closes (so that they see the end). *)
DroppedCloses == \A p \in Pipes : stream[p] = "closed" ~> ~Held(p)
=============================================================================
