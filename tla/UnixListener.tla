---------------------------- MODULE UnixListener ----------------------------
(***************************************************************************)
(* Listeners of several processes on one socket path,                      *)
(* src/src/transport/unix.rs: bind, the replacement of a stale socket, the *)
(* identity check before listen, the removal of the path on drop.          *)
(*                                                                         *)
(* The path is what links the processes; a step is one system call.  An    *)
(* inode number is in use while the path or an open socket refers to it,   *)
(* and may be given to another socket afterwards.  A process may crash     *)
(* anywhere; its socket is closed and the path stays.                      *)
(***************************************************************************)
EXTENDS Integers, FiniteSets

CONSTANTS
  Processes,
  Overwriters,  \* processes with ListenerOptions::try_overwrite
  Reclaimers,   \* processes with ListenerOptions::reclaim_name
  Inodes,       \* inode numbers
  Regular,      \* inodes of files that are not sockets
  MaxBinders,   \* bound: how many processes are in bind at the same time
  Absent, None

Parameters ==
  /\ IsFiniteSet(Processes) /\ Overwriters \cup Reclaimers \subseteq Processes
  /\ Regular \subseteq Inodes /\ {Absent, None} \cap Inodes = {}
  /\ MaxBinders \in Nat

(* What the safety of the names rests on: of the processes in bind none    *)
(* replaces a socket, or there is one of them at a time.  Two that do both *)
(* may take the path from each other.                                      *)
OneAtATime == MaxBinders <= 1 \/ Overwriters = {}

VARIABLES
  path,       \* the inode at the path
  pc,         \* where a process is; "idle" when it has no listener
  own,        \* the inode of its socket
  live,       \* processes whose socket listens
  seen,       \* the identity it has read at the path
  guard,      \* the identity in its SocketPathGuard
  attempted   \* attempted_reclaim

vars == <<path, pc, own, live, seen, guard, attempted>>

Binding == {"bind", "before", "probe", "after", "remove", "meta", "check", "listen"}
Leaving == {"guard", "unlink", "close"}
PCs     == {"idle", "listening"} \cup Binding \cup Leaving

Free(i) == path # i /\ \A p \in Processes : own[p] # i

Go(p, to) == pc' = [pc EXCEPT ![p] = to]

Init ==
  /\ path \in {Absent} \cup Inodes
  /\ pc = [p \in Processes |-> "idle"] /\ own = [p \in Processes |-> None]
  /\ live = {} /\ attempted = {}
  /\ seen = [p \in Processes |-> None] /\ guard = [p \in Processes |-> None]

(* An error: the guard, if there is one, is dropped before the socket.     *)
Fail(p) ==
  /\ Go(p, IF guard[p] = None THEN "close" ELSE "guard")
  /\ UNCHANGED <<path, own, live, seen, guard, attempted>>

-----------------------------------------------------------------------------
(* bind_socket: bind, and if the path exists reclaim it and try again.     *)

Start(p) ==
  /\ pc[p] = "idle"
  /\ Cardinality({q \in Processes : pc[q] \in Binding}) < MaxBinders
  /\ Go(p, "bind")
  /\ UNCHANGED <<path, own, live, seen, guard, attempted>>

Bind(p) ==
  /\ pc[p] = "bind" /\ path = Absent
  /\ \E i \in Inodes \ Regular :
       /\ Free(i)
       /\ path' = i /\ own' = [own EXCEPT ![p] = i]
  /\ Go(p, "meta")
  /\ UNCHANGED <<live, seen, guard, attempted>>

(* Without try_overwrite, or when max_spin_time has passed.                *)
InUse(p) ==
  /\ pc[p] = "bind" /\ path # Absent
  /\ p \notin Overwriters \/ p \in attempted
  /\ Fail(p)

Reclaim(p) ==
  /\ pc[p] = "bind" /\ path # Absent /\ p \in Overwriters
  /\ Go(p, "before")
  /\ UNCHANGED <<path, own, live, seen, guard, attempted>>

StatBefore(p) ==
  /\ pc[p] = "before"
  /\ IF path \in {Absent} \cup Regular THEN Fail(p)
     ELSE /\ Go(p, "probe")
          /\ seen' = [seen EXCEPT ![p] = path]
          /\ UNCHANGED <<path, own, live, guard, attempted>>

(* Mutant: nobody asks whether the socket is alive.                        *)
ProbeNothing(p) ==
  /\ pc[p] = "probe"
  /\ Go(p, "after") /\ UNCHANGED <<path, own, live, seen, guard, attempted>>

(* connect: refused unless a socket at the path listens.                   *)
Probe(p) ==
  /\ pc[p] = "probe"
  /\ IF path = Absent \/ \E q \in live : own[q] = path THEN Fail(p)
     ELSE Go(p, "after") /\ UNCHANGED <<path, own, live, seen, guard, attempted>>

StatAfter(p) ==
  /\ pc[p] = "after"
  /\ IF path # seen[p] THEN Fail(p)
     ELSE Go(p, "remove") /\ UNCHANGED <<path, own, live, seen, guard, attempted>>

Remove(p) ==
  /\ pc[p] = "remove"
  /\ IF path = Absent THEN Fail(p)
     ELSE /\ path' = Absent
          /\ attempted' = attempted \cup {p}
          /\ Go(p, "bind")
          /\ UNCHANGED <<own, live, seen, guard>>

(* Listener::bind: the identity of what was bound, the guard, the check.   *)
Meta(p) ==
  /\ pc[p] = "meta"
  /\ IF path \in {Absent} \cup Regular THEN Fail(p)
     ELSE /\ Go(p, "check")
          /\ seen' = [seen EXCEPT ![p] = path]
          /\ guard' = [guard EXCEPT ![p] = IF p \in Reclaimers THEN path ELSE None]
          /\ UNCHANGED <<path, own, live, attempted>>

Check(p) ==
  /\ pc[p] = "check"
  /\ IF path # seen[p] THEN Fail(p)
     ELSE Go(p, "listen") /\ UNCHANGED <<path, own, live, seen, guard, attempted>>

Listen(p) ==
  /\ pc[p] = "listen"
  /\ live' = live \cup {p}
  /\ Go(p, "listening")
  /\ UNCHANGED <<path, own, seen, guard, attempted>>

-----------------------------------------------------------------------------
(* Drop: the guard's field comes before the socket's.                      *)

(* Mutant: the fields of Listener in the other order.                      *)
DropSocketFirst(p) ==
  /\ pc[p] = "listening"
  /\ live' = live \ {p} /\ own' = [own EXCEPT ![p] = None]
  /\ Go(p, IF guard[p] = None THEN "close" ELSE "guard")
  /\ UNCHANGED <<path, seen, guard, attempted>>

Drop(p) == pc[p] = "listening" /\ Fail(p)

GuardStat(p) ==
  /\ pc[p] = "guard"
  /\ Go(p, IF path = guard[p] THEN "unlink" ELSE "close")
  /\ UNCHANGED <<path, own, live, seen, guard, attempted>>

Unlink(p) ==
  /\ pc[p] = "unlink"
  /\ path' = Absent
  /\ Go(p, "close")
  /\ UNCHANGED <<own, live, seen, guard, attempted>>

Reset(p) ==
  /\ Go(p, "idle")
  /\ own' = [own EXCEPT ![p] = None] /\ live' = live \ {p}
  /\ seen' = [seen EXCEPT ![p] = None] /\ guard' = [guard EXCEPT ![p] = None]
  /\ attempted' = attempted \ {p}
  /\ UNCHANGED path

Close(p) == pc[p] = "close" /\ Reset(p)
Crash(p) == pc[p] # "idle" /\ Reset(p)

Work(p) ==
  \/ Bind(p) \/ InUse(p) \/ Reclaim(p) \/ StatBefore(p) \/ Probe(p) \/ StatAfter(p)
  \/ Remove(p) \/ Meta(p) \/ Check(p) \/ Listen(p)
  \/ GuardStat(p) \/ Unlink(p) \/ Close(p)

Next == \E p \in Processes : Start(p) \/ Work(p) \/ Drop(p) \/ Crash(p)

Spec == Init /\ [][Next]_vars

-----------------------------------------------------------------------------
TypeOK ==
  /\ path \in {Absent} \cup Inodes
  /\ pc \in [Processes -> PCs]
  /\ own \in [Processes -> (Inodes \ Regular) \cup {None}]
  /\ live \subseteq Processes /\ attempted \subseteq Overwriters
  /\ seen \in [Processes -> (Inodes \ Regular) \cup {None}]
  /\ guard \in [Processes -> (Inodes \ Regular) \cup {None}]

(* A listener that is neither dropped nor crashed can be reached: the path *)
(* refers to its socket.  Others may fail to bind, leave or crash while it *)
(* listens.                                                                *)
Reachable == \A p \in Processes : pc[p] = "listening" => path = own[p]

(* The guard of a listener that is dropped removes its own socket from the *)
(* path: not that of a successor, nor one that got the same inode number.  *)
UnlinksOwn == \A p \in Processes : pc[p] = "unlink" => path = own[p] /\ p \in live

NamesOwned == Reachable /\ UnlinksOwn

(* "Stale-socket replacement refuses regular files": whatever the          *)
(* processes do, a file that is not a socket stays at the path.            *)
RegularKept == [][UNCHANGED path \/ path \notin Regular]_vars

(* "Stale-socket replacement refuses ... live listeners": the path of a    *)
(* socket that listens is removed by its own process only.                 *)
LiveKept ==
  [][\A q \in live : path = own[q] => UNCHANGED path \/ pc[q] = "unlink"]_vars

NamesKept == RegularKept /\ LiveKept

-----------------------------------------------------------------------------
(* Why: an inductive strengthening, under OneAtATime.                      *)

(* From bind to the removal of the path, the path is that of the socket.   *)
Bound   == {"meta", "check", "listen", "listening", "guard", "unlink"}
Unbound == {"idle", "bind", "before", "probe", "after", "remove"}

Holds(p) ==
  /\ pc[p] \in Bound => own[p] # None /\ path = own[p]
  /\ pc[p] \in Unbound => own[p] = None /\ guard[p] = None
  /\ pc[p] = "check" => seen[p] = own[p]
  /\ pc[p] = "guard" => guard[p] = own[p]
  /\ pc[p] \in {"check", "listen", "listening"} => guard[p] \in {None, own[p]}
  /\ pc[p] = "meta" => guard[p] = None

(* A socket listens from listen until it is closed.                        *)
Listens(p) ==
  /\ p \in live => pc[p] \in {"listening", "guard", "unlink", "close"} /\ own[p] # None
  /\ pc[p] \in {"listening", "guard", "unlink"} => p \in live

(* Who removes a stale socket may, is alone in bind, and the socket it has *)
(* found refused belongs to nobody that listens, nor is it a regular file. *)
Replaces(p) ==
  /\ pc[p] \in {"before", "probe", "after", "remove"} => p \in Overwriters
  /\ pc[p] \in {"probe", "after", "remove"} => path \notin Regular
  /\ pc[p] \in {"after", "remove"} => \A q \in live : path # own[q]

NoSharing == \A p, q \in Processes : own[p] = own[q] /\ own[p] # None => p = q

AloneInBind ==
  Overwriters # {} =>
    \A p, q \in Processes : pc[p] \in Binding /\ pc[q] \in Binding => p = q

Orderly ==
  /\ TypeOK /\ NoSharing
  /\ \A p \in Processes : Holds(p) /\ Listens(p) /\ Replaces(p)

IInv == Orderly /\ AloneInBind

-----------------------------------------------------------------------------
(* Every call of bind returns: a stale socket is replaced, anything else   *)
(* refused, and the loop does not go on for ever.                          *)
BindEnds == \A p \in Processes : pc[p] = "bind" ~> pc[p] \in {"listening", "idle"}
=============================================================================
