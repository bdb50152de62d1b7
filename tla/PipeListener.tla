---------------------------- MODULE PipeListener ----------------------------
(***************************************************************************)
(* src/src/transport/windows.rs, Listener and connect: a server process    *)
(* keeps one unconnected instance of its named pipe for the next client.   *)
(* A client opens any free instance of the name; while there is none it    *)
(* tries again, and while the name does not exist it fails.                *)
(***************************************************************************)
EXTENDS Integers, FiniteSets

CONSTANTS
  Servers,      \* processes that bind the name
  Clients,
  Instances,    \* handles of pipe instances
  Trusted,      \* the servers that a client's verification accepts
  None

Parameters == Trusted \subseteq Servers /\ None \notin Servers \cup Clients \cup Instances

VARIABLES
  owner,    \* the server that has the handle of an instance, or None
  user,     \* the client that has opened an instance, or None
  pending,  \* Listener::pending of a server, None without a listener
  streams,  \* the instances accept has returned to a server
  client    \* "idle", "trying", "open", "not found", "rejected" or "gone"

vars == <<owner, user, pending, streams, client>>

Exists == {i \in Instances : owner[i] # None}

Init ==
  /\ owner = [i \in Instances |-> None] /\ user = [i \in Instances |-> None]
  /\ pending = [s \in Servers |-> None] /\ streams = [s \in Servers |-> {}]
  /\ client = [c \in Clients |-> "idle"]

-----------------------------------------------------------------------------
(* create_instance: with first, the name must be free; another server may  *)
(* not add instances to it.                                                *)
CreateInstance(s, first) ==
  {i \in Instances \ Exists : user[i] = None /\ (first => Exists = {})}

Bind(s) ==
  /\ pending[s] = None /\ streams[s] = {}
  /\ \E i \in CreateInstance(s, TRUE) :
       owner' = [owner EXCEPT ![i] = s] /\ pending' = [pending EXCEPT ![s] = i]
  /\ UNCHANGED <<user, streams, client>>

(* accept: a client is connected, the next instance is created and takes   *)
(* the place of the connected one.  If it cannot be created nothing        *)
(* changes, and the next accept finds the same client.                     *)
Accept(s) ==
  /\ pending[s] # None /\ user[pending[s]] # None
  /\ \E i \in CreateInstance(s, FALSE) :
       owner' = [owner EXCEPT ![i] = s] /\ pending' = [pending EXCEPT ![s] = i]
  /\ streams' = [streams EXCEPT ![s] = @ \cup {pending[s]}]
  /\ UNCHANGED <<user, client>>

(* A stream is dropped, when its lingering handle is gone, too.            *)
CloseStream(s, i) ==
  /\ i \in streams[s] /\ streams' = [streams EXCEPT ![s] = @ \ {i}]
  /\ owner' = [owner EXCEPT ![i] = None]
  /\ UNCHANGED <<user, pending, client>>

CloseListener(s) ==
  /\ pending[s] # None /\ pending' = [pending EXCEPT ![s] = None]
  /\ owner' = [owner EXCEPT ![pending[s]] = None]
  /\ UNCHANGED <<user, streams, client>>

(* A process that ends loses all its handles.                              *)
Crash(s) ==
  /\ pending[s] # None \/ streams[s] # {}
  /\ owner' = [i \in Instances |-> IF owner[i] = s THEN None ELSE owner[i]]
  /\ pending' = [pending EXCEPT ![s] = None] /\ streams' = [streams EXCEPT ![s] = {}]
  /\ UNCHANGED <<user, client>>

-----------------------------------------------------------------------------
Connect(c) ==
  /\ client[c] = "idle" /\ client' = [client EXCEPT ![c] = "trying"]
  /\ UNCHANGED <<owner, user, pending, streams>>

(* The open succeeds and verify_server asks for the process behind the     *)
(* pipe.  A rejected client drops its handle at once.                      *)
Open(c) ==
  /\ client[c] = "trying"
  /\ \E i \in Exists :
       /\ user[i] = None /\ user' = [user EXCEPT ![i] = c]
       /\ client' = [client EXCEPT ![c] = IF owner[i] \in Trusted THEN "open" ELSE "rejected"]
  /\ UNCHANGED <<owner, pending, streams>>

(* Any error but ERROR_PIPE_BUSY ends the attempt.                         *)
NotFound(c) ==
  /\ client[c] = "trying" /\ Exists = {}
  /\ client' = [client EXCEPT ![c] = "not found"]
  /\ UNCHANGED <<owner, user, pending, streams>>

(* The client closes its end, or gives up; an instance that was connected  *)
(* once is never free again.                                               *)
Leave(c) ==
  /\ client[c] \in {"trying", "open"} /\ client' = [client EXCEPT ![c] = "gone"]
  /\ UNCHANGED <<owner, user, pending, streams>>

Retry(c) ==
  /\ client[c] \in {"not found", "rejected", "gone"} /\ client' = [client EXCEPT ![c] = "idle"]
  /\ user' = [i \in Instances |-> IF owner[i] = None /\ user[i] = c THEN None ELSE user[i]]
  /\ \A i \in Instances : user[i] = c => owner[i] = None
  /\ UNCHANGED <<owner, pending, streams>>

Next ==
  \/ \E s \in Servers :
       Bind(s) \/ Accept(s) \/ CloseListener(s) \/ Crash(s) \/ \E i \in Instances : CloseStream(s, i)
  \/ \E c \in Clients : Connect(c) \/ Open(c) \/ NotFound(c) \/ Leave(c) \/ Retry(c)

Spec == Init /\ [][Next]_vars

-----------------------------------------------------------------------------
TypeOK ==
  /\ owner \in [Instances -> Servers \cup {None}] /\ user \in [Instances -> Clients \cup {None}]
  /\ pending \in [Servers -> Instances \cup {None}]
  /\ streams \in [Servers -> SUBSET Instances]
  /\ client \in [Clients -> {"idle", "trying", "open", "not found", "rejected", "gone"}]

(* "first_pipe_instance": the name belongs to one server, and also the     *)
(* connections of one that has stopped listening keep it from the others.  *)
OneServer == \A i, j \in Exists : owner[i] = owner[j]

(* An instance is the listener's or a stream's, not both, and every handle *)
(* is one of them: a connected client is accepted once and never dropped   *)
(* by an accept that fails.                                                *)
EachHeldOnce ==
  \A i \in Instances, s \in Servers :
    /\ owner[i] = s <=> (pending[s] = i \/ i \in streams[s])
    /\ ~(pending[s] = i /\ i \in streams[s])
    /\ i \in streams[s] => user[i] # None

(* While a server listens, no client is told that the name does not exist. *)
FoundWhileListening ==
  [][\A c \in Clients : client[c] = "trying" /\ client'[c] = "not found" =>
       \A s \in Servers : pending[s] = None /\ streams[s] = {}]_vars

(* The process behind a stream a client works with passed verification.    *)
VerifiedPeer ==
  \A c \in Clients : client[c] = "open" =>
    \A i \in Exists : user[i] = c => owner[i] \in Trusted

NamesOwned == OneServer /\ EachHeldOnce /\ VerifiedPeer
NamesKept  == FoundWhileListening

(* A client that has no answer yet has no instance either, also when it    *)
(* tries again.                                                            *)
Fresh ==
  \A c \in Clients : client[c] \in {"idle", "trying", "not found"} =>
    \A i \in Instances : user[i] # c

IInv == TypeOK /\ NamesOwned /\ Fresh

(* A client that tries does not wait for ever.                             *)
OpenEnds == \A c \in Clients : client[c] = "trying" ~> client[c] # "trying"

=============================================================================
