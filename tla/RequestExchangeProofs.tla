----------------------- MODULE RequestExchangeProofs -----------------------
(***************************************************************************)
(* Proofs about RequestExchange: for any requests, any finite set of       *)
(* streams and any limits, a request gets the response to its own last     *)
(* attempt, a connection carries one exchange at a time, and the server    *)
(* runs no attempt twice.                                                  *)
(***************************************************************************)
EXTENDS RequestExchange, TLAPS, SequenceTheorems

(* What is on its way in one direction of a stream is one message or none. *)
LEMMA OneMessage ==
  ASSUME NEW q \in Seq(Messages), Len(q) <= 1, q # <<>>
  PROVE  Head(q) \in Messages /\ Tail(q) = <<>>
<1>1. Len(q) \in Nat \ {0}
  BY EmptySeq
<1>2. Head(q) \in Messages /\ Tail(q) \in Seq(Messages) /\ Len(Tail(q)) = Len(q) - 1
  BY HeadTailProperties
<1>3. Tail(q) # <<>> => Len(Tail(q)) \in Nat \ {0}
  BY <1>2, EmptySeq
<1>4. QED
  BY <1>1, <1>2, <1>3

LEMMA Nothing == <<>> \in Seq(Messages) /\ Len(<<>>) = 0
  BY EmptySeq

LEMMA NextMessage ==
  ASSUME NEW m \in Messages
  PROVE  LET q == Append(<<>>, m)
         IN  q \in Seq(Messages) /\ Len(q) = 1 /\ q # <<>> /\ Head(q) = m
<1>1. Append(<<>>, m) = <<m>>
  OBVIOUS
<1>2. QED
  BY <1>1

LEMMA MessageType ==
  ASSUME TypeOK, NEW r \in Requests
  PROVE  Message(r) \in Messages /\ Message(r) # None
  BY NoneAssumption DEF TypeOK, Message, Messages

-----------------------------------------------------------------------------
(* The steps of a request by what they do to its stream.                   *)

Begins(r) ==
  \/ call[r] = "new" /\ Begin(r, 1)
  \/ call[r] = "backoff" /\ Begin(r, attempt[r] + 1)

Connects(r, s) == GetPooled(r, s) \/ Connect(r, s) \/ ConnectDirect(r, s)

(* The attempt is over, or the whole call, and its stream is dropped.      *)
Drops(r) ==
  /\ call[r] \in Pending \cup {"backoff", "release"}
  /\ \E to \in {"backoff"} \cup Ended : Go(r, to) /\ (to = "ok" => call[r] = "release")
  /\ Drop(r)
  /\ UNCHANGED answer
  /\ other' \subseteq Requests

Receives(r) == ReceiveFramed(r) \/ ReceiveUnframed(r)

Closes(s) == side[s] # "none" /\ Close(s)

LEMMA Steps ==
  ASSUME TypeOK, Next
  PROVE  \/ \E r \in Requests :
              Begins(r) \/ Write(r) \/ Drops(r) \/ Receives(r) \/ Park(r)
              \/ \E s \in Streams : Connects(r, s)
         \/ \E s \in Streams :
              Expire(s) \/ Accept(s) \/ ReadRequest(s) \/ Respond(s) \/ Closes(s)
<1>1. ASSUME NEW r \in Requests,
             Timeout(r) \/ PeerClosed(r) \/ ProtocolError(r) \/ Discard(r) \/ Cancel(r)
      PROVE  Drops(r)
  <2>1. other' \subseteq Requests
    BY <1>1 DEF Timeout, PeerClosed, ProtocolError, Discard, Cancel, TypeOK
  <2>2. CASE Timeout(r) \/ PeerClosed(r)
    BY <2>1, <2>2 DEF Timeout, PeerClosed, Fails, Drops, Pending, Ended
  <2>3. CASE ProtocolError(r) \/ Discard(r) \/ Cancel(r)
    BY <2>1, <2>3 DEF ProtocolError, Discard, Cancel, Drops, Pending, Ended
  <2>4. QED
    BY <1>1, <2>2, <2>3
<1>2. ASSUME NEW s \in Streams, Retire(s) \/ ReadEnd(s) \/ Abandon(s)
      PROVE  Closes(s)
  BY <1>2 DEF Retire, ReadEnd, Abandon, Closes
<1>3. ASSUME NEW r \in Requests, Attempt(r)
      PROVE  \/ Begins(r) \/ Write(r) \/ Drops(r) \/ Receives(r) \/ Park(r)
             \/ \E s \in Streams : Connects(r, s)
  BY <1>1, <1>3 DEF Attempt, Send, Retry, Begins, Connects, Receives
<1>4. ASSUME NEW s \in Streams, Serve(s)
      PROVE  Accept(s) \/ ReadRequest(s) \/ Respond(s) \/ Closes(s)
  BY <1>2, <1>4 DEF Serve
<1>5. QED
  BY <1>3, <1>4 DEF Next

-----------------------------------------------------------------------------
(* Each kind of step keeps the invariant.                                  *)

LEMMA BeginStep ==
  ASSUME IInv, NEW r \in Requests, Begins(r)
  PROVE  IInv'
<1> USE DEF pool, server
<1>0. /\ call[r] \in {"new", "backoff"} /\ call' = [call EXCEPT ![r] = "checkout"]
      /\ attempt' = [attempt EXCEPT ![r] = attempt[r] + 1]
      /\ UNCHANGED <<conn, answer, pool, up, down, server, executed, other>>
  BY DEF Begins, Begin, Go, IInv, TypeOK, Matched
<1>1. TypeOK'
  BY <1>0 DEF IInv, TypeOK, Calls, Pending
<1>2. Owned'
  BY <1>0 DEF IInv, TypeOK, Owned, WithStream
<1>3. Carried'
  BY <1>0 DEF IInv, TypeOK, Carried, Quiet, Held
<1>4. Matched'
  BY <1>0 DEF IInv, TypeOK, Matched, Quiet, Only, Message
<1>5. Unrepeated'
  <2>1. \A m \in Messages : Attempted(m) => Attempted(m)'
    BY <1>0 DEF IInv, TypeOK, Attempted, Messages
  <2>2. \A s \in Sending : Head(up[s]) \in Messages
    BY OneMessage DEF IInv, TypeOK, Carried, Sending
  <2>3. QED
    BY <1>0, <2>1, <2>2 DEF IInv, TypeOK, Unrepeated, Sending
<1>6. QED
  BY <1>1, <1>2, <1>3, <1>4, <1>5 DEF IInv

LEMMA ConnectStep ==
  ASSUME IInv, NEW r \in Requests, NEW s \in Streams, Connects(r, s)
  PROVE  IInv'
<1> USE DEF Has, Go, Side, pool, server
<1>1. /\ call[r] = "checkout" /\ call' = [call EXCEPT ![r] = "write"]
      /\ conn' = [conn EXCEPT ![r] = s]
      /\ UNCHANGED <<attempt, answer, tainted, up, down, work, executed, other>>
  BY DEF Connects, GetPooled, Connect, ConnectDirect, Dial, Pool!Lend, Pool!Connect
<1>2. /\ s \notin Held /\ lease[s] \in {Idle, Closed} /\ Quiet(s)
      /\ lease' = lease \/ lease' = [lease EXCEPT ![s] = r]
      /\ lease'[s] \in {r, Closed}
      /\ side' = side \/ side' = [side EXCEPT ![s] = "backlog"]
      /\ side[s] = "handle" <=> side'[s] = "handle"
      /\ served' \in [Streams -> Nat]
  <2>1. CASE GetPooled(r, s)
    BY <2>1, StreamsAssumption, LeaseAssumption
    DEF GetPooled, Pool!Lend, IInv, TypeOK, Owned, Carried, Held
  <2>2. CASE Connect(r, s)
    BY <2>2, StreamsAssumption, LeaseAssumption
    DEF Connect, Dial, Pool!Connect, IInv, TypeOK, Owned, Carried, Held, ClientOpen, Quiet
  <2>3. CASE ConnectDirect(r, s)
    BY <2>3, StreamsAssumption, LeaseAssumption
    DEF ConnectDirect, Dial, IInv, TypeOK, Owned, Carried, Held, ClientOpen, Quiet
  <2>4. QED
    BY <2>1, <2>2, <2>3 DEF Connects
<1>3. conn[r] = None
  BY <1>1 DEF IInv, Owned, WithStream
<1>4. TypeOK'
  <2>1. call' \in [Requests -> Calls] /\ conn' \in [Requests -> Streams \cup {None}]
    BY <1>1 DEF IInv, TypeOK, Calls, Pending
  <2>2. lease' \in [Streams -> Requests \cup {Idle, Closed}]
    BY <1>2 DEF IInv, TypeOK
  <2>3. side' \in [Streams -> Sides]
    BY <1>2 DEF IInv, TypeOK, Sides
  <2>4. QED
    BY <1>1, <1>2, <2>1, <2>2, <2>3 DEF IInv, TypeOK
<1>5. Owned'
  <2>1. \A q \in Requests : q # r => conn[q] # s /\ conn'[q] = conn[q] /\ call'[q] = call[q]
    BY <1>1, <1>2, StreamsAssumption DEF IInv, TypeOK, Held
  <2>2. conn'[r] = s /\ call'[r] = "write" /\ s # None
    BY <1>1, StreamsAssumption DEF IInv, TypeOK
  <2>3. \A z \in Streams \ {s} : lease'[z] = lease[z]
    BY <1>2 DEF IInv, TypeOK
  <2>4. ASSUME NEW q \in Requests
        PROVE  /\ conn'[q] # None <=> call'[q] \in WithStream
               /\ conn'[q] # None => lease'[conn'[q]] \in {q, Closed}
    <3>1. CASE q = r
      BY <1>2, <2>2, <3>1 DEF WithStream
    <3>2. CASE q # r
      BY <2>1, <2>3, <3>2 DEF IInv, TypeOK, Owned
    <3>3. QED
      BY <3>1, <3>2
  <2>5. \A z \in Streams : lease'[z] \in Requests => conn'[lease'[z]] = z
    BY <1>2, <1>3, <2>1, <2>2, <2>3, LeaseAssumption, StreamsAssumption DEF IInv, TypeOK, Owned
  <2>6. QED
    BY <2>1, <2>2, <2>4, <2>5 DEF IInv, Owned
<1>6. Carried'
  <2>1. Held \subseteq Held' /\ \A z \in Streams : lease'[z] = Idle => lease[z] = Idle
    BY <1>1, <1>2, <1>3, LeaseAssumption DEF IInv, TypeOK, Held
  <2>2. QED
    BY <1>1, <1>2, <2>1 DEF IInv, TypeOK, Carried, Quiet
<1>7. Matched'
  BY <1>1, <1>2, <1>3 DEF IInv, TypeOK, Owned, WithStream, Held, Matched, Quiet, Only, Message
<1>8. Unrepeated'
  BY <1>1 DEF IInv, TypeOK, Unrepeated, Sending, Attempted
<1>9. QED
  BY <1>4, <1>5, <1>6, <1>7, <1>8 DEF IInv

LEMMA WriteStep ==
  ASSUME IInv, NEW r \in Requests, Write(r)
  PROVE  IInv'
<1> USE DEF Go
<1>0. PICK s \in Streams : s = conn[r]
  BY DEF Write, IInv, TypeOK, Owned, WithStream
<1>1. /\ call[r] = "write" /\ call' = [call EXCEPT ![r] = "await"]
      /\ UNCHANGED <<attempt, conn, answer, lease, down, side, work, served, executed, other>>
  BY DEF Write, pool, server, Pool!Send
<1>2. Quiet(s) /\ lease[s] \in {r, Closed}
  BY <1>0, <1>1, StreamsAssumption DEF IInv, TypeOK, Owned, Matched, WithStream
<1>3. \/ up' = up
      \/ side[s] # "none" /\ up' = [up EXCEPT ![s] = Append(<<>>, Message(r))]
  BY <1>0, <1>2 DEF Write, IInv, TypeOK, Quiet
<1>4. /\ tainted \subseteq tainted' /\ tainted' \subseteq Streams
      /\ lease[s] = r => s \in tainted'
  BY <1>0, <1>2 DEF Write, pool, Pool!Send, IInv, TypeOK
<1>5. /\ Message(r) \in Messages
      /\ Append(<<>>, Message(r)) \in Seq(Messages)
      /\ Append(<<>>, Message(r)) # <<>>
      /\ Len(Append(<<>>, Message(r))) = 1
      /\ Head(Append(<<>>, Message(r))) = Message(r)
  BY MessageType, NextMessage DEF IInv
<1>6. TypeOK'
  <2>1. up' \in [Streams -> Seq(Messages)]
    BY <1>2, <1>3, <1>5 DEF IInv, TypeOK
  <2>2. QED
    BY <1>1, <1>4, <2>1 DEF IInv, TypeOK, Calls, Pending
<1>7. Owned'
  BY <1>1 DEF IInv, TypeOK, Owned, WithStream
<1>8. Carried'
  <2>1. s \in Held
    BY <1>0, StreamsAssumption DEF Held
  <2>2. lease[s] # Idle
    BY <1>2, LeaseAssumption
  <2>3. \A z \in Streams \ {s} : up'[z] = up[z]
    BY <1>3 DEF IInv, TypeOK
  <2>4. Len(up'[s]) <= 1 /\ (side[s] = "none" => up'[s] = <<>>)
    <3>1. \/ up'[s] = <<>>
          \/ side[s] # "none" /\ up'[s] = Append(<<>>, Message(r))
      BY <1>2, <1>3 DEF IInv, TypeOK, Quiet
    <3>2. CASE up'[s] = <<>>
      BY <3>2, Nothing
    <3>3. CASE side[s] # "none" /\ up'[s] = Append(<<>>, Message(r))
      BY <1>5, <3>3
    <3>4. QED
      BY <3>1, <3>2, <3>3
  <2>5. QED
    BY <1>1, <1>2, <2>1, <2>2, <2>3, <2>4 DEF IInv, Carried, Quiet, Held
<1>9. Matched'
  <2>1. \A q \in Requests : q # r /\ conn[q] # None => conn[q] # s
    BY <1>0 DEF IInv, Owned
  <2>2. \A q \in Requests : q # r /\ call[q] \in WithStream =>
          conn[q] \in Streams /\ up'[conn[q]] = up[conn[q]]
    BY <1>2, <1>3, <2>1 DEF IInv, TypeOK, Owned
  <2>3. Only(s, Message(r))'
    BY <1>1, <1>2, <1>3, <1>5 DEF Only, Quiet, IInv, TypeOK, Message
  <2>4. ASSUME NEW q \in Requests, q # r
        PROVE  /\ call'[q] = "new" => attempt'[q] = 0
               /\ call'[q] = "write" => Quiet(conn[q])'
               /\ call'[q] = "await" => /\ Only(conn[q], Message(q))'
                                        /\ lease'[conn'[q]] = q => conn'[q] \in tainted'
               /\ call'[q] = "release" =>
                    lease'[conn'[q]] # q \/ conn'[q] \in tainted' \/ Quiet(conn[q])'
               /\ call'[q] \in {"release", "ok"} => answer'[q] = Message(q)'
    BY <1>1, <1>4, <2>2, <2>4 DEF IInv, TypeOK, Matched, Quiet, Only, Message, WithStream
  <2>5. QED
    BY <1>0, <1>1, <1>4, <2>3, <2>4 DEF Matched, IInv, TypeOK
<1>10. Unrepeated'
  <2>1. \A m \in Messages : Attempted(m) => Attempted(m)'
    BY <1>1 DEF IInv, TypeOK, Attempted, Messages
  <2>2. Attempted(Message(r))'
    BY <1>1, <1>5 DEF IInv, TypeOK, Attempted, Message, Messages
  <2>3. \A z \in Sending : Head(up[z]) \in Messages /\ Head(up[z]) # Message(r)
    BY <1>1, OneMessage DEF IInv, TypeOK, Carried, Sending, Unrepeated, Attempted, Message
  <2>4. Message(r) \notin executed
    BY <1>1 DEF IInv, Unrepeated, Attempted, Message
  <2>5. \A z \in Sending' : \/ z \in Sending /\ up'[z] = up[z]
                            \/ z = s /\ Head(up'[z]) = Message(r)
    BY <1>2, <1>3, <1>5 DEF Sending, IInv, TypeOK
  <2>6. executed \subseteq Messages /\ executed' = executed
    BY <1>1 DEF IInv, TypeOK
  <2>7. \A m \in executed' : Attempted(m)'
    BY <2>1, <2>6 DEF IInv, Unrepeated
  <2>8. \A z \in Sending' : Attempted(Head(up[z]))' /\ Head(up'[z]) \notin executed'
    BY <1>1, <2>1, <2>2, <2>3, <2>4, <2>5, <2>6 DEF IInv, Unrepeated, Message
  <2>9. \A z, y \in Sending' : Head(up'[z]) = Head(up'[y]) => z = y
    BY <2>3, <2>5 DEF IInv, Unrepeated
  <2>10. QED
    BY <2>7, <2>8, <2>9 DEF Unrepeated
<1>11. QED
  BY <1>6, <1>7, <1>8, <1>9, <1>10 DEF IInv

(* Nobody else has the stream of a request.                                *)
LEMMA OtherStreams ==
  ASSUME IInv, NEW r \in Requests, NEW s \in Streams, conn[r] = s,
         NEW q \in Requests, q # r
  PROVE  /\ conn[q] # s
         /\ call[q] \in WithStream => conn[q] \in Streams \ {s}
BY StreamsAssumption DEF IInv, TypeOK, Owned

LEMMA DropStep ==
  ASSUME IInv, NEW r \in Requests, Drops(r)
  PROVE  IInv'
<1>1. PICK to \in {"backoff"} \cup Ended :
        call' = [call EXCEPT ![r] = to] /\ (to = "ok" => call[r] = "release")
  BY DEF Drops, Go
<1>2. /\ conn' = [conn EXCEPT ![r] = None] /\ other' \subseteq Requests
      /\ down' = [z \in Streams |-> IF z = conn[r] THEN <<>> ELSE down[z]]
      /\ UNCHANGED <<attempt, answer, up, side, work, served, executed>>
  BY DEF Drops, Drop, server
<1>3. CASE conn[r] = None
  <2>1. down' = down
    BY <1>2, <1>3, StreamsAssumption DEF IInv, TypeOK
  <2>2. conn' = conn /\ UNCHANGED <<lease, tainted>>
    BY <1>2, <1>3 DEF Drops, Drop, pool, IInv, TypeOK
  <2>3. call[r] \notin WithStream /\ to \notin WithStream
    BY <1>3 DEF IInv, Owned, WithStream, Ended
  <2>4. TypeOK'
    BY <1>1, <1>2, <2>1, <2>2 DEF IInv, TypeOK, Calls, Pending, Ended
  <2>5. Owned'
    BY <1>1, <2>2, <2>3 DEF IInv, TypeOK, Owned
  <2>6. Carried'
    BY <1>2, <2>1, <2>2 DEF IInv, Carried, Quiet, Held
  <2>7. Matched'
    BY <1>1, <1>2, <2>1, <2>2, <2>3 DEF IInv, TypeOK, Matched, Quiet, Only, Message, Ended, WithStream
  <2>8. Unrepeated'
    BY <1>1, <1>2, <2>3 DEF IInv, TypeOK, Unrepeated, Sending, Attempted, Ended
  <2>9. QED
    BY <2>4, <2>5, <2>6, <2>7, <2>8 DEF IInv
<1>4. CASE conn[r] # None
  <2>1. PICK s \in Streams : conn[r] = s
    BY <1>4 DEF IInv, TypeOK
  <2>2. /\ down'[s] = <<>> /\ \A z \in Streams \ {s} : down'[z] = down[z]
    BY <1>2, <2>1
  <2>3. /\ lease'[s] = Closed /\ \A z \in Streams \ {s} : lease'[z] = lease[z]
        /\ lease' \in [Streams -> Requests \cup {Idle, Closed}]
        /\ tainted' \subseteq tainted /\ tainted \ {s} \subseteq tainted'
    BY <1>4, <2>1 DEF Drops, Drop, pool, Pool!Discard, IInv, TypeOK, Owned
  <2>4. /\ conn'[r] = None /\ \A q \in Requests \ {r} : conn'[q] = conn[q] /\ call'[q] = call[q]
        /\ call'[r] = to /\ to \notin WithStream
    BY <1>1, <1>2 DEF IInv, TypeOK, WithStream, Ended
  <2>5. TypeOK'
    <3>1. call' \in [Requests -> Calls] /\ conn' \in [Requests -> Streams \cup {None}]
      BY <1>1, <1>2 DEF IInv, TypeOK, Calls, Pending, Ended
    <3>2. down' \in [Streams -> Seq(Messages)]
      BY <1>2, Nothing DEF IInv, TypeOK
    <3>3. QED
      BY <1>2, <2>3, <3>1, <3>2 DEF IInv, TypeOK
  <2>6. Owned'
    <3>1. \A q \in Requests \ {r} : call[q] \in WithStream => conn[q] \in Streams \ {s}
      BY <2>1, OtherStreams
    <3>2. \A q \in Requests : /\ conn'[q] # None <=> call'[q] \in WithStream
                              /\ conn'[q] # None => lease'[conn'[q]] \in {q, Closed}
      BY <2>3, <2>4, <3>1 DEF IInv, Owned
    <3>3. \A q, p \in Requests : conn'[q] = conn'[p] => conn'[q] = None \/ q = p
      BY <2>4 DEF IInv, Owned
    <3>4. \A z \in Streams : lease'[z] \in Requests => conn'[lease'[z]] = z
      BY <2>1, <2>3, <2>4, LeaseAssumption DEF IInv, Owned
    <3>5. QED
      BY <3>2, <3>3, <3>4 DEF Owned
  <2>7. Carried'
    <3>1. Held \ {s} \subseteq Held'
      BY <2>1, <2>4 DEF Held
    <3>2. QED
      BY <1>2, <2>2, <2>3, <3>1, LeaseAssumption, Nothing DEF IInv, Carried, Quiet
  <2>8. Matched'
    <3>1. ASSUME NEW q \in Requests \ {r}
          PROVE  call[q] \in WithStream => conn[q] \in Streams \ {s} /\ conn'[q] = conn[q]
      BY <2>1, <2>4, OtherStreams
    <3>2. to \in {"release", "ok"} => answer[r] = Message(r)
      BY <1>1 DEF IInv, Matched, Ended
    <3>3. ASSUME NEW q \in Requests \ {r}
          PROVE  /\ call'[q] = "new" => attempt'[q] = 0
                 /\ call'[q] = "write" => Quiet(conn[q])'
                 /\ call'[q] = "await" => /\ Only(conn[q], Message(q))'
                                          /\ lease'[conn'[q]] = q => conn'[q] \in tainted'
                 /\ call'[q] = "release" =>
                      lease'[conn'[q]] # q \/ conn'[q] \in tainted' \/ Quiet(conn[q])'
                 /\ call'[q] \in {"release", "ok"} => answer'[q] = Message(q)'
      BY <1>2, <2>2, <2>3, <2>4, <3>1 DEF IInv, Matched, Quiet, Only, Message, WithStream
    <3>4. call'[r] \notin {"new", "write", "await", "release"}
      BY <2>4, <1>1 DEF WithStream, Ended
    <3>5. QED
      BY <1>2, <2>4, <3>2, <3>3, <3>4 DEF Matched, Message
  <2>9. Unrepeated'
    BY <1>1, <1>2 DEF IInv, TypeOK, Unrepeated, Sending, Attempted, Ended
  <2>10. QED
    BY <2>5, <2>6, <2>7, <2>8, <2>9 DEF IInv
<1>5. QED
  BY <1>3, <1>4

LEMMA ReceiveStep ==
  ASSUME IInv, NEW r \in Requests, Receives(r)
  PROVE  IInv'
<1>0. PICK s \in Streams : s = conn[r]
  BY DEF Receives, ReceiveFramed, ReceiveUnframed, Receive, IInv, TypeOK, Owned, WithStream
<1>1. /\ call[r] = "await" /\ down[s] # <<>> /\ call' = [call EXCEPT ![r] = "release"]
      /\ answer' = [answer EXCEPT ![r] = Head(down[s])]
      /\ UNCHANGED <<attempt, conn, up, side, work, served, executed, other, lease>>
  BY <1>0 DEF Receives, ReceiveFramed, ReceiveUnframed, Receive, Clean, pool, server, Go, Pool!Receive
<1>2. /\ Head(down[s]) = Message(r) /\ Message(r) \in Messages
      /\ Tail(down[s]) = <<>> /\ up[s] = <<>> /\ work[s] = None
      /\ lease[s] \in {r, Closed} /\ (lease[s] = r => s \in tainted)
  BY <1>0, <1>1, OneMessage, MessageType, StreamsAssumption
  DEF IInv, TypeOK, Matched, Only, Carried, Owned
<1>3. /\ \A z \in Streams \ {s} : down'[z] = down[z]
      /\ \/ down'[s] = <<>> /\ tainted' \subseteq tainted /\ tainted \ {s} \subseteq tainted'
         \/ down'[s] = down[s] /\ tainted' = tainted
  <2>1. \/ down' = [down EXCEPT ![s] = <<>>]
        \/ down' = [down EXCEPT ![s] = down[s]] /\ tainted' = tainted
    BY <1>0, <1>2 DEF Receives, ReceiveFramed, ReceiveUnframed, Receive, pool
  <2>2. tainted' = tainted \/ tainted' = tainted \ {s}
    BY <1>0 DEF Receives, ReceiveFramed, ReceiveUnframed, Clean, pool, Pool!Receive
  <2>3. QED
    BY <2>1, <2>2 DEF IInv, TypeOK
<1>4. TypeOK'
  <2>1. call' \in [Requests -> Calls] /\ answer' \in [Requests -> Messages \cup {None}]
    BY <1>1, <1>2 DEF IInv, TypeOK, Calls
  <2>2. down' \in [Streams -> Seq(Messages)]
    <3>1. down' = [down EXCEPT ![s] = <<>>] \/ down' = [down EXCEPT ![s] = down[s]]
      BY <1>0, <1>2 DEF Receives, ReceiveFramed, ReceiveUnframed, Receive
    <3>2. QED
      BY <3>1, Nothing DEF IInv, TypeOK
  <2>3. tainted' \subseteq Streams
    BY <1>3 DEF IInv, TypeOK
  <2>4. QED
    BY <1>1, <2>1, <2>2, <2>3 DEF IInv, TypeOK
<1>5. Owned'
  BY <1>1 DEF IInv, TypeOK, Owned, WithStream
<1>6. Carried'
  <2>1. lease[s] # Idle
    BY <1>2, LeaseAssumption
  <2>2. QED
    BY <1>1, <1>2, <1>3, <2>1, Nothing DEF IInv, Carried, Quiet, Held
<1>7. Matched'
  <2>1. ASSUME NEW q \in Requests, q # r
        PROVE  call[q] \in WithStream => conn[q] \in Streams \ {s}
    BY <1>0, <2>1, OtherStreams
  <2>2. lease'[s] # r \/ s \in tainted' \/ Quiet(s)'
    BY <1>1, <1>2, <1>3 DEF Quiet
  <2>3. /\ call'[r] = "release" /\ answer'[r] = Message(r) /\ conn'[r] = s
        /\ \A q \in Requests \ {r} : call'[q] = call[q] /\ answer'[q] = answer[q]
    BY <1>0, <1>1, <1>2 DEF IInv, TypeOK
  <2>4. QED
    BY <1>1, <1>3, <2>1, <2>2, <2>3 DEF IInv, Matched, Quiet, Only, Message, WithStream
<1>8. Unrepeated'
  BY <1>1 DEF IInv, TypeOK, Unrepeated, Sending, Attempted
<1>9. QED
  BY <1>4, <1>5, <1>6, <1>7, <1>8 DEF IInv

LEMMA ParkStep ==
  ASSUME IInv, NEW r \in Requests, Park(r)
  PROVE  IInv'
<1>0. PICK s \in Streams : s = conn[r]
  BY DEF Park, IInv, TypeOK, Owned, WithStream
<1>1. /\ call[r] = "release" /\ call' = [call EXCEPT ![r] = "ok"]
      /\ conn' = [conn EXCEPT ![r] = None]
      /\ lease[s] = r /\ lease' = [lease EXCEPT ![s] = Idle] /\ s \notin tainted
      /\ UNCHANGED <<attempt, answer, up, down, side, work, served, executed, other, tainted>>
  BY <1>0 DEF Park, Pool!Park, server, Go
<1>2. Quiet(s)
  BY <1>0, <1>1 DEF IInv, Matched
<1>3. TypeOK'
  BY <1>1 DEF IInv, TypeOK, Calls, Ended
<1>4. /\ conn'[r] = None /\ call'[r] = "ok" /\ lease'[s] = Idle
      /\ \A q \in Requests \ {r} : conn'[q] = conn[q] /\ call'[q] = call[q]
      /\ \A z \in Streams \ {s} : lease'[z] = lease[z]
  BY <1>1 DEF IInv, TypeOK
<1>5. ASSUME NEW q \in Requests \ {r}
      PROVE  call[q] \in WithStream => conn[q] \in Streams \ {s}
  BY <1>0, OtherStreams
<1>6. Owned'
  <2>1. \A q \in Requests : /\ conn'[q] # None <=> call'[q] \in WithStream
                            /\ conn'[q] # None => lease'[conn'[q]] \in {q, Closed}
    BY <1>4, <1>5 DEF IInv, Owned, WithStream
  <2>2. \A q, p \in Requests : conn'[q] = conn'[p] => conn'[q] = None \/ q = p
    BY <1>4 DEF IInv, Owned
  <2>3. \A z \in Streams : lease'[z] \in Requests => conn'[lease'[z]] = z
    BY <1>0, <1>4, LeaseAssumption DEF IInv, Owned
  <2>4. QED
    BY <2>1, <2>2, <2>3 DEF Owned
<1>7. Carried'
  <2>1. Held \ {s} \subseteq Held'
    BY <1>0, <1>4 DEF Held
  <2>2. QED
    BY <1>1, <1>2, <1>4, <2>1 DEF IInv, Carried, Quiet
<1>8. Matched'
  BY <1>1, <1>4, <1>5 DEF IInv, Matched, Quiet, Only, Message, WithStream
<1>9. Unrepeated'
  BY <1>1 DEF IInv, TypeOK, Unrepeated, Sending, Attempted
<1>10. QED
  BY <1>3, <1>6, <1>7, <1>8, <1>9 DEF IInv

LEMMA ExpireStep ==
  ASSUME IInv, NEW s \in Streams, Expire(s)
  PROVE  IInv'
<1>1. /\ lease[s] = Idle /\ lease' = [lease EXCEPT ![s] = Closed]
      /\ tainted' = tainted \ {s}
      /\ UNCHANGED <<call, attempt, conn, answer, up, down, side, work, served, executed, other>>
  BY DEF Expire, Pool!Discard, client, server
<1>2. \A q \in Requests : call[q] \in WithStream => conn[q] \in Streams \ {s}
  BY <1>1, LeaseAssumption DEF IInv, TypeOK, Owned
<1>3. TypeOK'
  BY <1>1 DEF IInv, TypeOK
<1>4. Owned'
  BY <1>1, <1>2, LeaseAssumption DEF IInv, TypeOK, Owned
<1>5. Carried'
  BY <1>1, LeaseAssumption DEF IInv, TypeOK, Carried, Quiet, Held
<1>6. Matched'
  BY <1>1, <1>2 DEF IInv, TypeOK, Matched, Quiet, Only, Message, WithStream
<1>7. Unrepeated'
  BY <1>1 DEF IInv, Unrepeated, Sending, Attempted
<1>8. QED
  BY <1>3, <1>4, <1>5, <1>6, <1>7 DEF IInv

LEMMA AcceptStep ==
  ASSUME IInv, NEW s \in Streams, Accept(s)
  PROVE  IInv'
<1>1. /\ side[s] = "backlog" /\ side' = [side EXCEPT ![s] = "read"]
      /\ UNCHANGED <<call, attempt, conn, answer, lease, tainted, up, down, work, served, executed, other>>
  BY DEF Accept, Side, client, pool
<1>2. TypeOK'
  BY <1>1 DEF IInv, TypeOK, Sides
<1>3. Owned' /\ Unrepeated'
  BY <1>1 DEF IInv, Owned, Unrepeated, Sending, Attempted
<1>4. Carried'
  BY <1>1 DEF IInv, TypeOK, Carried, Quiet, Held
<1>5. Matched'
  BY <1>1 DEF IInv, Matched, Quiet, Only, Message
<1>6. QED
  BY <1>2, <1>3, <1>4, <1>5 DEF IInv

LEMMA ReadStep ==
  ASSUME IInv, NEW s \in Streams, ReadRequest(s)
  PROVE  IInv'
<1> DEFINE m == Head(up[s])
<1>1. /\ side[s] = "read" /\ side' = [side EXCEPT ![s] = "handle"]
      /\ up[s] # <<>> /\ up' = [up EXCEPT ![s] = <<>>]
      /\ work' = [work EXCEPT ![s] = m] /\ executed' = executed \cup {m}
      /\ UNCHANGED <<call, attempt, conn, answer, lease, tainted, down, served, other>>
  BY OneMessage DEF ReadRequest, Side, client, pool, IInv, TypeOK, Carried
<1>2. m \in Messages /\ m # None /\ down[s] = <<>> /\ lease[s] # Idle
  BY <1>1, OneMessage, NoneAssumption DEF IInv, TypeOK, Carried, Quiet, Messages
<1>3. TypeOK'
  BY <1>1, <1>2, Nothing DEF IInv, TypeOK, Sides
<1>4. Owned'
  BY <1>1 DEF IInv, Owned
<1>5. Carried'
  BY <1>1, <1>2, Nothing DEF IInv, TypeOK, Carried, Quiet, Held
<1>6. Matched'
  <2>1. /\ up'[s] = <<>> /\ work'[s] = m
        /\ \A z \in Streams \ {s} : up'[z] = up[z] /\ work'[z] = work[z]
    BY <1>1 DEF IInv, TypeOK
  <2>2. ASSUME NEW q \in Requests, call[q] \in WithStream
        PROVE  /\ conn[q] \in Streams
               /\ call[q] # "write" \/ conn[q] # s
               /\ call[q] = "release" => lease[conn[q]] # q \/ conn[q] \in tainted \/ conn[q] # s
    BY <2>2, <1>1 DEF IInv, TypeOK, Owned, Matched, Quiet
  <2>3. ASSUME NEW q \in Requests, call[q] = "await"
        PROVE  Only(conn[q], Message(q))'
    <3>1. Only(conn[q], Message(q)) /\ conn[q] \in Streams
      BY <2>2, <2>3 DEF IInv, Matched, WithStream
    <3>2. CASE conn[q] = s
      BY <3>1, <3>2, <2>1, <1>1, <1>2 DEF Only, Message
    <3>3. CASE conn[q] # s
      BY <3>1, <3>3, <2>1, <1>1 DEF Only, Message
    <3>4. QED
      BY <3>2, <3>3
  <2>4. \A q \in Requests : Message(q)' = Message(q)
    BY <1>1 DEF Message
  <2>5. ASSUME NEW q \in Requests, call[q] \in WithStream, conn[q] # s
        PROVE  Quiet(conn[q])' <=> Quiet(conn[q])
    BY <2>5, <2>1, <2>2, <1>1 DEF Quiet
  <2>6. QED
    BY <1>1, <2>2, <2>3, <2>4, <2>5 DEF IInv, Matched, WithStream
<1>7. Unrepeated'
  <2>1. s \in Sending /\ Sending' = Sending \ {s}
    BY <1>1 DEF IInv, TypeOK, Sending
  <2>2. \A n : Attempted(n)' <=> Attempted(n)
    BY <1>1 DEF Attempted
  <2>3. \A z \in Sending' : up'[z] = up[z] /\ Head(up[z]) # m
    BY <1>1, <2>1 DEF IInv, TypeOK, Unrepeated, Sending
  <2>4. QED
    BY <1>1, <2>1, <2>2, <2>3 DEF IInv, Unrepeated
<1>8. QED
  BY <1>3, <1>4, <1>5, <1>6, <1>7 DEF IInv

LEMMA RespondStep ==
  ASSUME IInv, NEW s \in Streams, Respond(s)
  PROVE  IInv'
<1> DEFINE m == work[s]
<1>1. /\ side[s] = "handle" /\ side' \in [Streams -> Sides] /\ side'[s] \in {"read", "last"}
      /\ \A z \in Streams \ {s} : side'[z] = side[z]
      /\ work' = [work EXCEPT ![s] = None] /\ served' \in [Streams -> Nat]
      /\ UNCHANGED <<call, attempt, conn, answer, lease, tainted, up, executed, other>>
  BY DEF Respond, Side, Sides, client, pool, IInv, TypeOK
<1>2. m \in Messages /\ up[s] = <<>> /\ down[s] = <<>> /\ lease[s] # Idle
  BY <1>1 DEF IInv, TypeOK, Carried, Quiet
<1>3. \/ down' = down
      \/ s \in Held /\ down' = [down EXCEPT ![s] = Append(<<>>, m)]
  BY <1>2 DEF Respond, ClientOpen, IInv, TypeOK
<1>4. LET q == Append(<<>>, m) IN q \in Seq(Messages) /\ Len(q) = 1 /\ q # <<>> /\ Head(q) = m
  BY <1>2, NextMessage
<1>5. /\ \A z \in Streams \ {s} : down'[z] = down[z]
      /\ \/ down'[s] = <<>>
         \/ s \in Held /\ Len(down'[s]) = 1 /\ Head(down'[s]) = m
  BY <1>2, <1>3, <1>4 DEF IInv, TypeOK
<1>6. TypeOK'
  <2>1. down' \in [Streams -> Seq(Messages)]
    BY <1>3, <1>4 DEF IInv, TypeOK
  <2>2. QED
    BY <1>1, <2>1 DEF IInv, TypeOK
<1>7. Owned' /\ Unrepeated'
  BY <1>1 DEF IInv, Owned, Unrepeated, Sending, Attempted
<1>8. Carried'
  <2>1. /\ work'[s] = None /\ Held' = Held
        /\ \A z \in Streams \ {s} : work'[z] = work[z]
    BY <1>1 DEF IInv, TypeOK, Held
  <2>2. ASSUME NEW z \in Streams, z # s
        PROVE  down'[z] = down[z] /\ work'[z] = work[z] /\ side'[z] = side[z]
    BY <2>2, <2>1, <1>1, <1>5
  <2>3. ASSUME NEW z \in Streams, z # s
        PROVE  /\ Len(up'[z]) <= 1 /\ Len(down'[z]) <= 1
               /\ up'[z] # <<>> => down'[z] = <<>> /\ work'[z] = None
               /\ down'[z] # <<>> => work'[z] = None
               /\ work'[z] # None <=> side'[z] = "handle"
               /\ side'[z] = "none" => up'[z] = <<>>
               /\ down'[z] # <<>> => z \in Held'
               /\ lease'[z] = Idle => Quiet(z)'
    BY <2>2, <2>3, <2>1, <1>1 DEF IInv, Carried, Quiet
  <2>4. Len(up'[s]) <= 1 /\ Len(down'[s]) <= 1
    <3>1. Len(up[s]) <= 1 /\ up'[s] = up[s]
      BY <1>1 DEF IInv, Carried
    <3>2. Len(<<>>) <= 1
      BY Nothing
    <3>3. CASE down'[s] = <<>>
      BY ONLY <3>1, <3>2, <3>3
    <3>4. CASE Len(down'[s]) = 1
      BY <3>1, <3>4
    <3>5. QED
      BY <1>5, <3>3, <3>4
  <2>5. QED
    BY <1>1, <1>2, <1>5, <2>1, <2>3, <2>4 DEF Carried, Quiet
<1>9. Matched'
  <2>1. work'[s] = None /\ \A z \in Streams \ {s} : work'[z] = work[z]
    BY <1>1 DEF IInv, TypeOK
  <2>2. ASSUME NEW q \in Requests, call[q] \in WithStream
        PROVE  /\ conn[q] \in Streams
               /\ call[q] # "write" \/ conn[q] # s
               /\ call[q] = "release" => lease[conn[q]] # q \/ conn[q] \in tainted \/ conn[q] # s
    <3>1. work[s] # None
      BY <1>1 DEF IInv, Carried
    <3>2. QED
      BY <2>2, <3>1 DEF IInv, TypeOK, Owned, Matched, Quiet
  <2>3. ASSUME NEW q \in Requests, call[q] = "await"
        PROVE  Only(conn[q], Message(q))'
    <3>1. Only(conn[q], Message(q)) /\ conn[q] \in Streams
      BY <2>2, <2>3 DEF IInv, Matched, WithStream
    <3>2. CASE conn[q] = s
      <4>1. m = Message(q)
        BY <3>1, <3>2, <1>1 DEF Only, IInv, Carried
      <4>2. QED
        BY <4>1, <3>2, <2>1, <1>1, <1>2, <1>5 DEF Only, Message
    <3>3. CASE conn[q] # s
      BY <3>1, <3>3, <2>1, <1>1, <1>5 DEF Only, Message
    <3>4. QED
      BY <3>2, <3>3
  <2>4. \A q \in Requests : Message(q)' = Message(q)
    BY <1>1 DEF Message
  <2>5. ASSUME NEW q \in Requests, call[q] \in WithStream, conn[q] # s
        PROVE  Quiet(conn[q])' <=> Quiet(conn[q])
    BY <2>5, <2>1, <2>2, <1>1, <1>5 DEF Quiet
  <2>6. QED
    BY <1>1, <2>2, <2>3, <2>4, <2>5 DEF IInv, Matched, WithStream
<1>10. QED
  BY <1>6, <1>7, <1>8, <1>9 DEF IInv

LEMMA CloseStep ==
  ASSUME IInv, NEW s \in Streams, Closes(s)
  PROVE  IInv'
<1>1. /\ side' = [side EXCEPT ![s] = "none"] /\ work' = [work EXCEPT ![s] = None]
      /\ up' = [up EXCEPT ![s] = <<>>]
      /\ UNCHANGED <<call, attempt, conn, answer, lease, tainted, down, served, executed, other>>
  BY DEF Closes, Close, Side, client, pool
<1>2. TypeOK'
  BY <1>1, Nothing DEF IInv, TypeOK, Sides
<1>3. Owned'
  BY <1>1 DEF IInv, Owned
<1>4. Carried'
  BY <1>1, Nothing DEF IInv, TypeOK, Carried, Quiet, Held
<1>5. Matched'
  BY <1>1 DEF IInv, TypeOK, Matched, Quiet, Only, Message
<1>6. Unrepeated'
  BY <1>1 DEF IInv, TypeOK, Unrepeated, Sending, Attempted
<1>7. QED
  BY <1>2, <1>3, <1>4, <1>5, <1>6 DEF IInv

LEMMA InitIInv == Init => IInv
<1> SUFFICES ASSUME Init PROVE IInv
  OBVIOUS
<1> USE DEF Init, Pool!Init
<1>1. TypeOK
  BY Nothing DEF TypeOK, Calls, Sides
<1>2. Owned
  BY LeaseAssumption DEF Owned, WithStream
<1>3. Carried
  BY Nothing, LeaseAssumption DEF Carried
<1>4. Matched /\ Unrepeated
  BY DEF Matched, Unrepeated, Sending
<1>5. QED
  BY <1>1, <1>2, <1>3, <1>4 DEF IInv

LEMMA StepIInv == IInv /\ [Next]_vars => IInv'
<1>1. ASSUME IInv, Next PROVE IInv'
  BY <1>1, Steps, BeginStep, ConnectStep, WriteStep, DropStep, ReceiveStep, ParkStep,
     ExpireStep, AcceptStep, ReadStep, RespondStep, CloseStep DEF IInv
<1>2. ASSUME IInv, UNCHANGED vars PROVE IInv'
  BY <1>2 DEF vars, client, pool, server, IInv, TypeOK, Owned, Carried, Matched, Unrepeated,
     Quiet, Only, Message, Attempted, Sending, Held
<1>3. QED
  BY <1>1, <1>2

-----------------------------------------------------------------------------
(* The inductive invariant of the exchange holds in every state.           *)
THEOREM IInvHolds == Spec => []IInv
  BY InitIInv, StepIInv, PTL DEF Spec

(* The variables of the clients, the streams and the server keep their     *)
(* types, whatever either end does.                                        *)
THEOREM TypeCorrect == Spec => []TypeOK
<1>1. IInv => TypeOK
  BY DEF IInv
<1>2. QED
  BY <1>1, IInvHolds, PTL

(* send() returns the response to its own last attempt: a late answer to   *)
(* an attempt given up, or to another request, is on a stream that is not  *)
(* lent again.                                                             *)
THEOREM AnswersOwn == Spec => []OwnAnswer
<1>1. IInv => OwnAnswer
  BY DEF IInv, Matched, OwnAnswer
<1>2. QED
  BY <1>1, IInvHolds, PTL

(* A connection carries one exchange at a time, and none while it is idle  *)
(* in the pool.                                                            *)
THEOREM NoPipelining == Spec => []OneExchange
<1>1. IInv => OneExchange
  <2> SUFFICES ASSUME IInv, NEW s \in Streams
               PROVE  Len(up[s]) + Len(down[s]) + (IF work[s] = None THEN 0 ELSE 1)
                        <= (IF lease[s] = Idle THEN 0 ELSE 1)
    BY DEF OneExchange
  <2>1. Len(up[s]) \in Nat /\ Len(down[s]) \in Nat
    BY LenProperties DEF IInv, TypeOK
  <2>2. /\ up[s] # <<>> => down[s] = <<>> /\ work[s] = None
        /\ down[s] # <<>> => work[s] = None
        /\ Len(up[s]) <= 1 /\ Len(down[s]) <= 1
        /\ lease[s] = Idle => up[s] = <<>> /\ down[s] = <<>> /\ work[s] = None
    BY DEF IInv, Carried, Quiet
  <2>3. (up[s] = <<>> => Len(up[s]) = 0) /\ (down[s] = <<>> => Len(down[s]) = 0)
    BY Nothing
  <2> DEFINE working == IF work[s] = None THEN 0 ELSE 1
  <2>4. /\ working \in {0, 1}
        /\ Len(up[s]) \in {0, 1} /\ Len(down[s]) \in {0, 1}
        /\ Len(up[s]) = 1 => Len(down[s]) = 0 /\ working = 0
        /\ Len(down[s]) = 1 => working = 0
        /\ lease[s] = Idle => Len(up[s]) = 0 /\ Len(down[s]) = 0 /\ working = 0
    <3>0. \A n \in Nat : n <= 1 => n = 0 \/ n = 1
      OBVIOUS
    <3>1. Len(up[s]) \in {0, 1} /\ Len(down[s]) \in {0, 1}
      BY <3>0, <2>1, <2>2
    <3>2. Len(up[s]) = 1 => up[s] # <<>>
      BY <2>3
    <3>3. Len(down[s]) = 1 => down[s] # <<>>
      BY <2>3
    <3>4. QED
      BY <3>1, <3>2, <3>3, <2>2, <2>3
  <2> HIDE DEF working
  <2>5. Len(up[s]) + Len(down[s]) + working <= (IF lease[s] = Idle THEN 0 ELSE 1)
    <3>1. \A i, j, k \in {0, 1} :
            (i = 1 => j = 0 /\ k = 0) /\ (j = 1 => k = 0)
              => i + j + k <= 1 /\ (i = 0 /\ j = 0 /\ k = 0 => i + j + k <= 0)
      OBVIOUS
    <3>2. CASE lease[s] = Idle
      <4>1. Len(up[s]) + Len(down[s]) + working <= 0
        BY <2>4, <3>1, <3>2
      <4>2. QED
        BY <4>1, <3>2, Zenon
    <3>3. CASE lease[s] # Idle
      <4>1. Len(up[s]) + Len(down[s]) + working <= 1
        BY <2>4, <3>1
      <4>2. QED
        BY <4>1, <3>3, Zenon
    <3>4. QED
      BY <3>2, <3>3
  <2>6. QED
    BY <2>5 DEF working
<1>2. QED
  BY <1>1, IInvHolds, PTL

(* The server runs no attempt twice: a request is handed to the router at  *)
(* most as often as it was attempted.                                      *)
THEOREM RunsOnce == Spec => AttemptRunsOnce
<1> DEFINE Once == \A s \in Streams :
                     work'[s] # work[s] /\ work'[s] # None => work'[s] \notin executed
<1>1. ASSUME IInv, Next PROVE Once
  <2> SUFFICES ASSUME NEW s \in Streams, work'[s] # work[s], work'[s] # None
               PROVE  work'[s] \notin executed
    OBVIOUS
  <2>1. PICK z \in Streams : ReadRequest(z)
    <3>1. ASSUME NEW r \in Requests,
                 Begins(r) \/ Write(r) \/ Drops(r) \/ Receives(r) \/ Park(r)
                   \/ (\E y \in Streams : Connects(r, y))
          PROVE  work' = work
      BY <3>1 DEF Begins, Begin, Write, Drops, Drop, Receives, ReceiveFramed, ReceiveUnframed,
                  Receive, Park, Connects, GetPooled, Connect, ConnectDirect, Dial, server
    <3>2. ASSUME NEW y \in Streams, Expire(y) \/ Accept(y)
          PROVE  work' = work
      BY <3>2 DEF Expire, Accept, server
    <3>3. ASSUME NEW y \in Streams, Respond(y) \/ Closes(y)
          PROVE  work' = [work EXCEPT ![y] = None]
      BY <3>3 DEF Respond, Closes, Close
    <3>4. QED
      BY <1>1, <3>1, <3>2, <3>3, Steps DEF IInv, TypeOK
  <2>2. z = s /\ work'[s] = Head(up[s]) /\ s \in Sending
    BY <1>1, <2>1 DEF ReadRequest, IInv, TypeOK, Sending
  <2>3. QED
    BY <1>1, <2>2 DEF IInv, Unrepeated
<1>2. IInv /\ [Next]_vars => [Once]_vars
  BY <1>1
<1>3. QED
  BY <1>2, IInvHolds, PTL DEF Spec, AttemptRunsOnce
=============================================================================
