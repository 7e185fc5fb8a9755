----------------------------- MODULE P2PServer -----------------------------
(***************************************************************************)
(* p2p_server.cpp: the listening loop starts one thread per connection and *)
(* gives it a REFERENCE to its own variable client_sock, which the next    *)
(* accept overwrites.  Each use of the variable in process_request (recv,  *)
(* send, shutdown, closesocket) reads the connection accepted last.        *)
(*                                                                         *)
(* A socket handle is the connection it stands for.  A handle closed here  *)
(* and given out again by accept is in client_sock at once, so no thread   *)
(* can tell; reuse by the client half of the process is not modelled.      *)
(***************************************************************************)
EXTENDS Integers, Sequences

CONSTANTS
  Conns,       \* connections, each made once by download_file of some peer
  Invalid,     \* INVALID_SOCKET, what a failed accept returns
  MaxThreads   \* bound: returns of accept, each of which starts a thread

ASSUME ConnsAssumption ==
  Invalid \notin Conns /\ MaxThreads \in Nat

VARIABLES
  client_sock,  \* the listener's variable, shared with every thread
  conn,         \* conn[c]: the server's end of c
  peer,         \* peer[c]: the client's end of c
  unread,       \* connections whose request is sent and not received
  got,          \* got[c]: what was sent on c, as the connections that had asked
  thread,       \* thread[t]: where process_request stands in thread t
  started,      \* number of threads started
  missing,      \* history: connections whose chunk the storage did not find
  lone          \* history: connections served with no other thread around

vars == <<client_sock, conn, peer, unread, got, thread, started, missing, lone>>
network == <<conn, peer, unread, got>>

Threads == 1..MaxThreads
Ended == {"none", "done"}
Alive == {t \in Threads : thread[t].pc \notin Ended}

-----------------------------------------------------------------------------
(* The clients: connect, send one request, wait for one answer, close.     *)

Connect(c) ==
  /\ peer[c] = "away"
  /\ peer' = [peer EXCEPT ![c] = "connected"]
  /\ conn' = [conn EXCEPT ![c] = "backlog"]
  /\ UNCHANGED <<client_sock, unread, got, thread, started, missing, lone>>

Ask(c) ==
  /\ peer[c] = "connected" /\ conn[c] # "closed"
  /\ peer' = [peer EXCEPT ![c] = "asked"]
  /\ unread' = unread \cup {c}
  /\ UNCHANGED <<client_sock, conn, got, thread, started, missing, lone>>

\* With its answer, without one, or because its process ends.
Leave(c) ==
  /\ peer[c] \in {"connected", "asked"}
  /\ peer' = [peer EXCEPT ![c] = "gone"]
  /\ UNCHANGED <<client_sock, conn, unread, got, thread, started, missing, lone>>

-----------------------------------------------------------------------------
(* The listening loop.                                                     *)

\* A thread that starts while another lives shares client_sock with it.
Lone(c) == IF Alive = {} THEN lone \cup {c} ELSE lone \ {client_sock}

StartThread ==
  /\ started < MaxThreads /\ started' = started + 1
  /\ thread' = [thread EXCEPT ![started + 1].pc = "start"]

Accept(c) ==
  /\ conn[c] = "backlog" /\ StartThread
  /\ conn' = [conn EXCEPT ![c] = "open"]
  /\ client_sock' = c
  /\ lone' = Lone(c)
  /\ UNCHANGED <<peer, unread, got, missing>>

\* "Don't exit, continue to listen": a thread is started all the same.
AcceptFails ==
  /\ StartThread
  /\ client_sock' = Invalid
  /\ lone' = IF Alive = {} THEN lone ELSE lone \ {client_sock}
  /\ UNCHANGED <<network, missing>>

-----------------------------------------------------------------------------
(* process_request in thread t.                                            *)

Goto(t, pc) == thread' = [thread EXCEPT ![t] = [pc |-> pc, on |-> Invalid, req |-> Invalid]]

\* closesocket or shutdown by way of the shared variable.
Usable(c) == c # Invalid /\ conn[c] \in {"open", "shut"}

\* Seeded fault: the socket is left open.
ClosedNever(c) == conn
Closed(c) == IF Usable(c) THEN [conn EXCEPT ![c] = "closed"] ELSE conn

OutOfMemory(t) ==
  /\ thread[t].pc = "start"
  /\ Goto(t, "close")
  /\ UNCHANGED <<client_sock, network, started, missing, lone>>

\* recv is called on what client_sock holds now and blocks there.
CallRecv(t) ==
  /\ thread[t].pc \in {"start", "call"}
  /\ thread' = [thread EXCEPT ![t] = [pc |-> "recv", on |-> client_sock, req |-> Invalid]]
  /\ UNCHANGED <<client_sock, network, started, missing, lone>>

\* Seeded fault: the request is looked at and not taken (MSG_PEEK).
TakenPeek(c) == unread
Taken(c) == unread \ {c}

\* Then getChunk finds the chunk or does not.
RecvRequest(t, found) ==
  LET c == thread[t].on
  IN  /\ thread[t].pc = "recv" /\ Usable(c) /\ c \in unread
      /\ unread' = Taken(c)
      /\ missing' = IF found THEN missing ELSE missing \cup {c}
      /\ IF found
         THEN thread' = [thread EXCEPT ![t] = [pc |-> "send", on |-> Invalid, req |-> c]]
         ELSE Goto(t, "refuse")
      /\ UNCHANGED <<client_sock, conn, peer, got, started, lone>>

\* The client has closed: recv returns 0.
RecvEnd(t) ==
  LET c == thread[t].on
  IN  /\ thread[t].pc = "recv" /\ Usable(c) /\ c \notin unread /\ peer[c] = "gone"
      /\ Goto(t, "shutdown")
      /\ UNCHANGED <<client_sock, network, started, missing, lone>>

\* The socket is invalid or was closed by another thread, or the client reset it.
RecvFails(t) ==
  LET c == thread[t].on
  IN  /\ thread[t].pc = "recv" /\ (Usable(c) => peer[c] = "gone")
      /\ Goto(t, "close")
      /\ UNCHANGED <<client_sock, network, started, missing, lone>>

\* Seeded fault: the answer goes to every connection that is open.
DestinationsAll(t) == {c \in Conns : conn[c] = "open"}

\* Where send finds a stream it can write to.
Destinations(t) == {c \in {client_sock} : c # Invalid /\ conn[c] = "open"}

\* Seeded fault: the send buffer is sent without a chunk in it.
PayloadUnset(t) == thread[t].on

Payload(t) == thread[t].req

\* The thread then calls recv again.
SendChunk(t) ==
  /\ thread[t].pc = "send" /\ Destinations(t) # {}
  /\ got' = [c \in Conns |->
               IF c \in Destinations(t) THEN Append(got[c], Payload(t)) ELSE got[c]]
  /\ Goto(t, "call")
  /\ UNCHANGED <<client_sock, conn, peer, unread, started, missing, lone>>

SendFails(t) ==
  /\ thread[t].pc = "send"
  /\ \A c \in Destinations(t) : peer[c] = "gone"
  /\ Goto(t, "close")
  /\ UNCHANGED <<client_sock, network, started, missing, lone>>

\* CHUNK_NOT_FOUND_ERROR goes to listen_sock, which is not connected: send fails.
SendNotFound(t) ==
  /\ thread[t].pc = "refuse"
  /\ Goto(t, "close")
  /\ UNCHANGED <<client_sock, network, started, missing, lone>>

Shutdown(t) ==
  /\ thread[t].pc = "shutdown"
  /\ conn' = IF Usable(client_sock) THEN [conn EXCEPT ![client_sock] = "shut"] ELSE conn
  /\ Goto(t, "close")
  /\ UNCHANGED <<client_sock, peer, unread, got, started, missing, lone>>

Close(t) ==
  /\ thread[t].pc = "close"
  /\ conn' = Closed(client_sock)
  /\ Goto(t, "done")
  /\ UNCHANGED <<client_sock, peer, unread, got, started, missing, lone>>

-----------------------------------------------------------------------------
Init ==
  /\ client_sock = Invalid
  /\ conn = [c \in Conns |-> "none"]
  /\ peer = [c \in Conns |-> "away"]
  /\ unread = {} /\ got = [c \in Conns |-> <<>>]
  /\ thread = [t \in Threads |-> [pc |-> "none", on |-> Invalid, req |-> Invalid]]
  /\ started = 0 /\ missing = {} /\ lone = {}

ThreadStep(t) ==
  \/ OutOfMemory(t)
  \/ CallRecv(t)
  \/ \E found \in BOOLEAN : RecvRequest(t, found)
  \/ RecvEnd(t)
  \/ RecvFails(t)
  \/ SendChunk(t)
  \/ SendFails(t)
  \/ SendNotFound(t)
  \/ Shutdown(t)
  \/ Close(t)

Next ==
  \/ \E c \in Conns : Connect(c) \/ Ask(c) \/ Leave(c) \/ Accept(c)
  \/ AcceptFails
  \/ \E t \in Threads : ThreadStep(t)

Spec == Init /\ [][Next]_vars

\* recv returns with a request, at the end of the connection or with an error; every
\* other call of a thread returns.
RecvReturns(c) == Usable(c) => c \in unread \/ peer[c] = "gone"
Due(t) ==
  thread[t].pc \notin Ended /\ (thread[t].pc = "recv" => RecvReturns(thread[t].on))

\* A thread whose call can return goes on: weak fairness, with what enables its step
\* written out.
GoesOn(t) == []<>~Due(t) \/ []<><<ThreadStep(t)>>_vars

FairSpec == Spec /\ \A t \in Threads : GoesOn(t)

-----------------------------------------------------------------------------
(* Properties.                                                             *)

\* Each variable has its type.
TypeOK ==
  /\ client_sock \in Conns \cup {Invalid}
  /\ conn \in [Conns -> {"none", "backlog", "open", "shut", "closed"}]
  /\ peer \in [Conns -> {"away", "connected", "asked", "gone"}]
  /\ unread \subseteq Conns /\ missing \subseteq Conns /\ lone \subseteq Conns
  /\ DOMAIN got = Conns /\ \A c \in Conns : got[c] \in Seq(Conns)
  /\ thread \in [Threads ->
       [pc : Ended \cup {"start", "call", "recv", "refuse", "send", "shutdown", "close"},
        on : Conns \cup {Invalid}, req : Conns \cup {Invalid}]]
  /\ started \in 0..MaxThreads

\* No request is answered twice, on one connection or on two, even with two
\* threads blocked in recv on the same socket.
AnsweredOnce ==
  \A c, d \in Conns : \A i \in 1..Len(got[c]) : \A j \in 1..Len(got[d]) :
    got[c][i] = got[d][j] => c = d /\ i = j

\* A connection no other thread overlapped is sent its own answer and nothing
\* else, and is sent it before the server closes it on a client that still waits.
LoneIsAnswered ==
  \A c \in lone :
    /\ got[c] \in {<<>>, <<c>>}
    /\ conn[c] = "closed" /\ peer[c] = "asked" /\ c \notin unread /\ c \notin missing
         => got[c] = <<c>>

\* The connection accepted last is sent its answer by some thread (not always its
\* own), or closed, for as long as no other is accepted.
NewestIsServed ==
  \A c \in Conns :
    client_sock = c /\ peer[c] = "asked"
      ~> \/ \E i \in 1..Len(got[c]) : got[c][i] = c
         \/ conn[c] = "closed" \/ peer[c] = "gone" \/ client_sock # c

\* Once the client of the connection accepted last has left, the server closes its
\* end, for as long as no other is accepted: the socket is not leaked.
NewestIsClosed ==
  \A c \in Conns :
    client_sock = c /\ peer[c] = "gone" ~> conn[c] = "closed" \/ client_sock # c
=============================================================================
