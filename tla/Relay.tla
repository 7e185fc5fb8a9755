------------------------------- MODULE Relay -------------------------------
(***************************************************************************)
(* The TCP half of TURN_Signal_server.cpp: one loop accepts connections,   *)
(* one thread per connection serves it, and two maps under one mutex say   *)
(* which thread and which descriptor serve an address.  A connection that  *)
(* names another one's address may send it one message.  The clients are   *)
(* those of p2p_client.cpp (learn the own address, then read) and of       *)
(* p2p_server.cpp (name an address, then send).                            *)
(*                                                                         *)
(* The descriptors are those of one process: close gives one back and      *)
(* accept takes the lowest that is free, while the maps still hold numbers.*)
(***************************************************************************)
EXTENDS Integers, Sequences

CONSTANTS
  Conns,   \* connections, each with the thread that serves it
  Addrs,   \* addresses, as ip:port
  Addr,    \* Addr[c]: the address c comes from
  Readers, \* connections made to learn an address and read
  Senders, \* connections made to name an address and send
  Unset,   \* the key made of a client_addr that accept did not fill in
  None,    \* no connection, no address
  FDs      \* descriptors for accept to give out

ASSUME RelayAssumption ==
  /\ Addr \in [Conns -> Addrs] /\ Unset \notin Addrs
  /\ Readers \cup Senders = Conns
  /\ None \notin Conns /\ None \notin Addrs \cup {Unset}
  /\ FDs \subseteq Nat

VARIABLES
  alive,                \* is the process running?
  files,                \* files[fd]: the connection fd stands for
  pc,                   \* pc[c]: where setupConnectionForTCP stands for c
  sock,                 \* sock[c]: its connectedSocketFd
  connectionThreads,    \* address -> the connection whose thread is registered
  connectionSocketFds,  \* address -> descriptor
  word,                 \* word[c]: the address c named last
  itr,                  \* itr[c]: the entry getSockFromIP found, by its connection
  to,                   \* to[c]: toSendSockFd
  peer,                 \* peer[c]: where the client stands
  inbox,                \* inbox[c]: what c sent and its thread has not received
  answer,               \* answer[c]: the first thing written to c
  touched,              \* connections used by the process after their client left
  relays                \* history: the messages relayed

vars == <<alive, files, pc, sock, connectionThreads, connectionSocketFds, word, itr,
          to, peer, inbox, answer, touched, relays>>
maps == <<connectionThreads, connectionSocketFds>>
locals == <<sock, word, itr, to>>
wire == <<inbox, answer, touched, relays>>

Keys == Addrs \cup {Unset}
Serving == {"recv", "find", "deref", "relay", "success"}

Message(kind, addr) == [kind |-> kind, addr |-> addr]
Gone(c) == peer[c] = "gone"
Waiting(c) == peer[c] \in {"asking", "requesting"}

-----------------------------------------------------------------------------
(* The clients.  Nothing is modelled of them once the process has died.     *)

Client(c, from, at) == peer[c] = from /\ peer' = [peer EXCEPT ![c] = at]
Put(c, m) == inbox' = [inbox EXCEPT ![c] = Append(@, m)]
ServerIdle == alive /\ UNCHANGED <<alive, files, pc, locals, maps, answer, touched, relays>>

\* An address comes back only when its last connection is over.
Connect(c) ==
  /\ \A d \in Conns : Addr[d] = Addr[c] => peer[d] \in {"away", "gone"}
  /\ Client(c, "away", "open")
  /\ UNCHANGED inbox /\ ServerIdle

\* connect_to_TURN_get_public_ip.
AskPublic(c) ==
  /\ c \in Readers /\ Client(c, "open", "asking") /\ Put(c, Message("getPublic", None))
  /\ ServerIdle

\* The addresses some client learned from a reply and gave to others.
Told == {Addr[c] : c \in {d \in Conns : answer[d] = "address"}}

\* send_to_TURN_public_ip.  None: a text that does not read as ip:port.
NameAddress(c, a) ==
  /\ c \in Senders /\ Client(c, "open", "requesting") /\ Put(c, Message("addr", a))
  /\ ServerIdle

\* Both take the first thing they receive for the reply and do not look at it.
ReadReply(c) ==
  /\ answer[c] # "nothing"
  /\ \/ Client(c, "asking", "reader")
     \/ Client(c, "requesting", "replied")
  /\ UNCHANGED inbox /\ ServerIdle

SendData(c) ==
  /\ Client(c, "replied", "sent") /\ Put(c, Message("data", None))
  /\ ServerIdle

\* It closes the connection, or its process ends.
Leave(c) ==
  /\ peer[c] \notin {"away", "gone"} /\ peer' = [peer EXCEPT ![c] = "gone"]
  /\ UNCHANGED inbox /\ ServerIdle

-----------------------------------------------------------------------------
(* The accepting loop, waitForConnection.                                  *)

Free(fd) == files[fd] = None
Lowest(fd) == Free(fd) /\ \A g \in FDs : g < fd => ~Free(g)
Backlog(c) == peer[c] # "away" /\ pc[c] = "none"
AtAccept == alive /\ \A c \in Conns : pc[c] # "accepted"

Accept(c, fd) ==
  /\ AtAccept /\ Backlog(c) /\ Lowest(fd)
  /\ files' = [files EXCEPT ![fd] = c]
  /\ sock' = [sock EXCEPT ![c] = fd]
  /\ pc' = [pc EXCEPT ![c] = "accepted"]
  /\ UNCHANGED <<alive, maps, word, itr, to, peer, wire>>

\* The result of accept is not looked at.
AcceptFails(c) ==
  /\ AtAccept /\ Backlog(c) /\ Gone(c)
  /\ pc' = [pc EXCEPT ![c] = "accepted"]
  /\ UNCHANGED <<alive, files, maps, locals, peer, wire>>

Key(c) == IF sock[c] = -1 THEN Unset ELSE Addr[c]

\* The thread is made and the maps are changed with the mutex locked.
Register(c) ==
  /\ alive /\ pc[c] = "accepted" /\ connectionThreads[Key(c)] = None
  /\ connectionThreads' = [connectionThreads EXCEPT ![Key(c)] = c]
  /\ connectionSocketFds' = [connectionSocketFds EXCEPT ![Key(c)] = sock[c]]
  /\ pc' = [pc EXCEPT ![c] = "recv"]
  /\ UNCHANGED <<alive, files, locals, peer, wire>>

\* The key is taken: insert destroys a thread that runs, std::terminate.
Terminate(c) ==
  /\ alive /\ pc[c] = "accepted" /\ connectionThreads[Key(c)] # None
  /\ alive' = FALSE
  /\ UNCHANGED <<files, pc, maps, locals, peer, wire>>

-----------------------------------------------------------------------------
(* setupConnectionForTCP in the thread of c.                               *)

At(c, at) == alive /\ pc[c] = at
Goto(c, at) == pc' = [pc EXCEPT ![c] = at]
Take(c) == sock[c] # -1 /\ inbox[c] # <<>> /\ inbox' = [inbox EXCEPT ![c] = Tail(@)]
Ended(c) == inbox[c] = <<>> /\ Gone(c)

\* send(fd, m): none on a closed descriptor; on a connection used before since its
\* client left it raises SIGPIPE, unless the reset is still on its way.
Send(fd, m, used) ==
  LET d == IF fd \in FDs THEN files[fd] ELSE None
  IN  IF d = None
      THEN touched' = touched \cup used /\ UNCHANGED <<alive, answer>>
      ELSE IF Gone(d)
      THEN /\ touched' = touched \cup used \cup {d} /\ UNCHANGED answer
           /\ alive' \in IF d \in touched \cup used THEN BOOLEAN ELSE {TRUE}
      ELSE /\ answer' = [answer EXCEPT ![d] = IF @ = "nothing" THEN m ELSE @]
           /\ touched' = touched \cup used /\ UNCHANGED alive

Reply(c, m) == Send(sock[c], m, {})

\* Seeded faults: the thread returns without removeThread, or does not return.
AfterCloseLeft == "done"
AfterCloseLoops == "recv"
AfterClose == "remove"

\* recv returns 0 or -1.
Close(c) ==
  /\ At(c, "recv") /\ (sock[c] = -1 \/ Ended(c))
  /\ files' = IF sock[c] = -1 THEN files ELSE [files EXCEPT ![sock[c]] = None]
  /\ Goto(c, AfterClose)
  /\ UNCHANGED <<alive, maps, locals, peer, wire>>

RecvGetPublic(c) ==
  /\ At(c, "recv") /\ Take(c) /\ Head(inbox[c]).kind = "getPublic"
  /\ Reply(c, "address")
  /\ UNCHANGED <<files, pc, maps, locals, peer, relays>>

\* Seeded fault: the loop continues without a reply, as that of the UDP half does.
RefuseSilently(c) == UNCHANGED <<alive, answer, touched>>
Refuse(c) == Reply(c, "404")

\* Blank, without a colon, or with one at an end.
RecvMalformed(c) ==
  /\ At(c, "recv") /\ Take(c)
  /\ Head(inbox[c]).kind # "getPublic" /\ Head(inbox[c]).addr = None
  /\ Refuse(c)
  /\ UNCHANGED <<files, pc, maps, locals, peer, relays>>

RecvAddress(c) ==
  /\ At(c, "recv") /\ Take(c) /\ Head(inbox[c]).addr # None
  /\ word' = [word EXCEPT ![c] = Head(inbox[c]).addr]
  /\ Goto(c, "find")
  /\ UNCHANGED <<alive, files, maps, sock, itr, to, peer, answer, touched, relays>>

\* Another thread (one of these or the UDP loop) calls strtok between the two calls
\* here: its static state is theirs, token is null and strcpy faults.
StrtokRaces(c) ==
  /\ At(c, "find") /\ alive' = FALSE
  /\ UNCHANGED <<files, pc, maps, locals, peer, wire>>

\* Seeded faults: lower_bound for find; end() is not told from an entry.
FoundAny(a) == {d \in Conns : \E b \in Addrs : connectionThreads[b] = d}
FoundUnchecked(a) == {connectionThreads[a]}
Found(a) == IF connectionSocketFds[a] = -1 THEN {} ELSE {connectionThreads[a]}

\* getSockFromIP finds the entry, known by its connection, with the mutex locked ...
Find(c) ==
  /\ At(c, "find")
  /\ \E d \in Found(word[c]) : itr' = [itr EXCEPT ![c] = d]
  /\ Goto(c, "deref")
  /\ UNCHANGED <<alive, files, maps, sock, word, to, peer, wire>>

FindNone(c) ==
  /\ At(c, "find") /\ Found(word[c]) = {}
  /\ Goto(c, "recv") /\ Refuse(c)
  /\ word' = [word EXCEPT ![c] = None]
  /\ UNCHANGED <<files, maps, sock, itr, to, peer, inbox, relays>>

\* ... and reads it with the mutex unlocked.
Start(c, fd) ==
  /\ to' = [to EXCEPT ![c] = fd]
  /\ Goto(c, "relay") /\ Reply(c, "start")
  /\ UNCHANGED <<files, maps, sock, word, itr, peer, inbox, relays>>

Deref(c) ==
  /\ At(c, "deref")
  /\ \E a \in Keys : connectionThreads[a] = itr[c] /\ Start(c, connectionSocketFds[a])

Erased(c) == \A a \in Keys : connectionThreads[a] # itr[c]

\* The entry was erased: whatever number is there, a descriptor or -1, or the end
\* of the process.
DerefErased(c, fd) == At(c, "deref") /\ Erased(c) /\ Start(c, fd)

DerefRefused(c) ==
  /\ At(c, "deref") /\ Erased(c)
  /\ Goto(c, "recv") /\ Refuse(c)
  /\ word' = [word EXCEPT ![c] = None] /\ itr' = [itr EXCEPT ![c] = None]
  /\ UNCHANGED <<files, maps, sock, to, peer, inbox, relays>>

DerefFaults(c) ==
  /\ At(c, "deref") /\ Erased(c) /\ alive' = FALSE
  /\ UNCHANGED <<files, pc, maps, locals, peer, wire>>

\* relayTCPconnection.
Relay(c) ==
  /\ At(c, "relay") /\ Take(c)
  /\ Send(to[c], "data", {})
  /\ relays' = relays \cup {[from |-> c, address |-> word[c],
                               addressee |-> itr[c], receiver |-> files[to[c]]]}
  /\ Goto(c, "success")
  /\ UNCHANGED <<files, maps, locals, peer>>

\* recv returns 0 and nothing is sent, or -1, which send takes for a length.
RelayNothing(c) ==
  /\ At(c, "relay") /\ Ended(c)
  /\ Goto(c, "success")
  /\ UNCHANGED <<alive, files, maps, locals, peer, wire>>

RelayJunk(c) ==
  /\ At(c, "relay") /\ Ended(c)
  /\ Send(to[c], "junk", {c})
  /\ Goto(c, "success")
  /\ UNCHANGED <<files, maps, locals, peer, inbox, relays>>

\* Whatever the two calls returned.
ReportSuccess(c) ==
  /\ At(c, "success")
  /\ Reply(c, "success") /\ Goto(c, "recv")
  /\ word' = [word EXCEPT ![c] = None] /\ itr' = [itr EXCEPT ![c] = None]
  /\ to' = [to EXCEPT ![c] = -1]
  /\ UNCHANGED <<files, maps, sock, peer, inbox, relays>>

\* Seeded fault: the entry in connectionSocketFds stays.
WithoutThreadOnly(c) == connectionSocketFds
Without(c) ==
  [a \in Keys |-> IF connectionThreads[a] = c THEN -1 ELSE connectionSocketFds[a]]

\* removeThread, which std::async runs and the thread waits for.
RemoveThread(c) ==
  /\ At(c, "remove")
  /\ connectionThreads' =
       [a \in Keys |-> IF connectionThreads[a] = c THEN None ELSE connectionThreads[a]]
  /\ connectionSocketFds' = Without(c)
  /\ Goto(c, "done")
  /\ UNCHANGED <<alive, files, locals, peer, wire>>

-----------------------------------------------------------------------------
Init ==
  /\ alive = TRUE
  /\ files = [fd \in FDs |-> None]
  /\ pc = [c \in Conns |-> "none"] /\ sock = [c \in Conns |-> -1]
  /\ connectionThreads = [a \in Keys |-> None]
  /\ connectionSocketFds = [a \in Keys |-> -1]
  /\ word = [c \in Conns |-> None] /\ itr = [c \in Conns |-> None]
  /\ to = [c \in Conns |-> -1]
  /\ peer = [c \in Conns |-> "away"]
  /\ inbox = [c \in Conns |-> <<>>] /\ answer = [c \in Conns |-> "nothing"]
  /\ touched = {} /\ relays = {}

ClientStep(c) ==
  \/ Connect(c) \/ AskPublic(c) \/ ReadReply(c) \/ SendData(c) \/ Leave(c)
  \/ \E a \in Told \cup {None} : NameAddress(c, a)

AcceptStep ==
  \E c \in Conns :
    (\E fd \in FDs : Accept(c, fd)) \/ AcceptFails(c) \/ Register(c) \/ Terminate(c)

ThreadStep(c) ==
  \/ RecvGetPublic(c) \/ RecvMalformed(c) \/ RecvAddress(c) \/ Close(c)
  \/ StrtokRaces(c) \/ Find(c) \/ FindNone(c)
  \/ Deref(c) \/ (\E fd \in FDs : DerefErased(c, fd))
  \/ DerefRefused(c) \/ DerefFaults(c)
  \/ Relay(c) \/ RelayNothing(c) \/ RelayJunk(c) \/ ReportSuccess(c)
  \/ RemoveThread(c)

Next == AcceptStep \/ \E c \in Conns : ClientStep(c) \/ ThreadStep(c)

Spec == Init /\ [][Next]_vars

\* recv has something to return: a message, the end of the connection, or an error.
Receivable(c) == sock[c] = -1 \/ inbox[c] # <<>> \/ Gone(c)

AcceptDue ==
  alive /\ \E c \in Conns :
    \/ pc[c] = "accepted"
    \/ Backlog(c) /\ (Gone(c) \/ \E fd \in FDs : Free(fd))

ThreadDue(c) ==
  /\ alive
  /\ \/ pc[c] \in {"find", "deref", "success", "remove"}
     \/ pc[c] \in {"recv", "relay"} /\ Receivable(c)

\* The loop and the threads whose call can return go on, the clients need not: weak
\* fairness, with what enables each of the two written out.
LoopGoesOn == []<>~AcceptDue \/ []<><<AcceptStep>>_vars
ThreadGoesOn(c) == []<>~ThreadDue(c) \/ []<><<ThreadStep(c)>>_vars

FairSpec == Spec /\ LoopGoesOn /\ \A c \in Conns : ThreadGoesOn(c)

-----------------------------------------------------------------------------
(* Properties.                                                             *)

\* Each variable has its type.
TypeOK ==
  /\ alive \in BOOLEAN
  /\ files \in [FDs -> Conns \cup {None}]
  /\ pc \in [Conns -> Serving \cup {"none", "accepted", "remove", "done"}]
  /\ sock \in [Conns -> FDs \cup {-1}]
  /\ connectionThreads \in [Keys -> Conns \cup {None}]
  /\ connectionSocketFds \in [Keys -> FDs \cup {-1}]
  /\ word \in [Conns -> Addrs \cup {None}]
  /\ itr \in [Conns -> Conns \cup {None}]
  /\ to \in [Conns -> FDs \cup {-1}]
  /\ \A c \in Conns : pc[c] = "relay" => to[c] # -1
  /\ peer \in [Conns -> {"away", "open", "asking", "reader", "requesting", "replied",
                         "sent", "gone"}]
  /\ inbox \in [Conns -> Seq([kind : {"getPublic", "addr", "data"},
                              addr : Addrs \cup {None}])]
  /\ answer \in [Conns -> {"nothing", "address", "404", "start", "success", "data", "junk"}]
  /\ touched \subseteq Conns
  /\ relays \subseteq [from : Conns, address : Addrs, addressee : Conns,
                       receiver : Conns \cup {None}]

\* The two maps hold exactly the connections whose thread runs, each under its
\* address with its own descriptor: a thread that starts and ends at once finds
\* its entry when it removes it, and no entry outlives its thread.
RegistryExact ==
  /\ \A c \in Conns :
       pc[c] \in Serving \cup {"remove"} =>
         connectionThreads[Key(c)] = c /\ connectionSocketFds[Key(c)] = sock[c]
  /\ \A a \in Keys :
       IF connectionThreads[a] = None
       THEN connectionSocketFds[a] = -1
       ELSE /\ a = Key(connectionThreads[a])
            /\ pc[connectionThreads[a]] \in Serving \cup {"remove"}

\* A thread reads from and replies to its own client: until it closes it, its
\* descriptor stands for its connection, whatever closes and accepts go on.
OwnDescriptor ==
  \A c \in Conns :
    pc[c] \in Serving /\ sock[c] # -1 => files[sock[c]] = c

\* A message relayed for an address reaches the connection that has it, the one
\* found when it was looked up, and no other, unless that one's client has left: the
\* descriptor is used long after, and may by then be closed or another connection's.
RelayedToAddressee ==
  \A r \in relays :
    /\ Addr[r.addressee] = r.address
    /\ r.receiver = r.addressee \/ Gone(r.addressee)

\* A client that waits for a reply is sent something, unless the process dies.
RequestAnswered ==
  \A c \in Conns : Waiting(c) ~> answer[c] # "nothing" \/ ~Waiting(c) \/ ~alive

\* Once a registered client has left, its entry goes, unless the process dies: no
\* lookup finds it for ever, and its address can be used again.
EndedIsForgotten ==
  \A c \in Conns :
    Gone(c) /\ pc[c] \in Serving
      ~> \/ pc[c] = "done" /\ connectionThreads[Key(c)] # c
         \/ ~alive
=============================================================================
