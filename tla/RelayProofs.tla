---------------------------- MODULE RelayProofs ----------------------------
(***************************************************************************)
(* Proofs about Relay for any connections, addresses and descriptors.      *)
(*                                                                         *)
(* IInv says which connections a thread's variables may point at: the      *)
(* connection an iterator was found for stays the one its descriptor       *)
(* stands for until its client leaves.                                     *)
(***************************************************************************)
EXTENDS Relay, SequenceTheorems, TLAPS

Registered(c) == pc[c] \in Serving \cup {"remove"}

\* What a thread's socket is at each point of its life.
Sockets ==
  \A c \in Conns :
    /\ pc[c] = "none" => sock[c] = -1
    /\ pc[c] # "none" /\ sock[c] = -1 => Gone(c)
    /\ pc[c] \in {"remove", "done"} => Gone(c)
    /\ pc[c] \in Serving \cup {"accepted"} /\ sock[c] # -1 => files[sock[c]] = c

\* What a thread that was given an address knows of the connection behind it.
Lookups ==
  \A c \in Conns :
    /\ pc[c] \in {"find", "deref", "relay"} => word[c] \in Addrs
    /\ pc[c] \in {"deref", "relay"} =>
         /\ itr[c] \in Conns /\ Addr[itr[c]] = word[c] /\ sock[itr[c]] # -1
         /\ Registered(itr[c]) \/ pc[itr[c]] = "done"
    /\ pc[c] = "relay" => to[c] \in FDs /\ (to[c] = sock[itr[c]] \/ Gone(itr[c]))

\* A client sends two messages at most, the second when the first was answered.
Letters(c) ==
  /\ peer[c] \in {"away", "open"} => inbox[c] = <<>>
  /\ peer[c] \in {"asking", "requesting", "reader", "replied"} => Len(inbox[c]) <= 1
  /\ Len(inbox[c]) <= 2

Mail == \A c \in Conns : Letters(c)

InService == {"find", "deref", "relay", "success"}

\* A thread that got a message has a descriptor, and the loop has one connection in hand.
Threads ==
  /\ \A c \in Conns : pc[c] \in InService => sock[c] # -1
  /\ \A c, d \in Conns : pc[c] = "accepted" /\ pc[d] = "accepted" => c = d

IInv ==
  /\ TypeOK /\ RegistryExact /\ Sockets /\ Lookups /\ RelayedToAddressee
  /\ Mail /\ Threads

-----------------------------------------------------------------------------
(* Frames.                                                                 *)

\* What a client does changes nothing of the process, and who has left stays away.
LEMMA ClientFrame ==
  ASSUME TypeOK, NEW c \in Conns, ClientStep(c)
  PROVE  /\ UNCHANGED <<alive, files, pc, locals, maps, answer, touched, relays>>
         /\ peer' \in [Conns -> {"away", "open", "asking", "reader", "requesting",
                                 "replied", "sent", "gone"}]
         /\ \A d \in Conns : Gone(d) => Gone(d)'
<1> USE RelayAssumption DEF ServerIdle, locals, maps, Client, Gone, TypeOK
<1>1. CASE Connect(c)
  BY <1>1 DEF Connect
<1>2. CASE AskPublic(c)
  BY <1>2 DEF AskPublic
<1>3. CASE ReadReply(c)
  <2>1. CASE Client(c, "asking", "reader")
    BY <1>3, <2>1 DEF ReadReply
  <2>2. CASE Client(c, "requesting", "replied")
    BY <1>3, <2>2 DEF ReadReply
  <2> QED
    BY <1>3, <2>1, <2>2 DEF ReadReply
<1>4. CASE SendData(c)
  BY <1>4 DEF SendData
<1>5. CASE Leave(c)
  BY <1>5 DEF Leave
<1>6. ASSUME NEW a \in Told \cup {None}, NameAddress(c, a)
      PROVE  /\ UNCHANGED <<alive, files, pc, locals, maps, answer, touched, relays>>
             /\ peer' \in [Conns -> {"away", "open", "asking", "reader", "requesting",
                                     "replied", "sent", "gone"}]
             /\ \A d \in Conns : Gone(d) => Gone(d)'
  BY <1>6 DEF NameAddress
<1> QED
  BY <1>1, <1>2, <1>3, <1>4, <1>5, <1>6 DEF ClientStep

Texts == [kind : {"getPublic", "addr", "data"}, addr : Addrs \cup {None}]

\* A client puts a message of its kind into its inbox, or none.
LEMMA ClientInbox ==
  ASSUME TypeOK, NEW c \in Conns, ClientStep(c)
  PROVE  inbox' \in [Conns -> Seq(Texts)]
<1>0. inbox \in [Conns -> Seq(Texts)]
  BY DEF TypeOK, Texts
<1>1. ASSUME NEW m \in Texts, Put(c, m)
      PROVE  inbox' \in [Conns -> Seq(Texts)]
  <2>1. Append(inbox[c], m) \in Seq(Texts)
    BY <1>0, <1>1, AppendProperties
  <2> QED
    BY <1>0, <1>1, <2>1 DEF Put
<1>2. Message("getPublic", None) \in Texts /\ Message("data", None) \in Texts
  BY DEF Message, Texts
<1>3. \A a \in Told \cup {None} : Message("addr", a) \in Texts
  BY RelayAssumption DEF Message, Texts, Told
<1> QED
  BY <1>0, <1>1, <1>2, <1>3
  DEF ClientStep, Connect, AskPublic, ReadReply, NameAddress, SendData, Leave

\* send changes what was written, what was used, and may end the process.
LEMMA SendFrame ==
  ASSUME TypeOK, NEW fd \in FDs \cup {-1},
         NEW m \in {"address", "404", "start", "success", "data", "junk"},
         NEW used \in SUBSET Conns, Send(fd, m, used)
  PROVE  /\ alive' \in BOOLEAN /\ touched' \subseteq Conns
         /\ answer' \in [Conns -> {"nothing", "address", "404", "start", "success",
                                   "data", "junk"}]
<1> DEFINE d == IF fd \in FDs THEN files[fd] ELSE None
<1>1. d \in Conns \cup {None}
  BY DEF TypeOK
<1>2. CASE d = None
  BY <1>2 DEF Send, TypeOK
<1>3. CASE d # None /\ Gone(d)
  <2>1. /\ touched' = touched \cup used \cup {d} /\ UNCHANGED answer
        /\ alive' \in IF d \in touched \cup used THEN BOOLEAN ELSE {TRUE}
    BY <1>3 DEF Send
  <2>2. alive' \in BOOLEAN
    BY <2>1
  <2> QED
    BY <1>1, <1>3, <2>1, <2>2 DEF TypeOK
<1>4. CASE d # None /\ ~Gone(d)
  <2>1. /\ answer' = [answer EXCEPT ![d] = IF @ = "nothing" THEN m ELSE @]
        /\ touched' = touched \cup used /\ UNCHANGED alive
    BY <1>4 DEF Send
  <2>2. alive' \in BOOLEAN
    BY <2>1 DEF TypeOK
  <2>3. answer' \in [Conns -> {"nothing", "address", "404", "start", "success",
                              "data", "junk"}]
    BY <1>1, <1>4, <2>1 DEF TypeOK
  <2> QED
    BY <2>1, <2>2, <2>3 DEF TypeOK
<1> QED
  BY <1>2, <1>3, <1>4

\* What recv takes was a message.
LEMMA TakeFrame ==
  ASSUME TypeOK, NEW c \in Conns, Take(c)
  PROVE  inbox' \in [Conns -> Seq(Texts)] /\ Head(inbox[c]) \in Texts
<1>1. inbox[c] \in Seq(Texts) /\ inbox[c] # <<>>
  BY DEF TypeOK, Texts, Take
<1>2. Head(inbox[c]) \in Texts /\ Tail(inbox[c]) \in Seq(Texts)
  BY <1>1, HeadTailProperties
<1> QED
  BY <1>2 DEF Take, TypeOK, Texts

-----------------------------------------------------------------------------
(* Steps that leave the threads where they are, and steps of a thread that *)
(* serves its client.                                                      *)

\* Clients, replies from recv and the deaths of the process.
Quiet(c) ==
  \/ ClientStep(c) \/ Terminate(c)
  \/ RecvGetPublic(c) \/ RecvMalformed(c) \/ StrtokRaces(c) \/ DerefFaults(c)

\* A quiet step changes nothing the threads and the maps hold.
LEMMA QuietFrame ==
  ASSUME TypeOK, NEW c \in Conns, Quiet(c)
  PROVE  /\ UNCHANGED <<files, pc, sock, word, itr, to, connectionThreads,
                        connectionSocketFds, relays>>
         /\ \A d \in Conns : Gone(d) => Gone(d)'
<1>1. CASE ClientStep(c)
  BY <1>1, ClientFrame DEF locals, maps
<1>2. CASE ~ClientStep(c)
  BY <1>2 DEF Quiet, Terminate, RecvGetPublic, RecvMalformed, StrtokRaces, DerefFaults,
              locals, maps, wire, Gone
<1> QED
  BY <1>1, <1>2

\* What a thread does between a recv and the next.
Works(c) ==
  \/ RecvAddress(c) \/ Find(c) \/ FindNone(c) \/ DerefRefused(c)
  \/ Deref(c) \/ (\E fd \in FDs : DerefErased(c, fd))
  \/ Relay(c) \/ RelayNothing(c) \/ RelayJunk(c) \/ ReportSuccess(c)

\* Such a step leaves the maps and descriptors alone and the thread serving.
LEMMA WorksFrame ==
  ASSUME TypeOK, NEW c \in Conns, Works(c)
  PROVE  /\ UNCHANGED <<files, sock, connectionThreads, connectionSocketFds, peer>>
         /\ pc[c] \in Serving
         /\ \E at \in Serving : pc' = [pc EXCEPT ![c] = at]
<1> USE DEF Serving, maps, locals, wire, At, Goto
<1>1. CASE RecvAddress(c)
  BY <1>1 DEF RecvAddress
<1>2. CASE Find(c)
  BY <1>2 DEF Find
<1>3. CASE FindNone(c)
  BY <1>3 DEF FindNone
<1>4. CASE Deref(c)
  BY <1>4 DEF Deref, Start
<1>5. CASE \E fd \in FDs : DerefErased(c, fd)
  BY <1>5 DEF DerefErased, Start
<1>6. CASE Relay(c)
  BY <1>6 DEF Relay
<1>7. CASE RelayNothing(c)
  BY <1>7 DEF RelayNothing
<1>8. CASE RelayJunk(c)
  BY <1>8 DEF RelayJunk
<1>9. CASE ReportSuccess(c)
  BY <1>9 DEF ReportSuccess
<1>10. CASE DerefRefused(c)
  BY <1>10 DEF DerefRefused
<1> QED
  BY <1>1, <1>2, <1>3, <1>4, <1>5, <1>6, <1>7, <1>8, <1>9, <1>10 DEF Works

\* Every step is one of these, or makes or ends a registration.
LEMMA StepCases ==
  ASSUME Next
  PROVE  \E c \in Conns :
           \/ Quiet(c) \/ Works(c) \/ (\E fd \in FDs : Accept(c, fd)) \/ AcceptFails(c)
           \/ Register(c) \/ Close(c) \/ RemoveThread(c)
BY DEF Next, AcceptStep, ThreadStep, Quiet, Works

-----------------------------------------------------------------------------
(* The registry and the descriptors.                                       *)

\* RegistryExact and Sockets are kept together: a registration takes the descriptor
\* with it, and removeThread comes after close.
LEMMA RegistryStep ==
  ASSUME TypeOK, RegistryExact, Sockets, Next
  PROVE  RegistryExact' /\ Sockets'
<1> USE RelayAssumption DEF Key, Serving, Keys
<1>1. PICK c \in Conns :
        \/ Quiet(c) \/ Works(c) \/ (\E fd \in FDs : Accept(c, fd)) \/ AcceptFails(c)
        \/ Register(c) \/ Close(c) \/ RemoveThread(c)
  BY StepCases
<1>0. -1 \notin FDs
  BY DEF Keys
<1>2. CASE Quiet(c)
  BY <1>2, QuietFrame DEF RegistryExact, Sockets
<1>3. CASE Works(c)
  <2>1. PICK at \in Serving : pc' = [pc EXCEPT ![c] = at]
    BY <1>3, WorksFrame
  <2>2. /\ pc[c] \in Serving
        /\ UNCHANGED <<files, sock, connectionThreads, connectionSocketFds, peer>>
    BY <1>3, WorksFrame
  <2>3. \A d \in Conns : pc'[d] = pc[d] \/ (pc[d] \in Serving /\ pc'[d] \in Serving)
    BY <2>1, <2>2 DEF TypeOK
  <2>4. RegistryExact'
    BY <2>2, <2>3 DEF RegistryExact, TypeOK
  <2>5. Sockets'
    BY <2>2, <2>3 DEF Sockets, Gone
  <2> QED
    BY <2>4, <2>5
<1>4. ASSUME NEW fd \in FDs, Accept(c, fd)
      PROVE  RegistryExact' /\ Sockets'
  <2>1. /\ UNCHANGED <<connectionThreads, connectionSocketFds, peer>>
        /\ pc[c] = "none" /\ pc' = [pc EXCEPT ![c] = "accepted"]
        /\ sock' = [sock EXCEPT ![c] = fd]
        /\ files[fd] = None /\ files' = [files EXCEPT ![fd] = c]
    BY <1>4 DEF Accept, Backlog, Lowest, Free, maps
  <2>2. RegistryExact'
    BY <2>1 DEF RegistryExact, TypeOK
  <2>3. Sockets'
    BY <1>0, <2>1 DEF Sockets, TypeOK, Gone
  <2> QED
    BY <2>2, <2>3
<1>5. CASE AcceptFails(c)
  <2>1. /\ UNCHANGED <<connectionThreads, connectionSocketFds, peer, files, sock>>
        /\ pc[c] = "none" /\ Gone(c) /\ pc' = [pc EXCEPT ![c] = "accepted"]
    BY <1>5 DEF AcceptFails, Backlog, maps, locals
  <2>2. RegistryExact'
    BY <2>1 DEF RegistryExact, TypeOK
  <2>3. Sockets'
    BY <2>1 DEF Sockets, TypeOK, Gone
  <2> QED
    BY <2>2, <2>3
<1>6. CASE Register(c)
  <2>1. /\ UNCHANGED <<files, sock, peer>>
        /\ pc[c] = "accepted" /\ pc' = [pc EXCEPT ![c] = "recv"]
        /\ connectionThreads[Key(c)] = None /\ Key(c) \in Keys
        /\ connectionThreads' = [connectionThreads EXCEPT ![Key(c)] = c]
        /\ connectionSocketFds' = [connectionSocketFds EXCEPT ![Key(c)] = sock[c]]
    BY <1>6 DEF Register, locals
  <2>2. RegistryExact'
    BY <2>1 DEF RegistryExact, TypeOK
  <2>3. Sockets'
    BY <2>1 DEF Sockets, TypeOK, Gone
  <2> QED
    BY <2>2, <2>3
<1>7. CASE Close(c)
  <2>1. /\ UNCHANGED <<connectionThreads, connectionSocketFds, sock, peer>>
        /\ pc[c] = "recv" /\ pc' = [pc EXCEPT ![c] = "remove"]
        /\ files' = IF sock[c] = -1 THEN files ELSE [files EXCEPT ![sock[c]] = None]
        /\ sock[c] = -1 \/ Gone(c)
    BY <1>7 DEF Close, At, Goto, AfterClose, Ended, maps, locals
  <2>2. RegistryExact'
    BY <2>1 DEF RegistryExact, TypeOK
  <2>3. Gone(c)
    BY <2>1 DEF Sockets
  <2>4. Sockets'
    BY <2>1, <2>3 DEF Sockets, TypeOK, Gone
  <2> QED
    BY <2>2, <2>4
<1>8. CASE RemoveThread(c)
  <2>1. /\ UNCHANGED <<files, sock, peer>>
        /\ pc[c] = "remove" /\ pc' = [pc EXCEPT ![c] = "done"]
        /\ connectionThreads' = [a \in Keys |->
              IF connectionThreads[a] = c THEN None ELSE connectionThreads[a]]
        /\ connectionSocketFds' = [a \in Keys |->
              IF connectionThreads[a] = c THEN -1 ELSE connectionSocketFds[a]]
    BY <1>8 DEF RemoveThread, At, Goto, Without, locals
  <2>2. RegistryExact'
    BY <2>1 DEF RegistryExact, TypeOK
  <2>3. Sockets'
    BY <2>1 DEF Sockets, TypeOK, Gone
  <2> QED
    BY <2>2, <2>3
<1> QED
  BY <1>1, <1>2, <1>3, <1>4, <1>5, <1>6, <1>7, <1>8

-----------------------------------------------------------------------------
(* What a thread holds of the connection it looked up.                     *)

\* Where no thread gets an address or an entry, and nobody's descriptor or
\* registration is undone, what is known of a looked-up connection stays.
LEMMA LookupsStay ==
  ASSUME TypeOK, Lookups, UNCHANGED <<word, itr, to>>,
         \A c \in Conns :
           /\ pc'[c] \in {"find", "deref", "relay"} => pc'[c] = pc[c]
           /\ Registered(c) \/ pc[c] = "done" =>
                (Registered(c) \/ pc[c] = "done")' /\ sock'[c] = sock[c]
           /\ Gone(c) => Gone(c)'
  PROVE  Lookups'
BY DEF Lookups

\* What getSockFromIP finds in connectionSocketFds is an entry of both maps.
LEMMA FoundEntry ==
  ASSUME TypeOK, RegistryExact, Lookups, NEW c \in Conns, pc[c] = "find",
         NEW d \in Found(word[c])
  PROVE  d \in Conns /\ word[c] \in Addrs /\ connectionThreads[word[c]] = d
<1>1. word[c] \in Keys /\ word[c] \in Addrs
  BY DEF Lookups, Keys
<1>2. connectionSocketFds[word[c]] # -1 /\ d = connectionThreads[word[c]]
  BY DEF Found
<1>3. connectionThreads[word[c]] # None
  BY <1>1, <1>2 DEF RegistryExact
<1> QED
  BY <1>1, <1>2, <1>3 DEF TypeOK

\* What Lookups says is found by getSockFromIP and stays while it is used.
LEMMA LookupsStep ==
  ASSUME TypeOK, RegistryExact, Sockets, Lookups, Next
  PROVE  Lookups'
<1> USE RelayAssumption DEF Registered, Serving, Keys
<1>1. PICK c \in Conns :
        \/ Quiet(c) \/ Works(c) \/ (\E fd \in FDs : Accept(c, fd)) \/ AcceptFails(c)
        \/ Register(c) \/ Close(c) \/ RemoveThread(c)
  BY StepCases
<1>2. CASE Quiet(c)
  BY <1>2, QuietFrame, LookupsStay
<1>3. CASE Works(c)
  <2>0. /\ UNCHANGED <<files, sock, connectionThreads, connectionSocketFds, peer>>
        /\ pc[c] \in Serving
    BY <1>3, WorksFrame
  <2>1. PICK at \in Serving : pc' = [pc EXCEPT ![c] = at]
    BY <1>3, WorksFrame
  <2>2. \A d \in Conns :
          (Registered(d) \/ pc[d] = "done" => (Registered(d) \/ pc[d] = "done")')
          /\ (d # c => pc'[d] = pc[d]) /\ (Gone(d) <=> Gone(d)')
    BY <2>0, <2>1 DEF TypeOK, Gone
  <2>3. CASE RecvAddress(c)
    <3>1. /\ UNCHANGED <<itr, to>> /\ pc'[c] = "find" /\ Head(inbox[c]).addr # None
          /\ word' = [word EXCEPT ![c] = Head(inbox[c]).addr] /\ Take(c)
      BY <2>3 DEF RecvAddress, Goto, TypeOK
    <3>2. Head(inbox[c]).addr \in Addrs
      BY <3>1, TakeFrame DEF Texts
    <3> QED
      BY <2>0, <2>2, <3>1, <3>2 DEF Lookups, TypeOK
  <2>4. CASE Find(c)
    <3>1. PICK d \in Found(word[c]) : itr' = [itr EXCEPT ![c] = d]
      BY <2>4 DEF Find
    <3>2. UNCHANGED <<word, to>> /\ pc[c] = "find" /\ pc'[c] = "deref"
      BY <2>4 DEF Find, At, Goto, TypeOK
    <3>3. d \in Conns /\ word[c] \in Addrs /\ connectionThreads[word[c]] = d
      BY <3>1, <3>2, FoundEntry
    <3>4. word[c] = Key(d) /\ Registered(d)
      BY <3>3 DEF RegistryExact
    <3>5. sock[d] # -1 /\ Addr[d] = word[c]
      BY <3>3, <3>4 DEF Key
    <3> QED
      BY <2>0, <2>2, <3>1, <3>2, <3>3, <3>4, <3>5 DEF Lookups, TypeOK
  <2>5. CASE FindNone(c) \/ DerefRefused(c) \/ ReportSuccess(c)
    <3>1. /\ pc'[c] = "recv"
          /\ \A d \in Conns : d # c =>
               word'[d] = word[d] /\ itr'[d] = itr[d] /\ to'[d] = to[d]
      BY <2>5 DEF FindNone, DerefRefused, ReportSuccess, Goto, TypeOK
    <3> QED
      BY <2>0, <2>2, <3>1 DEF Lookups
  <2>6. CASE Deref(c)
    <3>1. PICK a \in Keys : connectionThreads[a] = itr[c] /\ Start(c, connectionSocketFds[a])
      BY <2>6 DEF Deref
    <3>2. /\ UNCHANGED <<word, itr>> /\ pc[c] = "deref" /\ pc'[c] = "relay"
          /\ to' = [to EXCEPT ![c] = connectionSocketFds[a]]
      BY <2>6, <3>1 DEF Deref, Start, At, Goto, TypeOK
    <3>3. itr[c] \in Conns /\ sock[itr[c]] # -1
      BY <3>2 DEF Lookups
    <3>4. Registered(itr[c]) /\ a = Key(itr[c])
      BY <3>1, <3>3 DEF RegistryExact
    <3>5. connectionSocketFds[a] = sock[itr[c]] /\ sock[itr[c]] \in FDs
      BY <3>3, <3>4 DEF RegistryExact, TypeOK
    <3> QED
      BY <2>0, <2>2, <3>2, <3>3, <3>5 DEF Lookups, TypeOK
  <2>7. ASSUME NEW fd \in FDs, DerefErased(c, fd)
        PROVE  Lookups'
    <3>1. /\ UNCHANGED <<word, itr>> /\ pc[c] = "deref" /\ pc'[c] = "relay"
          /\ to' = [to EXCEPT ![c] = fd] /\ Erased(c)
      BY <2>7 DEF DerefErased, Start, At, Goto, TypeOK
    <3>2. itr[c] \in Conns /\ (Registered(itr[c]) \/ pc[itr[c]] = "done")
      BY <3>1 DEF Lookups
    <3>3. ~Registered(itr[c])
      BY <3>1, <3>2 DEF RegistryExact, Erased, Key
    <3>4. Gone(itr[c])
      BY <3>2, <3>3 DEF Sockets
    <3> QED
      BY <2>0, <2>2, <3>1, <3>2, <3>4 DEF Lookups, TypeOK
  <2>8. CASE Relay(c) \/ RelayNothing(c) \/ RelayJunk(c)
    <3>1. UNCHANGED <<word, itr, to>> /\ pc'[c] = "success"
      BY <2>8 DEF Relay, RelayNothing, RelayJunk, Goto, locals, TypeOK
    <3> QED
      BY <2>0, <2>2, <3>1, LookupsStay
  <2> QED
    BY <1>3, <2>3, <2>4, <2>5, <2>6, <2>7, <2>8 DEF Works
<1>4. ASSUME NEW fd \in FDs, Accept(c, fd)
      PROVE  Lookups'
  <2>1. /\ UNCHANGED <<word, itr, to, peer>> /\ pc[c] = "none"
        /\ pc' = [pc EXCEPT ![c] = "accepted"] /\ sock' = [sock EXCEPT ![c] = fd]
    BY <1>4 DEF Accept, Backlog
  <2> QED
    BY <2>1, LookupsStay DEF Gone, TypeOK
<1>5. CASE AcceptFails(c)
  <2>1. /\ UNCHANGED <<word, itr, to, peer, sock>> /\ pc[c] = "none"
        /\ pc' = [pc EXCEPT ![c] = "accepted"]
    BY <1>5 DEF AcceptFails, Backlog, locals
  <2> QED
    BY <2>1, LookupsStay DEF Gone, TypeOK
<1>6. CASE Register(c) \/ Close(c) \/ RemoveThread(c)
  <2>1. /\ UNCHANGED <<word, itr, to, peer, sock>>
        /\ \/ pc[c] = "accepted" /\ pc' = [pc EXCEPT ![c] = "recv"]
           \/ pc[c] = "recv" /\ pc' = [pc EXCEPT ![c] = "remove"]
           \/ pc[c] = "remove" /\ pc' = [pc EXCEPT ![c] = "done"]
    BY <1>6 DEF Register, Close, RemoveThread, At, Goto, AfterClose, locals
  <2>2. \A d \in Conns :
          /\ pc'[d] \in {"find", "deref", "relay"} => pc'[d] = pc[d]
          /\ Registered(d) \/ pc[d] = "done" => (Registered(d) \/ pc[d] = "done")'
    BY <2>1 DEF TypeOK
  <2> QED
    BY <2>1, <2>2, LookupsStay DEF Gone
<1> QED
  BY <1>1, <1>2, <1>3, <1>4, <1>5, <1>6

\* A message goes to the connection that was looked up: while that one's client is
\* there its thread serves it, on the descriptor that was found.
LEMMA RelaysStep ==
  ASSUME TypeOK, Sockets, Lookups, RelayedToAddressee, Next
  PROVE  RelayedToAddressee'
<1> USE DEF Registered, Serving
<1>1. PICK c \in Conns :
        \/ Quiet(c) \/ Works(c) \/ (\E fd \in FDs : Accept(c, fd)) \/ AcceptFails(c)
        \/ Register(c) \/ Close(c) \/ RemoveThread(c)
  BY StepCases
<1>2. CASE Relay(c)
  <2>1. /\ pc[c] = "relay" /\ UNCHANGED peer
        /\ relays' = relays \cup {[from |-> c, address |-> word[c],
                                   addressee |-> itr[c], receiver |-> files[to[c]]]}
    BY <1>2 DEF Relay, At
  <2>2. itr[c] \in Conns /\ Addr[itr[c]] = word[c]
    BY <2>1 DEF Lookups
  <2>3. files[to[c]] = itr[c] \/ Gone(itr[c])
    <3>1. CASE Gone(itr[c])
      BY <3>1
    <3>2. CASE ~Gone(itr[c])
      <4>1. to[c] = sock[itr[c]] /\ sock[itr[c]] # -1
        BY <2>1, <3>2 DEF Lookups
      <4>2. pc[itr[c]] \in Serving
        BY <2>1, <2>2, <3>2 DEF Lookups, Sockets
      <4> QED
        BY <2>2, <4>1, <4>2 DEF Sockets
    <3> QED
      BY <3>1, <3>2
  <2> QED
    BY <2>1, <2>2, <2>3 DEF RelayedToAddressee, Gone
<1>3. CASE ~Relay(c)
  <2>1. UNCHANGED relays /\ \A d \in Conns : Gone(d) => Gone(d)'
    <3>1. CASE Quiet(c)
      BY <3>1, QuietFrame
    <3>2. CASE Works(c)
      BY <1>3, <3>2, WorksFrame DEF Works, RecvAddress, Find, FindNone, Deref, DerefErased,
        DerefRefused, Start, RelayNothing, RelayJunk, ReportSuccess, wire, Gone
    <3>3. CASE ~Quiet(c) /\ ~Works(c)
      BY <1>1, <3>3 DEF Accept, AcceptFails, Register, Close, RemoveThread, wire, Gone
    <3> QED
      BY <3>1, <3>2, <3>3
  <2> QED
    BY <2>1 DEF RelayedToAddressee, TypeOK
<1> QED
  BY <1>2, <1>3

-----------------------------------------------------------------------------
(* Types.                                                                  *)

Points == Serving \cup {"none", "accepted", "remove", "done"}

\* The conjuncts of TypeOK that only the process's own steps disturb.
LEMMA ProcessTypes ==
  ASSUME TypeOK, Lookups, RegistryExact, Next
  PROVE  /\ files' \in [FDs -> Conns \cup {None}] /\ pc' \in [Conns -> Points]
         /\ sock' \in [Conns -> FDs \cup {-1}]
         /\ connectionThreads' \in [Keys -> Conns \cup {None}]
         /\ connectionSocketFds' \in [Keys -> FDs \cup {-1}]
<1> USE RelayAssumption DEF Points, Serving, Keys, Key
<1>1. PICK c \in Conns :
        \/ Quiet(c) \/ Works(c) \/ (\E fd \in FDs : Accept(c, fd)) \/ AcceptFails(c)
        \/ Register(c) \/ Close(c) \/ RemoveThread(c)
  BY StepCases
<1>2. CASE Quiet(c)
  BY <1>2, QuietFrame DEF TypeOK
<1>3. CASE Works(c)
  <2>1. PICK at \in Serving : pc' = [pc EXCEPT ![c] = at]
    BY <1>3, WorksFrame
  <2>2. UNCHANGED <<files, sock, connectionThreads, connectionSocketFds>>
    BY <1>3, WorksFrame
  <2> QED
    BY <2>1, <2>2 DEF TypeOK
<1>4. ASSUME NEW fd \in FDs, Accept(c, fd)
      PROVE  /\ files' \in [FDs -> Conns \cup {None}] /\ pc' \in [Conns -> Points]
             /\ sock' \in [Conns -> FDs \cup {-1}]
             /\ UNCHANGED maps
  BY <1>4 DEF Accept, TypeOK
<1>8. CASE AcceptFails(c)
  BY <1>8 DEF AcceptFails, maps, locals, TypeOK
<1>5. CASE Register(c)
  BY <1>5 DEF Register, locals, TypeOK
<1>6. CASE Close(c)
  BY <1>6 DEF Close, Goto, AfterClose, maps, locals, TypeOK
<1>7. CASE RemoveThread(c)
  BY <1>7 DEF RemoveThread, Goto, Without, locals, TypeOK
<1>9. CASE \E fd \in FDs : Accept(c, fd)
  BY <1>4, <1>9 DEF maps, TypeOK
<1> QED
  BY <1>1, <1>2, <1>3, <1>5, <1>6, <1>7, <1>8, <1>9

\* The locals of the threads and what they relayed.
LEMMA LocalTypes ==
  ASSUME TypeOK, RegistryExact, Sockets, Lookups, Next
  PROVE  /\ word' \in [Conns -> Addrs \cup {None}]
         /\ itr' \in [Conns -> Conns \cup {None}]
         /\ to' \in [Conns -> FDs \cup {-1}]
         /\ \A c \in Conns : pc'[c] = "relay" => to'[c] # -1
         /\ relays' \subseteq [from : Conns, address : Addrs, addressee : Conns,
                               receiver : Conns \cup {None}]
<1> USE RelayAssumption DEF Keys
<1>1. PICK c \in Conns :
        \/ Quiet(c) \/ Works(c) \/ (\E fd \in FDs : Accept(c, fd)) \/ AcceptFails(c)
        \/ Register(c) \/ Close(c) \/ RemoveThread(c)
  BY StepCases
<1>0. -1 \notin FDs /\ Lookups'
  BY LookupsStep
<1>2. \A d \in Conns : pc'[d] = "relay" => to'[d] # -1
  BY <1>0 DEF Lookups
<1>3. CASE Quiet(c)
  BY <1>2, <1>3, QuietFrame DEF TypeOK
<1>4. CASE RecvAddress(c)
  <2>1. Head(inbox[c]).addr \in Addrs
    BY <1>4, TakeFrame DEF RecvAddress, Texts
  <2> QED
    BY <1>2, <1>4, <2>1 DEF RecvAddress, TypeOK
<1>5. CASE Find(c)
  <2>1. PICK d \in Found(word[c]) : itr' = [itr EXCEPT ![c] = d]
    BY <1>5 DEF Find
  <2>3. d \in Conns
    BY <1>5, <2>1, FoundEntry DEF Find, At
  <2>2. UNCHANGED <<word, to, relays>>
    BY <1>5 DEF Find, wire
  <2> QED
    BY <1>2, <2>1, <2>2, <2>3 DEF TypeOK
<1>6. CASE FindNone(c) \/ DerefRefused(c) \/ ReportSuccess(c)
  BY <1>2, <1>6 DEF FindNone, DerefRefused, ReportSuccess, TypeOK
<1>7. CASE Deref(c) \/ (\E fd \in FDs : DerefErased(c, fd))
  <2>1. PICK fd \in FDs \cup {-1} : Start(c, fd)
    BY <1>7 DEF Deref, DerefErased, TypeOK
  <2> QED
    BY <1>2, <2>1 DEF Start, TypeOK
<1>8. CASE Relay(c)
  <2>1. /\ pc[c] = "relay" /\ UNCHANGED <<word, itr, to>>
        /\ relays' = relays \cup {[from |-> c, address |-> word[c],
                                   addressee |-> itr[c], receiver |-> files[to[c]]]}
    BY <1>8 DEF Relay, At, locals
  <2>2. word[c] \in Addrs /\ itr[c] \in Conns /\ to[c] \in FDs
    BY <2>1 DEF Lookups
  <2>3. files[to[c]] \in Conns \cup {None}
    BY <2>2 DEF TypeOK
  <2>4. [from |-> c, address |-> word[c], addressee |-> itr[c], receiver |-> files[to[c]]]
          \in [from : Conns, address : Addrs, addressee : Conns,
               receiver : Conns \cup {None}]
    BY <2>2, <2>3
  <2> QED
    BY <1>2, <2>1, <2>4 DEF TypeOK
<1>9. CASE RelayNothing(c) \/ RelayJunk(c)
  BY <1>2, <1>9 DEF RelayNothing, RelayJunk, locals, wire, TypeOK
<1>10. CASE \/ (\E fd \in FDs : Accept(c, fd)) \/ AcceptFails(c)
            \/ Register(c) \/ Close(c) \/ RemoveThread(c)
  BY <1>2, <1>10 DEF Accept, AcceptFails, Register, Close, RemoveThread, locals, wire, TypeOK
<1> QED
  BY <1>1, <1>3, <1>4, <1>5, <1>6, <1>7, <1>8, <1>9, <1>10 DEF Works

Answers == {"nothing", "address", "404", "start", "success", "data", "junk"}
Stages == {"away", "open", "asking", "reader", "requesting", "replied", "sent", "gone"}

\* The clients and the wire.
LEMMA WireTypes ==
  ASSUME TypeOK, RegistryExact, Lookups, Next
  PROVE  /\ alive' \in BOOLEAN /\ peer' \in [Conns -> Stages]
         /\ inbox' \in [Conns -> Seq(Texts)] /\ answer' \in [Conns -> Answers]
         /\ touched' \subseteq Conns
<1> USE DEF Answers, Stages
<1>1. PICK c \in Conns :
        \/ Quiet(c) \/ Works(c) \/ (\E fd \in FDs : Accept(c, fd)) \/ AcceptFails(c)
        \/ Register(c) \/ Close(c) \/ RemoveThread(c)
  BY StepCases
<1>2. /\ peer \in [Conns -> Stages] /\ inbox \in [Conns -> Seq(Texts)]
      /\ answer \in [Conns -> Answers] /\ touched \subseteq Conns
  BY DEF TypeOK, Texts
<1>3. alive \in BOOLEAN /\ sock[c] \in FDs \cup {-1} /\ to[c] \in FDs \cup {-1}
  BY DEF TypeOK
<1>4. ASSUME UNCHANGED alive
      PROVE  alive' \in BOOLEAN
  BY <1>3, <1>4
<1>14. ASSUME NEW m \in {"address", "404", "start", "success"}, Send(sock[c], m, {})
       PROVE  alive' \in BOOLEAN /\ answer' \in [Conns -> Answers] /\ touched' \subseteq Conns
  BY <1>3, <1>14, SendFrame
<1>5. CASE ClientStep(c)
  BY <1>2, <1>4, <1>5, ClientFrame, ClientInbox
<1>6. CASE Terminate(c) \/ StrtokRaces(c) \/ DerefFaults(c)
  <2>1. alive' = FALSE /\ UNCHANGED <<peer, inbox, answer, touched>>
    BY <1>6 DEF Terminate, StrtokRaces, DerefFaults, wire
  <2>2. alive' \in BOOLEAN
    BY <2>1
  <2> QED
    BY <1>2, <2>1, <2>2
<1>7. CASE RecvGetPublic(c) \/ RecvMalformed(c)
  <2>1. UNCHANGED peer /\ Take(c) /\ (Send(sock[c], "address", {}) \/ Send(sock[c], "404", {}))
    BY <1>7 DEF RecvGetPublic, RecvMalformed, Refuse, Reply, locals
  <2> QED
    BY <1>2, <1>14, <2>1, TakeFrame
<1>8. CASE \/ FindNone(c) \/ DerefRefused(c) \/ ReportSuccess(c)
            \/ \E fd \in FDs \cup {-1} : Start(c, fd)
  <2>1. /\ UNCHANGED <<peer, inbox>>
        /\ \/ Send(sock[c], "404", {}) \/ Send(sock[c], "success", {})
           \/ Send(sock[c], "start", {})
    BY <1>8 DEF FindNone, DerefRefused, ReportSuccess, Start, Refuse, Reply
  <2> QED
    BY <1>2, <1>14, <2>1
<1>9. CASE Relay(c)
  <2>1. UNCHANGED peer /\ Take(c) /\ Send(to[c], "data", {})
    BY <1>9 DEF Relay
  <2> QED
    BY <1>2, <1>3, <2>1, SendFrame, TakeFrame
<1>10. CASE RelayJunk(c)
  <2>1. UNCHANGED <<peer, inbox>> /\ Send(to[c], "junk", {c})
    BY <1>10 DEF RelayJunk
  <2> QED
    BY <1>2, <1>3, <2>1, SendFrame
<1>11. CASE RecvAddress(c)
  BY <1>2, <1>4, <1>11, TakeFrame DEF RecvAddress
<1>12. CASE \/ Find(c) \/ RelayNothing(c) \/ (\E fd \in FDs : Accept(c, fd))
            \/ AcceptFails(c) \/ Register(c) \/ Close(c) \/ RemoveThread(c)
  <2>1. UNCHANGED <<alive, peer, inbox, answer, touched>>
    BY <1>12 DEF Find, RelayNothing, Accept, AcceptFails, Register, Close, RemoveThread, wire
  <2> QED
    BY <1>2, <1>4, <2>1
<1>13. Deref(c) \/ (\E fd \in FDs : DerefErased(c, fd)) =>
         \E fd \in FDs \cup {-1} : Start(c, fd)
  BY DEF Deref, DerefErased, TypeOK
<1> QED
  BY <1>1, <1>5, <1>6, <1>7, <1>8, <1>9, <1>10, <1>11, <1>12, <1>13 DEF Quiet, Works

\* Together: every step preserves the types.
LEMMA TypeStep ==
  ASSUME TypeOK, RegistryExact, Sockets, Lookups, Next
  PROVE  TypeOK'
BY ProcessTypes, LocalTypes, WireTypes DEF TypeOK, Points, Answers, Stages, Texts

-----------------------------------------------------------------------------
(* The mailboxes and the loop's connection in hand.                        *)

Unanswered(c) == Waiting(c) /\ answer[c] = "nothing"

\* A step of the loop takes a connection from none to accepted or from accepted to recv.
LEMMA AcceptFrame ==
  ASSUME TypeOK, AcceptStep
  PROVE  /\ UNCHANGED <<peer, inbox, answer>>
         /\ \E c \in Conns :
              /\ \A d \in Conns \ {c} : pc'[d] = pc[d] /\ sock'[d] = sock[d]
              /\ \/ pc[c] = "none" /\ pc'[c] = "accepted" /\ AtAccept
                 \/ pc[c] = "accepted" /\ pc'[c] = "recv" /\ sock'[c] = sock[c]
                 \/ pc'[c] = pc[c] /\ sock'[c] = sock[c] /\ ~alive'
<1>1. PICK c \in Conns :
        (\E fd \in FDs : Accept(c, fd)) \/ AcceptFails(c) \/ Register(c) \/ Terminate(c)
  BY DEF AcceptStep
<1>2. ASSUME NEW fd \in FDs, Accept(c, fd)
      PROVE  /\ UNCHANGED <<peer, inbox, answer>>
             /\ \A d \in Conns \ {c} : pc'[d] = pc[d] /\ sock'[d] = sock[d]
             /\ pc[c] = "none" /\ pc'[c] = "accepted" /\ AtAccept
  BY <1>2 DEF Accept, Backlog, wire, TypeOK
<1>3. CASE AcceptFails(c)
  BY <1>3 DEF AcceptFails, Backlog, wire, locals, TypeOK
<1>4. CASE Register(c)
  BY <1>4 DEF Register, wire, locals, TypeOK
<1>5. CASE Terminate(c)
  BY <1>5 DEF Terminate, wire, locals
<1> QED
  BY <1>1, <1>2, <1>3, <1>4, <1>5

\* A step of a thread touches no other thread, and of the mailboxes only its own.
LEMMA ThreadFrame ==
  ASSUME TypeOK, NEW c \in Conns, ThreadStep(c)
  PROVE  /\ UNCHANGED <<peer, sock>>
         /\ \A d \in Conns \ {c} : pc'[d] = pc[d] /\ inbox'[d] = inbox[d]
         /\ inbox'[c] = inbox[c] \/ (Take(c) /\ inbox'[c] = Tail(inbox[c]))
<1> USE DEF TypeOK, locals, wire, At, Goto, Take
<1>1. CASE RecvGetPublic(c) \/ RecvMalformed(c)
  BY <1>1 DEF RecvGetPublic, RecvMalformed
<1>2. CASE RecvAddress(c)
  BY <1>2 DEF RecvAddress
<1>3. CASE Close(c)
  BY <1>3 DEF Close
<1>4. CASE StrtokRaces(c) \/ DerefFaults(c)
  BY <1>4 DEF StrtokRaces, DerefFaults
<1>5. CASE Find(c) \/ FindNone(c) \/ DerefRefused(c)
  BY <1>5 DEF Find, FindNone, DerefRefused
<1>6. CASE Deref(c) \/ \E fd \in FDs : DerefErased(c, fd)
  BY <1>6 DEF Deref, DerefErased, Start
<1>7. CASE Relay(c)
  BY <1>7 DEF Relay
<1>8. CASE RelayNothing(c) \/ RelayJunk(c)
  BY <1>8 DEF RelayNothing, RelayJunk
<1>9. CASE ReportSuccess(c)
  BY <1>9 DEF ReportSuccess
<1>10. CASE RemoveThread(c)
  BY <1>10 DEF RemoveThread
<1> QED
  BY <1>1, <1>2, <1>3, <1>4, <1>5, <1>6, <1>7, <1>8, <1>9, <1>10 DEF ThreadStep

\* A client writes to its own mailbox only, and nothing once it has left.
LEMMA ClientMail ==
  ASSUME TypeOK, Mail, NEW c \in Conns, ClientStep(c)
  PROVE  /\ \A d \in Conns \ {c} : inbox'[d] = inbox[d] /\ peer'[d] = peer[d]
         /\ Gone(c) => inbox'[c] = inbox[c]
         /\ Unanswered(c)' => Unanswered(c) \/ (inbox'[c] # <<>> /\ peer[c] = "open")
         /\ Unanswered(c) /\ Unanswered(c)' => inbox'[c] = inbox[c]
         /\ Mail'
<1>0. inbox \in [Conns -> Seq(Texts)] /\ peer \in [Conns -> Stages] /\ Letters(c)
  BY DEF TypeOK, Texts, Stages, Mail
<1> USE DEF Client, Gone, Unanswered, Waiting, ServerIdle
<1>7. ASSUME \A d \in Conns \ {c} : inbox'[d] = inbox[d] /\ peer'[d] = peer[d],
             Letters(c)'
      PROVE  Mail'
  <2>1. ASSUME NEW d \in Conns \ {c}
        PROVE  Letters(d)'
    BY <1>7 DEF Mail, Letters
  <2> QED
    BY <1>7, <2>1 DEF Mail
<1>1. CASE Connect(c) \/ ReadReply(c) \/ Leave(c)
  <2>1. /\ UNCHANGED inbox /\ \A d \in Conns \ {c} : peer'[d] = peer[d]
        /\ \/ peer[c] = "away" /\ peer'[c] = "open"
           \/ peer[c] = "asking" /\ peer'[c] = "reader"
           \/ peer[c] = "requesting" /\ peer'[c] = "replied"
           \/ peer'[c] = "gone"
    BY <1>0, <1>1 DEF Connect, ReadReply, Leave
  <2>2. Letters(c)'
    BY <1>0, <2>1 DEF Letters
  <2> QED
    BY <1>7, <2>1, <2>2
<1>2. CASE AskPublic(c) \/ \E a \in Told \cup {None} : NameAddress(c, a)
  <2>1. PICK m \in Texts : Put(c, m)
    BY <1>2, RelayAssumption DEF AskPublic, NameAddress, Message, Texts, Told
  <2>2. /\ peer[c] = "open" /\ peer'[c] \in {"asking", "requesting"}
        /\ \A d \in Conns \ {c} : inbox'[d] = inbox[d] /\ peer'[d] = peer[d]
    BY <1>0, <1>2, <2>1 DEF AskPublic, NameAddress, Put
  <2>3. inbox[c] = <<>>
    BY <1>0, <2>2 DEF Letters
  <2>4. inbox'[c] = Append(<<>>, m)
    BY <1>0, <2>1, <2>3 DEF Put
  <2>5. inbox'[c] = <<m>> /\ Len(inbox'[c]) = 1
    BY <2>4
  <2>6. Letters(c)'
    BY <2>2, <2>5 DEF Letters
  <2> QED
    BY <1>7, <2>2, <2>5, <2>6
<1>3. CASE SendData(c)
  <2>1. PICK m \in Texts : Put(c, m)
    BY <1>3, RelayAssumption DEF SendData, Message, Texts
  <2>2. /\ peer[c] = "replied" /\ peer'[c] = "sent"
        /\ \A d \in Conns \ {c} : inbox'[d] = inbox[d] /\ peer'[d] = peer[d]
    BY <1>0, <1>3, <2>1 DEF SendData, Put
  <2>3. Len(inbox[c]) <= 1 /\ inbox'[c] = Append(inbox[c], m)
    BY <1>0, <2>1, <2>2 DEF Letters, Put
  <2>4. Len(inbox'[c]) <= 2
    BY <1>0, <2>3
  <2>5. Letters(c)'
    BY <2>2, <2>4 DEF Letters
  <2> QED
    BY <1>7, <2>2, <2>5
<1> QED
  BY <1>1, <1>2, <1>3 DEF ClientStep

\* Mail stays: a thread only takes from a mailbox.
LEMMA MailStep ==
  ASSUME TypeOK, Mail, Next
  PROVE  Mail'
<1>1. CASE AcceptStep
  BY <1>1, AcceptFrame DEF Mail, Letters
<1>2. ASSUME NEW c \in Conns, ClientStep(c)
      PROVE  Mail'
  BY <1>2, ClientMail
<1>3. ASSUME NEW c \in Conns, ThreadStep(c)
      PROVE  Mail'
  <2>1. UNCHANGED peer /\ \A d \in Conns \ {c} : inbox'[d] = inbox[d]
    BY <1>3, ThreadFrame
  <2>2. \A d \in Conns \ {c} : Letters(d)'
    BY <2>1 DEF Mail, Letters
  <2>3. CASE inbox'[c] = inbox[c]
    BY <2>1, <2>2, <2>3 DEF Mail, Letters
  <2>4. CASE inbox'[c] # inbox[c]
    <3>1. inbox[c] \in Seq(Texts) /\ inbox[c] # <<>> /\ inbox'[c] = Tail(inbox[c])
      BY <1>3, <2>4, ThreadFrame DEF Take, TypeOK, Texts
    <3>2. Len(inbox'[c]) = Len(inbox[c]) - 1
      BY <3>1
    <3>3. Letters(c)'
      BY <2>1, <3>1, <3>2 DEF Mail, Letters
    <3> QED
      BY <2>2, <3>3 DEF Mail
  <2> QED
    BY <2>3, <2>4
<1> QED
  BY <1>1, <1>2, <1>3 DEF Next

\* So does what Threads says: only a thread with a descriptor gets an address, and the
\* loop accepts when it has registered the last one.
LEMMA ThreadsStep ==
  ASSUME TypeOK, Threads, Next
  PROVE  Threads'
<1>1. CASE AcceptStep
  <2>1. PICK c \in Conns :
          /\ \A d \in Conns \ {c} : pc'[d] = pc[d] /\ sock'[d] = sock[d]
          /\ \/ pc[c] = "none" /\ pc'[c] = "accepted" /\ AtAccept
             \/ pc[c] = "accepted" /\ pc'[c] = "recv" /\ sock'[c] = sock[c]
             \/ pc'[c] = pc[c] /\ sock'[c] = sock[c] /\ ~alive'
    BY <1>1, AcceptFrame
  <2> QED
    BY <2>1 DEF Threads, InService, AtAccept
<1>2. ASSUME NEW c \in Conns, ClientStep(c)
      PROVE  Threads'
  <2>1. UNCHANGED <<pc, sock>>
    BY <1>2, ClientFrame DEF locals
  <2> QED
    BY <2>1 DEF Threads
<1>3. ASSUME NEW c \in Conns, ThreadStep(c)
      PROVE  Threads'
  <2>1. UNCHANGED sock /\ \A d \in Conns \ {c} : pc'[d] = pc[d]
    BY <1>3, ThreadFrame
  <2>2. pc'[c] \in InService => sock[c] # -1
    <3> USE DEF At, Goto, InService, Threads, TypeOK
    <3>1. CASE RecvAddress(c)
      BY <3>1 DEF RecvAddress, Take
    <3>2. CASE RecvGetPublic(c) \/ RecvMalformed(c) \/ StrtokRaces(c) \/ DerefFaults(c)
      BY <3>2 DEF RecvGetPublic, RecvMalformed, StrtokRaces, DerefFaults
    <3>3. CASE Find(c) \/ FindNone(c) \/ DerefRefused(c) \/ ReportSuccess(c)
      BY <3>3 DEF Find, FindNone, DerefRefused, ReportSuccess
    <3>4. CASE Deref(c) \/ \E fd \in FDs : DerefErased(c, fd)
      BY <3>4 DEF Deref, DerefErased
    <3>5. CASE Relay(c) \/ RelayNothing(c) \/ RelayJunk(c)
      BY <3>5 DEF Relay, RelayNothing, RelayJunk
    <3>6. CASE Close(c) \/ RemoveThread(c)
      BY <3>6 DEF Close, RemoveThread, AfterClose
    <3> QED
      BY <1>3, <3>1, <3>2, <3>3, <3>4, <3>5, <3>6 DEF ThreadStep
  <2>3. pc'[c] # "accepted"
    BY <1>3
    DEF ThreadStep, At, Goto, TypeOK, RecvGetPublic, RecvMalformed, RecvAddress, Close,
        StrtokRaces, Find, FindNone, Deref, DerefErased, DerefRefused, DerefFaults, Start,
        Relay, RelayNothing, RelayJunk, ReportSuccess, RemoveThread, AfterClose
  <2> QED
    BY <2>1, <2>2, <2>3 DEF Threads
<1> QED
  BY <1>1, <1>2, <1>3 DEF Next

-----------------------------------------------------------------------------
(* The theorems.                                                           *)

\* The invariant holds when main starts the loops.
LEMMA InitIInv == Init => IInv
<1> SUFFICES ASSUME Init
             PROVE  IInv
  OBVIOUS
<1>1. inbox \in [Conns -> Seq(Texts)]
  <2>1. <<>> \in Seq(Texts)
    BY EmptySeq
  <2> QED
    BY <2>1 DEF Init
<1>2. alive \in BOOLEAN
  BY DEF Init
<1>3. TypeOK
  BY <1>1, <1>2, RelayAssumption DEF Init, TypeOK, Texts, Serving
<1>4. RegistryExact /\ Sockets /\ Lookups /\ RelayedToAddressee
  BY RelayAssumption
  DEF Init, RegistryExact, Sockets, Lookups, RelayedToAddressee, Serving, Keys
<1>5. Mail /\ Threads
  BY DEF Init, Mail, Letters, Threads, InService
<1> QED
  BY <1>3, <1>4, <1>5 DEF IInv

\* Every step preserves it.
LEMMA InvariantStep ==
  ASSUME IInv, [Next]_vars
  PROVE  IInv'
<1>1. CASE Next
  BY <1>1, TypeStep, RegistryStep, LookupsStep, RelaysStep, MailStep, ThreadsStep DEF IInv
<1>2. CASE UNCHANGED vars
  <2>1. UNCHANGED <<alive, files, pc, sock, connectionThreads, connectionSocketFds, word,
                    itr, to, peer, inbox, answer, touched, relays>>
    BY <1>2 DEF vars
  <2>2. TypeOK' /\ RegistryExact' /\ Sockets'
    BY <2>1 DEF IInv, TypeOK, RegistryExact, Sockets, Key, Gone
  <2>3. Lookups' /\ RelayedToAddressee' /\ Mail' /\ Threads'
    BY <2>1
    DEF IInv, Lookups, RelayedToAddressee, Registered, Gone, Mail, Letters, Threads
  <2> QED
    BY <2>2, <2>3 DEF IInv
<1> QED
  BY <1>1, <1>2

\* The inductive invariant, for any connections, addresses and descriptors: what the
\* two maps, the descriptors and the threads' locals say of each other.
THEOREM Invariance == Spec => []IInv
BY InitIInv, InvariantStep, PTL DEF Spec

\* Type correctness of the relay and its clients.
THEOREM TypeCorrect == Spec => []TypeOK
<1>1. IInv => TypeOK
  BY DEF IInv
<1> QED
  BY <1>1, Invariance, PTL

\* connectionThreads and connectionSocketFds hold the connections whose thread runs,
\* each under its own address with its own descriptor.
THEOREM RegistryStaysExact == Spec => []RegistryExact
<1>1. IInv => RegistryExact
  BY DEF IInv
<1> QED
  BY <1>1, Invariance, PTL

\* A thread's connectedSocketFd stands for its own connection until it closes it,
\* although closed descriptors are given out again while the maps still hold them.
THEOREM DescriptorsStayOwn == Spec => []OwnDescriptor
<1>1. IInv => OwnDescriptor
  BY DEF IInv, Sockets, OwnDescriptor
<1> QED
  BY <1>1, Invariance, PTL

\* relayTCPconnection writes to the connection that was looked up, or that
\* connection's client has left: the use of the iterator after the unlock and of the
\* descriptor after the close does no other harm to what is relayed.
THEOREM RelayedMessagesReachTheAddressee == Spec => []RelayedToAddressee
<1>1. IInv => RelayedToAddressee
  BY DEF IInv
<1> QED
  BY <1>1, Invariance, PTL

-----------------------------------------------------------------------------
(* The client whose reply is due.                                          *)

ToBeRead(c) == pc[c] \in {"none", "accepted", "recv"} /\ inbox[c] # <<>>

\* No thread waits for a client that waits for its reply.
WaiterHasCause ==
  alive => \A c \in Conns : Unanswered(c) => ToBeRead(c) \/ pc[c] \in {"find", "deref"}

\* The thread of a client that has sent nothing is in recv at the furthest.
Silent ==
  \A c \in Conns :
    peer[c] \in {"away", "open"} => pc[c] \in {"none", "accepted", "recv"}

Over(c) == ~Unanswered(c) \/ ~alive

\* What was written to a client is not unwritten, and a reply on its own descriptor
\* reaches a client that is there.
LEMMA Written ==
  ASSUME TypeOK, NEW fd, NEW m \in Answers \ {"nothing"}, NEW used, Send(fd, m, used)
  PROVE  /\ \A d \in Conns : answer'[d] = "nothing" => answer[d] = "nothing"
         /\ \A d \in Conns : fd \in FDs /\ files[fd] = d /\ ~Gone(d) => answer'[d] # "nothing"
<1> DEFINE e == IF fd \in FDs THEN files[fd] ELSE None
<1>1. e \in Conns \cup {None} /\ None \notin Conns
  BY RelayAssumption DEF TypeOK
<1>2. CASE e = None \/ Gone(e)
  <2>1. UNCHANGED answer
    BY <1>2 DEF Send
  <2> QED
    BY <1>1, <1>2, <2>1
<1>3. CASE e # None /\ ~Gone(e)
  <2>1. answer' = [answer EXCEPT ![e] = IF @ = "nothing" THEN m ELSE @]
    BY <1>3 DEF Send
  <2> QED
    BY <1>1, <1>3, <2>1 DEF TypeOK, Answers
<1> QED
  BY <1>2, <1>3

LEMMA AnswersStay ==
  ASSUME TypeOK, NEW c \in Conns, ThreadStep(c), NEW d \in Conns, answer'[d] = "nothing"
  PROVE  answer[d] = "nothing"
<1> USE Written DEF Answers
<1>1. CASE RecvGetPublic(c) \/ RecvMalformed(c)
  BY <1>1 DEF RecvGetPublic, RecvMalformed, Refuse, Reply
<1>2. CASE FindNone(c) \/ DerefRefused(c) \/ ReportSuccess(c)
  BY <1>2 DEF FindNone, DerefRefused, ReportSuccess, Refuse, Reply
<1>3. CASE Deref(c) \/ \E fd \in FDs : DerefErased(c, fd)
  BY <1>3 DEF Deref, DerefErased, Start, Reply
<1>4. CASE Relay(c) \/ RelayJunk(c)
  BY <1>4 DEF Relay, RelayJunk
<1>5. CASE \/ RecvAddress(c) \/ Close(c) \/ StrtokRaces(c) \/ Find(c) \/ DerefFaults(c)
           \/ RelayNothing(c) \/ RemoveThread(c)
  BY <1>5
  DEF RecvAddress, Close, StrtokRaces, Find, DerefFaults, RelayNothing, RemoveThread, wire
<1> QED
  BY <1>1, <1>2, <1>3, <1>4, <1>5 DEF ThreadStep

\* The thread of a client that waits: it replies, or it has the address to look up, or
\* the entry it found.
LEMMA ThreadAnswers ==
  ASSUME IInv, NEW c \in Conns, Unanswered(c), ThreadStep(c),
         pc[c] \in {"recv", "find", "deref"}
  PROVE  \/ Over(c)'
         \/ Unanswered(c)' /\ pc[c] = "recv" /\ pc'[c] = "find"
         \/ Unanswered(c)' /\ pc[c] = "find" /\ pc'[c] = "deref"
<1> USE DEF At, Goto, Over
<1>1. ~Gone(c) /\ sock[c] \in FDs /\ files[sock[c]] = c
  BY DEF IInv, TypeOK, Sockets, Serving, Unanswered, Waiting, Gone
<1>2. \A m \in Answers \ {"nothing"} : Reply(c, m) => answer'[c] # "nothing"
  BY <1>1, Written DEF Reply, IInv
<1>3. answer'[c] # "nothing" => Over(c)'
  BY DEF Unanswered
<1>4. CASE \/ RecvGetPublic(c) \/ RecvMalformed(c) \/ FindNone(c) \/ DerefRefused(c)
           \/ Deref(c) \/ \E fd \in FDs : DerefErased(c, fd)
  BY <1>2, <1>3, <1>4
  DEF RecvGetPublic, RecvMalformed, FindNone, DerefRefused, Deref, DerefErased, Start,
      Refuse, Answers
<1>5. CASE StrtokRaces(c) \/ DerefFaults(c)
  BY <1>5 DEF StrtokRaces, DerefFaults
<1>6. CASE RecvAddress(c)
  BY <1>6 DEF RecvAddress, Unanswered, Waiting, IInv, TypeOK
<1>7. CASE Find(c)
  BY <1>7 DEF Find, wire, Unanswered, Waiting, IInv, TypeOK
<1>8. ~Close(c)
  BY <1>1, RelayAssumption DEF Close, Ended
<1> QED
  BY <1>4, <1>5, <1>6, <1>7, <1>8
  DEF ThreadStep, Relay, RelayNothing, RelayJunk, ReportSuccess, RemoveThread

\* Nobody else moves the thread of a client that waits, or its mailbox.
LEMMA OthersStep ==
  ASSUME IInv, [Next]_vars, NEW c \in Conns, Unanswered(c), ~ThreadStep(c), ~Over(c)'
  PROVE  /\ Unanswered(c)' /\ inbox'[c] = inbox[c]
         /\ \/ pc'[c] = pc[c]
            \/ AcceptStep /\ pc[c] = "none" /\ pc'[c] = "accepted"
            \/ AcceptStep /\ pc[c] = "accepted" /\ pc'[c] = "recv"
<1>0. Unanswered(c)' /\ TypeOK /\ Mail
  BY DEF Over, IInv
<1>1. CASE AcceptStep
  BY <1>0, <1>1, AcceptFrame DEF Over
<1>2. ASSUME NEW d \in Conns, ClientStep(d)
      PROVE  pc'[c] = pc[c] /\ inbox'[c] = inbox[c]
  BY <1>0, <1>2, ClientFrame, ClientMail
<1>3. ASSUME NEW d \in Conns, ThreadStep(d)
      PROVE  pc'[c] = pc[c] /\ inbox'[c] = inbox[c]
  BY <1>0, <1>3, ThreadFrame
<1>4. CASE UNCHANGED vars
  BY <1>0, <1>4 DEF vars
<1> QED
  BY <1>0, <1>1, <1>2, <1>3, <1>4 DEF Next

\* Silent stays: recv has nothing to return.
LEMMA SilentStep ==
  ASSUME IInv, Silent, [Next]_vars
  PROVE  Silent'
<1> SUFFICES ASSUME NEW c \in Conns, peer'[c] \in {"away", "open"}
             PROVE  pc'[c] \in {"none", "accepted", "recv"}
  BY DEF Silent
<1>0. TypeOK /\ Mail
  BY DEF IInv
<1>1. CASE AcceptStep
  BY <1>0, <1>1, AcceptFrame DEF Silent
<1>2. ASSUME NEW d \in Conns, ClientStep(d)
      PROVE  UNCHANGED pc /\ peer[c] \in {"away", "open"}
  <2>1. UNCHANGED pc
    BY <1>0, <1>2, ClientFrame
  <2>2. CASE d # c
    BY <1>0, <1>2, <2>1, <2>2, ClientMail
  <2>3. CASE d = c
    BY <1>2, <2>1, <2>3
    DEF ClientStep, Connect, AskPublic, NameAddress, ReadReply, SendData, Leave, Client,
        IInv, TypeOK
  <2> QED
    BY <2>2, <2>3
<1>3. ASSUME NEW d \in Conns, ThreadStep(d)
      PROVE  pc'[c] \in {"none", "accepted", "recv"}
  <2>1. /\ peer[c] \in {"away", "open"} /\ ~Gone(c)
        /\ d # c => pc'[c] = pc[c]
    BY <1>0, <1>3, ThreadFrame DEF Gone
  <2>2. pc[c] \in {"none", "accepted", "recv"} /\ inbox[c] = <<>>
    BY <1>0, <2>1 DEF Silent, Mail, Letters
  <2>3. pc[c] = "recv" => sock[c] # -1
    BY <2>1 DEF IInv, Sockets
  <2>4. ~ThreadStep(c)
    BY <2>1, <2>2, <2>3
    DEF ThreadStep, At, Take, Ended, RecvGetPublic, RecvMalformed, RecvAddress, Close,
        StrtokRaces, Find, FindNone, Deref, DerefErased, DerefRefused, DerefFaults, Relay,
        RelayNothing, RelayJunk, ReportSuccess, RemoveThread
  <2> QED
    BY <1>3, <2>1, <2>2, <2>4
<1>4. CASE UNCHANGED vars
  BY <1>4 DEF vars, Silent
<1> QED
  BY <1>1, <1>2, <1>3, <1>4 DEF Next, Silent

\* Neither side of a connection waits for the other: a client that waits for its reply
\* has its request in the mailbox, or its thread has taken it and is looking the address
\* up.
THEOREM WaitersHaveCause == Spec => []WaiterHasCause
<1>1. Init => WaiterHasCause /\ Silent
  BY DEF Init, WaiterHasCause, Silent, Unanswered, Waiting
<1>2. ASSUME IInv, WaiterHasCause, Silent, [Next]_vars
      PROVE  WaiterHasCause'
  <2> SUFFICES ASSUME alive', NEW c \in Conns, Unanswered(c)'
               PROVE  ToBeRead(c)' \/ pc'[c] \in {"find", "deref"}
    BY DEF WaiterHasCause
  <2>0. alive /\ ~Over(c)'
    BY <1>2
    DEF Over, Next, vars, AcceptStep, Accept, AcceptFails, Register, Terminate, AtAccept,
        ClientStep, Connect, AskPublic, NameAddress, ReadReply, SendData, Leave, ServerIdle,
        ThreadStep, At, RecvGetPublic, RecvMalformed, RecvAddress, Close, StrtokRaces, Find,
        FindNone, Deref, DerefErased, DerefRefused, DerefFaults, Relay, RelayNothing,
        RelayJunk, ReportSuccess, RemoveThread
  <2>1. CASE Unanswered(c)
    <3>1. ToBeRead(c) \/ pc[c] \in {"find", "deref"}
      BY <1>2, <2>0, <2>1 DEF WaiterHasCause
    <3>2. CASE ThreadStep(c)
      <4>1. pc[c] \in {"recv", "find", "deref"}
        BY <3>1, <3>2
        DEF ToBeRead, ThreadStep, At, RecvGetPublic, RecvMalformed, RecvAddress, Close,
            StrtokRaces, Find, FindNone, Deref, DerefErased, DerefRefused, DerefFaults,
            Relay, RelayNothing, RelayJunk, ReportSuccess, RemoveThread
      <4> QED
        BY <1>2, <2>0, <2>1, <3>2, <4>1, ThreadAnswers
    <3>3. CASE ~ThreadStep(c)
      BY <1>2, <2>0, <2>1, <3>1, <3>3, OthersStep DEF ToBeRead
    <3> QED
      BY <3>2, <3>3
  <2>2. CASE ~Unanswered(c)
    <3>0. TypeOK /\ Mail
      BY <1>2 DEF IInv
    <3>1. ClientStep(c)
      <4>1. CASE AcceptStep
        BY <2>2, <3>0, <4>1, AcceptFrame DEF Unanswered, Waiting
      <4>2. ASSUME NEW d \in Conns, ClientStep(d)
            PROVE  ClientStep(c)
        BY <2>2, <3>0, <4>2, ClientFrame, ClientMail DEF Unanswered, Waiting
      <4>3. ASSUME NEW d \in Conns, ThreadStep(d)
            PROVE  Unanswered(c)
        BY <3>0, <4>3, ThreadFrame, AnswersStay DEF Unanswered, Waiting
      <4>4. CASE UNCHANGED vars
        BY <2>2, <4>4 DEF vars, Unanswered, Waiting
      <4> QED
        BY <1>2, <2>2, <4>1, <4>2, <4>3, <4>4 DEF Next
    <3>2. inbox'[c] # <<>> /\ peer[c] = "open" /\ UNCHANGED pc
      BY <2>2, <3>0, <3>1, ClientFrame, ClientMail
    <3> QED
      BY <1>2, <3>2 DEF Silent, ToBeRead
  <2> QED
    BY <2>1, <2>2
<1> QED
  BY <1>1, <1>2, SilentStep, Invariance, PTL DEF Spec

-----------------------------------------------------------------------------
(* Liveness, with the fairness of the loop and of the threads.              *)

Stands(c, at) == Unanswered(c) /\ pc[c] = at

\* A waiting client's connection that is with the loop or at recv has its request, so
\* what is to be done next can be done.
LEMMA DueNext ==
  ASSUME IInv, WaiterHasCause, NEW c \in Conns
  PROVE  /\ Stands(c, "accepted") => AcceptDue \/ Over(c)
         /\ \A at \in {"recv", "find", "deref"} : Stands(c, at) => ThreadDue(c) \/ Over(c)
BY DEF Stands, WaiterHasCause, ToBeRead, Over, AcceptDue, ThreadDue, Receivable

\* The loop registers the connection it has in hand: it is the only one.
LEMMA LoopRegisters ==
  ASSUME IInv, NEW c \in Conns, Stands(c, "accepted"), AcceptStep
  PROVE  Stands(c, "recv")' \/ Over(c)'
<1>1. PICK d \in Conns :
        (\E fd \in FDs : Accept(d, fd)) \/ AcceptFails(d) \/ Register(d) \/ Terminate(d)
  BY DEF AcceptStep
<1>2. CASE Register(d)
  <2>1. d = c
    BY <1>2 DEF Stands, Register, IInv, Threads
  <2> QED
    BY <1>2, <2>1 DEF Register, Stands, Over, IInv, TypeOK
<1>3. CASE Terminate(d)
  BY <1>3 DEF Terminate, Over
<1> QED
  BY <1>1, <1>2, <1>3 DEF Accept, AcceptFails, AtAccept, Stands

\* A client whose connection was accepted gets its reply: it is registered, its request
\* received, and the address it names looked up, each by one step of one thread.
THEOREM AcceptedAreAnswered ==
  FairSpec => \A c \in Conns : Unanswered(c) /\ pc[c] # "none" ~> Over(c)
<1> SUFFICES ASSUME NEW c \in Conns
             PROVE  Spec /\ []IInv /\ []WaiterHasCause /\ LoopGoesOn /\ ThreadGoesOn(c)
                      => (Unanswered(c) /\ pc[c] # "none" ~> Over(c))
  BY Invariance, WaitersHaveCause DEF FairSpec
<1>1. WaiterHasCause /\ Unanswered(c) /\ pc[c] # "none" =>
        \/ Stands(c, "accepted") \/ Stands(c, "recv") \/ Stands(c, "find")
        \/ Stands(c, "deref") \/ Over(c)
  BY DEF WaiterHasCause, ToBeRead, Stands, Over
<1>2. IInv /\ Stands(c, "accepted") /\ [Next]_vars =>
        Stands(c, "accepted")' \/ Stands(c, "recv")' \/ Over(c)'
  <2> SUFFICES ASSUME IInv, Stands(c, "accepted"), [Next]_vars, ~Over(c)'
               PROVE  Stands(c, "accepted")' \/ Stands(c, "recv")'
    OBVIOUS
  <2>1. ~ThreadStep(c)
    BY DEF Stands, ThreadStep, At, RecvGetPublic, RecvMalformed, RecvAddress, Close,
           StrtokRaces, Find, FindNone, Deref, DerefErased, DerefRefused, DerefFaults,
           Relay, RelayNothing, RelayJunk, ReportSuccess, RemoveThread
  <2> QED
    BY <2>1, OthersStep DEF Stands
<1>3. IInv /\ Stands(c, "accepted") /\ <<AcceptStep>>_vars =>
        Stands(c, "recv")' \/ Over(c)'
  BY LoopRegisters
<1>4. ASSUME NEW at \in {"recv", "find", "deref"}
      PROVE  /\ IInv /\ Stands(c, at) /\ [Next]_vars =>
                  \/ Stands(c, at)' \/ Over(c)'
                  \/ at = "recv" /\ Stands(c, "find")'
                  \/ at = "find" /\ Stands(c, "deref")'
             /\ IInv /\ Stands(c, at) /\ <<ThreadStep(c)>>_vars =>
                  \/ Over(c)'
                  \/ at = "recv" /\ Stands(c, "find")'
                  \/ at = "find" /\ Stands(c, "deref")'
  BY ThreadAnswers, OthersStep DEF Stands
<1>5. /\ IInv /\ Stands(c, "recv") /\ [Next]_vars =>
           Stands(c, "recv")' \/ Stands(c, "find")' \/ Over(c)'
      /\ IInv /\ Stands(c, "recv") /\ <<ThreadStep(c)>>_vars =>
           Stands(c, "find")' \/ Over(c)'
  BY <1>4
<1>6. /\ IInv /\ Stands(c, "find") /\ [Next]_vars =>
           Stands(c, "find")' \/ Stands(c, "deref")' \/ Over(c)'
      /\ IInv /\ Stands(c, "find") /\ <<ThreadStep(c)>>_vars =>
           Stands(c, "deref")' \/ Over(c)'
  BY <1>4
<1>7. /\ IInv /\ Stands(c, "deref") /\ [Next]_vars => Stands(c, "deref")' \/ Over(c)'
      /\ IInv /\ Stands(c, "deref") /\ <<ThreadStep(c)>>_vars => Over(c)'
  BY <1>4
<1>8. IInv /\ WaiterHasCause =>
        /\ Stands(c, "accepted") => AcceptDue \/ Over(c)
        /\ Stands(c, "recv") => ThreadDue(c) \/ Over(c)
        /\ Stands(c, "find") => ThreadDue(c) \/ Over(c)
        /\ Stands(c, "deref") => ThreadDue(c) \/ Over(c)
  BY DueNext
<1> QED
  BY <1>1, <1>2, <1>3, <1>5, <1>6, <1>7, <1>8, PTL DEF Spec, LoopGoesOn, ThreadGoesOn

\* The thread of a client that has left, k calls from its end at most: six for each
\* message that is left, and those of where it stands.
Calls(at) ==
  CASE at = "find" -> 5 [] at = "deref" -> 4 [] at = "relay" -> 3
    [] at = "success" -> 2 [] at = "recv" -> 1 [] OTHER -> 0

Leaves(c, k) ==
  /\ Gone(c) /\ pc[c] \in Serving \cup {"remove"}
  /\ 6 * Len(inbox[c]) + Calls(pc[c]) <= k

Forgotten(c) ==
  \/ pc[c] = "done" /\ connectionThreads[Key(c)] # c
  \/ ~alive

\* It does not turn back: every step of it takes a message or is a call less.
LEMMA LeavesStep ==
  ASSUME IInv, NEW c \in Conns, NEW k \in Int, Leaves(c, k),
         ThreadStep(c)
  PROVE  Leaves(c, k - 1)' \/ Forgotten(c)'
<1> USE DEF At, Goto, Serving
<1>0. /\ TypeOK /\ UNCHANGED <<peer, sock>> /\ inbox[c] \in Seq(Texts)
      /\ inbox'[c] = inbox[c] \/ (Take(c) /\ inbox'[c] = Tail(inbox[c]))
  <2>1. TypeOK /\ inbox[c] \in Seq(Texts)
    BY DEF IInv, TypeOK, Texts
  <2> QED
    BY <2>1, ThreadFrame
<1>1. ASSUME Take(c), pc'[c] \in Serving, inbox'[c] = Tail(inbox[c])
      PROVE  Leaves(c, k - 1)'
  <2>1. Len(inbox'[c]) = Len(inbox[c]) - 1
    BY <1>0, <1>1 DEF Take, TypeOK
  <2>2. Calls(pc'[c]) \in 0..5 /\ Calls(pc[c]) \in 0..5
    BY DEF Calls
  <2> QED
    BY <1>0, <1>1, <2>1, <2>2 DEF Leaves, Gone
<1>2. CASE RecvGetPublic(c) \/ RecvMalformed(c) \/ RecvAddress(c) \/ Relay(c)
  BY <1>0, <1>1, <1>2 DEF RecvGetPublic, RecvMalformed, RecvAddress, Relay, Take, TypeOK
<1>3. ASSUME inbox'[c] = inbox[c], pc'[c] \in Serving \cup {"remove"},
             Calls(pc'[c]) <= Calls(pc[c]) - 1
      PROVE  Leaves(c, k - 1)'
  <2>1. Calls(pc[c]) \in Int /\ Calls(pc'[c]) \in Int
    BY DEF Calls
  <2> QED
    BY <1>0, <1>3, <2>1 DEF Leaves, Gone
<1>4. CASE Find(c) \/ FindNone(c)
  BY <1>3, <1>0, <1>4 DEF Find, FindNone, wire, Calls, TypeOK
<1>5. CASE DerefRefused(c) \/ Deref(c) \/ \E fd \in FDs : DerefErased(c, fd)
  BY <1>3, <1>0, <1>5 DEF DerefRefused, Deref, DerefErased, Start, Calls, TypeOK
<1>6. CASE RelayNothing(c) \/ RelayJunk(c) \/ ReportSuccess(c)
  <2>1. inbox'[c] = inbox[c]
    BY <1>6 DEF RelayNothing, RelayJunk, ReportSuccess, wire
  <2>2. \/ pc[c] = "relay" /\ pc'[c] = "success"
        \/ pc[c] = "success" /\ pc'[c] = "recv"
    BY <1>0, <1>6 DEF RelayNothing, RelayJunk, ReportSuccess, TypeOK
  <2> QED
    BY <1>3, <2>1, <2>2 DEF Calls
<1>7. CASE Close(c)
  BY <1>3, <1>0, <1>7 DEF Close, AfterClose, wire, Calls, TypeOK
<1>8. CASE StrtokRaces(c) \/ DerefFaults(c)
  BY <1>8 DEF StrtokRaces, DerefFaults, Forgotten
<1>9. CASE RemoveThread(c)
  <2>1. Key(c) \in Keys
    BY RelayAssumption DEF Key, Keys
  <2> QED
    BY <1>0, <1>9, <2>1, RelayAssumption DEF RemoveThread, Forgotten, Key, TypeOK
<1> QED
  BY <1>2, <1>4, <1>5, <1>6, <1>7, <1>8, <1>9 DEF ThreadStep

\* Nobody else holds it up.
LEMMA LeavesStays ==
  ASSUME IInv, [Next]_vars, NEW c \in Conns, NEW k \in Int, Leaves(c, k), ~ThreadStep(c)
  PROVE  Leaves(c, k)'
<1>0. TypeOK /\ Mail
  BY DEF IInv
<1>1. CASE AcceptStep
  BY <1>0, <1>1, AcceptFrame DEF Leaves, Gone, Serving
<1>2. ASSUME NEW d \in Conns, ClientStep(d)
      PROVE  Leaves(c, k)'
  BY <1>0, <1>2, ClientFrame, ClientMail DEF Leaves
<1>3. ASSUME NEW d \in Conns, ThreadStep(d)
      PROVE  Leaves(c, k)'
  BY <1>0, <1>3, ThreadFrame DEF Leaves, Gone
<1>4. CASE UNCHANGED vars
  BY <1>4 DEF vars, Leaves, Gone
<1> QED
  BY <1>1, <1>2, <1>3, <1>4 DEF Next

\* Once a registered client has left, its thread comes to its end and removes its entry:
\* no message of it holds the thread for ever, and nobody else does.
THEOREM EndedAreForgotten == FairSpec => EndedIsForgotten
<1> SUFFICES ASSUME NEW c \in Conns
             PROVE  Spec /\ []IInv /\ ThreadGoesOn(c)
                      => (Gone(c) /\ pc[c] \in Serving ~> Forgotten(c))
  BY Invariance DEF FairSpec, EndedIsForgotten, Forgotten
<1> DEFINE Steps(k, j) ==
             /\ IInv /\ Leaves(c, k) /\ [Next]_vars =>
                  Leaves(c, k)' \/ Leaves(c, j)' \/ Forgotten(c)'
             /\ IInv /\ Leaves(c, k) /\ <<ThreadStep(c)>>_vars =>
                  Leaves(c, j)' \/ Forgotten(c)'
<1>1. ASSUME NEW k \in Int, NEW j \in Int, j = k - 1
      PROVE  Steps(k, j)
  BY <1>1, LeavesStep, LeavesStays
<1>2. Steps(17, 16)
  BY <1>1
<1>3. Steps(16, 15)
  BY <1>1
<1>4. Steps(15, 14)
  BY <1>1
<1>5. Steps(14, 13)
  BY <1>1
<1>6. Steps(13, 12)
  BY <1>1
<1>7. Steps(12, 11)
  BY <1>1
<1>8. Steps(11, 10)
  BY <1>1
<1>9. Steps(10, 9)
  BY <1>1
<1>10. Steps(9, 8)
  BY <1>1
<1>11. Steps(8, 7)
  BY <1>1
<1>12. Steps(7, 6)
  BY <1>1
<1>13. Steps(6, 5)
  BY <1>1
<1>14. Steps(5, 4)
  BY <1>1
<1>15. Steps(4, 3)
  BY <1>1
<1>16. Steps(3, 2)
  BY <1>1
<1>17. Steps(2, 1)
  BY <1>1
<1>18. Steps(1, 0)
  BY <1>1
<1>19. Steps(0, -1)
  BY <1>1
<1>20. \A k \in Int : Leaves(c, k) => ThreadDue(c) \/ Forgotten(c)
  BY DEF Leaves, ThreadDue, Receivable, Forgotten, Serving
<1>21. /\ Leaves(c, 17) => ThreadDue(c) \/ Forgotten(c)
       /\ Leaves(c, 16) => ThreadDue(c) \/ Forgotten(c)
       /\ Leaves(c, 15) => ThreadDue(c) \/ Forgotten(c)
       /\ Leaves(c, 14) => ThreadDue(c) \/ Forgotten(c)
       /\ Leaves(c, 13) => ThreadDue(c) \/ Forgotten(c)
       /\ Leaves(c, 12) => ThreadDue(c) \/ Forgotten(c)
       /\ Leaves(c, 11) => ThreadDue(c) \/ Forgotten(c)
       /\ Leaves(c, 10) => ThreadDue(c) \/ Forgotten(c)
       /\ Leaves(c, 9) => ThreadDue(c) \/ Forgotten(c)
       /\ Leaves(c, 8) => ThreadDue(c) \/ Forgotten(c)
       /\ Leaves(c, 7) => ThreadDue(c) \/ Forgotten(c)
       /\ Leaves(c, 6) => ThreadDue(c) \/ Forgotten(c)
       /\ Leaves(c, 5) => ThreadDue(c) \/ Forgotten(c)
       /\ Leaves(c, 4) => ThreadDue(c) \/ Forgotten(c)
       /\ Leaves(c, 3) => ThreadDue(c) \/ Forgotten(c)
       /\ Leaves(c, 2) => ThreadDue(c) \/ Forgotten(c)
       /\ Leaves(c, 1) => ThreadDue(c) \/ Forgotten(c)
       /\ Leaves(c, 0) => ThreadDue(c) \/ Forgotten(c)
  BY <1>20
<1>22. IInv /\ Gone(c) /\ pc[c] \in Serving => Leaves(c, 17)
  BY DEF IInv, Mail, Letters, TypeOK, Leaves, Calls
<1>23. IInv => ~Leaves(c, -1)
  BY DEF IInv, TypeOK, Leaves, Calls
<1> QED
  BY <1>2, <1>3, <1>4, <1>5, <1>6, <1>7, <1>8, <1>9, <1>10, <1>11, <1>12, <1>13, <1>14, <1>15, <1>16, <1>17, <1>18, <1>19, <1>21, <1>22, <1>23, PTL DEF Spec, ThreadGoesOn
=============================================================================
