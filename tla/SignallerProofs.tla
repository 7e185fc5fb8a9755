-------------------------- MODULE SignallerProofs --------------------------
(***************************************************************************)
(* Proofs about Signaller for any hosts, texts and number of datagrams,    *)
(* over a network that loses, reorders and duplicates.                     *)
(***************************************************************************)
EXTENDS Signaller, TLAPS

Datagrams ==
  [src : Hosts \cup {Server}, dst : Hosts \cup {Server},
   kind : {"getPublic", "signal", "address", "text"},
   to : Words \cup {Unknown}, body : Words \cup {Unknown}]

\* What a datagram on its way says of those who sent it: a reply names the host it
\* goes to, a signal an address somebody took for his, and the text of a signal
\* goes to such an address unless the loop's strtok was disturbed.
Sound(m) ==
  /\ m.kind = "getPublic" => m.src \in Hosts /\ m.dst = Server
  /\ m.kind = "signal" => m.dst = Server /\ m.to \in given /\ m.body \in Texts
  /\ m.kind = "address" => m.dst \in Hosts /\ m.body = m.dst
  /\ m.kind = "text" => m.dst \in Hosts /\ m.body \in Texts /\ (m.dst \in given \/ raced)

IInv ==
  /\ TypeOK
  /\ \A m \in net : Sound(m)
  /\ given \subseteq Hosts \/ mistaken
  /\ DiesByMistake

-----------------------------------------------------------------------------
\* What a step puts on the network is sound if each new datagram is: those that
\* stay are still sound, because nothing given is taken back.
LEMMA NetStep ==
  ASSUME TypeOK, \A m \in net : Sound(m),
         given \subseteq given', raced => raced',
         NEW out \in SUBSET Datagrams, net' \subseteq net \cup out,
         \A m \in out : Sound(m)'
  PROVE  net' \subseteq Datagrams /\ \A m \in net' : Sound(m)'
<1>1. net \subseteq Datagrams
  BY DEF TypeOK, Datagrams
<1>2. \A m \in net : Sound(m)'
  BY DEF Sound
<1> QED
  BY <1>1, <1>2

\* The datagrams of a host and of the server have the form of one.
LEMMA DatagramType ==
  ASSUME NEW src \in Hosts \cup {Server}, NEW dst \in Hosts \cup {Server},
         NEW kind \in {"getPublic", "signal", "address", "text"},
         NEW to \in Words \cup {Unknown}, NEW body \in Words \cup {Unknown}
  PROVE  Datagram(src, dst, kind, to, body) \in Datagrams
BY DEF Datagram, Datagrams

\* The conjuncts of IInv other than DiesByMistake, after a step of a host.
LEMMA HostStepSound ==
  ASSUME IInv, NEW h \in Hosts, HostStep(h)
  PROVE  IInv'
<1> USE SignallerAssumption DEF Words
<1>0. /\ TypeOK /\ (\A m \in net : Sound(m)) /\ DiesByMistake
      /\ alive /\ UNCHANGED <<alive, raced>>
  BY DEF IInv, HostStep, AskPublic, Restart, Signal, Learn, ReadSignal, SendServer, Arrives
<1>1. CASE AskPublic(h)
  <2> DEFINE d == Datagram(h, Server, "getPublic", Unknown, Unknown)
  <2>1. d \in Datagrams /\ Sound(d)'
    BY <1>1, DatagramType DEF Datagram, Sound
  <2>2. net' = net \cup {d} /\ UNCHANGED <<given, lost, mistaken>>
    BY <1>1 DEF AskPublic, SendServer
  <2>3. net' \subseteq Datagrams /\ \A m \in net' : Sound(m)'
    <3>1. {d} \in SUBSET Datagrams /\ \A m \in {d} : Sound(m)'
      BY <2>1
    <3> HIDE DEF d
    <3> QED
      BY <1>0, <2>2, <3>1, NetStep
  <2>4. sent' \in 0..MaxSent /\ waiting' \subseteq Hosts
    BY <1>0, <1>1 DEF AskPublic, SendServer, TypeOK
  <2> QED
    BY <1>0, <2>2, <2>3, <2>4 DEF IInv, TypeOK, Datagrams, DiesByMistake
<1>2. CASE Restart(h)
  BY <1>0, <1>2 DEF Restart, IInv, TypeOK, DiesByMistake, Sound
<1>3. ASSUME NEW a \in given, NEW text \in Texts, Signal(h, a, text)
      PROVE  IInv'
  <2> DEFINE d == Datagram(h, Server, "signal", a, text)
  <2>0. a \in Words
    BY <1>0 DEF TypeOK
  <2>1. d \in Datagrams /\ Sound(d)'
    BY <1>3, <2>0, DatagramType DEF Datagram, Sound, Signal
  <2>2. net' = net \cup {d} /\ UNCHANGED <<given, waiting, lost, mistaken>>
    BY <1>3 DEF Signal, SendServer
  <2>3. net' \subseteq Datagrams /\ \A m \in net' : Sound(m)'
    <3>1. {d} \in SUBSET Datagrams /\ \A m \in {d} : Sound(m)'
      BY <2>1
    <3> HIDE DEF d
    <3> QED
      BY <1>0, <2>2, <3>1, NetStep
  <2>4. sent' \in 0..MaxSent
    BY <1>0, <1>3 DEF Signal, SendServer, TypeOK
  <2> QED
    BY <1>0, <2>2, <2>3, <2>4 DEF IInv, TypeOK, Datagrams, DiesByMistake
<1>4. ASSUME NEW m \in net, Learn(h, m)
      PROVE  IInv'
  <2>1. /\ given' = given \cup {m.body} /\ waiting' = waiting \ {h}
        /\ mistaken' = (mistaken \/ m.kind = "text") /\ UNCHANGED <<sent, lost>>
        /\ m.dst = h /\ net' \subseteq net
    BY <1>4 DEF Learn, Arrives
  <2>2. m.kind \in {"address", "text"} /\ m \in Datagrams
    BY <1>0, <2>1 DEF Sound, TypeOK, Datagrams
  <2>3. m.body \in Words /\ (m.kind = "address" => m.body \in Hosts)
    BY <1>0, <2>1, <2>2 DEF Sound
  <2>4. net' \subseteq Datagrams /\ \A n \in net' : Sound(n)'
    BY <1>0, <2>1, NetStep
  <2>5. mistaken' \in BOOLEAN
    BY <2>1
  <2>6. given' \subseteq Hosts \/ mistaken'
    BY <2>1, <2>2, <2>3 DEF IInv
  <2>7. DiesByMistake'
    BY <1>0 DEF DiesByMistake
  <2> QED
    BY <1>0, <2>1, <2>3, <2>4, <2>5, <2>6, <2>7 DEF IInv, TypeOK, Datagrams
<1>5. ASSUME NEW m \in net, ReadSignal(h, m)
      PROVE  IInv'
  <2>1. net' \subseteq net /\ UNCHANGED <<given, waiting, sent, lost, mistaken>>
    BY <1>5 DEF ReadSignal, Arrives
  <2>2. net' \subseteq Datagrams /\ \A n \in net' : Sound(n)'
    BY <1>0, <2>1, NetStep
  <2> QED
    BY <1>0, <2>1, <2>2 DEF IInv, TypeOK, Datagrams, DiesByMistake
<1> QED
  BY <1>1, <1>2, <1>3, <1>4, <1>5 DEF HostStep

\* The server relays what it was sent and answers with what it sees.
LEMMA ServerStepSound ==
  ASSUME IInv, NEW m \in net, Handle(m) \/ Lose(m)
  PROVE  IInv'
<1> USE SignallerAssumption DEF Words
<1>0. /\ TypeOK /\ (\A n \in net : Sound(n)) /\ Sound(m) /\ m \in Datagrams
      /\ UNCHANGED <<given, waiting, sent, mistaken>> /\ (raced => raced')
  BY DEF IInv, TypeOK, Datagrams, Handle, Lose, ReplyPublic, RelaySignal, DropSignal,
         HostNotFound, PortOfAnother, NoPort, hosts
<1>1. ASSUME NEW out \in SUBSET Datagrams, net' \subseteq net \cup out,
             \A n \in out : Sound(n)', raced' \in BOOLEAN, lost' \in BOOLEAN,
             alive' \in BOOLEAN, DiesByMistake'
      PROVE  IInv'
  <2>1. net' \subseteq Datagrams /\ \A n \in net' : Sound(n)'
    BY <1>0, <1>1, NetStep
  <2> QED
    BY <1>0, <1>1, <2>1 DEF IInv, TypeOK, Datagrams
<1>2. alive \in BOOLEAN /\ lost \in BOOLEAN /\ raced \in BOOLEAN /\ DiesByMistake
  BY DEF IInv, TypeOK
<1>3. CASE ReplyPublic(m)
  <2> DEFINE d == Datagram(Server, m.src, "address", Unknown, m.src)
  <2>1. m.src \in Hosts /\ net' \subseteq net \cup {d} /\ UNCHANGED <<alive, lost, raced>>
    BY <1>0, <1>3 DEF ReplyPublic, Receives, Arrives, Replies, Sound
  <2>2. d \in Datagrams /\ Sound(d)'
    BY <2>1, DatagramType DEF Datagram, Sound
  <2>3. DiesByMistake'
    BY <1>0, <1>2, <2>1 DEF DiesByMistake
  <2>4. {d} \in SUBSET Datagrams /\ \A n \in {d} : Sound(n)'
    BY <2>2
  <2>5. raced' \in BOOLEAN /\ lost' \in BOOLEAN /\ alive' \in BOOLEAN
    BY <1>2, <2>1
  <2> HIDE DEF d
  <2> QED
    BY <1>1, <2>1, <2>3, <2>4, <2>5
<1>4. ASSUME NEW h \in Hosts, m.kind = "signal", h \in given \/ raced',
             net' \subseteq net \cup Relayed(m, h), UNCHANGED <<alive, lost>>,
             raced' \in BOOLEAN
      PROVE  IInv'
  <2> DEFINE d == Datagram(Server, h, "text", Unknown, m.body)
  <2>1. m.body \in Texts
    BY <1>0, <1>4 DEF Sound
  <2>2. d \in Datagrams /\ Sound(d)'
    BY <1>0, <1>4, <2>1, DatagramType DEF Datagram, Sound
  <2>3. net' \subseteq net \cup {d}
    BY <1>4 DEF Relayed
  <2>4. DiesByMistake'
    BY <1>0, <1>2, <1>4 DEF DiesByMistake
  <2>5. {d} \in SUBSET Datagrams /\ \A n \in {d} : Sound(n)'
    BY <2>2
  <2>6. lost' \in BOOLEAN /\ alive' \in BOOLEAN
    BY <1>2, <1>4
  <2> HIDE DEF d
  <2> QED
    BY <1>1, <1>4, <2>3, <2>4, <2>5, <2>6
<1>5. CASE RelaySignal(m)
  <2>1. m.kind = "signal" /\ m.to \in Hosts /\ m.to \in given
    BY <1>0, <1>5 DEF RelaySignal, Resolved, Sound
  <2> QED
    BY <1>2, <1>4, <1>5, <2>1 DEF RelaySignal, Receives, Arrives
<1>6. ASSUME net' \subseteq net, raced' \in BOOLEAN, lost' \in BOOLEAN, alive' \in BOOLEAN,
             DiesByMistake'
      PROVE  IInv'
  BY <1>1, <1>6
<1>7. CASE DropSignal(m)
  BY <1>0, <1>2, <1>6, <1>7 DEF DropSignal, Receives, Arrives, DiesByMistake
<1>8. CASE HostNotFound(m)
  <2>1. m.to \in Hostlike /\ m.to \in given
    BY <1>0, <1>8 DEF HostNotFound, WellFormed, Resolved, Sound
  <2>2. mistaken
    BY <2>1 DEF IInv
  <2>3. DiesByMistake'
    BY <1>0, <2>2 DEF DiesByMistake
  <2>4. alive' \in BOOLEAN
    BY <1>8 DEF HostNotFound
  <2> QED
    BY <1>2, <1>6, <1>8, <2>3, <2>4 DEF HostNotFound, Receives, Arrives
<1>9. CASE PortOfAnother(m)
  <2>1. m.kind = "signal" /\ raced' = TRUE /\ UNCHANGED <<alive, lost>>
    BY <1>9 DEF PortOfAnother
  <2>2. raced' \in BOOLEAN /\ DiesByMistake'
    BY <2>1 DEF DiesByMistake
  <2>3. net' \subseteq net \/ \E h \in Hosts : net' \subseteq net \cup Relayed(m, h)
    BY <1>9 DEF PortOfAnother, Receives, Arrives
  <2> QED
    BY <1>2, <1>4, <1>6, <2>1, <2>2, <2>3
<1>10. CASE NoPort(m)
  <2>1. alive' = FALSE /\ raced' = TRUE /\ UNCHANGED lost /\ net' \subseteq net
    BY <1>10 DEF NoPort, Receives, Arrives
  <2>2. alive' \in BOOLEAN /\ raced' \in BOOLEAN /\ DiesByMistake'
    BY <2>1 DEF DiesByMistake
  <2> QED
    BY <1>2, <1>6, <2>1, <2>2
<1>11. CASE Lose(m)
  <2>1. net' \subseteq net /\ lost' = TRUE /\ UNCHANGED <<alive, raced>>
    BY <1>11 DEF Lose
  <2>2. lost' \in BOOLEAN /\ DiesByMistake'
    BY <1>0, <1>2, <2>1 DEF DiesByMistake
  <2> QED
    BY <1>2, <1>6, <2>1, <2>2
<1> QED
  BY <1>3, <1>5, <1>7, <1>8, <1>9, <1>10, <1>11 DEF Handle

-----------------------------------------------------------------------------
(* The theorems.                                                           *)

\* The inductive invariant: what the datagrams on their way say of each other's
\* senders, whatever the network does to them.
THEOREM Invariance == Spec => []IInv
<1>1. Init => IInv
  <2> SUFFICES ASSUME Init
               PROVE  IInv
    OBVIOUS
  <2>1. alive \in BOOLEAN /\ lost \in BOOLEAN /\ raced \in BOOLEAN /\ mistaken \in BOOLEAN
    BY DEF Init
  <2>2. TypeOK
    BY <2>1, SignallerAssumption DEF Init, TypeOK
  <2> QED
    BY <2>2 DEF Init, IInv, DiesByMistake
<1>2. IInv /\ [Next]_vars => IInv'
  <2> SUFFICES ASSUME IInv, [Next]_vars
               PROVE  IInv'
    OBVIOUS
  <2>1. CASE Next
    BY <2>1, HostStepSound, ServerStepSound DEF Next
  <2>2. CASE UNCHANGED vars
    BY <2>2 DEF vars, IInv, TypeOK, DiesByMistake, Sound
  <2> QED
    BY <2>1, <2>2
<1> QED
  BY <1>1, <1>2, PTL DEF Spec

\* Type correctness of the signalling server and its hosts.
THEOREM TypeCorrect == Spec => []TypeOK
<1>1. IInv => TypeOK
  BY DEF IInv
<1> QED
  BY <1>1, Invariance, PTL

\* setupUDPserver follows gethostbyname's null only after a host took a signal for its
\* address and passed it on, or a TCP thread's strtok came between its own two.
THEOREM ServerDiesByMistake == Spec => []DiesByMistake
<1>1. IInv => DiesByMistake
  BY DEF IInv
<1> QED
  BY <1>1, Invariance, PTL

\* get_signaller_public_ip_port returns the host's own address although it takes any
\* datagram, unless somebody was given that address before.
THEOREM HostsLearnTheirOwn == Spec => LearnsOwnAddress
<1>1. IInv /\ [Next]_vars =>
        [\A h \in Hosts : \A m \in net :
           Learn(h, m) /\ ~raced => m.body = h \/ h \in given]_vars
  <2> SUFFICES ASSUME IInv, NEW h \in Hosts, NEW m \in net, Learn(h, m), ~raced
               PROVE  m.body = h \/ h \in given
    OBVIOUS
  <2>1. m.dst = h /\ Sound(m) /\ m \in Datagrams
    BY DEF Learn, Arrives, IInv, TypeOK, Datagrams
  <2>2. m.kind \in {"address", "text"}
    BY <2>1, SignallerAssumption DEF Sound, Datagrams
  <2> QED
    BY <2>1, <2>2 DEF Sound
<1> QED
  BY <1>1, Invariance, PTL DEF Spec, LearnsOwnAddress

-----------------------------------------------------------------------------
(* A host that waits is answered.                                          *)

Asked(h) == h \in waiting /\ Requests(h) # {}
Replied(h) == h \in waiting /\ \E m \in net : m.dst = h
Over(h) == h \notin waiting \/ lost \/ ~alive

\* A host that waits has its request or a datagram to it on the way.
WaiterHasCause == \A h \in Hosts : h \in waiting => Asked(h) \/ Replied(h) \/ Over(h)

\* Who waits, and what is on the way to a host, changes by its own steps only; a
\* request goes only when it is answered or lost.
LEMMA RequestStays ==
  ASSUME IInv, [Next]_vars, NEW h \in Hosts, Asked(h)
  PROVE  Asked(h)' \/ Replied(h)' \/ Over(h)'
<1> USE DEF Asked, Over
<1>1. PICK r \in net : r.src = h /\ r.kind = "getPublic"
  BY DEF Requests
<1>2. r \in net' => Asked(h)' \/ Over(h)'
  BY <1>1 DEF Requests
<1>3. r.dst = Server /\ h # Server
  BY <1>1, SignallerAssumption DEF IInv, Sound
<1>4. ASSUME NEW g \in Hosts, HostStep(g)
      PROVE  r \in net' \/ Over(h)'
  BY <1>3, <1>4, SignallerAssumption
  DEF HostStep, AskPublic, Restart, Signal, Learn, ReadSignal, SendServer, Arrives
<1>5. ASSUME NEW m \in net, Handle(m)
      PROVE  r \in net' \/ Replied(h)' \/ Over(h)'
  <2>1. CASE m = r
    <3>1. ReplyPublic(r) /\ Replies(r) = {Datagram(Server, h, "address", Unknown, h)}
      BY <1>1, <1>5, <2>1
      DEF Handle, RelaySignal, DropSignal, HostNotFound, PortOfAnother, NoPort, Replies
    <3>2. Datagram(Server, h, "address", Unknown, h) \in net'
      BY <3>1 DEF ReplyPublic, Receives, Arrives
    <3> QED
      BY <3>1, <3>2 DEF ReplyPublic, hosts, Replied, Datagram
  <2>2. CASE m # r
    BY <1>5, <2>2
    DEF Handle, ReplyPublic, RelaySignal, DropSignal, HostNotFound, PortOfAnother, NoPort,
        Receives, Arrives
  <2> QED
    BY <2>1, <2>2
<1>6. ASSUME NEW m \in net, Lose(m)
      PROVE  Over(h)'
  BY <1>6 DEF Lose
<1>7. CASE UNCHANGED vars
  BY <1>2, <1>7 DEF vars
<1> QED
  BY <1>2, <1>4, <1>5, <1>6, <1>7 DEF Next

\* A datagram to a host that waits is taken by that host only.
LEMMA ReplyStays ==
  ASSUME IInv, [Next]_vars, NEW h \in Hosts, Replied(h)
  PROVE  Replied(h)' \/ Over(h)'
<1> USE DEF Replied, Over
<1>1. PICK r \in net : r.dst = h
  OBVIOUS
<1>2. h # Server
  BY SignallerAssumption
<1>3. ASSUME NEW g \in Hosts, HostStep(g)
      PROVE  r \in net' \/ Over(h)'
  BY <1>1, <1>2, <1>3
  DEF HostStep, AskPublic, Restart, Signal, Learn, ReadSignal, SendServer, Arrives
<1>4. ASSUME NEW m \in net, Handle(m)
      PROVE  r \in net' /\ waiting' = waiting
  BY <1>1, <1>2, <1>4
  DEF Handle, ReplyPublic, RelaySignal, DropSignal, HostNotFound, PortOfAnother, NoPort,
      Receives, Arrives, hosts
<1>5. ASSUME NEW m \in net, Lose(m)
      PROVE  Over(h)'
  BY <1>5 DEF Lose
<1>6. CASE UNCHANGED vars
  BY <1>1, <1>6 DEF vars
<1> QED
  BY <1>1, <1>3, <1>4, <1>5, <1>6 DEF Next

\* get_signaller_public_ip_port sends nothing twice and has no timeout; yet a host in it
\* always has its request or a datagram to it on the way, unless one was lost or the
\* server is dead.
THEOREM WaitersHaveCause == Spec => []WaiterHasCause
<1>1. Init => WaiterHasCause
  BY DEF Init, WaiterHasCause
<1>2. IInv /\ WaiterHasCause /\ [Next]_vars => WaiterHasCause'
  <2> SUFFICES ASSUME IInv, WaiterHasCause, [Next]_vars, NEW h \in Hosts, h \in waiting'
               PROVE  Asked(h)' \/ Replied(h)' \/ Over(h)'
    BY DEF WaiterHasCause
  <2>1. CASE h \in waiting
    <3>1. CASE Over(h)
      BY <2>1, <3>1
      DEF Over, Next, vars, hosts, HostStep, AskPublic, Restart, Signal, Learn, ReadSignal,
          SendServer, Arrives, Handle, ReplyPublic, RelaySignal, DropSignal, HostNotFound,
          PortOfAnother, NoPort, Receives, Lose
    <3> QED
      BY <2>1, <3>1, RequestStays, ReplyStays DEF WaiterHasCause
  <2>2. CASE h \notin waiting
    <3>1. AskPublic(h)
      BY <2>2
      DEF Next, vars, hosts, HostStep, AskPublic, Restart, Signal, Learn, ReadSignal,
          Handle, ReplyPublic, RelaySignal, DropSignal, HostNotFound, PortOfAnother, NoPort,
          Lose
    <3> DEFINE r == Datagram(h, Server, "getPublic", Unknown, Unknown)
    <3>2. r \in net'
      BY <3>1 DEF AskPublic, SendServer
    <3>3. r.src = h /\ r.kind = "getPublic"
      BY DEF Datagram
    <3>4. Requests(h)' # {}
      BY <3>2, <3>3 DEF Requests
    <3> QED
      BY <3>4 DEF Asked
  <2> QED
    BY <2>1, <2>2
<1> QED
  BY <1>1, <1>2, Invariance, PTL DEF Spec

\* With the fairness of the server and of the host in recvfrom, written without ENABLED,
\* it is answered: request, reply and return follow each other.
THEOREM WaitersReturn == FairSpec => WaiterReturns
<1> SUFFICES ASSUME NEW h \in Hosts
             PROVE  Spec /\ []IInv /\ Attended(h) => (Asked(h) ~> Over(h))
  BY Invariance DEF FairSpec, WaiterReturns, Asked, Over
<1>1. IInv /\ Asked(h) /\ [Next]_vars => Asked(h)' \/ Replied(h)' \/ Over(h)'
  BY RequestStays
<1>2. Asked(h) /\ <<ReplyTo(h)>>_vars => Replied(h)' \/ Over(h)'
  <2> SUFFICES ASSUME Asked(h), NEW m \in Requests(h), ReplyPublic(m)
               PROVE  Replied(h)'
    BY DEF ReplyTo
  <2>1. Datagram(Server, h, "address", Unknown, h) \in net' /\ waiting' = waiting
    BY DEF ReplyPublic, Receives, Arrives, Replies, Requests, hosts
  <2> QED
    BY <2>1 DEF Asked, Replied, Datagram
<1>3. Asked(h) => ReplyDue(h) \/ Over(h)
  BY DEF Asked, ReplyDue, Over
<1>4. IInv /\ Replied(h) /\ [Next]_vars => Replied(h)' \/ Over(h)'
  BY ReplyStays
<1>5. <<Returns(h)>>_vars => Over(h)'
  BY DEF Returns, Learn, Over
<1>6. Replied(h) => DatagramDue(h) \/ Over(h)
  BY DEF Replied, DatagramDue, Over
<1> QED
  BY <1>1, <1>2, <1>3, <1>4, <1>5, <1>6, PTL DEF Spec, Attended
=============================================================================
