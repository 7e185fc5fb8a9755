----------------------------- MODULE Signaller -----------------------------
(***************************************************************************)
(* The UDP half of TURN_Signal_server.cpp and the hosts that use it: a     *)
(* host asks for its public address (get_signaller_public_ip_port), gives  *)
(* what it learns to others, and is sent their signals through the server  *)
(* (send_to_signal_public_ip, read_from_signal_public_ip).  Datagrams get  *)
(* lost, overtake each other and come twice; no call repeats a request.    *)
(***************************************************************************)
EXTENDS Naturals

CONSTANTS
  Hosts,     \* hosts, each with one socket; also its public ip:port
  Texts,     \* what hosts signal to each other
  Hostlike,  \* the texts that read as a name and a port: "name:80"
  Server,    \* the signalling server's address
  Unknown,   \* no address
  MaxSent    \* bound: datagrams the hosts send

ASSUME SignallerAssumption ==
  /\ Hostlike \subseteq Texts /\ Hosts \cap Texts = {}
  /\ Server \notin Hosts \cup Texts /\ Unknown \notin Hosts \cup Texts
  /\ MaxSent \in Nat

VARIABLES
  alive,    \* is the server's process running?
  net,      \* datagrams on their way: [src, dst, kind, to, body]
  waiting,  \* hosts inside get_signaller_public_ip_port
  given,    \* what hosts took for their address and, outside this code, gave to others
  sent,     \* number of datagrams the hosts sent
  lost,     \* history: has a datagram been lost?
  raced,    \* history: has a TCP thread's strtok come between two of the loop's?
  mistaken  \* history: has a host taken a signal for its address?

vars == <<alive, net, waiting, given, sent, lost, raced, mistaken>>
hosts == <<waiting, given, sent, mistaken>>

Datagram(src, dst, kind, to, body) ==
  [src |-> src, dst |-> dst, kind |-> kind, to |-> to, body |-> body]

-----------------------------------------------------------------------------
(* The hosts.                                                              *)

SendServer(h, kind, to, body) ==
  /\ alive /\ sent < MaxSent /\ sent' = sent + 1
  /\ net' = net \cup {Datagram(h, Server, kind, to, body)}

\* get_signaller_public_ip_port sends its request ...
AskPublic(h) ==
  /\ h \notin waiting
  /\ SendServer(h, "getPublic", Unknown, Unknown)
  /\ waiting' = waiting \cup {h}
  /\ UNCHANGED <<alive, given, lost, raced, mistaken>>

\* Another copy of a datagram that arrives may still be on its way.
Arrives(m, at, out) ==
  /\ alive /\ m \in net /\ m.dst = at
  /\ \E rest \in {net, net \ {m}} : net' = rest \cup out

\* ... and returns whatever datagram comes next, "TODO timeout".
Learn(h, m) ==
  /\ h \in waiting /\ Arrives(m, h, {})
  /\ waiting' = waiting \ {h}
  /\ given' = given \cup {m.body}
  /\ mistaken' = (mistaken \/ m.kind = "text")
  /\ UNCHANGED <<alive, sent, lost, raced>>

Signal(h, a, text) ==
  /\ h \notin waiting /\ a \in given
  /\ SendServer(h, "signal", a, text)
  /\ UNCHANGED <<alive, waiting, given, lost, raced, mistaken>>

ReadSignal(h, m) ==
  /\ h \notin waiting /\ Arrives(m, h, {})
  /\ UNCHANGED <<alive, waiting, given, sent, lost, raced, mistaken>>

\* The program starts again, on the same port.
Restart(h) ==
  /\ alive /\ h \in waiting
  /\ waiting' = waiting \ {h}
  /\ UNCHANGED <<alive, net, given, sent, lost, raced, mistaken>>

-----------------------------------------------------------------------------
(* setupUDPserver.                                                         *)

Receives(m, out) == Arrives(m, Server, out)

\* Seeded faults: the reply goes to the hosts of other requests as well (one address
\* for all); it is appended to the last one; it is not sent.
RepliesShared(m) == {Datagram(Server, h, "address", Unknown, m.src) : h \in waiting}
RepliesAppended(m) == {Datagram(Server, m.src, "address", Unknown, t) : t \in Hostlike}
RepliesNever(m) == {}

\* The source of the datagram, to the source.
Replies(m) == {Datagram(Server, m.src, "address", Unknown, m.src)}

ReplyPublic(m) ==
  /\ Receives(m, Replies(m)) /\ m.kind = "getPublic"
  /\ UNCHANGED <<alive, lost, raced>> /\ UNCHANGED hosts

Resolved(a) == a \in Hosts

\* Seeded fault: the address is not cut off.
RelayedWhole(m, h) == {Datagram(Server, h, "text", Unknown, <<m.to, m.body>>)}
Relayed(m, h) == {Datagram(Server, h, "text", Unknown, m.body)}

RelaySignal(m) ==
  /\ Receives(m, Relayed(m, m.to)) /\ m.kind = "signal" /\ Resolved(m.to)
  /\ UNCHANGED <<alive, lost, raced>> /\ UNCHANGED hosts

WellFormed(a) == a \in Hosts \cup Hostlike

\* No colon, one at an end, or a port that is not a number.
DropSignal(m) ==
  /\ Receives(m, {}) /\ m.kind = "signal" /\ ~WellFormed(m.to)
  /\ UNCHANGED <<alive, lost, raced>> /\ UNCHANGED hosts

\* gethostbyname finds no such host: the null pointer is followed.
HostNotFound(m) ==
  /\ Receives(m, {}) /\ m.kind = "signal" /\ WellFormed(m.to) /\ ~Resolved(m.to)
  /\ alive' = FALSE
  /\ UNCHANGED <<lost, raced>> /\ UNCHANGED hosts

\* A thread of the TCP half calls strtok between the two calls that split the
\* address: the port is a word of its text, or null and strcpy faults.
PortOfAnother(m) ==
  /\ m.kind = "signal" /\ Resolved(m.to)
  /\ Receives(m, {}) \/ \E h \in Hosts : Receives(m, Relayed(m, h))
  /\ raced' = TRUE
  /\ UNCHANGED <<alive, lost>> /\ UNCHANGED hosts

NoPort(m) ==
  /\ Receives(m, {}) /\ m.kind = "signal" /\ WellFormed(m.to)
  /\ alive' = FALSE /\ raced' = TRUE
  /\ UNCHANGED lost /\ UNCHANGED hosts

-----------------------------------------------------------------------------
(* The network.                                                            *)

Lose(m) ==
  /\ alive /\ m \in net /\ net' = net \ {m} /\ lost' = TRUE
  /\ UNCHANGED <<alive, raced>> /\ UNCHANGED hosts

-----------------------------------------------------------------------------
Init ==
  /\ alive = TRUE /\ net = {} /\ waiting = {} /\ given = {}
  /\ sent = 0 /\ lost = FALSE /\ raced = FALSE /\ mistaken = FALSE

HostStep(h) ==
  \/ AskPublic(h) \/ Restart(h)
  \/ \E a \in given, text \in Texts : Signal(h, a, text)
  \/ \E m \in net : Learn(h, m) \/ ReadSignal(h, m)

Handle(m) ==
  ReplyPublic(m) \/ RelaySignal(m) \/ DropSignal(m) \/ HostNotFound(m)
    \/ PortOfAnother(m) \/ NoPort(m)

Next ==
  \/ \E h \in Hosts : HostStep(h)
  \/ \E m \in net : Handle(m) \/ Lose(m)

Spec == Init /\ [][Next]_vars

Requests(h) == {m \in net : m.src = h /\ m.kind = "getPublic"}

ReplyDue(h) == alive /\ Requests(h) # {}
ReplyTo(h) == \E m \in Requests(h) : ReplyPublic(m)

DatagramDue(h) == alive /\ h \in waiting /\ \E m \in net : m.dst = h
Returns(h) == \E m \in net : Learn(h, m)

\* The server handles each datagram, and a host in recvfrom gets what comes: weak
\* fairness of the two actions, with what enables each of them written out.
Attended(h) ==
  /\ []<>~ReplyDue(h) \/ []<><<ReplyTo(h)>>_vars
  /\ []<>~DatagramDue(h) \/ []<><<Returns(h)>>_vars

FairSpec == Spec /\ \A h \in Hosts : Attended(h)

-----------------------------------------------------------------------------
(* Properties.                                                             *)

Words == Hosts \cup Texts

\* Each variable has its type.
TypeOK ==
  /\ alive \in BOOLEAN /\ lost \in BOOLEAN /\ raced \in BOOLEAN
  /\ net \subseteq [src : Hosts \cup {Server}, dst : Hosts \cup {Server},
                    kind : {"getPublic", "signal", "address", "text"},
                    to : Words \cup {Unknown}, body : Words \cup {Unknown}]
  /\ waiting \subseteq Hosts /\ mistaken \in BOOLEAN
  /\ given \subseteq Words
  /\ sent \in 0..MaxSent

\* What get_signaller_public_ip_port returns is the host's own although it
\* takes any datagram for the reply, as long as no earlier run of the host gave
\* that address to others: a late signal is taken for the reply then.
LearnsOwnAddress ==
  [][\A h \in Hosts : \A m \in net :
       Learn(h, m) /\ ~raced => m.body = h \/ h \in given]_vars

\* The server follows a null host entry only after some host has taken a signal for
\* its address and passed it on, or the two strtok calls were separated: the
\* addresses it hands out itself always resolve.
DiesByMistake == ~alive => raced \/ mistaken

\* A host that waits for its address gets one, although nothing is sent twice and no
\* call times out, if the network loses nothing and the server lives.
WaiterReturns ==
  \A h \in Hosts :
    h \in waiting /\ Requests(h) # {} ~> h \notin waiting \/ lost \/ ~alive
=============================================================================
