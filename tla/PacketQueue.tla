----------------------------- MODULE PacketQueue -----------------------------
(***************************************************************************)
(* What RecvBuffer keeps of its promise to be a bounded queue of packets:  *)
(* one goes in at the end and one is dropped at the front at a time.  What *)
(* is handed out when one is dropped is that one only if the queue is      *)
(* full, and nothing is handed out while a packet is awaited.              *)
(***************************************************************************)
EXTENDS Naturals, Sequences

CONSTANTS
  Capacity,  \* packets it has room for
  Packets,
  Damaged    \* in the place of a packet: a damaged one, or none

VARIABLES
  queue,      \* the packets inside, the oldest first
  given,      \* what was handed out last
  receiving,  \* is a packet awaited?
  up          \* is the process running?

Wait ==
  /\ up /\ ~receiving /\ Len(queue) < Capacity
  /\ receiving' = TRUE /\ UNCHANGED <<queue, given, up>>

\* The packet that fills the queue may damage the oldest one.
Put(packet) ==
  /\ up /\ receiving /\ receiving' = FALSE
  /\ \/ queue' = Append(queue, packet)
     \/ /\ Len(queue) + 1 = Capacity /\ queue # <<>>
        /\ queue' = [Append(queue, packet) EXCEPT ![1] = Damaged]
  /\ UNCHANGED <<given, up>>

Fail ==
  /\ up /\ receiving /\ receiving' = FALSE
  /\ UNCHANGED <<queue, given, up>>

Get ==
  /\ up /\ ~receiving /\ queue # <<>>
  /\ queue' = Tail(queue)
  /\ given' \in IF Len(queue) = Capacity THEN {Head(queue), Damaged} ELSE Packets \cup {Damaged}
  /\ UNCHANGED <<receiving, up>>

Stop == up /\ up' = FALSE /\ UNCHANGED <<queue, given, receiving>>

Init == queue = <<>> /\ given = Damaged /\ receiving = FALSE /\ up = TRUE
Next == Wait \/ (\E packet \in Packets \cup {Damaged} : Put(packet)) \/ Fail \/ Get \/ Stop

Spec == Init /\ [][Next]_<<queue, given, receiving, up>>
FairSpec == Spec /\ WF_<<queue, given, receiving, up>>(Get)
=============================================================================
