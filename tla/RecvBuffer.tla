----------------------------- MODULE RecvBuffer -----------------------------
(***************************************************************************)
(* RecvBuffer of core_functions: a ring of Q_LEN packets under one mutex   *)
(* and one condition variable.  Producers receive a datagram with the      *)
(* mutex held and store it, consumers copy one out.                        *)
(*                                                                         *)
(* A slot holds the packet written to it last, known by a tag.  Of its     *)
(* length in data_len only matters whether it is still the one written:    *)
(* data_len has Q_LEN bytes and not Q_LEN numbers, with recv_buffer        *)
(* allocated behind it, and each may be written over through the other.    *)
(***************************************************************************)
EXTENDS Integers, Sequences

CONSTANTS
  Producers, Consumers,  \* threads that call producer() or consumer() again and again
  Q_LEN,                 \* number of slots
  IntSize,               \* sizeof(int)
  Tags,                  \* what tells packets apart
  Junk,                  \* what a slot holds that no packet, or a damaged one, is in
  Nobody                 \* the mutex is free

ASSUME RecvBufferAssumption ==
  /\ Q_LEN \in Nat \ {0} /\ IntSize \in Nat \ {0}
  /\ Producers \cap Consumers = {} /\ Nobody \notin Producers \cup Consumers
  /\ Junk \notin Tags

VARIABLES
  mu,        \* who has the mutex
  pc,        \* pc[t]: where thread t stands
  next_in,   \* the slot written next
  next_out,  \* the slot to be read next
  occupied,  \* number of packets
  damaged,   \* the slots i with data_len[i] not written yet or written over
  buffer,    \* buffer[i]: the packet in slot i
  copied,    \* the packet a consumer copied last, or its start
  alive      \* is the process running?

vars == <<mu, pc, next_in, next_out, occupied, damaged, buffer, copied, alive>>
ring == <<next_in, next_out, occupied, damaged, buffer>>

Threads == Producers \cup Consumers
Slots == 0..(Q_LEN - 1)
Past == {i \in Slots : i >= Q_LEN \div IntSize}   \* data_len[i] is past its end
Goto(t, at) == pc' = [pc EXCEPT ![t] = at]

-----------------------------------------------------------------------------
\* Seeded fault: a producer may go on when the ring is full.
ReadyFull(t) == IF t \in Producers THEN occupied <= Q_LEN ELSE occupied > 0

\* The predicates of the two waits.
Ready(t) == IF t \in Producers THEN occupied < Q_LEN ELSE occupied > 0

Call(t) ==
  /\ alive /\ pc[t] = "out" /\ Goto(t, "lock")
  /\ UNCHANGED <<mu, ring, copied, alive>>

AtWait(t) == alive /\ pc[t] = "lock" /\ mu = Nobody

\* wait gives the mutex back.
Sleep(t) ==
  /\ AtWait(t) /\ ~Ready(t) /\ Goto(t, "asleep")
  /\ UNCHANGED <<mu, ring, copied, alive>>

\* recvfrom is called with the mutex held.
Enter(p) ==
  /\ p \in Producers /\ AtWait(p) /\ Ready(p)
  /\ mu' = p /\ Goto(p, "recv")
  /\ UNCHANGED <<ring, copied, alive>>

\* The zero after a packet that fills recv_buffer is copied onto the next slot.
Overrun(i, fills) == i = next_in + 1 /\ fills

\* What recvfrom writes may damage lengths past the end of data_len, and the length
\* written there the packet before it is copied to its slot.
Store(p, tag, fills) ==
  /\ alive /\ pc[p] = "recv"
  /\ \E D \in SUBSET Past : damaged' = (damaged \cup D) \ {next_in}
  /\ \E kept \in IF next_in \in Past THEN {tag, Junk} ELSE {tag} :
       buffer' = [i \in Slots |->
         IF i = next_in THEN kept ELSE IF Overrun(i, fills) THEN Junk ELSE buffer[i]]
  /\ occupied' = occupied + 1 /\ next_in' = (next_in + 1) % Q_LEN
  /\ mu' = Nobody /\ Goto(p, "notify")
  /\ UNCHANGED <<next_out, copied, alive>>

\* That zero is written past recv_buffer too: like a length past the end of data_len it
\* may end the process.
Overflow(p, fills) ==
  /\ alive /\ pc[p] = "recv" /\ (fills \/ next_in \in Past)
  /\ alive' = FALSE
  /\ UNCHANGED <<mu, pc, ring, copied>>

\* The lock is given back on return; nobody is notified.  The thread's loop ends.
RecvfromFails(p) ==
  /\ alive /\ pc[p] = "recv"
  /\ mu' = Nobody /\ Goto(p, "ended")
  /\ UNCHANGED <<ring, copied, alive>>

\* Seeded fault: next_out goes by two.
AdvancedTwice(i) == (i + 2) % Q_LEN
Advanced(i) == (i + 1) % Q_LEN

\* Seeded fault: the slot before it.
SourcePrevious == (next_in + Q_LEN - 1) % Q_LEN

\* The slot copied is next_in, for a length that of next_out.
Source == next_in

Consume(c) ==
  /\ c \in Consumers /\ AtWait(c) /\ Ready(c)
  /\ copied' \in IF next_out \in damaged THEN {buffer[Source], Junk} ELSE {buffer[Source]}
  /\ occupied' = occupied - 1 /\ next_out' = Advanced(next_out)
  /\ Goto(c, "notify")
  /\ UNCHANGED <<mu, next_in, damaged, buffer, alive>>

\* With a damaged length more may be copied than the buffers have.
Overcopy(c) ==
  /\ c \in Consumers /\ AtWait(c) /\ Ready(c) /\ next_out \in damaged
  /\ alive' = FALSE
  /\ UNCHANGED <<mu, pc, ring, copied>>

\* Seeded fault: notify_one.
WokenOne(S) == {{t} : t \in S} \cup (IF S = {} THEN {{}} ELSE {})
Woken(S) == {S}

Notify(t) ==
  /\ alive /\ pc[t] = "notify"
  /\ \E W \in Woken({s \in Threads : pc[s] = "asleep"}) :
       pc' = [s \in Threads |-> IF s = t THEN "out" ELSE IF s \in W THEN "lock" ELSE pc[s]]
  /\ UNCHANGED <<mu, ring, copied, alive>>

-----------------------------------------------------------------------------
Init ==
  /\ mu = Nobody /\ pc = [t \in Threads |-> "out"]
  /\ next_in = 0 /\ next_out = 0 /\ occupied = 0
  /\ damaged = Slots /\ buffer = [i \in Slots |-> Junk]
  /\ copied = Junk /\ alive = TRUE

Receives(p) == \E tag \in Tags, fills \in BOOLEAN : Store(p, tag, fills)

Next ==
  \/ \E t \in Threads : Call(t) \/ Sleep(t) \/ Notify(t)
  \/ \E p \in Producers :
       \/ Enter(p) \/ Receives(p) \/ RecvfromFails(p)
       \/ \E fills \in BOOLEAN : Overflow(p, fills)
  \/ \E c \in Consumers : Consume(c) \/ Overcopy(c)

Spec == Init /\ [][Next]_vars

\* The threads go on, but for a producer in recvfrom: a datagram need not come.  Nobody
\* is promised the mutex when others want it.
FairSpec ==
  /\ Spec
  /\ \A t \in Threads : WF_vars(Call(t)) /\ WF_vars(Sleep(t)) /\ WF_vars(Notify(t))
  /\ \A p \in Producers : WF_vars(Enter(p))
  /\ \A c \in Consumers : WF_vars(Consume(c))

-----------------------------------------------------------------------------
(* Properties.                                                             *)

\* Each variable has its type.
TypeOK ==
  /\ mu \in Producers \cup {Nobody}
  /\ pc \in [Threads -> {"out", "lock", "asleep", "recv", "notify", "ended"}]
  /\ next_in \in Slots /\ next_out \in Slots /\ occupied \in 0..Q_LEN
  /\ damaged \subseteq Slots
  /\ buffer \in [Slots -> Tags \cup {Junk}]
  /\ copied \in Tags \cup {Junk}
  /\ alive \in BOOLEAN

\* No wakeup is lost although producers and consumers sleep on one condition
\* variable and the failing return of producer() wakes nobody: a thread sleeps with
\* its predicate true only while another is about to notify.
NoLostWakeup ==
  \A t \in Threads :
    pc[t] = "asleep" /\ Ready(t) => \E s \in Threads : pc[s] = "notify"

\* A consumer gets the oldest packet when the ring is full and its length undamaged,
\* although it copies the slot the producers write next: when the ring is not full, it
\* gets one that is not queued.
Queued(i) == \E k \in 0..(occupied - 1) : i = (next_out + k) % Q_LEN
FullGivesOldest ==
  [][\A c \in Consumers : Consume(c) =>
       IF occupied # Q_LEN THEN ~Queued(Source)
       ELSE next_out \notin damaged => copied' = buffer[next_out]]_vars

\* The packets inside, the oldest first.
PacketsInside == [k \in 1..occupied |-> buffer[(next_out + k - 1) % Q_LEN]]

\* The ring counts packets as a bounded queue does, whatever happens to the lengths, and
\* the consumers go on taking them out, except while a producer waits in recvfrom.
Abstract == INSTANCE PacketQueue WITH
              Capacity <- Q_LEN, Packets <- Tags, Damaged <- Junk,
              queue <- PacketsInside, given <- copied, receiving <- (mu # Nobody), up <- alive
ImplementsQueue == Abstract!FairSpec
=============================================================================
