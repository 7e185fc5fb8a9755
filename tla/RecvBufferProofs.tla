-------------------------- MODULE RecvBufferProofs --------------------------
(***************************************************************************)
(* Proofs about RecvBuffer for any number of threads, slots and packets.   *)
(***************************************************************************)
EXTENDS RecvBuffer, SequenceTheorems, TLAPS

\* recvfrom is called with the mutex held, and with room for its packet.
Exclusion ==
  \A p \in Producers :
    /\ pc[p] = "recv" <=> mu = p
    /\ pc[p] = "recv" => occupied < Q_LEN

\* Where next_in stands, as a sum without modulo.
Around == next_out + occupied = next_in \/ next_out + occupied = next_in + Q_LEN

IInv == TypeOK /\ Exclusion /\ Around

-----------------------------------------------------------------------------
(* The ring's arithmetic.                                                  *)

\* Below twice the number of slots, modulo is at most one subtraction.
LEMMA Modulo ==
  ASSUME NEW n \in Nat, n < 2 * Q_LEN
  PROVE  n % Q_LEN = IF n < Q_LEN THEN n ELSE n - Q_LEN
<1>1. Q_LEN \in Nat /\ Q_LEN > 0
  BY RecvBufferAssumption
<1>2. CASE n < Q_LEN
  BY <1>1, <1>2
<1>3. CASE n >= Q_LEN
  <2> DEFINE q == n \div Q_LEN
             m == n % Q_LEN
  <2>1. q \in Int /\ m \in 0..(Q_LEN - 1) /\ n = Q_LEN * q + m
    BY <1>1
  <2> HIDE DEF q, m
  <2>2. q < 2
    <3> SUFFICES ASSUME q >= 2 PROVE FALSE
      BY <2>1
    <3>1. Q_LEN * q >= 2 * Q_LEN
      BY <1>1, <2>1
    <3> QED
      BY <1>1, <2>1, <3>1
  <2>3. q > 0
    <3> SUFFICES ASSUME q <= 0 PROVE FALSE
      BY <2>1
    <3>1. Q_LEN * q <= 0
      BY <1>1, <2>1
    <3> QED
      BY <1>1, <1>3, <2>1, <3>1
  <2>4. q = 1
    BY <2>1, <2>2, <2>3
  <2> QED
    BY <1>1, <1>3, <2>1, <2>4 DEF m
<1> QED
  BY <1>1, <1>2, <1>3

\* The slot after a slot.
LEMMA NextSlot ==
  ASSUME NEW i \in Slots
  PROVE  /\ (i + 1) % Q_LEN = IF i = Q_LEN - 1 THEN 0 ELSE i + 1
         /\ (i + 1) % Q_LEN \in Slots
<1>1. Q_LEN \in Nat /\ Q_LEN > 0 /\ i \in Nat /\ i < Q_LEN
  BY RecvBufferAssumption DEF Slots
<1>2. (i + 1) % Q_LEN = IF i + 1 < Q_LEN THEN i + 1 ELSE i + 1 - Q_LEN
  BY <1>1, Modulo
<1> QED
  BY <1>1, <1>2 DEF Slots

-----------------------------------------------------------------------------
(* The inductive invariant.                                                *)

\* The invariant holds of a new RecvBuffer ...
LEMMA InitIInv == Init => IInv
<1> SUFFICES ASSUME Init
             PROVE  IInv
  OBVIOUS
<1>1. Q_LEN \in Nat \ {0} /\ 0 \in Slots
  BY RecvBufferAssumption DEF Slots
<1>2. TypeOK
  <2>1. alive \in BOOLEAN
    BY DEF Init
  <2> QED
    BY <1>1, <2>1 DEF Init, TypeOK
<1>3. Exclusion
  BY RecvBufferAssumption DEF Init, Exclusion, Threads
<1>4. Around
  BY <1>1 DEF Init, Around
<1> QED
  BY <1>2, <1>3, <1>4 DEF IInv

\* ... and each step preserves it.
LEMMA StepIInv == IInv /\ [Next]_vars => IInv'
<1> SUFFICES ASSUME IInv, [Next]_vars
             PROVE  IInv'
  OBVIOUS
<1> USE RecvBufferAssumption DEF Threads, Goto
<1>0. /\ Q_LEN \in Nat \ {0} /\ next_in \in Slots /\ next_out \in Slots /\ occupied \in 0..Q_LEN
      /\ \A i \in Slots : i \in Nat /\ i < Q_LEN
  BY DEF IInv, TypeOK, Slots
<1>1. alive' \in BOOLEAN
  <2>1. UNCHANGED alive \/ alive' = FALSE
    BY DEF Next, Call, Sleep, Notify, Enter, Receives, Store, RecvfromFails, Overflow,
           Consume, Overcopy, vars
  <2>2. alive \in BOOLEAN
    BY DEF IInv, TypeOK
  <2> QED
    BY <2>1, <2>2
<1>2. ASSUME NEW t \in Threads, Call(t) \/ Sleep(t)
      PROVE  IInv'
  <2>1. /\ UNCHANGED <<mu, next_in, next_out, occupied, damaged, buffer, copied>>
        /\ pc[t] # "recv" /\ \E at \in {"lock", "asleep"} : pc' = [pc EXCEPT ![t] = at]
    BY <1>2 DEF Call, Sleep, AtWait, ring
  <2> QED
    BY <1>1, <2>1 DEF IInv, TypeOK, Exclusion, Around, Slots
<1>3. ASSUME NEW t \in Threads, Notify(t)
      PROVE  IInv'
  <2>1. /\ UNCHANGED <<mu, next_in, next_out, occupied, damaged, buffer, copied>>
        /\ pc' \in [Threads -> {"out", "lock", "asleep", "recv", "notify", "ended"}]
        /\ \A s \in Threads : pc'[s] = "recv" <=> pc[s] = "recv"
    BY <1>3 DEF Notify, Woken, ring, IInv, TypeOK
  <2> QED
    BY <1>1, <2>1 DEF IInv, TypeOK, Exclusion, Around, Slots
<1>4. ASSUME NEW p \in Producers, Enter(p)
      PROVE  IInv'
  <2>1. /\ UNCHANGED <<next_in, next_out, occupied, damaged, buffer, copied>>
        /\ mu = Nobody /\ occupied < Q_LEN /\ mu' = p /\ pc' = [pc EXCEPT ![p] = "recv"]
    BY <1>4 DEF Enter, AtWait, Ready, ring
  <2> QED
    BY <1>1, <2>1 DEF IInv, TypeOK, Exclusion, Around, Slots
<1>5. ASSUME NEW p \in Producers, NEW tag \in Tags, NEW fills \in BOOLEAN,
             Store(p, tag, fills)
      PROVE  IInv'
  <2>1. /\ UNCHANGED <<next_out, copied>> /\ pc[p] = "recv" /\ mu = p
        /\ mu' = Nobody /\ pc' = [pc EXCEPT ![p] = "notify"]
        /\ occupied' = occupied + 1 /\ next_in' = (next_in + 1) % Q_LEN /\ occupied < Q_LEN
    BY <1>5 DEF Store, IInv, Exclusion
  <2>2. /\ damaged' \subseteq Slots
        /\ buffer' \in [Slots -> Tags \cup {Junk}]
    BY <1>0, <1>5 DEF Store, Past, IInv, TypeOK
  <2>3. next_in' \in Slots /\ next_in' = IF next_in = Q_LEN - 1 THEN 0 ELSE next_in + 1
    BY <1>0, <2>1, NextSlot
  <2>4. TypeOK'
    BY <1>0, <1>1, <2>1, <2>2, <2>3 DEF IInv, TypeOK
  <2>5. Exclusion'
    BY <2>1 DEF IInv, TypeOK, Exclusion
  <2>6. Around'
    BY <1>0, <2>1, <2>3 DEF IInv, Around
  <2> QED
    BY <2>4, <2>5, <2>6 DEF IInv
<1>6. ASSUME NEW p \in Producers, RecvfromFails(p)
      PROVE  IInv'
  <2>1. /\ UNCHANGED <<next_in, next_out, occupied, damaged, buffer, copied>>
        /\ pc[p] = "recv" /\ mu = p /\ mu' = Nobody /\ pc' = [pc EXCEPT ![p] = "ended"]
    BY <1>6 DEF RecvfromFails, ring, IInv, Exclusion
  <2> QED
    BY <1>1, <2>1 DEF IInv, TypeOK, Exclusion, Around, Slots
<1>7. ASSUME NEW p \in Producers, NEW fills \in BOOLEAN, Overflow(p, fills)
      PROVE  IInv'
  <2>1. UNCHANGED <<mu, pc, next_in, next_out, occupied, damaged, buffer, copied>>
    BY <1>7 DEF Overflow, ring
  <2> QED
    BY <1>1, <2>1 DEF IInv, TypeOK, Exclusion, Around, Slots
<1>8. ASSUME NEW c \in Consumers, Consume(c)
      PROVE  IInv'
  <2>1. /\ UNCHANGED <<mu, next_in, damaged, buffer>> /\ mu = Nobody
        /\ pc' = [pc EXCEPT ![c] = "notify"] /\ occupied > 0
        /\ occupied' = occupied - 1 /\ next_out' = (next_out + 1) % Q_LEN
        /\ copied' \in {buffer[next_in], Junk}
    BY <1>8 DEF Consume, AtWait, Ready, Advanced, Source
  <2>2. next_out' \in Slots /\ next_out' = IF next_out = Q_LEN - 1 THEN 0 ELSE next_out + 1
    BY <1>0, <2>1, NextSlot
  <2>3. copied' \in Tags \cup {Junk}
    BY <1>0, <2>1 DEF IInv, TypeOK
  <2>4. TypeOK'
    BY <1>0, <1>1, <2>1, <2>2, <2>3 DEF IInv, TypeOK
  <2>5. Exclusion'
    BY <1>0, <2>1 DEF IInv, TypeOK, Exclusion
  <2>6. Around'
    BY <1>0, <2>1, <2>2 DEF IInv, Around
  <2> QED
    BY <2>4, <2>5, <2>6 DEF IInv
<1>9. CASE UNCHANGED vars \/ \E c \in Consumers : Overcopy(c)
  <2>1. UNCHANGED <<mu, pc, next_in, next_out, occupied, damaged, buffer, copied>>
    BY <1>9 DEF vars, Overcopy, ring
  <2> QED
    BY <1>1, <2>1 DEF IInv, TypeOK, Exclusion, Around, Slots
<1> QED
  BY <1>2, <1>3, <1>4, <1>5, <1>6, <1>7, <1>8, <1>9 DEF Next, Receives

-----------------------------------------------------------------------------
(* The theorems.                                                           *)

\* The inductive invariant: the counters agree with each other, and the one thread
\* inside recvfrom has the mutex and room for its packet.
THEOREM Invariance == Spec => []IInv
BY InitIInv, StepIInv, PTL DEF Spec

\* Type correctness: next_in and next_out stay slots and never more than Q_LEN packets
\* are counted, whichever threads come between a wait and its return.
THEOREM TypeCorrect == Spec => []TypeOK
<1>1. IInv => TypeOK
  BY DEF IInv
<1> QED
  BY <1>1, Invariance, PTL

\* No wakeup is lost on the shared condition variable, for any number of threads: a
\* step that makes a predicate true is that of a thread about to notify all.
THEOREM WakeupsReachEveryone == Spec => []NoLostWakeup
<1> USE DEF Threads, Goto
<1>1. Init => NoLostWakeup
  BY DEF Init, NoLostWakeup
<1>2. IInv /\ NoLostWakeup /\ [Next]_vars => NoLostWakeup'
  <2> SUFFICES ASSUME IInv, NoLostWakeup, [Next]_vars
               PROVE  NoLostWakeup'
    OBVIOUS
  <2>0. pc \in [Threads -> {"out", "lock", "asleep", "recv", "notify", "ended"}]
    BY DEF IInv, TypeOK
  <2>1. ASSUME NEW t \in Threads, Call(t)
        PROVE  NoLostWakeup'
    BY <2>0, <2>1 DEF Call, ring, NoLostWakeup, Ready
  <2>2. ASSUME NEW t \in Threads, Sleep(t)
        PROVE  NoLostWakeup'
    BY <2>0, <2>2 DEF Sleep, AtWait, ring, NoLostWakeup, Ready
  <2>3. ASSUME NEW t \in Threads, Notify(t)
        PROVE  NoLostWakeup'
    BY <2>0, <2>3 DEF Notify, Woken, NoLostWakeup
  <2>4. ASSUME NEW p \in Producers, Enter(p)
        PROVE  NoLostWakeup'
    BY <2>0, <2>4 DEF Enter, AtWait, ring, NoLostWakeup, Ready
  <2>5. ASSUME NEW p \in Producers, NEW tag \in Tags, NEW fills \in BOOLEAN,
               Store(p, tag, fills)
        PROVE  NoLostWakeup'
    BY <2>0, <2>5 DEF Store, NoLostWakeup
  <2>6. ASSUME NEW p \in Producers, RecvfromFails(p)
        PROVE  NoLostWakeup'
    BY <2>0, <2>6 DEF RecvfromFails, ring, NoLostWakeup, Ready
  <2>7. ASSUME NEW p \in Producers, NEW fills \in BOOLEAN, Overflow(p, fills)
        PROVE  NoLostWakeup'
    BY <2>7 DEF Overflow, ring, NoLostWakeup, Ready
  <2>8. ASSUME NEW c \in Consumers, Consume(c)
        PROVE  NoLostWakeup'
    BY <2>0, <2>8 DEF Consume, NoLostWakeup
  <2>9. CASE UNCHANGED vars \/ \E c \in Consumers : Overcopy(c)
    BY <2>9 DEF vars, Overcopy, ring, NoLostWakeup, Ready
  <2> QED
    BY <2>1, <2>2, <2>3, <2>4, <2>5, <2>6, <2>7, <2>8, <2>9 DEF Next, Receives
<1> QED
  BY <1>1, <1>2, Invariance, PTL DEF Spec

\* A thread one of whose steps can be taken: it is outside, in recvfrom, about to notify,
\* or at the mutex when that is free.
CanMove(t) == pc[t] \in {"out", "recv", "notify"} \/ (pc[t] = "lock" /\ mu = Nobody)

\* While a producer has not returned with an error the mutex and the condition variable
\* never keep everybody waiting: a producer and a consumer sleep together only when one
\* is about to notify, and who holds the mutex is in recvfrom.
SomebodyCanMove ==
  \A p \in Producers, c \in Consumers :
    pc[p] # "ended" => \E t \in Threads : CanMove(t)

\* Under any schedule of the producers and consumers (core_functions.cpp) and for any
\* number of each, some thread can take a step.
THEOREM NobodyIsStuck == Spec => []SomebodyCanMove
<1>1. ASSUME IInv, NoLostWakeup, NEW p \in Producers, NEW c \in Consumers, pc[p] # "ended",
             pc[c] # "ended"
      PROVE  \E t \in Threads : CanMove(t)
  <2>1. CASE mu # Nobody
    <3>1. mu \in Threads /\ pc[mu] = "recv"
      BY <1>1, <2>1 DEF IInv, TypeOK, Exclusion, Threads
    <3> QED
      BY <3>1 DEF CanMove
  <2>2. CASE mu = Nobody /\ \E t \in {p, c} : pc[t] # "asleep"
    BY <1>1, <2>2 DEF IInv, TypeOK, Threads, CanMove
  <2>3. CASE pc[p] = "asleep" /\ pc[c] = "asleep"
    <3>1. Ready(p) \/ Ready(c)
      BY <1>1, RecvBufferAssumption DEF Ready, IInv, TypeOK
    <3> QED
      BY <1>1, <2>3, <3>1 DEF NoLostWakeup, CanMove, Threads
  <2> QED
    BY <2>1, <2>2, <2>3
<1>2. Init => \A c \in Consumers : pc[c] # "ended"
  BY DEF Init, Threads
<1>3. IInv /\ (\A c \in Consumers : pc[c] # "ended") /\ [Next]_vars =>
        (\A c \in Consumers : pc[c] # "ended")'
  BY RecvBufferAssumption
  DEF IInv, TypeOK, Threads, Goto, Next, vars, Call, Sleep, Notify, Woken, Enter, Receives,
      Store, RecvfromFails, Overflow, Consume, Overcopy
<1>4. IInv /\ NoLostWakeup /\ (\A c \in Consumers : pc[c] # "ended") => SomebodyCanMove
  BY <1>1 DEF SomebodyCanMove
<1> QED
  BY <1>2, <1>3, <1>4, Invariance, WakeupsReachEveryone, PTL DEF Spec

\* consumer() copies the slot of next_in: the oldest packet's when the ring is full,
\* and one of no queued packet otherwise.
THEOREM OldestOnlyWhenFull == Spec => FullGivesOldest
<1>1. IInv /\ [Next]_vars =>
        [\A c \in Consumers : Consume(c) =>
           IF occupied # Q_LEN THEN ~Queued(Source)
           ELSE next_out \notin damaged => copied' = buffer[next_out]]_vars
  <2> SUFFICES ASSUME IInv, NEW c \in Consumers, Consume(c)
               PROVE  IF occupied # Q_LEN THEN ~Queued(Source)
                      ELSE next_out \notin damaged => copied' = buffer[next_out]
    OBVIOUS
  <2>1. /\ Q_LEN \in Nat \ {0} /\ occupied \in 0..Q_LEN
        /\ next_in \in 0..(Q_LEN - 1) /\ next_out \in 0..(Q_LEN - 1)
    BY RecvBufferAssumption DEF IInv, TypeOK, Slots
  <2>2. CASE occupied = Q_LEN
    <3>1. next_in = next_out
      BY <2>1, <2>2 DEF IInv, Around
    <3> QED
      BY <2>2, <3>1 DEF Consume, Source
  <2>3. CASE occupied # Q_LEN
    <3> SUFFICES ASSUME NEW k \in 0..(occupied - 1), next_in = (next_out + k) % Q_LEN
                 PROVE  FALSE
      BY <2>3 DEF Queued, Source
    <3>1. next_in = IF next_out + k < Q_LEN THEN next_out + k ELSE next_out + k - Q_LEN
      BY <2>1, Modulo
    <3> QED
      BY <2>1, <2>3, <3>1 DEF IInv, Around
  <2> QED
    BY <2>2, <2>3
<1> QED
  BY <1>1, Invariance, PTL DEF Spec, FullGivesOldest

-----------------------------------------------------------------------------
(* The ring implements the queue.                                          *)

\* The slot of the k-th packet inside.
Slot(k) == (next_out + k - 1) % Q_LEN

\* PacketsInside is a sequence, and its k-th slot is found by one subtraction.
InsideFacts ==
  /\ PacketsInside \in Seq(Tags \cup {Junk}) /\ Len(PacketsInside) = occupied
  /\ \A k \in 1..Q_LEN :
       /\ Slot(k) \in Slots
       /\ Slot(k) = IF next_out + k - 1 < Q_LEN THEN next_out + k - 1
                    ELSE next_out + k - 1 - Q_LEN

LEMMA Inside == IInv => InsideFacts
<1> SUFFICES ASSUME IInv
             PROVE  InsideFacts
  OBVIOUS
<1>1. /\ Q_LEN \in Nat \ {0} /\ occupied \in 0..Q_LEN
      /\ next_out \in 0..(Q_LEN - 1) /\ buffer \in [Slots -> Tags \cup {Junk}]
  BY RecvBufferAssumption DEF IInv, TypeOK, Slots
<1>2. ASSUME NEW k \in 1..Q_LEN
      PROVE  Slot(k) \in Slots /\ Slot(k) = IF next_out + k - 1 < Q_LEN
               THEN next_out + k - 1 ELSE next_out + k - 1 - Q_LEN
  <2>1. next_out + k - 1 \in Nat /\ next_out + k - 1 < 2 * Q_LEN
    BY <1>1
  <2>2. (next_out + k - 1) % Q_LEN = IF next_out + k - 1 < Q_LEN THEN next_out + k - 1
                                     ELSE next_out + k - 1 - Q_LEN
    <3> DEFINE n == next_out + k - 1
    <3>1. n \in Nat /\ n < 2 * Q_LEN
      BY <2>1
    <3> HIDE DEF n
    <3>2. n % Q_LEN = IF n < Q_LEN THEN n ELSE n - Q_LEN
      BY <3>1, Modulo
    <3> QED
      BY <1>1, <3>2 DEF n
  <2> QED
    BY <1>1, <2>1, <2>2 DEF Slot, Slots
<1>3. PacketsInside \in [1..occupied -> Tags \cup {Junk}]
  <2>1. ASSUME NEW k \in 1..occupied
        PROVE  buffer[(next_out + k - 1) % Q_LEN] \in Tags \cup {Junk}
    <3>1. k \in 1..Q_LEN
      BY <1>1
    <3> QED
      BY <1>1, <1>2, <3>1 DEF Slot
  <2> QED
    BY <2>1 DEF PacketsInside
<1>4. PacketsInside \in Seq(Tags \cup {Junk})
  <2>1. occupied \in Nat
    BY <1>1
  <2> QED
    BY <1>3, <2>1, SeqDef, Zenon
<1>5. Len(PacketsInside) = occupied
  BY <1>1, <1>3, <1>4, LenProperties
<1> QED
  BY <1>2, <1>4, <1>5 DEF InsideFacts

\* The same of the next state.
LEMMA InsideNext == IInv' => InsideFacts'
BY Inside, PTL

\* Storing a packet appends it, damaged or not: the only slot of a queued packet that may
\* be written is that of the oldest one, by a packet that makes the ring full.
LEMMA StoreAppends ==
  ASSUME IInv, IInv', NEW p \in Producers, NEW tag \in Tags, NEW fills \in BOOLEAN,
         Store(p, tag, fills)
  PROVE  \E packet \in Tags \cup {Junk} :
           \/ PacketsInside' = Append(PacketsInside, packet)
           \/ /\ occupied + 1 = Q_LEN /\ PacketsInside # <<>>
              /\ PacketsInside' = [Append(PacketsInside, packet) EXCEPT ![1] = Junk]
<1>1. UNCHANGED next_out /\ occupied < Q_LEN /\ occupied' = occupied + 1
  BY DEF Store, IInv, Exclusion
<1>2. PICK packet \in Tags \cup {Junk} :
        buffer' = [i \in Slots |->
          IF i = next_in THEN packet ELSE IF i = next_in + 1 /\ fills THEN Junk ELSE buffer[i]]
  BY DEF Store, Overrun
<1>3. /\ Q_LEN \in Nat \ {0} /\ occupied \in 0..Q_LEN
      /\ next_in \in 0..(Q_LEN - 1) /\ next_out \in 0..(Q_LEN - 1)
  BY RecvBufferAssumption DEF IInv, TypeOK, Slots
<1>4. /\ PacketsInside' \in Seq(Tags \cup {Junk}) /\ Len(PacketsInside') = occupied + 1
      /\ PacketsInside \in Seq(Tags \cup {Junk}) /\ Len(PacketsInside) = occupied
  BY <1>1, Inside, InsideNext DEF InsideFacts
<1> DEFINE longer == Append(PacketsInside, packet)
<1>5. /\ longer \in Seq(Tags \cup {Junk}) /\ Len(longer) = occupied + 1
      /\ \A k \in 1..occupied : longer[k] = PacketsInside[k]
      /\ longer[occupied + 1] = packet
  BY <1>3, <1>4, AppendProperties
<1> HIDE DEF longer
<1>6. ASSUME NEW k \in 1..(occupied + 1)
      PROVE  PacketsInside'[k] =
               IF k # occupied + 1 /\ Slot(k) = next_in + 1 /\ fills THEN Junk ELSE longer[k]
  <2>1. k \in 1..Q_LEN
    BY <1>1, <1>3
  <2>2. PacketsInside'[k] = buffer'[Slot(k)]
    BY <1>1 DEF PacketsInside, Slot
  <2>3. Slot(k) \in Slots /\ (Slot(k) = next_in <=> k = occupied + 1)
    <3>1. Slot(k) \in Slots /\ Slot(k) = IF next_out + k - 1 < Q_LEN THEN next_out + k - 1
                                         ELSE next_out + k - 1 - Q_LEN
      BY <2>1, Inside DEF InsideFacts
    <3>2. \/ next_out + occupied = next_in
          \/ next_out + occupied = next_in + Q_LEN
      BY DEF IInv, Around
    <3> QED
      BY <1>1, <1>3, <3>1, <3>2
  <2>4. CASE k = occupied + 1
    BY <1>2, <1>5, <2>2, <2>3, <2>4
  <2>5. CASE k # occupied + 1
    <3>1. k \in 1..occupied
      BY <1>3, <2>5
    <3>2. PacketsInside[k] = buffer[Slot(k)]
      BY <3>1 DEF PacketsInside, Slot
    <3> QED
      BY <1>2, <1>5, <2>2, <2>3, <2>5, <3>1, <3>2
  <2> QED
    BY <2>4, <2>5
<1>7. ASSUME NEW k \in 1..occupied, Slot(k) = next_in + 1
      PROVE  k = 1 /\ occupied + 1 = Q_LEN
  <2>1. k \in 1..Q_LEN
    BY <1>3
  <2>2. /\ Slot(k) = IF next_out + k - 1 < Q_LEN THEN next_out + k - 1
                     ELSE next_out + k - 1 - Q_LEN
        /\ Slot(k) < Q_LEN
    BY <1>3, <2>1, Inside DEF InsideFacts, Slots
  <2>3. next_out + occupied = next_in \/ next_out + occupied = next_in + Q_LEN
    BY DEF IInv, Around
  <2> QED
    BY <1>1, <1>3, <1>7, <2>2, <2>3
<1>8. CASE \E k \in 1..occupied : Slot(k) = next_in + 1 /\ fills
  <2>1. 1 \in 1..occupied /\ Slot(1) = next_in + 1 /\ fills /\ occupied + 1 = Q_LEN
    BY <1>3, <1>7, <1>8
  <2> DEFINE spoilt == [longer EXCEPT ![1] = Junk]
  <2>2. /\ spoilt \in Seq(Tags \cup {Junk}) /\ Len(spoilt) = occupied + 1
        /\ \A k \in 1..(occupied + 1) : spoilt[k] = IF k = 1 THEN Junk ELSE longer[k]
    BY <1>3, <1>5, <2>1
  <2>3. \A k \in 1..(occupied + 1) : PacketsInside'[k] = spoilt[k]
    BY <1>3, <1>6, <1>7, <2>1, <2>2
  <2>4. PacketsInside' = spoilt
    BY <1>4, <2>2, <2>3, SeqEqual
  <2>5. PacketsInside # <<>>
    BY <1>3, <1>4, <2>1, EmptySeq
  <2> QED
    BY <2>1, <2>4, <2>5 DEF longer
<1>9. CASE ~\E k \in 1..occupied : Slot(k) = next_in + 1 /\ fills
  <2>1. \A k \in 1..(occupied + 1) : PacketsInside'[k] = longer[k]
    BY <1>3, <1>6, <1>9
  <2>2. PacketsInside' = longer
    BY <1>4, <1>5, <2>1, SeqEqual
  <2> QED
    BY <2>2 DEF longer
<1> QED
  BY <1>8, <1>9

\* Consuming one removes the oldest, which is what the consumer gets if the ring is full.
LEMMA ConsumeTails ==
  ASSUME IInv, IInv', NEW c \in Consumers, Consume(c)
  PROVE  /\ PacketsInside # <<>> /\ PacketsInside' = Tail(PacketsInside)
         /\ copied' \in IF Len(PacketsInside) = Q_LEN THEN {Head(PacketsInside), Junk}
                        ELSE Tags \cup {Junk}
<1>1. /\ UNCHANGED buffer /\ occupied > 0 /\ occupied' = occupied - 1
      /\ next_out' = (next_out + 1) % Q_LEN
  BY RecvBufferAssumption DEF Consume, Ready, Advanced
<1>2. /\ Q_LEN \in Nat \ {0} /\ occupied \in 0..Q_LEN /\ next_out \in 0..(Q_LEN - 1)
  BY RecvBufferAssumption DEF IInv, TypeOK, Slots
<1>3. /\ PacketsInside' \in Seq(Tags \cup {Junk}) /\ Len(PacketsInside') = occupied - 1
      /\ PacketsInside \in Seq(Tags \cup {Junk}) /\ Len(PacketsInside) = occupied
  BY <1>1, Inside, InsideNext DEF InsideFacts
<1>4. PacketsInside # <<>>
  BY <1>1, <1>2, <1>3, EmptySeq
<1>5. /\ Tail(PacketsInside) \in Seq(Tags \cup {Junk})
      /\ Len(Tail(PacketsInside)) = occupied - 1
      /\ \A k \in 1..(occupied - 1) : Tail(PacketsInside)[k] = PacketsInside[k + 1]
  BY <1>3, <1>4, HeadTailProperties
<1>6. next_out' = IF next_out = Q_LEN - 1 THEN 0 ELSE next_out + 1
  BY <1>1, <1>2, NextSlot DEF Slots
<1>7. ASSUME NEW k \in 1..(occupied - 1)
      PROVE  PacketsInside'[k] = Tail(PacketsInside)[k]
  <2>1. k \in 1..Q_LEN /\ k + 1 \in 1..Q_LEN /\ k + 1 \in 1..occupied
    BY <1>1, <1>2
  <2>2. /\ PacketsInside'[k] = buffer'[Slot(k)']
        /\ PacketsInside[k + 1] = buffer[Slot(k + 1)]
    BY <1>1, <2>1 DEF PacketsInside, Slot
  <2>3. Slot(k)' = Slot(k + 1)
    <3>1. Slot(k + 1) = IF next_out + k < Q_LEN THEN next_out + k ELSE next_out + k - Q_LEN
      BY <1>2, <2>1, Inside DEF InsideFacts
    <3>2. Slot(k)' = IF next_out' + k - 1 < Q_LEN THEN next_out' + k - 1
                     ELSE next_out' + k - 1 - Q_LEN
      BY <2>1, InsideNext DEF InsideFacts
    <3> QED
      BY <1>2, <1>6, <2>1, <3>1, <3>2
  <2> QED
    BY <1>1, <1>5, <2>2, <2>3
<1>8. copied' \in IF Len(PacketsInside) = Q_LEN THEN {Head(PacketsInside), Junk}
                 ELSE Tags \cup {Junk}
  <2>1. CASE occupied = Q_LEN
    <3>1. Head(PacketsInside) = PacketsInside[1]
      BY <1>3, <1>4, HeadTailProperties
    <3>2. 1 \in 1..occupied /\ 1 \in 1..Q_LEN
      BY <1>2, <2>1
    <3>3. Slot(1) = next_out
      BY <1>2, <3>2, Inside DEF InsideFacts
    <3>4. PacketsInside[1] = buffer[Slot(1)]
      BY <3>2 DEF PacketsInside, Slot
    <3>5. next_in = next_out
      BY <1>2, <2>1 DEF IInv, Around, TypeOK, Slots
    <3> QED
      BY <1>3, <2>1, <3>1, <3>3, <3>4, <3>5 DEF Consume, Source
  <2>2. copied' \in Tags \cup {Junk}
    BY DEF IInv, TypeOK
  <2> QED
    BY <1>3, <2>1, <2>2
<1> QED
  BY <1>3, <1>4, <1>5, <1>7, <1>8, SeqEqual

\* RecvBuffer implements PacketQueue: a producer's store is a Put, a consumer's copy a Get,
\* entering recvfrom a Wait and its failure a Fail, and what may end the process a Stop;
\* every other step is a stutter.  Lengths written past the end of data_len
\* (core_functions.h:44) disturb what is handed out, not what is counted.
THEOREM ImplementsTheQueue == Spec => Abstract!Spec
<1>1. Init => Abstract!Init
  <2> SUFFICES ASSUME Init
               PROVE  /\ PacketsInside = <<>> /\ copied = Junk
                      /\ (mu # Nobody) = FALSE /\ alive = TRUE
    BY DEF Abstract!Init
  <2>1. Len(PacketsInside) = 0 /\ PacketsInside \in Seq(Tags \cup {Junk})
    BY InitIInv, Inside DEF Init, InsideFacts
  <2> QED
    BY <2>1, EmptySeq DEF Init
<1> DEFINE seen == <<PacketsInside, copied, mu # Nobody, alive>>
<1>2. IInv /\ IInv' /\ [Next]_vars => [Abstract!Next]_seen
  <2> SUFFICES ASSUME IInv, IInv', [Next]_vars
               PROVE  [Abstract!Next]_seen
    OBVIOUS
  <2>0. Len(PacketsInside) = occupied
    BY Inside DEF InsideFacts
  <2>1. ASSUME UNCHANGED <<next_out, occupied, buffer>>
        PROVE  UNCHANGED PacketsInside
    BY <2>1 DEF PacketsInside
  <2>2. ASSUME NEW p \in Producers, NEW tag \in Tags, NEW fills \in BOOLEAN,
               Store(p, tag, fills)
        PROVE  Abstract!Next
    <3>1. /\ alive /\ UNCHANGED <<alive, copied>> /\ mu = p /\ mu' = Nobody
          /\ p # Nobody
      BY <2>2, RecvBufferAssumption DEF Store, IInv, Exclusion
    <3>2. PICK packet \in Tags \cup {Junk} :
           \/ PacketsInside' = Append(PacketsInside, packet)
           \/ /\ occupied + 1 = Q_LEN /\ PacketsInside # <<>>
              /\ PacketsInside' = [Append(PacketsInside, packet) EXCEPT ![1] = Junk]
      BY <2>2, StoreAppends
    <3>3. Abstract!Put(packet)
      BY <2>0, <3>1, <3>2 DEF Abstract!Put
    <3> QED
      BY <3>3 DEF Abstract!Next
  <2>3. ASSUME NEW c \in Consumers, Consume(c)
        PROVE  Abstract!Next
    <3>1. alive /\ UNCHANGED <<alive, mu>> /\ mu = Nobody
      BY <2>3 DEF Consume, AtWait
    <3>2. Abstract!Get
      BY <2>3, <3>1, ConsumeTails DEF Abstract!Get
    <3> QED
      BY <3>2 DEF Abstract!Next
  <2>4. ASSUME (\E p \in Producers, fills \in BOOLEAN : Overflow(p, fills))
                 \/ \E c \in Consumers : Overcopy(c)
        PROVE  Abstract!Next
    <3>1. UNCHANGED <<PacketsInside, copied, mu>> /\ alive /\ alive' = FALSE
      BY <2>1, <2>4 DEF Overflow, Overcopy, AtWait, ring
    <3> QED
      BY <3>1 DEF Abstract!Next, Abstract!Stop
  <2>5. ASSUME NEW p \in Producers, Enter(p)
        PROVE  Abstract!Next
    <3>1. /\ UNCHANGED <<PacketsInside, copied, alive>> /\ alive /\ mu = Nobody /\ mu' = p
          /\ p # Nobody /\ occupied < Q_LEN
      BY <2>1, <2>5, RecvBufferAssumption DEF Enter, AtWait, Ready, ring
    <3> QED
      BY <2>0, <3>1 DEF Abstract!Next, Abstract!Wait
  <2>6. ASSUME NEW p \in Producers, RecvfromFails(p)
        PROVE  Abstract!Next
    <3>1. /\ UNCHANGED <<PacketsInside, copied, alive>> /\ alive /\ mu = p /\ mu' = Nobody
          /\ p # Nobody
      BY <2>1, <2>6, RecvBufferAssumption DEF RecvfromFails, ring, IInv, Exclusion
    <3> QED
      BY <3>1 DEF Abstract!Next, Abstract!Fail
  <2>7. CASE (\E t \in Threads : Call(t) \/ Sleep(t) \/ Notify(t)) \/ UNCHANGED vars
    BY <2>1, <2>7 DEF Call, Sleep, Notify, vars, ring
  <2> QED
    BY <2>2, <2>3, <2>4, <2>5, <2>6, <2>7 DEF Next, Receives
<1> QED
  BY <1>1, <1>2, Invariance, PTL DEF Spec, Abstract!Spec
=============================================================================
