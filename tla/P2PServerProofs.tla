-------------------------- MODULE P2PServerProofs --------------------------
(***************************************************************************)
(* Proofs about P2PServer for any connections and number of threads,       *)
(* however the threads overlap on client_sock.                             *)
(***************************************************************************)
EXTENDS P2PServer, TLAPS

\* The request of connection c was answered on connection d.
Sent(c, d) == \E i \in 1..Len(got[d]) : got[d][i] = c

\* A thread has a request in hands when it is about to send, and only started ones run.
ThreadsSound ==
  \A t \in Threads :
    /\ thread[t].req \in Conns <=> thread[t].pc = "send"
    /\ t > started => thread[t].pc = "none"

\* What the server has not accepted it has neither read nor answered.
BacklogUntouched ==
  \A c \in Conns :
    /\ peer[c] = "away" <=> conn[c] = "none"
    /\ conn[c] \in {"none", "backlog"} =>
         /\ got[c] = <<>>
         /\ peer[c] = "asked" => c \in unread

\* A request is in one place: to come, under way, in one thread's hands, or answered.
RequestsOnce ==
  /\ \A c \in Conns :
       peer[c] \in {"away", "connected"} \/ c \in unread =>
         /\ \A t \in Threads : thread[t].req # c
         /\ \A d \in Conns : ~Sent(c, d)
  /\ \A c \in unread : peer[c] \in {"asked", "gone"}
  /\ \A t \in Threads : thread[t].req \in Conns =>
       /\ \A u \in Threads : thread[u].req = thread[t].req => u = t
       /\ \A d \in Conns : ~Sent(thread[t].req, d)

\* Where the only thread alive stands, when connection c is served by it alone.
Serves(t, c) ==
  /\ Alive = {t}
  /\ conn[c] \in {"open", "shut"}
  /\ conn[c] = "shut" => thread[t].pc = "close" /\ peer[c] = "gone"
  /\ thread[t].pc = "recv" => thread[t].on = c
  /\ thread[t].pc = "send" => thread[t].req = c
  /\ thread[t].pc = "refuse" => c \in missing
  /\ thread[t].pc = "shutdown" => peer[c] = "gone"

\* The request of c, once read and unless its chunk was missing, is answered or about to be.
Attended(c) ==
  /\ got[c] \in {<<>>, <<c>>}
  /\ peer[c] = "asked" /\ c \notin unread /\ c \notin missing =>
       \/ got[c] = <<c>>
       \/ conn[c] # "closed" /\ \E t \in Alive : thread[t].pc = "send"

\* A connection that no thread overlapped is closed, or the newest and served alone.
LoneServed ==
  \A c \in lone :
    /\ conn[c] = "closed" \/ (client_sock = c /\ \E t \in Threads : Serves(t, c))
    /\ conn[c] = "closed" /\ client_sock = c => Alive = {}
    /\ Attended(c)

IInv ==
  /\ TypeOK
  /\ ThreadsSound
  /\ BacklogUntouched
  /\ RequestsOnce
  /\ AnsweredOnce
  /\ LoneServed

-----------------------------------------------------------------------------
(* Types, and what the table of threads says.                              *)

Pcs == Ended \cup {"start", "call", "recv", "refuse", "send", "shutdown", "close"}
ThreadRecord == [pc : Pcs, on : Conns \cup {Invalid}, req : Conns \cup {Invalid}]

\* A thread that moves on, by itself, is a started one and holds a request only to send it.
Moves(t) ==
  /\ thread[t].pc \notin Ended
  /\ \E r \in ThreadRecord :
       /\ thread' = [thread EXCEPT ![t] = r]
       /\ r.pc # "none" /\ (r.req \in Conns <=> r.pc = "send")
  /\ UNCHANGED <<client_sock, started, lone, peer>>

LEMMA ThreadsMove ==
  ASSUME TypeOK, NEW t \in Threads, ThreadStep(t)
  PROVE  Moves(t)
<1> USE ConnsAssumption DEF Ended, Pcs, ThreadRecord, Moves
<1>0. thread[t] \in ThreadRecord /\ client_sock \in Conns \cup {Invalid}
  BY DEF TypeOK
<1>1. ASSUME NEW pc \in {"call", "close", "done", "refuse", "shutdown"}, Goto(t, pc),
             thread[t].pc \notin Ended, UNCHANGED <<client_sock, started, lone, peer>>
      PROVE  Moves(t)
  <2>1. [pc |-> pc, on |-> Invalid, req |-> Invalid] \in ThreadRecord
    OBVIOUS
  <2> QED
    BY <1>1, <2>1 DEF Goto
<1>2. CASE CallRecv(t)
  <2>1. [pc |-> "recv", on |-> client_sock, req |-> Invalid] \in ThreadRecord
    BY <1>0
  <2> QED
    BY <1>2, <2>1 DEF CallRecv, network
<1>3. ASSUME NEW found \in BOOLEAN, RecvRequest(t, found)
      PROVE  Moves(t)
  <2>1. CASE found
    <3>1. [pc |-> "send", on |-> Invalid, req |-> thread[t].on] \in ThreadRecord
          /\ thread[t].on \in Conns
      BY <1>0, <1>3 DEF RecvRequest, Usable
    <3> QED
      BY <1>3, <2>1, <3>1 DEF RecvRequest
  <2> QED
    BY <1>1, <1>3, <2>1 DEF RecvRequest
<1> QED
  BY <1>1, <1>2, <1>3
  DEF ThreadStep, OutOfMemory, RecvEnd, RecvFails, SendChunk, SendFails, SendNotFound,
      Shutdown, Close, network

\* A request sent on c is appended to what was sent on the newest connection.
LEMMA SendType ==
  ASSUME TypeOK, ThreadsSound, NEW t \in Threads, SendChunk(t)
  PROVE  /\ thread[t].req \in Conns /\ client_sock \in Conns /\ conn[client_sock] = "open"
         /\ got' = [got EXCEPT ![client_sock] = Append(got[client_sock], thread[t].req)]
         /\ DOMAIN got' = Conns /\ \A c \in Conns : got'[c] \in Seq(Conns)
<1>1. thread[t].req \in Conns
  BY DEF SendChunk, ThreadsSound
<1>2. client_sock \in Conns /\ conn[client_sock] = "open" /\ Destinations(t) = {client_sock}
  BY ConnsAssumption DEF SendChunk, Destinations, TypeOK
<1>3. got' = [got EXCEPT ![client_sock] = Append(got[client_sock], thread[t].req)]
  BY <1>2 DEF SendChunk, Payload, TypeOK
<1>4. DOMAIN got' = Conns /\ \A c \in Conns : got'[c] \in Seq(Conns)
  BY <1>1, <1>2, <1>3 DEF TypeOK
<1> QED
  BY <1>1, <1>2, <1>3, <1>4

\* The other variables of a thread's step.
LEMMA OthersMove ==
  ASSUME TypeOK, NEW t \in Threads, ThreadStep(t)
  PROVE  /\ conn' \in [Conns -> {"none", "backlog", "open", "shut", "closed"}]
         /\ \A c \in Conns : conn'[c] # conn[c] =>
              c = client_sock /\ conn[c] \in {"open", "shut"} /\ conn'[c] \in {"shut", "closed"}
         /\ unread' \subseteq unread
         /\ \A c \in unread \ unread' : conn[c] \in {"open", "shut"}
         /\ missing' \subseteq Conns /\ missing \subseteq missing'
         /\ got' = got \/ SendChunk(t)
<1> USE DEF TypeOK
<1>1. CASE \E found \in BOOLEAN : RecvRequest(t, found)
  BY <1>1 DEF RecvRequest, Usable, Taken
<1>2. CASE Shutdown(t)
  BY <1>2 DEF Shutdown, Usable
<1>3. CASE Close(t)
  BY <1>3 DEF Close, Closed, Usable
<1>4. CASE SendChunk(t)
  BY <1>4 DEF SendChunk
<1> QED
  BY <1>1, <1>2, <1>3, <1>4
  DEF ThreadStep, OutOfMemory, CallRecv, RecvEnd, RecvFails, SendFails, SendNotFound, network

\* What accept does, whether it fails or not.
Starts(s) ==
  /\ started < MaxThreads /\ started' = started + 1
  /\ thread' = [thread EXCEPT ![started + 1].pc = "start"]
  /\ client_sock' = s
  /\ UNCHANGED <<peer, unread, got, missing>>

LEMMA TypeStep ==
  ASSUME TypeOK, ThreadsSound, Next
  PROVE  TypeOK' /\ ThreadsSound'
<1> USE ConnsAssumption DEF Ended
<1>1. CASE \E t \in Threads : ThreadStep(t)
  <2> PICK t \in Threads : ThreadStep(t)
    BY <1>1
  <2>1. Moves(t)
    BY ThreadsMove
  <2>2. PICK r \in ThreadRecord : thread' = [thread EXCEPT ![t] = r]
             /\ r.pc # "none" /\ (r.req \in Conns <=> r.pc = "send")
    BY <2>1 DEF Moves
  <2>3. thread' \in [Threads -> ThreadRecord]
    BY <2>2 DEF TypeOK, ThreadRecord, Pcs
  <2>4. DOMAIN got' = Conns /\ \A c \in Conns : got'[c] \in Seq(Conns)
    BY OthersMove, SendType DEF TypeOK
  <2>5. TypeOK'
    <3>1. /\ conn' \in [Conns -> {"none", "backlog", "open", "shut", "closed"}]
          /\ unread' \subseteq unread /\ missing' \subseteq Conns
      BY OthersMove
    <3> QED
      BY <2>1, <2>3, <2>4, <3>1 DEF TypeOK, Moves, ThreadRecord, Pcs
  <2>6. ThreadsSound'
    <3>1. t <= started /\ started \in Nat /\ started' = started
      BY <2>1 DEF ThreadsSound, Moves, Threads, TypeOK
    <3> SUFFICES ASSUME NEW u \in Threads
                 PROVE  /\ thread'[u].req \in Conns <=> thread'[u].pc = "send"
                        /\ u > started => thread'[u].pc = "none"
      BY <3>1 DEF ThreadsSound, Threads
    <3>2. CASE u = t
      BY <2>2, <3>1, <3>2 DEF TypeOK, Threads
    <3>3. CASE u # t
      BY <2>2, <3>3 DEF TypeOK, ThreadsSound
    <3> QED
      BY <3>2, <3>3
  <2> QED
    BY <2>5, <2>6
<1>2. CASE \E c \in Conns : Connect(c) \/ Ask(c) \/ Leave(c)
  <2>1. TypeOK'
    <3> PICK c \in Conns : Connect(c) \/ Ask(c) \/ Leave(c)
      BY <1>2
    <3>1. UNCHANGED <<client_sock, got, thread, started, missing, lone>> /\ unread' \subseteq Conns
      BY DEF TypeOK, Connect, Ask, Leave
    <3>2. conn' \in [Conns -> {"none", "backlog", "open", "shut", "closed"}]
      <4>1. conn' = conn \/ conn' = [conn EXCEPT ![c] = "backlog"]
        BY DEF Connect, Ask, Leave
      <4> QED
        BY <4>1 DEF TypeOK
    <3>3. peer' \in [Conns -> {"away", "connected", "asked", "gone"}]
      <4>1. \E s \in {"connected", "asked", "gone"} : peer' = [peer EXCEPT ![c] = s]
        BY DEF Connect, Ask, Leave
      <4> QED
        BY <4>1 DEF TypeOK
    <3> QED
      BY <3>1, <3>2, <3>3 DEF TypeOK
  <2>2. ThreadsSound'
    BY <1>2 DEF ThreadsSound, Connect, Ask, Leave, Threads
  <2> QED
    BY <2>1, <2>2
<1>3. CASE AcceptFails \/ \E c \in Conns : Accept(c)
  <2>1. PICK s \in Conns \cup {Invalid} : Starts(s)
    BY <1>3 DEF Starts, Accept, AcceptFails, StartThread, network
  <2>2. started + 1 \in Threads /\ thread[started + 1].pc = "none" /\ started' \in 0..MaxThreads
    BY <2>1 DEF Starts, ThreadsSound, Threads, TypeOK
  <2>3. thread' \in [Threads -> ThreadRecord]
    <3>1. thread \in [Threads -> ThreadRecord] /\ thread[started + 1] \in ThreadRecord
      BY <2>2 DEF TypeOK, ThreadRecord, Pcs
    <3>2. [thread[started + 1] EXCEPT !.pc = "start"] \in ThreadRecord
      BY <3>1 DEF ThreadRecord, Pcs
    <3> QED
      BY <2>1, <3>1, <3>2 DEF Starts
  <2>4. conn' \in [Conns -> {"none", "backlog", "open", "shut", "closed"}] /\ lone' \subseteq Conns
    BY <1>3 DEF Accept, AcceptFails, Lone, TypeOK, network
  <2>5. TypeOK'
    BY <2>1, <2>2, <2>3, <2>4 DEF Starts, TypeOK, ThreadRecord, Pcs
  <2>6. ThreadsSound'
    BY <2>1, <2>2 DEF Starts, ThreadsSound, TypeOK, Threads
  <2> QED
    BY <2>5, <2>6
<1> QED
  BY <1>1, <1>2, <1>3 DEF Next

LEMMA BacklogStep ==
  ASSUME TypeOK, ThreadsSound, BacklogUntouched, Next
  PROVE  BacklogUntouched'
<1>1. CASE \E t \in Threads : ThreadStep(t)
  <2> PICK t \in Threads : ThreadStep(t)
    BY <1>1
  <2>1. peer' = peer
    BY ThreadsMove DEF Moves
  <2>2. /\ \A c \in Conns : conn'[c] # conn[c] =>
              conn[c] \in {"open", "shut"} /\ conn'[c] \in {"shut", "closed"}
        /\ unread' \subseteq unread
        /\ \A c \in unread \ unread' : conn[c] \in {"open", "shut"}
    BY OthersMove
  <2>3. \A c \in Conns : conn[c] \in {"none", "backlog"} => got'[c] = got[c]
    BY OthersMove, SendType DEF TypeOK
  <2> QED
    BY <2>1, <2>2, <2>3 DEF BacklogUntouched
<1>2. CASE \E c \in Conns : Connect(c) \/ Ask(c) \/ Leave(c)
  BY <1>2 DEF TypeOK, BacklogUntouched, Connect, Ask, Leave
<1>3. CASE AcceptFails \/ \E c \in Conns : Accept(c)
  BY <1>3 DEF TypeOK, BacklogUntouched, Accept, AcceptFails, network
<1> QED
  BY <1>1, <1>2, <1>3 DEF Next

-----------------------------------------------------------------------------
(* Every request is in one place.                                          *)

\* After SendChunk the requests answered are those before and the one in hands.
LEMMA SentAfterSend ==
  ASSUME TypeOK, ThreadsSound, NEW t \in Threads, SendChunk(t),
         NEW c \in Conns, NEW d \in Conns, Sent(c, d)'
  PROVE  Sent(c, d) \/ c = thread[t].req
<1>1. /\ thread[t].req \in Conns /\ client_sock \in Conns
      /\ got' = [got EXCEPT ![client_sock] = Append(got[client_sock], thread[t].req)]
  BY SendType
<1>2. PICK i \in 1..Len(got'[d]) : got'[d][i] = c
  BY DEF Sent
<1>3. CASE d # client_sock
  BY <1>1, <1>2, <1>3 DEF Sent, TypeOK
<1>4. CASE d = client_sock
  <2>1. got[d] \in Seq(Conns) /\ got'[d] = Append(got[d], thread[t].req)
    BY <1>1, <1>4 DEF TypeOK
  <2>2. (i \in 1..Len(got[d]) /\ got[d][i] = c) \/ c = thread[t].req
    BY <1>1, <1>2, <2>1
  <2> QED
    BY <2>2 DEF Sent
<1> QED
  BY <1>3, <1>4

\* What keeps RequestsOnce: threads let go of requests, and none is sent or made anew.
LEMMA RequestsKept ==
  ASSUME TypeOK, RequestsOnce,
         unread' \subseteq unread, UNCHANGED got,
         \A c \in Conns : peer'[c] \in {"away", "connected"} => peer[c] \in {"away", "connected"},
         \A c \in unread : peer'[c] \in {"asked", "gone"},
         \A u \in Threads : thread'[u].req \in {thread[u].req, Invalid}
  PROVE  RequestsOnce'
<1> USE ConnsAssumption
<1>1. \A c, d \in Conns : Sent(c, d)' <=> Sent(c, d)
  BY DEF Sent
<1>2. ASSUME NEW c \in Conns, peer'[c] \in {"away", "connected"} \/ c \in unread'
      PROVE  (\A u \in Threads : thread'[u].req # c) /\ \A d \in Conns : ~Sent(c, d)'
  BY <1>1, <1>2 DEF RequestsOnce
<1>3. ASSUME NEW u \in Threads, thread'[u].req \in Conns
      PROVE  /\ \A v \in Threads : thread'[v].req = thread'[u].req => v = u
             /\ \A d \in Conns : ~Sent(thread[u].req, d)' /\ thread'[u].req = thread[u].req
  BY <1>1, <1>3 DEF RequestsOnce
<1> QED
  BY <1>2, <1>3 DEF RequestsOnce, TypeOK

LEMMA RequestsStep ==
  ASSUME TypeOK, ThreadsSound, BacklogUntouched, RequestsOnce, Next
  PROVE  RequestsOnce'
<1> USE ConnsAssumption
<1>0. \A u \in Threads : thread[u].req \in Conns \cup {Invalid}
  BY DEF TypeOK
<1>1. ASSUME NEW t \in Threads, ThreadStep(t)
      PROVE  RequestsOnce'
  <2>1. peer' = peer /\ thread \in [Threads -> ThreadRecord]
    BY <1>1, ThreadsMove DEF Moves, TypeOK, ThreadRecord, Pcs
  <2>2. ASSUME unread' = unread, got' = got, thread'[t].req = Invalid,
               \A u \in Threads \ {t} : thread'[u] = thread[u]
        PROVE  RequestsOnce'
    BY <2>1, <2>2, RequestsKept DEF RequestsOnce
  <2>3. ASSUME NEW found \in BOOLEAN, RecvRequest(t, found)
        PROVE  RequestsOnce'
    <3> DEFINE c == thread[t].on
    <3>1. c \in Conns /\ c \in unread /\ unread' = unread \ {c} /\ got' = got
      BY <2>3, TypeOK DEF RecvRequest, TypeOK, Taken, Usable
    <3>2. /\ \A u \in Threads \ {t} : thread'[u] = thread[u]
          /\ thread'[t].req \in {c, Invalid}
      BY <2>1, <2>3 DEF RecvRequest, Goto
    <3>3. peer[c] \in {"asked", "gone"} /\ (\A u \in Threads : thread[u].req # c)
          /\ \A d \in Conns : ~Sent(c, d)
      BY <3>1 DEF RequestsOnce
    <3>4. \A e, d \in Conns : Sent(e, d)' <=> Sent(e, d)
      BY <3>1 DEF Sent
    <3> HIDE DEF c
    <3>5. ASSUME NEW e \in Conns, peer[e] \in {"away", "connected"} \/ e \in unread'
          PROVE  (\A u \in Threads : thread'[u].req # e) /\ \A d \in Conns : ~Sent(e, d)'
      BY <3>1, <3>2, <3>3, <3>4, <3>5 DEF RequestsOnce
    <3>6. ASSUME NEW u \in Threads, thread'[u].req \in Conns
          PROVE  /\ \A v \in Threads : thread'[v].req = thread'[u].req => v = u
                 /\ \A d \in Conns : ~Sent(thread[u].req, d)'
      <4>1. \A v \in Threads : thread'[v].req = thread'[u].req => v = u
        BY <3>2, <3>3, <3>6 DEF RequestsOnce
      <4>2. \A d \in Conns : ~Sent(thread'[u].req, d)
        BY <3>2, <3>3, <3>6 DEF RequestsOnce
      <4>3. \A r \in Conns : (\A d \in Conns : ~Sent(r, d)) => \A d \in Conns : ~Sent(r, d)'
        BY <3>4
      <4> QED
        BY <3>4, <3>6, <4>1, <4>2 DEF Sent
    <3>7. \A e \in unread' : peer[e] \in {"asked", "gone"}
      BY <3>1 DEF RequestsOnce
    <3> QED
      BY <2>1, <3>5, <3>6, <3>7 DEF RequestsOnce, Sent
  <2>4. CASE SendChunk(t)
    <3> DEFINE c == thread[t].req
    <3>1. c \in Conns /\ unread' = unread
      BY <2>4, SendType DEF SendChunk
    <3>2. /\ \A u \in Threads \ {t} : thread'[u] = thread[u]
          /\ thread'[t].req = Invalid
      BY <2>1, <2>4 DEF SendChunk, Goto
    <3>3. peer[c] \notin {"away", "connected"} /\ c \notin unread
          /\ \A u \in Threads : thread[u].req = c => u = t
      BY <3>1 DEF RequestsOnce
    <3>4. \A e, d \in Conns : Sent(e, d)' => Sent(e, d) \/ e = c
      BY <2>4, SentAfterSend
    <3> HIDE DEF c
    <3>5. ASSUME NEW e \in Conns, peer[e] \in {"away", "connected"} \/ e \in unread
          PROVE  (\A u \in Threads : thread'[u].req # e) /\ \A d \in Conns : ~Sent(e, d)'
      BY <3>2, <3>3, <3>4, <3>5 DEF RequestsOnce
    <3>6. ASSUME NEW u \in Threads, thread'[u].req \in Conns
          PROVE  /\ \A v \in Threads : thread'[v].req = thread'[u].req => v = u
                 /\ \A d \in Conns : ~Sent(thread[u].req, d)'
      <4>1. u # t /\ thread'[u].req = thread[u].req /\ thread[u].req # c
        BY <3>2, <3>3, <3>6
      <4>2. \A v \in Threads : thread'[v].req = thread'[u].req => v = u
        BY <3>2, <3>6, <4>1 DEF RequestsOnce
      <4>3. \A d \in Conns : ~Sent(thread[u].req, d)
        BY <3>6, <4>1 DEF RequestsOnce
      <4>4. \A r \in Conns \ {c} : (\A d \in Conns : ~Sent(r, d)) => \A d \in Conns : ~Sent(r, d)'
        BY <3>4
      <4> QED
        BY <3>4, <3>6, <4>1, <4>2, <4>3 DEF Sent
    <3> QED
      BY <2>1, <3>1, <3>5, <3>6 DEF RequestsOnce, Sent
  <2>5. ASSUME NEW pc, Goto(t, pc), unread' = unread, got' = got
        PROVE  RequestsOnce'
    BY <2>1, <2>2, <2>5 DEF Goto
  <2>6. CASE CallRecv(t)
    BY <2>1, <2>2, <2>6 DEF CallRecv, network
  <2> QED
    BY <1>1, <2>3, <2>4, <2>5, <2>6
    DEF ThreadStep, OutOfMemory, RecvEnd, RecvFails, SendFails, SendNotFound, Shutdown, Close,
        network
<1>2. ASSUME NEW c \in Conns, Ask(c)
      PROVE  RequestsOnce'
  <2>1. /\ peer[c] = "connected" /\ peer' = [peer EXCEPT ![c] = "asked"]
        /\ unread' = unread \cup {c} /\ got' = got /\ thread' = thread
    BY <1>2 DEF Ask
  <2>2. \A e, d \in Conns : Sent(e, d)' <=> Sent(e, d)
    BY <2>1 DEF Sent
  <2>3. ASSUME NEW e \in Conns, peer'[e] \in {"away", "connected"} \/ e \in unread'
        PROVE  (\A u \in Threads : thread'[u].req # e) /\ \A d \in Conns : ~Sent(e, d)'
    BY <2>1, <2>2, <2>3 DEF RequestsOnce, TypeOK
  <2>4. \A e \in unread' : peer'[e] \in {"asked", "gone"}
    BY <2>1 DEF RequestsOnce, TypeOK
  <2> QED
    BY <2>1, <2>3, <2>4 DEF RequestsOnce, Sent
<1>3. CASE \E c \in Conns : Connect(c) \/ Leave(c)
  <2> PICK c \in Conns : Connect(c) \/ Leave(c)
    BY <1>3
  <2>1. unread' = unread /\ got' = got /\ thread' = thread
    BY DEF Connect, Leave
  <2>2. \A e \in Conns : peer'[e] \in {"away", "connected"} => peer[e] \in {"away", "connected"}
    BY DEF Connect, Leave, TypeOK
  <2>3. \A e \in unread : peer'[e] \in {"asked", "gone"}
    BY DEF Connect, Leave, TypeOK, RequestsOnce
  <2> QED
    BY <2>1, <2>2, <2>3, RequestsKept
<1>4. CASE AcceptFails \/ \E c \in Conns : Accept(c)
  <2>1. PICK s \in Conns \cup {Invalid} : Starts(s)
    BY <1>4 DEF Starts, Accept, AcceptFails, StartThread, network
  <2>2. \A u \in Threads : thread'[u].req = thread[u].req
    BY <2>1 DEF Starts, TypeOK
  <2> QED
    BY <2>1, <2>2, RequestsKept DEF Starts, RequestsOnce
<1> QED
  BY <1>1, <1>2, <1>3, <1>4 DEF Next

LEMMA AnsweredOnceStep ==
  ASSUME TypeOK, ThreadsSound, RequestsOnce, AnsweredOnce, Next
  PROVE  AnsweredOnce'
<1>1. ASSUME NEW t \in Threads, SendChunk(t)
      PROVE  AnsweredOnce'
  <2> DEFINE r == thread[t].req
             s == client_sock
  <2>1. /\ r \in Conns /\ s \in Conns
        /\ got' = [got EXCEPT ![s] = Append(got[s], r)]
    BY <1>1, SendType
  <2>2. \A d \in Conns : \A i \in 1..Len(got[d]) : got[d][i] # r
    BY <2>1 DEF RequestsOnce, Sent
  <2>3. \A d \in Conns : got[d] \in Seq(Conns)
    BY DEF TypeOK
  <2>4. \A d \in Conns \ {s} : got'[d] = got[d]
    BY <2>1 DEF TypeOK
  <2>5. got'[s] = Append(got[s], r)
    BY <2>1 DEF TypeOK
  <2> HIDE DEF r, s
  <2>6. \A d \in Conns : \A i \in 1..Len(got'[d]) :
          \/ i \in 1..Len(got[d]) /\ got'[d][i] = got[d][i]
          \/ d = s /\ i = Len(got[s]) + 1 /\ got'[d][i] = r
    BY <2>1, <2>3, <2>4, <2>5
  <2> SUFFICES ASSUME NEW c \in Conns, NEW d \in Conns,
                      NEW i \in 1..Len(got'[c]), NEW j \in 1..Len(got'[d]),
                      got'[c][i] = got'[d][j]
               PROVE  c = d /\ i = j
    BY DEF AnsweredOnce
  <2> QED
    BY <2>2, <2>6 DEF AnsweredOnce
<1>2. ASSUME got' = got
      PROVE  AnsweredOnce'
  BY <1>2 DEF AnsweredOnce
<1> QED
  BY <1>1, <1>2, OthersMove DEF Next, Connect, Ask, Leave, Accept, AcceptFails, network

-----------------------------------------------------------------------------
(* Connections served alone.                                               *)

\* A closed connection is touched by no thread and no client any more.
ClosedServed(c) == conn[c] = "closed" /\ (client_sock = c => Alive = {}) /\ Attended(c)

\* One that its only thread still serves.
OpenServed(c) == client_sock = c /\ (\E t \in Threads : Serves(t, c)) /\ Attended(c)

LEMMA LoneCases ==
  LoneServed <=> \A c \in lone : ClosedServed(c) \/ OpenServed(c)
BY DEF LoneServed, ClosedServed, OpenServed, Serves

LEMMA ClosedStays ==
  ASSUME TypeOK, NEW c \in Conns, conn[c] = "closed", Attended(c),
         conn'[c] = "closed", got'[c] = got[c], missing \subseteq missing',
         c \in unread => c \in unread', peer'[c] = "asked" => peer[c] = "asked",
         client_sock' = c => Alive' = {}
  PROVE  ClosedServed(c)'
BY DEF ClosedServed, Attended

\* The one thread that serves c ends with its connection closed and its client answered.
LEMMA OpenStep ==
  ASSUME IInv, NEW c \in Conns, OpenServed(c), NEW t \in Threads, ThreadStep(t)
  PROVE  ClosedServed(c)' \/ OpenServed(c)'
<1> USE ConnsAssumption
<1>1. Moves(t) /\ TypeOK
  BY ThreadsMove DEF IInv
<1>2. /\ client_sock = c /\ client_sock' = c /\ peer' = peer /\ Attended(c)
      /\ Serves(t, c)
  BY <1>1 DEF OpenServed, Serves, Alive, Moves
<1>3. Alive' = {u \in {t} : thread'[u].pc \notin Ended}
  <2>1. \A u \in Threads \ {t} : thread'[u] = thread[u]
    BY <1>1 DEF Moves
  <2> QED
    BY <1>2, <2>1 DEF Alive, Serves
<1>4. thread' = [thread EXCEPT ![t] = thread'[t]] /\ t \in DOMAIN thread
  BY <1>1 DEF Moves, TypeOK
<1>5. /\ got[c] \in {<<>>, <<c>>}
      /\ thread[t].pc # "send" /\ peer[c] = "asked" /\ c \notin unread /\ c \notin missing
           => got[c] = <<c>>
  BY <1>2 DEF Attended, Serves
\* It goes on: what is left to show is where it stands.
<1>6. ASSUME thread'[t].pc \notin Ended, conn'[c] \in {"open", "shut"},
             conn'[c] = "shut" => thread'[t].pc = "close" /\ peer[c] = "gone",
             thread'[t].pc = "recv" => thread'[t].on = c,
             thread'[t].pc = "send" => thread'[t].req = c,
             thread'[t].pc = "refuse" => c \in missing',
             thread'[t].pc = "shutdown" => peer[c] = "gone",
             got'[c] \in {<<>>, <<c>>},
             peer[c] = "asked" /\ c \notin unread' /\ c \notin missing' =>
               got'[c] = <<c>> \/ thread'[t].pc = "send"
      PROVE  OpenServed(c)'
  <2>1. Alive' = {t}
    BY <1>3, <1>6
  <2> QED
    BY <1>2, <1>6, <2>1 DEF OpenServed, Serves, Attended
<1>7. ASSUME NEW pc \in {"close", "call", "refuse", "shutdown"}, Goto(t, pc),
             conn' = conn, pc = "shutdown" => peer[c] = "gone", pc = "refuse" => c \in missing',
             got'[c] \in {<<>>, <<c>>},
             peer[c] = "asked" /\ c \notin unread' /\ c \notin missing' => got'[c] = <<c>>,
             thread[t].pc # "close"
      PROVE  OpenServed(c)'
  <2>1. thread'[t].pc = pc
    BY <1>4, <1>7 DEF Goto
  <2>2. conn'[c] = "open"
    BY <1>2, <1>7 DEF Serves
  <2> HIDE DEF Goto
  <2> QED
    BY <1>6, <1>7, <2>1, <2>2 DEF Ended
<1>8. CASE OutOfMemory(t)
  BY <1>5, <1>7, <1>8 DEF OutOfMemory, network
<1>9. CASE CallRecv(t)
  <2>1. thread'[t].pc = "recv" /\ thread'[t].on = c /\ UNCHANGED <<conn, unread, got, missing>>
    BY <1>2, <1>4, <1>9 DEF CallRecv, network
  <2>2. conn[c] = "open" /\ thread[t].pc # "send"
    BY <1>2, <1>9 DEF CallRecv, Serves
  <2> QED
    BY <1>5, <1>6, <2>1, <2>2 DEF Ended
<1>10. ASSUME NEW found \in BOOLEAN, RecvRequest(t, found)
       PROVE  OpenServed(c)'
  <2>1. thread[t].pc = "recv" /\ thread[t].on = c /\ conn[c] = "open" /\ c \in unread
    BY <1>2, <1>10 DEF RecvRequest, Serves
  <2>2. got' = got /\ conn' = conn
    BY <1>10 DEF RecvRequest
  <2>3. CASE found
    <3>1. thread'[t].pc = "send" /\ thread'[t].req = c
      BY <1>4, <1>10, <2>1, <2>3 DEF RecvRequest
    <3> QED
      BY <1>5, <1>6, <2>1, <2>2, <3>1 DEF Ended
  <2>4. CASE ~found
    <3>1. Goto(t, "refuse") /\ c \in missing'
      BY <1>10, <2>1, <2>4 DEF RecvRequest
    <3> QED
      BY <1>5, <1>7, <2>1, <2>2, <3>1
  <2> QED
    BY <2>3, <2>4
<1>11. CASE RecvEnd(t)
  <2>1. peer[c] = "gone"
    BY <1>2, <1>11 DEF RecvEnd, Serves
  <2> QED
    BY <1>5, <1>7, <1>11, <2>1 DEF RecvEnd, network
<1>12. CASE RecvFails(t)
  <2>1. peer[c] = "gone"
    BY <1>2, <1>12 DEF RecvFails, Serves, Usable
  <2> QED
    BY <1>5, <1>7, <1>12, <2>1 DEF RecvFails, network
<1>13. CASE SendChunk(t)
  <2>1. got' = [got EXCEPT ![c] = Append(got[c], thread[t].req)] /\ thread[t].req = c
    BY <1>2, <1>13, SendType DEF SendChunk, Serves, IInv
  <2>2. got[c] # <<c>>
    <3>1. ~Sent(c, c)
      BY <2>1 DEF IInv, RequestsOnce
    <3> QED
      BY <3>1 DEF Sent
  <2>3. got'[c] = <<c>>
    <3>1. got[c] = <<>>
      BY <1>5, <2>2
    <3>2. c \in DOMAIN got
      BY <1>1 DEF TypeOK
    <3> QED
      BY <2>1, <3>1, <3>2
  <2> QED
    BY <1>7, <1>13, <2>3 DEF SendChunk
<1>14. CASE SendFails(t)
  <2>1. peer[c] = "gone"
    BY <1>2, <1>14 DEF SendFails, Serves, Destinations
  <2> QED
    BY <1>5, <1>7, <1>14, <2>1 DEF SendFails, network
<1>15. CASE SendNotFound(t)
  <2>1. c \in missing /\ missing' = missing
    BY <1>2, <1>15 DEF SendNotFound, Serves
  <2> QED
    BY <1>5, <1>7, <1>15, <2>1 DEF SendNotFound, network
<1>16. CASE Shutdown(t)
  <2>1. /\ peer[c] = "gone" /\ conn'[c] = "shut" /\ got' = got
        /\ thread'[t].pc = "close"
    BY <1>1, <1>2, <1>4, <1>16 DEF Shutdown, Serves, Usable, Goto, TypeOK
  <2> QED
    BY <1>5, <1>6, <2>1 DEF Ended
<1>17. CASE Close(t)
  <2>1. thread[t].pc = "close" /\ thread'[t].pc = "done" /\ UNCHANGED <<unread, got, missing>>
    BY <1>4, <1>17 DEF Close, Goto
  <2>2. conn'[c] = "closed"
    BY <1>1, <1>2, <1>17 DEF Close, Closed, Usable, Serves, TypeOK
  <2>3. Alive' = {}
    BY <1>3, <2>1 DEF Ended
  <2> QED
    BY <1>2, <1>5, <2>1, <2>2, <2>3 DEF ClosedServed, Attended
<1> QED
  BY <1>8, <1>9, <1>10, <1>11, <1>12, <1>13, <1>14, <1>15, <1>16, <1>17 DEF ThreadStep

LEMMA LoneStep ==
  ASSUME IInv, Next
  PROVE  LoneServed'
<1> USE ConnsAssumption
<1>0. TypeOK /\ (\A c \in lone : ClosedServed(c) \/ OpenServed(c)) /\ lone \subseteq Conns
  BY LoneCases DEF IInv, TypeOK
<1>1. ASSUME NEW t \in Threads, ThreadStep(t), NEW c \in lone
      PROVE  ClosedServed(c)' \/ OpenServed(c)'
  <2>1. CASE OpenServed(c)
    BY <1>0, <1>1, <2>1, OpenStep
  <2>2. CASE ClosedServed(c)
    <3>1. peer' = peer /\ client_sock' = client_sock /\ client_sock # c
      BY <1>0, <1>1, <2>2, ThreadsMove DEF Moves, ClosedServed, Alive
    <3>2. conn'[c] = "closed" /\ missing \subseteq missing' /\ (c \in unread => c \in unread')
      BY <1>0, <1>1, <2>2, OthersMove DEF ClosedServed
    <3>3. got'[c] = got[c]
      BY <1>0, <1>1, <3>1, OthersMove, SendType DEF IInv, TypeOK
    <3> QED
      BY <1>0, <2>2, <3>1, <3>2, <3>3, ClosedStays DEF ClosedServed
  <2> QED
    BY <1>0, <2>1, <2>2
<1>2. ASSUME NEW d \in Conns, Connect(d) \/ Ask(d) \/ Leave(d), NEW c \in lone
      PROVE  ClosedServed(c)' \/ OpenServed(c)'
  <2>1. UNCHANGED <<client_sock, thread, got, missing, Alive>> /\ unread \subseteq unread'
    BY <1>2 DEF Connect, Ask, Leave, Alive
  <2>2. conn[c] \notin {"none", "backlog"}
    BY <1>0 DEF ClosedServed, OpenServed, Serves
  <2>3. conn'[c] = conn[c]
    BY <1>0, <1>2, <2>2 DEF Connect, Ask, Leave, TypeOK, IInv, BacklogUntouched
  <2>4. /\ peer[c] = "gone" => peer'[c] = "gone"
        /\ peer'[c] = "asked" => peer[c] = "asked" \/ (conn[c] # "closed" /\ c \in unread')
    BY <1>0, <1>2 DEF Connect, Ask, Leave, TypeOK
  <2>5. CASE ClosedServed(c)
    BY <1>0, <2>1, <2>3, <2>4, <2>5, ClosedStays DEF ClosedServed
  <2>6. CASE OpenServed(c)
    <3>1. Attended(c)'
      BY <2>1, <2>3, <2>4, <2>6 DEF OpenServed, Attended
    <3>2. \E t \in Threads : Serves(t, c)'
      BY <2>1, <2>3, <2>4, <2>6 DEF OpenServed, Serves
    <3> QED
      BY <2>1, <2>6, <3>1, <3>2 DEF OpenServed
  <2> QED
    BY <1>0, <2>5, <2>6
<1>3. ASSUME NEW s \in Conns \cup {Invalid}, Starts(s), NEW c \in lone, conn'[c] = conn[c],
             c # s, Alive = {} \/ c # client_sock
      PROVE  ClosedServed(c)'
  <2>1. ClosedServed(c)
    BY <1>0, <1>3 DEF OpenServed, Serves
  <2>2. client_sock' # c /\ UNCHANGED <<peer, unread, got, missing>>
    BY <1>3 DEF Starts
  <2> QED
    BY <1>0, <1>3, <2>1, <2>2, ClosedStays DEF ClosedServed
<1>4. ASSUME NEW d \in Conns, Accept(d), NEW c \in lone'
      PROVE  ClosedServed(c)' \/ OpenServed(c)'
  <2>1. /\ Starts(d) /\ conn[d] = "backlog" /\ conn' = [conn EXCEPT ![d] = "open"]
        /\ lone' = Lone(d)
    BY <1>4 DEF Starts, Accept, StartThread
  <2>2. d \notin lone
    BY <1>0, <2>1 DEF ClosedServed, OpenServed, Serves
  <2>3. CASE c = d
    <3>1. Alive = {}
      BY <2>1, <2>2, <2>3 DEF Lone
    <3>2. PICK n \in Threads : n = started + 1
      BY <1>0, <2>1 DEF Starts, Threads, TypeOK
    <3>3. thread'[n].pc = "start"
      BY <1>0, <2>1, <3>2 DEF Starts, TypeOK
    <3>4. \A u \in Threads \ {n} : thread'[u] = thread[u]
      BY <1>0, <2>1, <3>2 DEF Starts, TypeOK
    <3>5. Alive' = {n}
      BY <3>1, <3>3, <3>4 DEF Alive, Ended
    <3>6. conn'[d] = "open" /\ client_sock' = d
      BY <1>0, <2>1 DEF Starts, TypeOK
    <3>7. Attended(d)'
      BY <2>1 DEF Starts, Attended, IInv, BacklogUntouched
    <3>8. Serves(n, d)'
      BY <3>3, <3>5, <3>6 DEF Serves
    <3> QED
      BY <2>3, <3>6, <3>7, <3>8 DEF OpenServed
  <2>4. CASE c # d
    <3>1. c \in lone /\ (Alive = {} \/ c # client_sock)
      BY <1>4, <2>1, <2>4 DEF Lone
    <3>2. conn'[c] = conn[c]
      BY <1>0, <2>1, <2>4, <3>1 DEF TypeOK
    <3> QED
      BY <1>3, <2>1, <2>4, <3>1, <3>2
  <2> QED
    BY <2>3, <2>4
<1>5. ASSUME AcceptFails, NEW c \in lone'
      PROVE  ClosedServed(c)'
  <2>1. Starts(Invalid) /\ conn' = conn /\ c \in lone /\ (Alive = {} \/ c # client_sock)
    BY <1>5 DEF Starts, AcceptFails, StartThread, network
  <2> QED
    BY <1>0, <1>3, <2>1
<1>6. \A c \in lone' : ClosedServed(c)' \/ OpenServed(c)'
  <2>1. lone' = lone \/ AcceptFails \/ \E d \in Conns : Accept(d)
    BY <1>0, ThreadsMove DEF Next, Moves, Connect, Ask, Leave
  <2> QED
    BY <1>1, <1>2, <1>4, <1>5, <2>1 DEF Next
<1> QED
  BY <1>6 DEF LoneServed, ClosedServed, OpenServed, Serves

-----------------------------------------------------------------------------
(* The theorems.                                                           *)

\* The inductive invariant of the server: each request is in one place, and a
\* connection no thread overlapped is its own thread's to the end.
THEOREM Invariance == Spec => []IInv
<1>1. Init => IInv
  <2> SUFFICES ASSUME Init
               PROVE  IInv
    OBVIOUS
  <2> USE ConnsAssumption
  <2>1. TypeOK
    <3>1. thread \in [Threads -> ThreadRecord]
      BY DEF Init, ThreadRecord, Pcs, Ended
    <3> QED
      BY <3>1 DEF Init, TypeOK, ThreadRecord, Pcs
  <2>2. ThreadsSound /\ BacklogUntouched
    BY DEF Init, ThreadsSound, BacklogUntouched
  <2>3. \A c \in Conns : got[c] = <<>> /\ Len(got[c]) = 0
    BY DEF Init
  <2>4. RequestsOnce /\ AnsweredOnce
    BY <2>3 DEF Init, RequestsOnce, AnsweredOnce, Sent
  <2>5. LoneServed
    BY DEF Init, LoneServed
  <2> QED
    BY <2>1, <2>2, <2>4, <2>5 DEF IInv
<1>2. IInv /\ [Next]_vars => IInv'
  <2> SUFFICES ASSUME IInv, [Next]_vars
               PROVE  IInv'
    OBVIOUS
  <2>1. CASE Next
    BY <2>1, TypeStep, BacklogStep, RequestsStep, AnsweredOnceStep, LoneStep DEF IInv
  <2>2. CASE UNCHANGED vars
    <3> USE <2>2 DEF vars
    <3>1. TypeOK' /\ ThreadsSound' /\ BacklogUntouched' /\ AnsweredOnce'
      BY DEF IInv, TypeOK, ThreadsSound, BacklogUntouched, AnsweredOnce
    <3>2. RequestsOnce'
      BY DEF IInv, RequestsOnce, Sent
    <3>3. LoneServed'
      BY DEF IInv, LoneServed, Serves, Attended, Alive
    <3> QED
      BY <3>1, <3>2, <3>3 DEF IInv
  <2> QED
    BY <2>1, <2>2
<1> QED
  BY <1>1, <1>2, PTL DEF Spec

\* Type correctness of the server, its threads and its clients.
THEOREM TypeCorrect == Spec => []TypeOK
<1>1. IInv => TypeOK
  BY DEF IInv
<1> QED
  BY <1>1, Invariance, PTL

\* However many threads share client_sock, process_request answers no request twice.
THEOREM RequestsAnsweredOnce == Spec => []AnsweredOnce
<1>1. IInv => AnsweredOnce
  BY DEF IInv
<1> QED
  BY <1>1, Invariance, PTL

\* A connection that no other thread overlapped gets its own answer and nothing else,
\* before it is closed on a client that waits for a chunk the storage has.
THEOREM LoneConnectionsAreAnswered == Spec => []LoneIsAnswered
<1>1. IInv => LoneIsAnswered
  <2> SUFFICES ASSUME IInv, NEW c \in lone
               PROVE  /\ got[c] \in {<<>>, <<c>>}
                      /\ conn[c] = "closed" /\ peer[c] = "asked" /\ c \notin unread
                           /\ c \notin missing => got[c] = <<c>>
    BY DEF LoneIsAnswered
  <2> QED
    BY DEF IInv, LoneServed, Attended
<1> QED
  BY <1>1, Invariance, PTL

-----------------------------------------------------------------------------
(* The connection accepted last is in somebody's hands.                     *)

Closing == {"refuse", "shutdown", "close"}

\* Its request is to be read, in a thread's hands or answered on it, or some thread is
\* about to close client_sock.
RequestInHand(c) ==
  \/ c \in unread \/ Sent(c, c)
  \/ \E t \in Threads : thread[t].req = c \/ thread[t].pc \in Closing

\* Unless it is closed its own thread lives and, in recv, is there on it.
NewestInHand ==
  client_sock \in Conns =>
    /\ conn[client_sock] \in {"open", "shut", "closed"}
    /\ conn[client_sock] # "closed" =>
         /\ started \in Threads /\ thread[started].pc \notin Ended
         /\ thread[started].pc = "recv" => thread[started].on = client_sock
         /\ peer[client_sock] = "asked" => RequestInHand(client_sock)

\* A thread that closes closes the newest; one that takes its request holds it, answers
\* on it, or closes.
LEMMA InHandMoves ==
  ASSUME IInv, NewestInHand, NEW t \in Threads, ThreadStep(t)
  PROVE  NewestInHand'
<1> USE ConnsAssumption DEF Ended
<1> SUFFICES ASSUME client_sock \in Conns
             PROVE  NewestInHand'
  BY ThreadsMove DEF IInv, Moves, NewestInHand
<1> PICK c \in Conns : c = client_sock
  OBVIOUS
<1>1. /\ TypeOK /\ UNCHANGED <<client_sock, started, peer>> /\ thread[t].pc \notin Ended
      /\ thread \in [Threads -> ThreadRecord] /\ \A u \in Threads \ {t} : thread'[u] = thread[u]
  BY ThreadsMove DEF IInv, Moves, TypeOK, ThreadRecord, Pcs
<1>2. /\ conn[c] \in {"open", "shut", "closed"} /\ conn'[c] \in {"open", "shut", "closed"}
      /\ conn[c] = "closed" => conn'[c] = "closed"
      /\ unread' \subseteq unread
  BY <1>1, OthersMove DEF NewestInHand
<1>3. Close(t) => conn'[c] = "closed"
  BY <1>1, <1>2 DEF Close, Closed, Usable, TypeOK
<1> SUFFICES ASSUME conn'[c] # "closed"
             PROVE  /\ thread'[started].pc \notin Ended
                    /\ thread'[started].pc = "recv" => thread'[started].on = c
                    /\ peer[c] = "asked" => RequestInHand(c)'
  BY <1>1, <1>2 DEF NewestInHand
<1>4. /\ started \in Threads /\ thread[started].pc \notin Ended /\ conn[c] # "closed"
      /\ thread[started].pc = "recv" => thread[started].on = c
      /\ peer[c] = "asked" => RequestInHand(c)
  BY <1>2 DEF NewestInHand
\* Where a thread stands after its step.
<1>5. \/ CallRecv(t) /\ thread'[t].pc = "recv" /\ thread'[t].on = c
      \/ thread'[t].pc \in {"send", "call"} \cup Closing
  BY <1>1, <1>3
  DEF ThreadStep, Goto, OutOfMemory, CallRecv, RecvRequest, RecvEnd, RecvFails, SendChunk,
      SendFails, SendNotFound, Shutdown, Closing
<1>6. /\ thread'[started].pc \notin Ended
      /\ thread'[started].pc = "recv" => thread'[started].on = c
  BY <1>1, <1>4, <1>5 DEF Closing
<1>7. ASSUME RequestInHand(c)
      PROVE  RequestInHand(c)'
  <2>1. CASE c \in unread
    <3>1. CASE \E found \in BOOLEAN : RecvRequest(t, found)
      <4>1. c \notin unread' => thread[t].on = c
        BY <2>1, <3>1 DEF RecvRequest, Taken
      <4>2. thread[t].on = c => thread'[t].req = c \/ thread'[t].pc = "refuse"
        BY <1>1, <3>1 DEF RecvRequest, Goto
      <4>3. CASE c \in unread'
        BY <4>3 DEF RequestInHand
      <4>4. CASE thread'[t].req = c \/ thread'[t].pc = "refuse"
        BY <4>4 DEF RequestInHand, Closing
      <4> QED
        BY <4>1, <4>2, <4>3, <4>4
    <3>2. CASE ~\E found \in BOOLEAN : RecvRequest(t, found)
      BY <2>1, <3>2
      DEF ThreadStep, OutOfMemory, CallRecv, RecvEnd, RecvFails, SendChunk, SendFails,
          SendNotFound, Shutdown, Close, network, RequestInHand
    <3> QED
      BY <3>1, <3>2
  <2>2. CASE Sent(c, c)
    <3>1. CASE SendChunk(t)
      <4>1. got'[c] = Append(got[c], thread[t].req) /\ got[c] \in Seq(Conns)
            /\ thread[t].req \in Conns
        BY <3>1, SendType DEF IInv, TypeOK
      <4>2. PICK i \in 1..Len(got[c]) : got[c][i] = c
        BY <2>2 DEF Sent
      <4>3. i \in 1..Len(got'[c]) /\ got'[c][i] = c
        BY <4>1, <4>2
      <4> QED
        BY <4>3 DEF RequestInHand, Sent
    <3>2. CASE ~SendChunk(t)
      BY <1>1, <2>2, <3>2, OthersMove DEF RequestInHand, Sent
    <3> QED
      BY <3>1, <3>2
  <2>3. ASSUME NEW u \in Threads, u # t, thread[u].req = c \/ thread[u].pc \in Closing
        PROVE  RequestInHand(c)'
    BY <1>1, <2>3 DEF RequestInHand
  <2>4. CASE thread[t].req = c
    <3>1. thread[t].pc = "send"
      BY <2>4 DEF IInv, ThreadsSound
    <3>2. CASE SendChunk(t)
      <4>1. got'[c] = Append(got[c], c) /\ got[c] \in Seq(Conns)
        BY <2>4, <3>2, SendType DEF IInv, TypeOK
      <4>2. Len(got'[c]) \in 1..Len(got'[c]) /\ got'[c][Len(got'[c])] = c
        BY <4>1
      <4> QED
        BY <4>2 DEF RequestInHand, Sent
    <3>3. CASE SendFails(t)
      <4>1. thread'[t].pc = "close"
        BY <1>1, <3>3 DEF SendFails, Goto
      <4> QED
        BY <4>1 DEF RequestInHand, Closing
    <3> QED
      BY <3>1, <3>2, <3>3
      DEF ThreadStep, OutOfMemory, CallRecv, RecvRequest, RecvEnd, RecvFails, SendNotFound,
          Shutdown, Close
  <2>5. CASE thread[t].pc \in Closing
    <3>1. thread'[t].pc \in Closing
      BY <1>1, <1>3, <2>5
      DEF Closing, ThreadStep, OutOfMemory, CallRecv, RecvRequest, RecvEnd, RecvFails,
          SendChunk, SendFails, SendNotFound, Shutdown, Goto
    <3> QED
      BY <3>1 DEF RequestInHand
  <2> QED
    BY <1>7, <2>1, <2>2, <2>3, <2>4, <2>5 DEF RequestInHand
<1> QED
  BY <1>4, <1>6, <1>7

\* What NewestIsServed and NewestIsClosed rest on: however the threads overlap on
\* client_sock, the connection accepted last keeps a thread that reads from it, and its
\* request is not lost; no thread ends before it has closed it.
THEOREM NewestIsInHand == Spec => []NewestInHand
<1>1. Init => NewestInHand
  BY ConnsAssumption DEF Init, NewestInHand
<1>2. IInv /\ NewestInHand /\ [Next]_vars => NewestInHand'
  <2> SUFFICES ASSUME IInv, NewestInHand, [Next]_vars
               PROVE  NewestInHand'
    OBVIOUS
  <2>1. ASSUME NEW t \in Threads, ThreadStep(t)
        PROVE  NewestInHand'
    BY <2>1, InHandMoves
  <2>2. ASSUME NEW d \in Conns, Connect(d) \/ Ask(d) \/ Leave(d)
        PROVE  NewestInHand'
    <3>1. /\ UNCHANGED <<client_sock, thread, started, got>> /\ unread \subseteq unread'
          /\ conn \in [Conns -> {"none", "backlog", "open", "shut", "closed"}]
          /\ peer \in [Conns -> {"away", "connected", "asked", "gone"}]
      BY <2>2 DEF Connect, Ask, Leave, IInv, TypeOK
    <3>2. client_sock \in Conns => conn'[client_sock] = conn[client_sock]
      BY <2>2, <3>1 DEF Connect, Ask, Leave, NewestInHand, IInv, BacklogUntouched
    <3>3. \A c \in Conns : peer'[c] = "asked" => peer[c] = "asked" \/ c \in unread'
      BY <2>2, <3>1 DEF Connect, Ask, Leave
    <3>4. \A c \in Conns : RequestInHand(c) => RequestInHand(c)'
      BY <3>1 DEF RequestInHand, Sent
    <3>5. \A c \in Conns : c \in unread' => RequestInHand(c)'
      BY DEF RequestInHand
    <3> QED
      BY <3>1, <3>2, <3>3, <3>4, <3>5 DEF NewestInHand
  <2>3. ASSUME NEW d \in Conns, Accept(d)
        PROVE  NewestInHand'
    <3>1. /\ client_sock' = d /\ conn'[d] = "open" /\ started' = started + 1
          /\ UNCHANGED <<peer, unread>> /\ conn[d] = "backlog"
      BY <2>3 DEF Accept, StartThread, IInv, TypeOK
    <3>2. started' \in Threads /\ thread'[started'].pc = "start"
      <4>1. started + 1 \in Threads /\ thread \in [Threads -> ThreadRecord]
        BY <2>3, ConnsAssumption
        DEF Accept, StartThread, IInv, TypeOK, Threads, ThreadRecord, Pcs
      <4>2. thread[started + 1] \in ThreadRecord
        BY <4>1
      <4>3. thread' = [thread EXCEPT ![started + 1].pc = "start"]
        BY <2>3 DEF Accept, StartThread
      <4>4. thread'[started + 1].pc = "start"
        BY <4>1, <4>2, <4>3 DEF ThreadRecord
      <4> QED
        BY <3>1, <4>1, <4>4
    <3>3. peer[d] = "asked" => d \in unread
      BY <3>1 DEF IInv, BacklogUntouched
    <3> QED
      BY <3>1, <3>2, <3>3 DEF NewestInHand, RequestInHand, Ended
  <2>4. CASE AcceptFails
    BY <2>4, ConnsAssumption DEF AcceptFails, NewestInHand
  <2>5. CASE UNCHANGED vars
    BY <2>5 DEF vars, NewestInHand, RequestInHand, Sent
  <2> QED
    BY <2>1, <2>2, <2>3, <2>4, <2>5 DEF Next
<1> QED
  BY <1>1, <1>2, Invariance, PTL DEF Spec

-----------------------------------------------------------------------------
(* The connection accepted last is served and closed.  Which thread does   *)
(* it is not known beforehand: each theorem follows one thread, and        *)
(* NewestIsInHand says that there is one to follow.                        *)

\* What the newest thread is about to answer is its own connection's request.
NewestOwn ==
  client_sock \in Conns /\ conn[client_sock] # "closed" /\ thread[started].pc = "send" =>
    thread[started].req = client_sock

LEMMA NewestOwnStep ==
  ASSUME IInv, NewestInHand, NewestInHand', NewestOwn, [Next]_vars
  PROVE  NewestOwn'
<1> USE ConnsAssumption
<1> SUFFICES ASSUME client_sock' \in Conns, conn'[client_sock'] # "closed",
                    thread'[started'].pc = "send"
             PROVE  thread'[started'].req = client_sock'
  BY DEF NewestOwn
<1>0. started' \in Threads
  BY DEF NewestInHand
<1>1. ASSUME NEW t \in Threads, ThreadStep(t)
      PROVE  thread'[started'].req = client_sock'
  <2>1. /\ UNCHANGED <<client_sock, started>>
        /\ \A u \in Threads \ {t} : thread'[u] = thread[u]
        /\ conn[client_sock] # "closed"
    BY <1>1, ThreadsMove, OthersMove DEF IInv, Moves, TypeOK
  <2>2. CASE t # started
    BY <1>0, <2>1, <2>2 DEF NewestOwn
  <2>3. CASE t = started
    <3>1. \E found \in BOOLEAN : RecvRequest(t, found) /\ found
      <4>1. thread'[t].pc = "send" /\ thread \in [Threads -> ThreadRecord]
        BY <2>1, <2>3 DEF IInv, TypeOK, ThreadRecord, Pcs
      <4> QED
        BY <1>1, <4>1
        DEF ThreadStep, Goto, OutOfMemory, CallRecv, RecvRequest, RecvEnd, RecvFails, SendChunk,
            SendFails, SendNotFound, Shutdown, Close
    <3>2. thread'[t].req = thread[t].on /\ thread[t].pc = "recv"
      BY <3>1 DEF RecvRequest, IInv, TypeOK
    <3> QED
      BY <2>1, <2>3, <3>2 DEF NewestInHand
  <2> QED
    BY <2>2, <2>3
<1>2. ASSUME NEW d \in Conns, Connect(d) \/ Ask(d) \/ Leave(d)
      PROVE  thread'[started'].req = client_sock'
  <2>1. UNCHANGED <<client_sock, thread, started>> /\ (conn' = conn \/ Connect(d))
    BY <1>2 DEF Connect, Ask, Leave
  <2>2. conn[client_sock] # "closed"
    BY <2>1 DEF Connect, NewestInHand, IInv, BacklogUntouched, TypeOK
  <2> QED
    BY <2>1, <2>2 DEF NewestOwn
<1>3. ASSUME NEW d \in Conns, Accept(d)
      PROVE  FALSE
  <2>1. started' = started + 1 /\ thread' = [thread EXCEPT ![started + 1].pc = "start"]
    BY <1>3 DEF Accept, StartThread
  <2>2. thread \in [Threads -> ThreadRecord]
    BY DEF IInv, TypeOK, ThreadRecord, Pcs
  <2>3. thread[started'] \in ThreadRecord
    BY <1>0, <2>2
  <2>4. thread'[started'].pc = "start"
    BY <1>0, <2>1, <2>2, <2>3 DEF ThreadRecord
  <2> QED
    BY <2>4
<1>4. ~AcceptFails
  BY DEF AcceptFails
<1>5. CASE UNCHANGED vars
  BY <1>5 DEF vars, NewestOwn
<1> QED
  BY <1>1, <1>2, <1>3, <1>4, <1>5 DEF Next

LEMMA NewestOwned == Spec => []NewestOwn
<1>1. Init => NewestOwn
  BY ConnsAssumption DEF Init, NewestOwn
<1>2. IInv /\ NewestInHand /\ NewestInHand' /\ NewestOwn /\ [Next]_vars => NewestOwn'
  BY NewestOwnStep
<1> QED
  BY <1>1, <1>2, Invariance, NewestIsInHand, PTL DEF Spec

Served == IInv /\ NewestInHand /\ NewestOwn

\* Of the newest connection: closed, or no longer the newest.
Settled(c) == conn[c] = "closed" \/ client_sock # c

\* How many calls the thread of the newest connection c can still make, while c has a
\* request to read or its client has left: a request read costs a send and one more recv.
Calls(s, c) ==
  CASE thread[s].pc \in {"start", "call"} -> IF c \in unread THEN 8 ELSE 5
    [] thread[s].pc = "recv"              -> IF c \in unread THEN 7 ELSE 4
    [] thread[s].pc = "send"              -> 6
    [] thread[s].pc = "refuse"            -> 3
    [] thread[s].pc = "shutdown"          -> 2
    [] OTHER                              -> 1

ToRead(c) == c \in unread \/ peer[c] = "gone"

Reads(c, s, k) ==
  client_sock = c /\ started = s /\ conn[c] # "closed" /\ ToRead(c) /\ Calls(s, c) <= k

Read(c) == Settled(c) \/ ~ToRead(c)

\* What a step leaves of the newest connection.
LEMMA NewestStays ==
  ASSUME Served, Served', [Next]_vars, NEW c \in Conns, client_sock = c, ~Settled(c)'
  PROVE  /\ conn[c] \in {"open", "shut"} /\ conn'[c] \in {"open", "shut"}
         /\ client_sock' = c /\ started' = started /\ started \in Threads
         /\ peer[c] = "gone" => peer'[c] = "gone"
         /\ c \in unread' => c \in unread \/ Ask(c)
<1> USE ConnsAssumption
<1>1. client_sock' = c /\ conn'[c] \in {"open", "shut"}
  BY DEF Settled, Served, NewestInHand
<1>2. ~AcceptFails /\ \A d \in Conns : ~Accept(d)
  <2>1. ~AcceptFails
    BY <1>1 DEF AcceptFails
  <2>2. \A d \in Conns : Accept(d) => d = c /\ conn[c] = "backlog"
    BY <1>1 DEF Accept
  <2> QED
    BY <2>1, <2>2 DEF Served, NewestInHand
<1>3. ASSUME NEW t \in Threads, ThreadStep(t)
      PROVE  /\ started' = started /\ peer' = peer /\ unread' \subseteq unread
             /\ conn[c] = "closed" => conn'[c] = "closed"
  BY <1>3, ThreadsMove, OthersMove DEF Served, IInv, Moves
<1>4. ASSUME NEW d \in Conns, Connect(d) \/ Ask(d) \/ Leave(d)
      PROVE  /\ started' = started /\ (peer[c] = "gone" => peer'[c] = "gone")
             /\ c \in unread' => c \in unread \/ Ask(c)
             /\ conn[c] = "closed" => conn'[c] = "closed"
  BY <1>1, <1>4 DEF Connect, Ask, Leave, Served, IInv, TypeOK
<1>5. CASE UNCHANGED vars
  BY <1>1, <1>5 DEF vars, Served, NewestInHand
<1> QED
  BY <1>1, <1>2, <1>3, <1>4, <1>5 DEF Next, Served, NewestInHand

\* The thread of the newest connection does not turn back.
LEMMA ReadsStep ==
  ASSUME Served, Served', [Next]_vars, NEW c \in Conns, NEW s \in Threads, NEW k \in Int,
         Reads(c, s, k), ThreadStep(s)
  PROVE  Reads(c, s, k - 1)' \/ Read(c)'
<1> USE ConnsAssumption DEF Ended
<1> SUFFICES ASSUME ~Settled(c)', ToRead(c)'
             PROVE  Calls(s, c)' <= Calls(s, c) - 1
  <2>1. ASSUME ~Settled(c)', ToRead(c)', Calls(s, c)' <= Calls(s, c) - 1
        PROVE  Reads(c, s, k - 1)'
    <3>1. Calls(s, c) \in Int /\ Calls(s, c)' \in Int
      BY DEF Calls
    <3>2. client_sock' = c /\ started' = s /\ conn'[c] # "closed"
      BY <2>1, NewestStays DEF Reads, Settled
    <3>3. Calls(s, c)' <= k - 1
      BY <2>1, <3>1 DEF Reads
    <3> QED
      BY <2>1, <3>2, <3>3 DEF Reads
  <2> QED
    BY <2>1 DEF Read
<1>1. /\ client_sock = c /\ started = s /\ conn[c] \in {"open", "shut"} /\ conn'[c] # "closed"
      /\ thread \in [Threads -> ThreadRecord] /\ unread' \subseteq unread
  BY NewestStays, OthersMove DEF Reads, Served, IInv, TypeOK, ThreadRecord, Pcs, Settled
<1>2. /\ thread[s].pc = "recv" => thread[s].on = c
      /\ thread[s].pc = "send" => c \notin unread
  <2>1. thread[s].pc = "send" => thread[s].req = c
    BY <1>1 DEF Served, NewestOwn
  <2> QED
    BY <1>1, <2>1 DEF Served, NewestInHand, IInv, RequestsOnce
<1>3. CASE OutOfMemory(s)
  BY <1>1, <1>3 DEF OutOfMemory, Goto, Calls, network
<1>4. CASE CallRecv(s)
  BY <1>1, <1>4 DEF CallRecv, Calls, network
<1>5. ASSUME NEW found \in BOOLEAN, RecvRequest(s, found)
      PROVE  Calls(s, c)' <= Calls(s, c) - 1
  <2>1. thread[s].pc = "recv" /\ c \in unread /\ thread'[s].pc \in {"send", "refuse"}
    BY <1>1, <1>2, <1>5 DEF RecvRequest, Goto
  <2> QED
    BY <2>1 DEF Calls
<1>6. CASE RecvEnd(s) \/ RecvFails(s)
  BY <1>1, <1>6 DEF RecvEnd, RecvFails, Goto, Calls, network
<1>7. CASE SendChunk(s) \/ SendFails(s)
  <2>1. thread[s].pc = "send" /\ thread'[s].pc \in {"call", "close"} /\ c \notin unread'
    BY <1>1, <1>2, <1>7 DEF SendChunk, SendFails, Goto
  <2> QED
    BY <2>1 DEF Calls
<1>8. CASE SendNotFound(s) \/ Shutdown(s)
  BY <1>1, <1>8 DEF SendNotFound, Shutdown, Goto, Calls, network
<1>9. CASE Close(s)
  BY <1>1, <1>9 DEF Close, Closed, Usable, Served, IInv, TypeOK
<1> QED
  BY <1>3, <1>4, <1>5, <1>6, <1>7, <1>8, <1>9 DEF ThreadStep

\* Nobody else holds it up; another thread may read the request in its place.
LEMMA ReadsStays ==
  ASSUME Served, Served', [Next]_vars, NEW c \in Conns, NEW s \in Threads, NEW k \in Int,
         Reads(c, s, k), ~ThreadStep(s)
  PROVE  Reads(c, s, k)' \/ Read(c)'
<1> USE ConnsAssumption
<1> SUFFICES ASSUME ~Settled(c)', ToRead(c)'
             PROVE  Reads(c, s, k)'
  BY DEF Read
<1>1. /\ client_sock' = c /\ started' = s /\ conn'[c] # "closed"
      /\ c \in unread' => c \in unread \/ Ask(c)
  BY NewestStays DEF Reads, Settled
<1>2. thread'[s] = thread[s]
  <2>1. ASSUME NEW t \in Threads, ThreadStep(t)
        PROVE  thread'[s] = thread[s]
    BY <2>1, ThreadsMove DEF Served, IInv, Moves, TypeOK
  <2>2. ASSUME NEW d \in Conns, Connect(d) \/ Ask(d) \/ Leave(d)
        PROVE  thread' = thread
    BY <2>2 DEF Connect, Ask, Leave
  <2>3. ASSUME AcceptFails \/ \E d \in Conns : Accept(d)
        PROVE  started' # started
    BY <2>3 DEF AcceptFails, Accept, StartThread, Served, IInv, TypeOK
  <2>4. started' = started
    BY <1>1 DEF Reads
  <2>5. CASE UNCHANGED vars
    BY <2>5 DEF vars
  <2> QED
    BY <2>1, <2>2, <2>3, <2>4, <2>5 DEF Next
<1>3. c \in unread' => c \in unread
  <2>1. ~Ask(c)
    BY DEF Ask, Reads, ToRead, Served, IInv, RequestsOnce
  <2> QED
    BY <1>1, <2>1
<1>4. Calls(s, c)' <= Calls(s, c)
  BY <1>2, <1>3 DEF Calls
<1>5. Calls(s, c) \in Int /\ Calls(s, c)' \in Int
  BY DEF Calls
<1> QED
  BY <1>1, <1>4, <1>5 DEF Reads

\* So it comes to read what there is to read, or to close the connection.
LEMMA NewestReads ==
  ASSUME NEW c \in Conns, NEW s \in Threads
  PROVE  Spec /\ GoesOn(s)
           => (client_sock = c /\ started = s /\ ToRead(c) ~> Read(c))
<1> DEFINE Steps(k, j) ==
             /\ Served /\ Served' /\ Reads(c, s, k) /\ [Next]_vars =>
                  Reads(c, s, k)' \/ Reads(c, s, j)' \/ Read(c)'
             /\ Served /\ Served' /\ Reads(c, s, k) /\ [Next]_vars /\ <<ThreadStep(s)>>_vars =>
                  Reads(c, s, j)' \/ Read(c)'
<1>1. ASSUME NEW k \in Int, NEW j \in Int, j = k - 1
      PROVE  Steps(k, j)
  BY <1>1, ReadsStep, ReadsStays
<1>2. Steps(8, 7)
  BY <1>1
<1>3. Steps(7, 6)
  BY <1>1
<1>4. Steps(6, 5)
  BY <1>1
<1>5. Steps(5, 4)
  BY <1>1
<1>6. Steps(4, 3)
  BY <1>1
<1>7. Steps(3, 2)
  BY <1>1
<1>8. Steps(2, 1)
  BY <1>1
<1>9. Steps(1, 0)
  BY <1>1
<1>10. \A k \in Int : Served /\ Reads(c, s, k) => Due(s)
  BY DEF Served, NewestInHand, Reads, ToRead, Due, RecvReturns
<1>11. /\ Served /\ Reads(c, s, 8) => Due(s)
       /\ Served /\ Reads(c, s, 7) => Due(s)
       /\ Served /\ Reads(c, s, 6) => Due(s)
       /\ Served /\ Reads(c, s, 5) => Due(s)
       /\ Served /\ Reads(c, s, 4) => Due(s)
       /\ Served /\ Reads(c, s, 3) => Due(s)
       /\ Served /\ Reads(c, s, 2) => Due(s)
       /\ Served /\ Reads(c, s, 1) => Due(s)
  BY <1>10
<1>12. client_sock = c /\ started = s /\ ToRead(c) => Reads(c, s, 8) \/ Read(c)
  BY DEF Reads, Read, Settled, Calls
<1>13. ~Reads(c, s, 0)
  BY DEF Reads, Calls
<1>14. Spec => []Served
  BY Invariance, NewestIsInHand, NewestOwned, PTL DEF Served
<1> QED
  BY <1>2, <1>3, <1>4, <1>5, <1>6, <1>7, <1>8, <1>9, <1>11, <1>12, <1>13, <1>14, PTL
  DEF Spec, GoesOn

\* When the client of the newest connection has left, the thread of that connection
\* reads on to its end and closes it (p2p_server.cpp, process_request), unless another
\* connection is accepted: NewestIsClosed, for each thread that may be the one.
THEOREM NewestIsClosedByItsThread ==
  FairSpec => \A c \in Conns, s \in Threads :
    client_sock = c /\ started = s /\ peer[c] = "gone" ~> Settled(c)
<1> SUFFICES ASSUME NEW c \in Conns, NEW s \in Threads
             PROVE  Spec /\ GoesOn(s)
                      => (client_sock = c /\ started = s /\ peer[c] = "gone" ~> Settled(c))
  BY DEF FairSpec
<1>1. Spec /\ GoesOn(s) => (client_sock = c /\ started = s /\ ToRead(c) ~> Read(c))
  BY NewestReads
<1>2. Spec => []Served
  BY Invariance, NewestIsInHand, NewestOwned, PTL DEF Served
<1>3. Served /\ Served' /\ client_sock = c /\ peer[c] = "gone" /\ [Next]_vars
        => (client_sock = c /\ peer[c] = "gone")' \/ Settled(c)'
  BY NewestStays
<1>4. peer[c] = "gone" => ToRead(c)
  BY DEF ToRead
<1>5. Read(c) /\ ToRead(c) => Settled(c)
  BY DEF Read
<1> QED
  BY <1>1, <1>2, <1>3, <1>4, <1>5, PTL DEF Spec

\* What thread t can still call before it has answered or closed the connection it sees.
Left(t) ==
  CASE thread[t].pc = "send"                   -> 3
    [] thread[t].pc \in {"refuse", "shutdown"} -> 2
    [] OTHER                                   -> 1

\* Thread t has the request of c in hands, or is about to close what client_sock names.
InCharge(t, c) == thread[t].req = c \/ thread[t].pc \in Closing

Answers(t, c, k) ==
  client_sock = c /\ conn[c] # "closed" /\ InCharge(t, c) /\ Left(t) <= k

Answered(c) == Sent(c, c) \/ Settled(c)

\* It answers on c, or closes it.
LEMMA AnswersStep ==
  ASSUME Served, Served', [Next]_vars, NEW c \in Conns, NEW t \in Threads, NEW k \in Int,
         Answers(t, c, k), ThreadStep(t)
  PROVE  Answers(t, c, k - 1)' \/ Answered(c)'
<1> USE ConnsAssumption DEF Ended
<1> SUFFICES ASSUME ~Answered(c)'
             PROVE  InCharge(t, c)' /\ Left(t)' <= Left(t) - 1
  <2>1. ASSUME ~Answered(c)', InCharge(t, c)', Left(t)' <= Left(t) - 1
        PROVE  Answers(t, c, k - 1)'
    <3>1. Left(t) \in Int /\ Left(t)' \in Int
      BY DEF Left
    <3>2. client_sock' = c /\ conn'[c] # "closed"
      BY <2>1 DEF Answered, Settled
    <3>3. Left(t)' <= k - 1
      BY <2>1, <3>1 DEF Answers
    <3> QED
      BY <2>1, <3>2, <3>3 DEF Answers
  <2> QED
    BY <2>1
<1>1. /\ client_sock = c /\ conn[c] \in {"open", "shut"} /\ conn'[c] # "closed"
      /\ thread \in [Threads -> ThreadRecord] /\ ~Sent(c, c)'
  BY NewestStays DEF Answers, Answered, Settled, Served, IInv, TypeOK, ThreadRecord, Pcs
<1>2. /\ thread[t].req = c => thread[t].pc = "send"
      /\ thread[t].pc \in {"send", "refuse", "shutdown", "close"}
  BY DEF Answers, InCharge, Closing, Served, IInv, ThreadsSound
<1>3. CASE SendChunk(t)
  <2>1. thread[t].req = c
    BY <1>2, <1>3 DEF SendChunk, Answers, InCharge, Closing
  <2>2. Sent(c, c)'
    <3>1. /\ got[c] \in Seq(Conns) /\ c \in DOMAIN got
          /\ got' = [got EXCEPT ![c] = Append(got[c], c)]
      BY <1>1, <1>3, <2>1, SendType DEF Served, IInv, TypeOK
    <3>2. got'[c] = Append(got[c], c)
      BY <3>1
    <3>3. Len(got'[c]) \in Nat \ {0} /\ got'[c][Len(got'[c])] = c
      BY <3>1, <3>2
    <3> QED
      BY <3>3 DEF Sent
  <2> QED
    BY <1>1, <2>2
<1>4. CASE SendFails(t) \/ SendNotFound(t) \/ Shutdown(t)
  <2>1. thread[t].pc \in {"send", "refuse", "shutdown"} /\ thread'[t].pc = "close"
    BY <1>1, <1>4 DEF SendFails, SendNotFound, Shutdown, Goto
  <2> QED
    BY <2>1 DEF InCharge, Closing, Left
<1>5. CASE Close(t)
  BY <1>1, <1>5 DEF Close, Closed, Usable, Served, IInv, TypeOK
<1> QED
  BY <1>2, <1>3, <1>4, <1>5
  DEF ThreadStep, OutOfMemory, CallRecv, RecvRequest, RecvEnd, RecvFails

\* Nobody else takes the request from it.
LEMMA AnswersStays ==
  ASSUME Served, Served', [Next]_vars, NEW c \in Conns, NEW t \in Threads, NEW k \in Int,
         Answers(t, c, k), ~ThreadStep(t)
  PROVE  Answers(t, c, k)' \/ Answered(c)'
<1> SUFFICES ASSUME ~Answered(c)'
             PROVE  Answers(t, c, k)'
  OBVIOUS
<1>1. client_sock' = c /\ conn'[c] # "closed" /\ started' = started
  BY NewestStays DEF Answers, Answered, Settled
<1>2. thread'[t] = thread[t]
  <2>1. ASSUME NEW u \in Threads, ThreadStep(u)
        PROVE  thread'[t] = thread[t]
    BY <2>1, ThreadsMove DEF Served, IInv, Moves, TypeOK
  <2>2. ASSUME NEW d \in Conns, Connect(d) \/ Ask(d) \/ Leave(d)
        PROVE  thread' = thread
    BY <2>2 DEF Connect, Ask, Leave
  <2>3. ASSUME AcceptFails \/ \E d \in Conns : Accept(d)
        PROVE  started' # started
    BY <2>3 DEF AcceptFails, Accept, StartThread, Served, IInv, TypeOK
  <2>4. CASE UNCHANGED vars
    BY <2>4 DEF vars
  <2> QED
    BY <1>1, <2>1, <2>2, <2>3, <2>4 DEF Next
<1> QED
  BY <1>1, <1>2 DEF Answers, InCharge, Left

\* NewestIsServed, for each thread that may be the one: the request of the newest
\* connection is read, and a thread that holds it, or is about to close the socket, sends
\* the answer on it or closes it (p2p_server.cpp, process_request), unless another
\* connection is accepted.  NewestInHand says that until then there is such a thread.
THEOREM NewestIsServedByThreads ==
  FairSpec => \A c \in Conns, t \in Threads :
    /\ client_sock = c /\ started = t /\ c \in unread ~> c \notin unread \/ Settled(c)
    /\ client_sock = c /\ InCharge(t, c) ~> Answered(c)
<1> SUFFICES ASSUME NEW c \in Conns, NEW t \in Threads
             PROVE  Spec /\ GoesOn(t) =>
               /\ client_sock = c /\ started = t /\ c \in unread ~> c \notin unread \/ Settled(c)
               /\ client_sock = c /\ InCharge(t, c) ~> Answered(c)
  BY DEF FairSpec
<1>1. Spec => []Served
  BY Invariance, NewestIsInHand, NewestOwned, PTL DEF Served
<1>2. Spec /\ GoesOn(t)
        => (client_sock = c /\ started = t /\ c \in unread ~> c \notin unread \/ Settled(c))
  <2>1. Spec /\ GoesOn(t) => (client_sock = c /\ started = t /\ ToRead(c) ~> Read(c))
    BY NewestReads
  <2>2. c \in unread => ToRead(c)
    BY DEF ToRead
  <2>3. Read(c) => c \notin unread \/ Settled(c)
    BY DEF Read, ToRead
  <2> QED
    BY <2>1, <2>2, <2>3, PTL
<1>3. Spec /\ GoesOn(t) => (client_sock = c /\ InCharge(t, c) ~> Answered(c))
  <2> DEFINE Steps(k, j) ==
               /\ Served /\ Served' /\ Answers(t, c, k) /\ [Next]_vars =>
                    Answers(t, c, k)' \/ Answers(t, c, j)' \/ Answered(c)'
               /\ Served /\ Served' /\ Answers(t, c, k) /\ [Next]_vars /\ <<ThreadStep(t)>>_vars =>
                    Answers(t, c, j)' \/ Answered(c)'
  <2>1. ASSUME NEW k \in Int, NEW j \in Int, j = k - 1
        PROVE  Steps(k, j)
    BY <2>1, AnswersStep, AnswersStays
  <2>2. Steps(3, 2)
    BY <2>1
  <2>3. Steps(2, 1)
    BY <2>1
  <2>4. Steps(1, 0)
    BY <2>1
  <2>5. Served /\ client_sock = c /\ InCharge(t, c) => Due(t)
    BY ConnsAssumption
    DEF Served, IInv, ThreadsSound, InCharge, Closing, Due, Ended
  <2>6. /\ Served /\ Answers(t, c, 3) => Due(t)
        /\ Served /\ Answers(t, c, 2) => Due(t)
        /\ Served /\ Answers(t, c, 1) => Due(t)
    BY <2>5 DEF Answers
  <2>7. client_sock = c /\ InCharge(t, c) => Answers(t, c, 3) \/ Answered(c)
    BY DEF Answers, Answered, Settled, Left
  <2>8. ~Answers(t, c, 0)
    BY DEF Answers, Left
  <2> QED
    BY <1>1, <2>2, <2>3, <2>4, <2>6, <2>7, <2>8, PTL DEF Spec, GoesOn
<1> QED
  BY <1>2, <1>3
=============================================================================
