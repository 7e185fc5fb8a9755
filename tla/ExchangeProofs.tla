--------------------------- MODULE ExchangeProofs ---------------------------
(***************************************************************************)
(* Proofs about Exchange for any number of chunks and downloads: each half *)
(* is an execution of its own module, so that the theorems about Download  *)
(* and P2PServer hold of it, and together they say when a download of a    *)
(* file that the server holds whole may end incomplete.                    *)
(***************************************************************************)
EXTENDS Exchange, FiniteSetTheorems, TLAPS

DP == INSTANCE DownloadProofs WITH
       Files <- {Wanted}, Chunks <- [f \in {Wanted} |-> LastChunk], Sources <- {Peer},
       Announced <- [s \in {Peer} |-> [f \in {Wanted} |-> LastChunk]],
       Has <- [s \in {Peer} |-> [f \in {Wanted} |-> 1..LastChunk]]

SP == INSTANCE P2PServerProofs WITH MaxThreads <- MaxConns

\* The server lacks nothing: no chunk is missing.
NothingRefused == missing = {} /\ \A t \in Conns : thread[t].pc # "refuse"

\* Served by its own thread only, a connection is not shut before its client leaves.
LoneKept ==
  \A c \in lone :
    /\ conn[c] \in {"shut", "closed"} => peer[c] = "gone"
    /\ \A t \in Conns :
         client_sock = c /\ conn[c] = "open" /\ thread[t].pc \in {"shutdown", "close"}
           => peer[c] = "gone"

\* The current connection is the last one made, and asks for the current chunk.
LinkCurrent ==
  /\ link \in Conns \cup {0}
  /\ \A c \in Conns : c > link => peer[c] = "away"
  /\ phase = "recv" => link \in Conns /\ peer[link] \in {"connected", "asked"}
  /\ phase = "recv" /\ peer[link] = "asked" => asked[link] = entry.chunk
  /\ DOMAIN asked = Conns
  /\ peer \in [Conns -> {"away", "connected", "asked", "gone"}]

\* What failed was on a connection that overlapped with another.
Blamed == ~healthy => \E c \in 1..link : c \notin lone /\ conn[c] \notin {"none", "backlog"}

Together == NothingRefused /\ LoneKept /\ LinkCurrent /\ Blamed

-----------------------------------------------------------------------------
(* The two halves.                                                         *)

\* What the theorems about the halves assume of their constants.
LEMMA HalvesAssumptions ==
  /\ LastChunk \in Nat \ {0} /\ MaxDownloads \in Nat /\ MaxConns \in Nat
  /\ DP!DownloadAssumption
  /\ SP!ConnsAssumption
<1>1. LastChunk \in Nat \ {0} /\ MaxDownloads \in Nat /\ LastChunk \in 0..255
  BY ExchangeAssumption
<1>2. MaxConns \in Nat
  BY <1>1 DEF MaxConns
<1>3. IsFiniteSet({Peer})
  BY FS_Singleton
<1>4. 1..LastChunk \in SUBSET Nat
  OBVIOUS
<1>5. DP!DownloadAssumption
  BY <1>1, <1>3, <1>4 DEF DP!DownloadAssumption, DP!IsFiniteSet, IsFiniteSet
<1>6. SP!ConnsAssumption
  BY <1>2 DEF SP!ConnsAssumption, Conns, Invalid
<1> QED
  BY <1>1, <1>2, <1>5, <1>6

\* Each action of Download is the same action, read in either instance of the module.
LEMMA DownloadActions ==
  /\ D!Init => DP!Init
  /\ D!StartDownload(Wanted) => DP!StartDownload(Wanted)
  /\ D!SendRequest => DP!SendRequest
  /\ D!ReplyArrives({Peer}) => DP!ReplyArrives({Peer})
  /\ D!Timeout => DP!Timeout
  /\ D!SelectFails => DP!SelectFails
  /\ D!RecvfromFails => DP!RecvfromFails
  /\ \A e : D!Skip(e) => DP!Skip(e)
  /\ \A e : D!Connect(e) => DP!Connect(e)
  /\ \A e : D!OutOfRange(e) => DP!OutOfRange(e)
  /\ D!ReceiveChunk => DP!ReceiveChunk
  /\ \A r, q : D!ReceiveOther(r, q) => DP!ReceiveOther(r, q)
  /\ D!ReceiveNothing => DP!ReceiveNothing
  /\ D!Inform => DP!Inform
  /\ D!NoEntryLeft => DP!NoEntryLeft
<1> USE DEF D!client, D!storage, D!history, DP!client, DP!storage, DP!history
<1>0. /\ \A f, n : D!Whole(f, n) = DP!Whole(f, n)
      /\ \A f : D!Own(f) = DP!Own(f) /\ D!Cut(f) = DP!Cut(f)
      /\ \A R : D!Numbers(R) = DP!Numbers(R)
      /\ D!Records = DP!Records /\ D!Zeros = DP!Zeros
  BY DEF D!Whole, DP!Whole, D!Record, DP!Record, D!Own, DP!Own, D!Cut, DP!Cut, D!Numbers,
         DP!Numbers, D!Records, DP!Records, D!Zeros, DP!Zeros
<1>1. D!Init => DP!Init
  BY <1>0 DEF D!Init, DP!Init, D!NoEntry, DP!NoEntry, D!Clean, DP!Clean
<1>2. D!StartDownload(Wanted) => DP!StartDownload(Wanted)
  BY <1>0 DEF D!StartDownload, DP!StartDownload, D!Sound, DP!Sound, D!Clean, DP!Clean
<1>3. D!SendRequest => DP!SendRequest
  BY DEF D!SendRequest, DP!SendRequest
<1>4. D!ReplyArrives({Peer}) => DP!ReplyArrives({Peer})
  BY DEF D!ReplyArrives, DP!ReplyArrives, D!Listing, DP!Listing, D!Slots, DP!Slots,
         D!Cardinality, DP!Cardinality, D!IsFiniteSet, DP!IsFiniteSet
<1>5. /\ D!Timeout => DP!Timeout
      /\ D!SelectFails => DP!SelectFails
      /\ D!RecvfromFails => DP!RecvfromFails
  BY DEF D!Timeout, DP!Timeout, D!SelectFails, DP!SelectFails, D!RecvfromFails,
         DP!RecvfromFails
<1>6. ASSUME NEW e
      PROVE  /\ D!Skip(e) => DP!Skip(e)
             /\ D!Connect(e) => DP!Connect(e)
             /\ D!OutOfRange(e) => DP!OutOfRange(e)
  BY DEF D!Skip, DP!Skip, D!Connect, DP!Connect, D!OutOfRange, DP!OutOfRange, D!Draw, DP!Draw,
         D!Undrawn, DP!Undrawn, D!MayBeDone, DP!MayBeDone, D!MayBeMissing, DP!MayBeMissing,
         D!InRange, DP!InRange
<1>7. \A f, r, R : D!Save(f, r, R) => DP!Save(f, r, R)
  <2>1. /\ \A f : D!Garbled(f) <=> DP!Garbled(f)
        /\ \A f, r : D!Checked(f, r) = DP!Checked(f, r)
        /\ \A n, N : D!Completes(n, N) <=> DP!Completes(n, N)
    BY DEF D!Garbled, DP!Garbled, D!Checked, DP!Checked, D!Completes, DP!Completes
  <2>2. \A f, r, R : D!Append(f, r, R) <=> DP!Append(f, r, R)
    BY <1>0 DEF D!Append, DP!Append
  <2> QED
    BY <1>0, <2>1, <2>2 DEF D!Save, DP!Save
<1>8. \A r, q : D!Arrives(r, q) => DP!Arrives(r, q)
  BY <1>0 DEF D!Arrives, DP!Arrives
<1>9. D!Marked => DP!Marked
  BY DEF D!Marked, DP!Marked
<1>10. D!ReceiveChunk => DP!ReceiveChunk
  BY <1>0, <1>7, <1>8, <1>9 DEF D!ReceiveChunk, DP!ReceiveChunk
<1>11. \A r, q : D!ReceiveOther(r, q) => DP!ReceiveOther(r, q)
  BY <1>0, <1>7, <1>8, <1>9 DEF D!ReceiveOther, DP!ReceiveOther
<1>12. D!ReceiveNothing => DP!ReceiveNothing
  BY <1>0, <1>7, <1>9 DEF D!ReceiveNothing, DP!ReceiveNothing, D!Unanswered, DP!Unanswered
<1>13. (D!Inform => DP!Inform) /\ (D!NoEntryLeft => DP!NoEntryLeft)
  BY DEF D!Inform, DP!Inform, D!NoEntryLeft, DP!NoEntryLeft
<1> QED
  BY <1>1, <1>2, <1>3, <1>4, <1>5, <1>6, <1>10, <1>11, <1>12, <1>13

LEMMA ServerActions ==
  /\ S!Init => SP!Init
  /\ \A c : S!Connect(c) => SP!Connect(c)
  /\ \A c : S!Ask(c) => SP!Ask(c)
  /\ \A c : S!Leave(c) => SP!Leave(c)
  /\ \A c : S!Accept(c) => SP!Accept(c)
  /\ \A t : ThreadStep(t) => SP!ThreadStep(t)
<1>1. S!Init => SP!Init
  BY DEF S!Init, SP!Init, S!Threads, SP!Threads
<1>2. ASSUME NEW c
      PROVE  /\ S!Connect(c) => SP!Connect(c)
             /\ S!Ask(c) => SP!Ask(c)
             /\ S!Leave(c) => SP!Leave(c)
  BY DEF S!Connect, SP!Connect, S!Ask, SP!Ask, S!Leave, SP!Leave
<1>3. ASSUME NEW c
      PROVE  S!Accept(c) => SP!Accept(c)
  BY DEF S!Accept, SP!Accept, S!StartThread, SP!StartThread, S!Lone, SP!Lone, S!Alive, SP!Alive,
         S!Threads, SP!Threads, S!Ended, SP!Ended
<1>4. ASSUME NEW t
      PROVE  ThreadStep(t) => SP!ThreadStep(t)
  <2> USE DEF S!network, SP!network, S!Goto, SP!Goto, S!Usable, SP!Usable
  <2>1. (S!CallRecv(t) => SP!CallRecv(t)) /\ (S!RecvRequest(t, TRUE) => SP!RecvRequest(t, TRUE))
    BY DEF S!CallRecv, SP!CallRecv, S!RecvRequest, SP!RecvRequest, S!Taken, SP!Taken
  <2>2. (S!RecvEnd(t) => SP!RecvEnd(t)) /\ (S!RecvFails(t) => SP!RecvFails(t))
    BY DEF S!RecvEnd, SP!RecvEnd, S!RecvFails, SP!RecvFails
  <2>3. (S!SendChunk(t) => SP!SendChunk(t)) /\ (S!SendFails(t) => SP!SendFails(t))
    BY DEF S!SendChunk, SP!SendChunk, S!SendFails, SP!SendFails, S!Destinations,
           SP!Destinations, S!Payload, SP!Payload
  <2>4. (S!Shutdown(t) => SP!Shutdown(t)) /\ (S!Close(t) => SP!Close(t))
    BY DEF S!Shutdown, SP!Shutdown, S!Close, SP!Close, S!Closed, SP!Closed
  <2> QED
    BY <2>1, <2>2, <2>3, <2>4 DEF ThreadStep, SP!ThreadStep
<1> QED
  BY <1>1, <1>2, <1>3, <1>4

\* A step of the exchange is a step of Download or leaves the client alone.
LEMMA ClientStepMaps ==
  ASSUME [Next]_vars
  PROVE  [DP!Next]_(DP!vars)
<1> USE DownloadActions
<1>1. CASE UNCHANGED client
  BY <1>1 DEF client, DP!vars, DP!client, DP!storage, DP!history
<1>2. CASE ClientAlone
  <2>1. CASE D!StartDownload(Wanted)
    BY <2>1 DEF DP!Next
  <2>2. CASE D!SendRequest \/ D!ReplyArrives({Peer}) \/ D!Timeout \/ D!SelectFails
             \/ D!RecvfromFails \/ D!Inform \/ D!NoEntryLeft
    BY <2>2 DEF DP!Next, DP!ClientStep, DP!OwnStep
  <2>3. CASE \E e \in peer_list : D!Skip(e) \/ D!OutOfRange(e)
    BY <2>3 DEF DP!Next, DP!ClientStep, DP!OwnStep
  <2> QED
    BY <1>2, <2>1, <2>2, <2>3 DEF ClientAlone
<1>3. CASE \E e \in peer_list : Connect(e)
  BY <1>3 DEF Connect, DP!Next, DP!ClientStep, DP!OwnStep
<1>4. CASE Receive(1) \/ Receive(2)
  <2>1. D!ReceiveChunk \/ \E r, q : D!ReceiveOther(r, q)
    BY <1>4 DEF Receive
  <2>2. ASSUME NEW r, NEW q, D!ReceiveOther(r, q)
        PROVE  DP!Next
    <3>1. DP!ReceiveOther(r, q)
      BY <2>2
    <3>2. r \in DP!Records /\ q \in DP!Records
      BY <3>1 DEF DP!ReceiveOther, DP!Arrives
    <3> QED
      BY <3>1, <3>2 DEF DP!Next, DP!ClientStep, DP!Receive
  <2> QED
    BY <2>1, <2>2 DEF DP!Next, DP!ClientStep, DP!Receive
<1>5. CASE ReceiveNothing
  BY <1>5 DEF ReceiveNothing, DP!Next, DP!ClientStep, DP!Receive
<1>6. CASE Ask \/ Accept \/ (\E t \in Conns : Serve(t)) \/ UNCHANGED vars
  BY <1>1, <1>6 DEF Ask, Accept, Serve, vars
<1> QED
  BY <1>2, <1>3, <1>4, <1>5, <1>6 DEF Next, ClientStep

\* A step of the exchange is a step of P2PServer or leaves the server alone.
LEMMA ServerStepMaps ==
  ASSUME [Next]_vars, LinkCurrent
  PROVE  [SP!Next]_(SP!vars)
<1> USE ServerActions
<1>1. CASE UNCHANGED server
  BY <1>1 DEF server, SP!vars
<1>2. CASE ClientAlone \/ UNCHANGED vars
  BY <1>1, <1>2 DEF ClientAlone, vars
<1>3. CASE \E e \in peer_list : Connect(e)
  BY <1>3 DEF Connect, SP!Next
<1>4. CASE Ask \/ Receive(1) \/ Receive(2) \/ ReceiveNothing
  <2>1. link \in Conns
    BY <1>4 DEF LinkCurrent, Ask, Receive, ReceiveNothing, Listening
  <2> QED
    BY <1>4, <2>1 DEF Ask, Receive, ReceiveNothing, SP!Next
<1>5. CASE Accept
  BY <1>5 DEF Accept, SP!Next
<1>6. CASE \E t \in Conns : Serve(t)
  BY <1>6 DEF Serve, SP!Next, SP!Threads, Conns
<1> QED
  BY <1>2, <1>3, <1>4, <1>5, <1>6 DEF Next, ClientStep

-----------------------------------------------------------------------------
(* The two together.                                                       *)

\* What the server's invariant says of its types and of connections served alone.
LEMMA ServerFacts ==
  ASSUME SP!IInv
  PROVE  /\ peer \in [Conns -> {"away", "connected", "asked", "gone"}]
         /\ conn \in [Conns -> {"none", "backlog", "open", "shut", "closed"}]
         /\ client_sock \in Conns \cup {Invalid} /\ lone \subseteq Conns
         /\ DOMAIN thread = Conns /\ started \in Nat
         /\ \A c \in Conns : peer[c] = "away" <=> conn[c] = "none"
         /\ \A c \in Conns : conn[c] \in {"none", "backlog"} => got[c] = <<>>
         /\ \A c \in lone :
              /\ got[c] \in {<<>>, <<c>>}
              /\ conn[c] = "closed" \/
                   /\ client_sock = c /\ conn[c] \in {"open", "shut"}
                   /\ \A t \in Conns : thread[t].pc = "recv" => thread[t].on = c
<1>1. SP!TypeOK /\ SP!BacklogUntouched /\ SP!LoneServed
  BY DEF SP!IInv
<1>2. \A c \in lone :
        /\ got[c] \in {<<>>, <<c>>}
        /\ conn[c] = "closed" \/
             /\ client_sock = c /\ conn[c] \in {"open", "shut"}
             /\ \A t \in Conns : thread[t].pc = "recv" => thread[t].on = c
  <2>1. ASSUME NEW c \in lone
        PROVE  got[c] \in {<<>>, <<c>>}
    BY <1>1 DEF SP!LoneServed, SP!Attended
  <2>2. ASSUME NEW c \in lone, conn[c] # "closed"
        PROVE  /\ client_sock = c /\ conn[c] \in {"open", "shut"}
               /\ \A t \in Conns : thread[t].pc = "recv" => thread[t].on = c
    <3>1. client_sock = c /\ \E u \in SP!Threads : SP!Serves(u, c)
      BY <1>1, <2>2 DEF SP!LoneServed
    <3> QED
      BY <3>1 DEF SP!Serves, SP!Alive, SP!Threads, SP!Ended, Conns
  <2> QED
    BY <2>1, <2>2
<1>3. SP!Threads = Conns
  BY DEF SP!Threads, Conns
<1> QED
  BY <1>1, <1>2, <1>3, HalvesAssumptions DEF SP!TypeOK, SP!BacklogUntouched

LEMMA RefusedStep ==
  ASSUME NothingRefused, SP!IInv, Next
  PROVE  NothingRefused'
<1>1. DOMAIN thread = Conns /\ started \in Nat
  BY ServerFacts
<1>2. CASE ClientStep
  BY <1>2 DEF ClientStep, ClientAlone, server, Connect, Ask, Receive, ReceiveNothing, S!Connect,
       S!Ask, S!Leave, NothingRefused
<1>3. CASE Accept
  BY <1>1, <1>3 DEF Accept, S!Accept, S!StartThread, NothingRefused
<1>4. ASSUME NEW t \in Conns, ThreadStep(t)
      PROVE  NothingRefused'
  <2>1. missing' = missing
    BY <1>4 DEF ThreadStep, S!CallRecv, S!RecvRequest, S!RecvEnd, S!RecvFails, S!SendChunk,
         S!SendFails, S!Shutdown, S!Close, S!network
  <2>2. \E pc \in {"recv", "send", "shutdown", "close", "call", "done"} :
          \E on, req : thread' = [thread EXCEPT ![t] = [pc |-> pc, on |-> on, req |-> req]]
    BY <1>4 DEF ThreadStep, S!CallRecv, S!RecvRequest, S!RecvEnd, S!RecvFails, S!SendChunk,
         S!SendFails, S!Shutdown, S!Close, S!Goto
  <2> QED
    BY <1>1, <2>1, <2>2 DEF NothingRefused
<1> QED
  BY <1>2, <1>3, <1>4 DEF Next, Serve

LEMMA LinkStep ==
  ASSUME LinkCurrent, Next
  PROVE  LinkCurrent'
<1>1. /\ peer \in [Conns -> {"away", "connected", "asked", "gone"}]
      /\ link \in Conns \cup {0} /\ link \in Int
  BY DEF LinkCurrent, Conns
<1>2. CASE ClientAlone
  <2>1. UNCHANGED <<peer, link, asked>>
    BY <1>2 DEF ClientAlone, server
  <2>2. phase' # "recv"
    BY <1>2 DEF ClientAlone, D!StartDownload, D!SendRequest, D!ReplyArrives, D!Timeout,
         D!SelectFails, D!RecvfromFails, D!Skip, D!Draw, D!OutOfRange, D!Inform, D!NoEntryLeft
  <2> QED
    BY <2>1, <2>2 DEF LinkCurrent
<1>3. ASSUME NEW e \in peer_list, Connect(e)
      PROVE  LinkCurrent'
  <2>1. /\ link' = link + 1 /\ link' \in Conns /\ asked' = asked
        /\ peer' = [peer EXCEPT ![link'] = "connected"]
    BY <1>3 DEF Connect, S!Connect
  <2>2. peer'[link'] = "connected"
    BY <1>1, <2>1
  <2>3. \A c \in Conns : c > link' => peer'[c] = "away"
    BY <1>1, <2>1 DEF LinkCurrent, Conns
  <2> QED
    BY <2>1, <2>2, <2>3 DEF LinkCurrent
<1>4. CASE Ask
  <2>1. /\ link' = link /\ link \in Conns /\ phase' = phase /\ entry' = entry
        /\ peer' = [peer EXCEPT ![link] = "asked"]
        /\ asked' = [asked EXCEPT ![link] = entry.chunk]
    BY <1>4 DEF Ask, S!Ask, client, LinkCurrent
  <2>2. peer'[link] = "asked" /\ asked'[link] = entry.chunk /\ DOMAIN asked' = Conns
    BY <1>1, <2>1 DEF LinkCurrent
  <2>3. \A c \in Conns : c > link => peer'[c] = "away"
    BY <1>1, <2>1 DEF LinkCurrent, Conns
  <2> QED
    BY <2>1, <2>2, <2>3 DEF LinkCurrent
<1>5. CASE Receive(1) \/ Receive(2) \/ ReceiveNothing
  <2>1. link' = link /\ link \in Conns /\ asked' = asked /\ peer' = [peer EXCEPT ![link] = "gone"]
    BY <1>5 DEF Receive, ReceiveNothing, Listening, S!Leave, LinkCurrent
  <2>2. phase' = "inform"
    BY <1>5 DEF Receive, ReceiveNothing, D!ReceiveChunk, D!ReceiveOther, D!ReceiveNothing, D!Marked
  <2>3. \A c \in Conns : c > link => peer'[c] = "away"
    BY <1>1, <2>1 DEF LinkCurrent, Conns
  <2> QED
    BY <2>1, <2>2, <2>3 DEF LinkCurrent
<1>6. CASE Accept \/ \E t \in Conns : Serve(t)
  <2>1. peer' = peer
    BY <1>6 DEF Accept, Serve, S!Accept, ThreadStep, S!CallRecv, S!RecvRequest, S!RecvEnd,
         S!RecvFails, S!SendChunk, S!SendFails, S!Shutdown, S!Close, S!network
  <2> QED
    BY <1>6, <2>1 DEF Accept, Serve, client, LinkCurrent
<1> QED
  BY <1>2, <1>3, <1>4, <1>5, <1>6 DEF Next, ClientStep

\* The thread of a connection that it serves alone shuts or closes it only on a client
\* that has left: recv and send on it do not fail otherwise.
LEMMA LoneKeptStep ==
  ASSUME LoneKept, LinkCurrent, NothingRefused, SP!IInv, Next
  PROVE  LoneKept'
<1> USE ServerFacts
<1>1. CASE ClientAlone
  BY <1>1 DEF ClientAlone, server, LoneKept
<1>2. ASSUME NEW d \in Conns, S!Connect(d) \/ S!Ask(d) \/ S!Leave(d)
      PROVE  LoneKept'
  <2> SUFFICES ASSUME NEW c \in lone
               PROVE  /\ conn'[c] \in {"shut", "closed"} => peer'[c] = "gone"
                      /\ \A t \in Conns : client_sock = c /\ conn'[c] = "open"
                           /\ thread[t].pc \in {"shutdown", "close"} => peer'[c] = "gone"
    BY <1>2 DEF S!Connect, S!Ask, S!Leave, LoneKept
  <2>1. conn[c] # "none" /\ peer[c] # "away" /\ c \in Conns
    OBVIOUS
  <2>2. conn'[c] = conn[c] /\ (peer[c] = "gone" => peer'[c] = "gone")
    BY <1>2, <2>1 DEF S!Connect, S!Ask, S!Leave
  <2> QED
    BY <2>2 DEF LoneKept
<1>3. ASSUME NEW d \in Conns, S!Accept(d)
      PROVE  LoneKept'
  <2> SUFFICES ASSUME NEW c \in lone'
               PROVE  /\ conn'[c] \in {"shut", "closed"} => peer[c] = "gone"
                      /\ \A t \in Conns : d = c /\ conn'[c] = "open"
                           /\ thread'[t].pc \in {"shutdown", "close"} => peer[c] = "gone"
    BY <1>3 DEF S!Accept, LoneKept
  <2>1. conn[d] = "backlog" /\ conn' = [conn EXCEPT ![d] = "open"] /\ d \notin lone
    BY <1>3 DEF S!Accept
  <2>2. CASE c # d
    BY <1>3, <2>1, <2>2 DEF S!Accept, S!Lone, LoneKept
  <2>3. CASE c = d
    <3>1. \A t \in Conns : thread[t].pc \in {"none", "done"}
      BY <1>3, <2>1, <2>3 DEF S!Accept, S!Lone, S!Alive, S!Threads, S!Ended, Conns
    <3>2. \A t \in Conns : thread'[t].pc \in {"none", "done", "start"}
      BY <1>3, <3>1 DEF S!Accept, S!StartThread
    <3> QED
      BY <2>1, <2>3, <3>2
  <2> QED
    BY <2>2, <2>3
<1>4. ASSUME NEW t \in Conns, ThreadStep(t)
      PROVE  LoneKept'
  <2>1. UNCHANGED <<peer, lone, client_sock>>
    BY <1>4 DEF ThreadStep, S!CallRecv, S!RecvRequest, S!RecvEnd,
         S!RecvFails, S!SendChunk, S!SendFails, S!Shutdown, S!Close, S!network
  <2> SUFFICES ASSUME NEW c \in lone, peer[c] # "gone"
               PROVE  /\ conn'[c] \notin {"shut", "closed"}
                      /\ \A u \in Conns : client_sock = c => thread'[u].pc \notin {"shutdown", "close"}
    BY <2>1 DEF LoneKept
  <2>2. /\ c \in Conns /\ c # Invalid /\ client_sock = c /\ conn[c] = "open"
        /\ \A u \in Conns : thread[u].pc = "recv" => thread[u].on = c
    BY DEF LoneKept, Conns, Invalid
  <2>3. \A u \in Conns : thread[u].pc \notin {"shutdown", "close"}
    BY <2>2 DEF LoneKept
  <2>4. S!CallRecv(t) \/ S!RecvRequest(t, TRUE) \/ S!SendChunk(t)
    <3>1. ~S!RecvEnd(t) /\ ~S!RecvFails(t)
      BY <2>2 DEF S!RecvEnd, S!RecvFails, S!Usable
    <3>2. ~S!SendFails(t)
      <4>1. c \in S!Destinations(t)
        BY <2>2 DEF S!Destinations
      <4> QED
        BY <4>1 DEF S!SendFails
    <3>3. ~S!Shutdown(t) /\ ~S!Close(t)
      BY <2>3 DEF S!Shutdown, S!Close
    <3> QED
      BY <1>4, <3>1, <3>2, <3>3 DEF ThreadStep
  <2>5. conn' = conn
    BY <2>4 DEF S!CallRecv, S!RecvRequest, S!SendChunk, S!network
  <2>6. \A u \in Conns : thread'[u].pc \in {thread[u].pc, "recv", "send", "call"}
    BY <2>4 DEF S!CallRecv, S!RecvRequest, S!SendChunk, S!Goto
  <2> QED
    BY <2>2, <2>3, <2>5, <2>6
<1>5. CASE Ask \/ Receive(1) \/ Receive(2) \/ ReceiveNothing \/ \E e \in peer_list : Connect(e)
  <2>1. \E d \in Conns : S!Connect(d) \/ S!Ask(d) \/ S!Leave(d)
    BY <1>5 DEF Ask, Receive, ReceiveNothing, Listening, Connect, LinkCurrent
  <2> QED
    BY <1>2, <2>1
<1> QED
  BY <1>1, <1>3, <1>4, <1>5 DEF Next, ClientStep, Accept, Serve

\* The blame stays where it is: an accepted connection that overlapped another one
\* never counts as served alone again.
LEMMA BlameStays ==
  ASSUME LinkCurrent, SP!IInv, Next,
         NEW c \in 1..link, c \notin lone, conn[c] \notin {"none", "backlog"}
  PROVE  c \in 1..link' /\ c \notin lone' /\ conn'[c] \notin {"none", "backlog"}
<1> USE ServerFacts
<1>1. c \in Conns /\ link \in Int
  <2>1. MaxConns \in Nat
    BY HalvesAssumptions
  <2>2. link \in 1..MaxConns
    BY DEF LinkCurrent, Conns
  <2> QED
    BY <2>1, <2>2 DEF Conns
<1>2. CASE ClientStep
  <2>1. lone' = lone /\ link' \in {link, link + 1}
    BY <1>2 DEF ClientStep, ClientAlone, server, Connect, Ask, Receive, ReceiveNothing,
         S!Connect, S!Ask, S!Leave
  <2>2. conn' = conn \/ \E d \in Conns : S!Connect(d)
    BY <1>2 DEF ClientStep, ClientAlone, server, Connect, Ask, Receive, ReceiveNothing,
         S!Ask, S!Leave
  <2>3. conn'[c] = conn[c]
    BY <1>1, <2>2 DEF S!Connect
  <2> QED
    BY <1>1, <2>1, <2>3
<1>3. ASSUME NEW d \in Conns, S!Accept(d), link' = link
      PROVE  c \in 1..link' /\ c \notin lone' /\ conn'[c] \notin {"none", "backlog"}
  <2>1. d # c /\ conn'[c] = conn[c]
    BY <1>1, <1>3 DEF S!Accept
  <2> QED
    BY <1>3, <2>1 DEF S!Accept, S!Lone
<1>4. ASSUME NEW t \in Conns, ThreadStep(t), link' = link
      PROVE  c \in 1..link' /\ c \notin lone' /\ conn'[c] \notin {"none", "backlog"}
  <2>1. lone' = lone
    BY <1>4 DEF ThreadStep, S!CallRecv, S!RecvRequest, S!RecvEnd, S!RecvFails, S!SendChunk,
         S!SendFails, S!Shutdown, S!Close, S!network
  <2>2. conn'[c] \in {conn[c], "shut", "closed"}
    BY <1>1, <1>4 DEF ThreadStep, S!CallRecv, S!RecvRequest, S!RecvEnd, S!RecvFails, S!SendChunk,
         S!SendFails, S!Shutdown, S!Close, S!Closed, S!network
  <2> QED
    BY <1>4, <2>1, <2>2
<1> QED
  BY <1>2, <1>3, <1>4 DEF Next, Accept, Serve

\* What the client does by itself does not make a download unhealthy: the tracker lists
\* every chunk, and what healthy downloads left of the file is sound.
LEMMA AloneIsHealthy ==
  ASSUME DP!IInv, ClientAlone, healthy
  PROVE  healthy'
<1>1. file = Wanted
  BY DEF DP!IInv, DP!TypeOK
<1>2. CASE D!ReplyArrives({Peer})
  <2>1. \A c \in 1..LastChunk : \E e \in D!Listing(file, {Peer}, downloads) : e.chunk = c
    <3> SUFFICES ASSUME NEW c \in 1..LastChunk
                 PROVE  \E e \in D!Listing(file, {Peer}, downloads) : e.chunk = c
      OBVIOUS
    <3> DEFINE e == [file |-> file, chunk |-> c, src |-> Peer, round |-> downloads]
    <3>1. e \in D!Listing(file, {Peer}, downloads)
      BY <1>1 DEF D!Listing
    <3> QED
      BY <3>1
  <2> QED
    BY <1>1, <1>2, <2>1 DEF D!ReplyArrives
<1>3. CASE D!StartDownload(Wanted)
  <2>1. DP!Sound(Wanted)
    BY <1>1 DEF DP!IInv, DP!CompleteExact
  <2>2. DP!StartDownload(Wanted)
    BY <1>3, DownloadActions
  <2> QED
    BY <2>1, <2>2 DEF DP!StartDownload
<1>4. CASE ~D!ReplyArrives({Peer}) /\ ~D!StartDownload(Wanted)
  BY <1>4 DEF ClientAlone, D!SendRequest, D!Timeout, D!SelectFails, D!RecvfromFails, D!Skip,
       D!OutOfRange, D!Inform, D!NoEntryLeft, D!history
<1> QED
  BY <1>2, <1>3, <1>4

\* An index in a sequence of at most one element.
LEMMA AtMostOne ==
  \A s, c, k : s \in {<<>>, <<c>>} /\ k \in 1..Len(s) => s = <<c>> /\ k = 1
<1> SUFFICES ASSUME NEW s, NEW c, NEW k, s \in {<<>>, <<c>>}, k \in 1..Len(s)
             PROVE  s = <<c>> /\ k = 1
  OBVIOUS
<1>1. CASE s = <<>>
  <2>1. 1..Len(s) = {}
    BY <1>1
  <2> QED
    BY <2>1
<1>2. CASE s = <<c>>
  <2>1. Len(s) = 1
    BY <1>2
  <2> QED
    BY <1>2, <2>1
<1> QED
  BY <1>1, <1>2

\* An answer that is not the chunk asked for, or none at all, is received on a
\* connection only if another one overlapped it.
LEMMA BlamedStep ==
  ASSUME Blamed, LoneKept, LinkCurrent, SP!IInv, DP!IInv, Next
  PROVE  Blamed'
<1> USE ServerFacts
<1>1. ASSUME healthy => healthy'
      PROVE  Blamed'
  BY <1>1, BlameStays DEF Blamed
<1>2. ASSUME link \in Conns, link \notin lone, conn[link] \notin {"none", "backlog"}
      PROVE  Blamed'
  <2>1. link \in 1..link
    BY <1>2 DEF Conns
  <2> QED
    BY <1>2, <2>1, BlameStays DEF Blamed
<1>3. ASSUME Listening
      PROVE  /\ link \in Conns
             /\ link \in lone => conn[link] \notin {"shut", "closed"} /\ asked[link] = entry.chunk
  BY <1>3 DEF Listening, LinkCurrent, LoneKept
<1>4. ASSUME NEW k \in 1..2, Receive(k)
      PROVE  Blamed'
  <2>1. Listening /\ k \in 1..Len(got[link])
    BY <1>4 DEF Receive
  <2>2. CASE link \notin lone
    <3>1. conn[link] \notin {"none", "backlog"}
      BY <1>3, <2>1
    <3> QED
      BY <1>2, <1>3, <2>1, <2>2, <3>1
  <2>3. CASE link \in lone
    <3>1. got[link] = <<link>> /\ k = 1
      <4>1. got[link] \in {<<>>, <<link>>}
        BY <2>3
      <4> QED
        BY <2>1, <4>1, AtMostOne, Zenon
    <3>2. asked[got[link][1]] = entry.chunk /\ asked[got[link][k]] = entry.chunk
      BY <1>3, <2>1, <2>3, <3>1
    <3>3. D!ReceiveChunk
      <4>1. /\ D!Whole(file, asked[got[link][1]]) = D!Whole(file, entry.chunk)
            /\ D!Whole(file, asked[got[link][k]]) = D!Whole(file, entry.chunk)
        BY <3>2
      <4>2. {D!Whole(file, asked[got[link][1]]), D!Whole(file, asked[got[link][k]])}
              = {D!Whole(file, entry.chunk)}
        <5>1. \A x, y, z : x = z /\ y = z => {x, y} = {z}
          OBVIOUS
        <5> QED
          BY <4>1, <5>1, Zenon
      <4> QED
        BY <1>4, <4>2, Zenon DEF Receive
    <3> QED
      BY <1>1, <3>3 DEF D!ReceiveChunk, D!history
  <2> QED
    BY <2>2, <2>3
<1>5. CASE ReceiveNothing
  BY <1>2, <1>3, <1>5 DEF ReceiveNothing, Over
<1>6. CASE ClientAlone
  BY <1>1, <1>6, AloneIsHealthy
<1>7. CASE Ask \/ Accept \/ (\E t \in Conns : Serve(t)) \/ \E e \in peer_list : Connect(e)
  BY <1>1, <1>7 DEF Ask, Accept, Serve, client, Connect, D!Connect, D!history
<1> QED
  BY <1>4, <1>5, <1>6, <1>7 DEF Next, ClientStep

-----------------------------------------------------------------------------
(* The theorems.                                                           *)

\* The client of the exchange is a download as Download describes it: safety of the
\* refinement, without its fairness.
THEOREM ImplementsTheDownload == Spec => DP!Spec
<1>1. Init => DP!Init
  BY DownloadActions DEF Init
<1> QED
  BY <1>1, ClientStepMaps, PTL DEF Spec, DP!Spec

\* The client uses one connection at a time, the last one made.
LEMMA LinkInvariance == Spec => []LinkCurrent
<1>1. Init => LinkCurrent
  BY DEF Init, D!Init, S!Init, LinkCurrent, Conns
<1>2. LinkCurrent /\ [Next]_vars => LinkCurrent'
  <2> SUFFICES ASSUME LinkCurrent, [Next]_vars
               PROVE  LinkCurrent'
    OBVIOUS
  <2>1. CASE UNCHANGED vars
    BY <2>1 DEF vars, client, server, LinkCurrent
  <2> QED
    BY <2>1, LinkStep
<1> QED
  BY <1>1, <1>2, PTL DEF Spec

\* The server of the exchange behaves as P2PServer describes, which has more clients
\* than this one and more that can fail.
THEOREM ImplementsTheServer == Spec => SP!Spec
<1>1. Init => SP!Init
  BY ServerActions DEF Init
<1>2. LinkCurrent /\ [Next]_vars => [SP!Next]_(SP!vars)
  BY ServerStepMaps
<1> QED
  BY <1>1, <1>2, LinkInvariance, PTL DEF Spec, SP!Spec

\* The invariants of both halves, by the theorems about them, and what joins them.
THEOREM Invariance == Spec => [](DP!IInv /\ SP!IInv /\ Together)
<1>1. Spec => []DP!IInv
  BY ImplementsTheDownload, DP!Invariance, HalvesAssumptions, PTL
<1>2. Spec => []SP!IInv
  BY ImplementsTheServer, SP!Invariance, HalvesAssumptions, PTL
<1>3. Init => NothingRefused /\ LoneKept /\ Blamed
  BY DEF Init, D!Init, S!Init, S!Threads, NothingRefused, LoneKept, Blamed, Conns
<1>4. /\ NothingRefused /\ LoneKept /\ Blamed /\ LinkCurrent /\ DP!IInv /\ SP!IInv
      /\ [Next]_vars
      => (NothingRefused /\ LoneKept /\ Blamed)'
  <2> SUFFICES ASSUME NothingRefused, LoneKept, Blamed, LinkCurrent, DP!IInv, SP!IInv, [Next]_vars
               PROVE  (NothingRefused /\ LoneKept /\ Blamed)'
    OBVIOUS
  <2>1. CASE UNCHANGED vars
    BY <2>1 DEF vars, client, server, NothingRefused, LoneKept, Blamed
  <2> QED
    BY <2>1, RefusedStep, LoneKeptStep, BlamedStep
<1>5. Spec => [](NothingRefused /\ LoneKept /\ Blamed)
  BY <1>1, <1>2, <1>3, <1>4, LinkInvariance, PTL DEF Spec
<1> QED
  BY <1>1, <1>2, <1>5, LinkInvariance, PTL DEF Together

\* The download of a file that the server holds whole ends incomplete only if the thread
\* of some connection of this client was still around when the next was accepted.
THEOREM LoneDownloadsComplete == Spec => []LoneDownloadCompletes
<1>1. DP!IInv /\ Together => LoneDownloadCompletes
  <2> SUFFICES ASSUME DP!IInv, Together, outcome = "incomplete", fresh
               PROVE  \E c \in 1..link : c \notin lone
    BY DEF LoneDownloadCompletes
  <2>1. ~healthy
    BY DEF DP!IInv, DP!HealthyDownloadCompletes
  <2> QED
    BY <2>1 DEF Together, Blamed
<1> QED
  BY <1>1, Invariance, PTL

-----------------------------------------------------------------------------
(* The fairness of Download, as far as it is safety: a client that waits   *)
(* in recv is never left with nobody to answer it.                         *)

\* The client leaves a connection only after the server has accepted it: the backlog
\* holds at most the current one, and that is client_sock once it is accepted.
InTurn ==
  /\ \A c \in Conns : conn[c] = "backlog" => phase = "recv" /\ c = link
  /\ phase = "recv" /\ conn[link] # "backlog" => client_sock = link
  /\ started = IF phase = "recv" /\ conn[link] = "backlog" THEN link - 1 ELSE link

\* While recv has nothing to return, the connection can be accepted with its request on
\* it, or it is the one the server's threads answer on: its own thread lives and reads
\* from it, and its request is unread, in some thread's hands, or about to be closed.
WaitingIsAttended ==
  Listening /\ got[link] = <<>> /\ ~Over =>
    \/ conn[link] = "backlog" /\ link \in unread /\ started < MaxConns
    \/ /\ conn[link] = "open" /\ client_sock = link
       /\ thread[started].pc \notin {"none", "done"}
       /\ thread[started].pc = "recv" => thread[started].on = link
       /\ \/ link \in unread
          \/ \E t \in Conns : thread[t].req = link \/ thread[t].pc \in {"shutdown", "close"}

LEMMA InTurnStep ==
  ASSUME InTurn, LinkCurrent, SP!IInv, Next
  PROVE  InTurn'
<1> USE ServerFacts
<1>0. /\ conn \in [Conns -> {"none", "backlog", "open", "shut", "closed"}]
      /\ link \in Conns \cup {0} /\ Conns \subseteq Nat /\ started \in Nat
  BY DEF LinkCurrent, Conns
<1>1. CASE ClientAlone
  <2>1. UNCHANGED <<conn, started, client_sock, link>>
    BY <1>1 DEF ClientAlone, server
  <2>2. phase # "recv" /\ phase' # "recv"
    BY <1>1 DEF ClientAlone, D!StartDownload, D!SendRequest, D!ReplyArrives, D!Timeout,
         D!SelectFails, D!RecvfromFails, D!Skip, D!Draw, D!OutOfRange, D!Inform, D!NoEntryLeft
  <2> QED
    BY <2>1, <2>2 DEF InTurn
<1>2. ASSUME NEW e \in peer_list, Connect(e)
      PROVE  InTurn'
  <2>1. /\ link' = link + 1 /\ link' \in Conns /\ phase = "loop" /\ phase' = "recv"
        /\ conn' = [conn EXCEPT ![link'] = "backlog"] /\ UNCHANGED <<started, client_sock>>
    BY <1>2 DEF Connect, D!Connect, D!Draw, S!Connect
  <2>2. \A c \in Conns : conn[c] # "backlog"
    BY <2>1 DEF InTurn
  <2>3. conn'[link'] = "backlog" /\ \A c \in Conns : conn'[c] = "backlog" => c = link'
    BY <1>0, <2>1, <2>2
  <2>4. started = link
    BY <2>1 DEF InTurn
  <2>5. started' = link' - 1
    BY <1>0, <2>1, <2>4
  <2> QED
    BY <2>1, <2>3, <2>5 DEF InTurn
<1>3. CASE Ask
  BY <1>3 DEF Ask, S!Ask, client, InTurn
<1>4. CASE Receive(1) \/ Receive(2) \/ ReceiveNothing
  <2>1. /\ phase = "recv" /\ phase' = "inform" /\ link' = link
        /\ UNCHANGED <<conn, started, client_sock>>
    BY <1>4 DEF Receive, ReceiveNothing, Listening, S!Leave, D!ReceiveChunk, D!ReceiveOther,
         D!ReceiveNothing, D!Marked
  <2>2. link \in Conns /\ conn[link] # "backlog"
    BY <1>4, <2>1 DEF Receive, ReceiveNothing, Over, LinkCurrent
  <2> QED
    BY <2>1, <2>2 DEF InTurn
<1>5. CASE Accept
  <2>1. PICK c \in Conns : S!Accept(c)
    BY <1>5 DEF Accept
  <2>2. /\ phase' = phase /\ link' = link /\ conn[c] = "backlog" /\ client_sock' = c
        /\ conn' = [conn EXCEPT ![c] = "open"] /\ started' = started + 1
    BY <1>5, <2>1 DEF Accept, client, S!Accept, S!StartThread
  <2>3. phase = "recv" /\ c = link /\ \A d \in Conns : conn[d] = "backlog" => d = c
    BY <2>2 DEF InTurn
  <2>4. conn'[link] = "open" /\ \A d \in Conns : conn'[d] # "backlog"
    BY <1>0, <2>2, <2>3
  <2>5. started = link - 1
    BY <2>2, <2>3 DEF InTurn
  <2>6. started' = link
    BY <1>0, <2>2, <2>5
  <2> QED
    BY <2>2, <2>3, <2>4, <2>6 DEF InTurn
<1>6. ASSUME NEW t \in Conns, Serve(t)
      PROVE  InTurn'
  <2>1. /\ UNCHANGED <<phase, link, started, client_sock>>
        /\ \/ conn' = conn
           \/ /\ conn[client_sock] \in {"open", "shut"} /\ client_sock \in Conns
              /\ \E x \in {"shut", "closed"} : conn' = [conn EXCEPT ![client_sock] = x]
    BY <1>6 DEF Serve, client, ThreadStep, S!CallRecv, S!RecvRequest, S!RecvEnd, S!RecvFails,
         S!SendChunk, S!SendFails, S!Shutdown, S!Close, S!network, S!Usable, S!Closed
  <2>2. \A c \in Conns : conn'[c] = "backlog" <=> conn[c] = "backlog"
    BY <1>0, <2>1
  <2>3. phase = "recv" => link \in Conns
    BY DEF LinkCurrent
  <2> QED
    BY <2>1, <2>2, <2>3 DEF InTurn
<1> QED
  BY <1>1, <1>2, <1>3, <1>4, <1>5, <1>6 DEF Next, ClientStep

\* The client's recv is answered or ended by what the server's threads still have to do,
\* although they share one socket variable (p2p_server.cpp): nothing else has to happen.
THEOREM WaitingClientsAreAttended == Spec => []WaitingIsAttended
<1>1. Init => InTurn
  BY DEF Init, D!Init, S!Init, InTurn
<1>2. InTurn /\ LinkCurrent /\ SP!IInv /\ [Next]_vars => InTurn'
  <2> SUFFICES ASSUME InTurn, LinkCurrent, SP!IInv, [Next]_vars
               PROVE  InTurn'
    OBVIOUS
  <2>1. CASE UNCHANGED vars
    BY <2>1 DEF vars, client, server, InTurn
  <2> QED
    BY <2>1, InTurnStep
<1>3. Spec => []SP!NewestInHand
  BY ImplementsTheServer, SP!NewestIsInHand, HalvesAssumptions, PTL
<1>4. ASSUME InTurn, Together, SP!IInv, SP!NewestInHand, Listening, got[link] = <<>>, ~Over
      PROVE  \/ conn[link] = "backlog" /\ link \in unread /\ started < MaxConns
             \/ /\ conn[link] = "open" /\ client_sock = link
                /\ thread[started].pc \notin {"none", "done"}
                /\ thread[started].pc = "recv" => thread[started].on = link
                /\ \/ link \in unread
                   \/ \E t \in Conns : thread[t].req = link \/ thread[t].pc \in {"shutdown", "close"}
  <2>1. /\ link \in Conns /\ phase = "recv" /\ peer[link] = "asked"
        /\ conn[link] \in {"none", "backlog", "open"}
    BY <1>4, ServerFacts DEF Together, LinkCurrent, Listening, Over
  <2>2. conn[link] \in {"backlog", "open"}
    BY <1>4, <2>1, ServerFacts
  <2>3. CASE conn[link] = "backlog"
    <3>1. link \in unread
      BY <1>4, <2>1, <2>3 DEF SP!IInv, SP!BacklogUntouched
    <3>2. started = link - 1 /\ link \in 1..MaxConns
      BY <1>4, <2>1, <2>3 DEF InTurn, Conns
    <3>3. started < MaxConns
      BY <3>2, HalvesAssumptions
    <3> QED
      BY <2>3, <3>1, <3>3
  <2>4. CASE conn[link] = "open"
    <3>1. client_sock = link
      BY <1>4, <2>1, <2>4 DEF InTurn
    <3>2. /\ thread[started].pc \notin SP!Ended
          /\ thread[started].pc = "recv" => thread[started].on = link
          /\ SP!RequestInHand(link)
      BY <1>4, <2>1, <2>4, <3>1 DEF SP!NewestInHand
    <3>3. ~SP!Sent(link, link)
      BY <1>4 DEF SP!Sent
    <3>4. \A t \in Conns : thread[t].pc # "refuse"
      BY <1>4 DEF Together, NothingRefused
    <3> QED
      BY <2>4, <3>1, <3>2, <3>3, <3>4
      DEF SP!RequestInHand, SP!Closing, SP!Ended, SP!Threads, Conns
  <2> QED
    BY <2>2, <2>3, <2>4
<1>5. InTurn /\ Together /\ SP!IInv /\ SP!NewestInHand => WaitingIsAttended
  BY <1>4 DEF WaitingIsAttended
<1>6. Spec => []InTurn
  BY <1>1, <1>2, Invariance, LinkInvariance, PTL DEF Spec
<1> QED
  BY <1>3, <1>5, <1>6, Invariance, PTL
=============================================================================
