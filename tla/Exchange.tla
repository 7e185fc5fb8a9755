------------------------------ MODULE Exchange ------------------------------
(***************************************************************************)
(* One client downloads from one server: Download and P2PServer together.  *)
(* The client's i-th connect makes connection i; what its recv returns is  *)
(* one or two of the answers the server's threads sent on that connection, *)
(* or nothing once they have shut or closed it.  The server holds every    *)
(* chunk, stays up, and none of its calls fails for want of memory or      *)
(* descriptors; answers arrive whole: whatever goes wrong comes from the   *)
(* two programs themselves.                                                *)
(*                                                                         *)
(* One file, so that each answer is one of its chunks: no save runs over   *)
(* the end of chunkFlags here.                                             *)
(***************************************************************************)
EXTENDS Integers, Sequences

CONSTANTS
  LastChunk,     \* number of chunks of the file
  MaxDownloads,  \* bound: downloads started
  Wanted, Peer   \* the file; the peer whose server it is

ASSUME ExchangeAssumption ==
  LastChunk \in 1..255 /\ MaxDownloads \in Nat

VARIABLES
  phase, file, sent, armed, peer_list, slots, done, entry, outcome,
  held, final, complete, up, downloads, fresh, healthy,              \* Download
  client_sock, conn, peer, unread, got, thread, started,
  missing, lone,                                              \* P2PServer
  link,   \* number of connections made; the last one is the current one
  asked   \* asked[c]: the number of the chunk requested on c

\* A download makes at most one connection per entry.
MaxConns == MaxDownloads * LastChunk
Conns == 1..MaxConns
Invalid == 0

D == INSTANCE Download WITH
       Files <- {Wanted}, Chunks <- [f \in {Wanted} |-> LastChunk], Sources <- {Peer},
       Announced <- [s \in {Peer} |-> [f \in {Wanted} |-> LastChunk]],
       Has <- [s \in {Peer} |-> [f \in {Wanted} |-> 1..LastChunk]]

\* A thread for each connection: no accept fails.
S == INSTANCE P2PServer WITH MaxThreads <- MaxConns

client == <<phase, file, sent, armed, peer_list, slots, done, entry, outcome,
            held, final, complete, up, downloads, fresh, healthy>>
server == <<client_sock, conn, peer, unread, got, thread, started, missing, lone>>
vars == <<client, server, link, asked>>

-----------------------------------------------------------------------------
\* What download_file does without the server.
ClientAlone ==
  /\ \/ D!StartDownload(Wanted)
     \/ D!SendRequest \/ D!ReplyArrives({Peer})
     \/ D!Timeout \/ D!SelectFails \/ D!RecvfromFails
     \/ \E e \in peer_list : D!Skip(e) \/ D!OutOfRange(e)
     \/ D!Inform \/ D!NoEntryLeft
  /\ UNCHANGED <<server, link, asked>>

Connect(e) ==
  /\ D!Connect(e)
  /\ link' = link + 1 /\ link' \in Conns /\ S!Connect(link')
  /\ UNCHANGED asked

Ask ==
  /\ phase = "recv" /\ S!Ask(link)
  /\ asked' = [asked EXCEPT ![link] = entry.chunk]
  /\ UNCHANGED <<client, link>>

\* The send failed, on a connection closed already, or the request is on its way.
Listening == phase = "recv" /\ (peer[link] = "asked" \/ conn[link] = "closed")

\* Seeded faults: recv does not wait; recv is repeated until a chunk comes.
OverNow == TRUE
OverNever == FALSE
Over == conn[link] \in {"shut", "closed"}

\* recv, which returns the first k answers, saveChunk and closesocket.
Receive(k) ==
  /\ Listening /\ k \in 1..Len(got[link])
  /\ LET first == D!Whole(file, asked[got[link][1]])
         next == D!Whole(file, asked[got[link][k]])
     IN  IF {first, next} = {D!Whole(file, entry.chunk)}
         THEN D!ReceiveChunk ELSE D!ReceiveOther(first, next)
  /\ S!Leave(link) /\ UNCHANGED <<link, asked>>

ReceiveNothing ==
  /\ Listening /\ got[link] = <<>> /\ Over
  /\ D!ReceiveNothing
  /\ S!Leave(link) /\ UNCHANGED <<link, asked>>

\* The listening loop and its threads.
ThreadStep(t) ==
  \/ S!CallRecv(t) \/ S!RecvRequest(t, TRUE) \/ S!RecvEnd(t) \/ S!RecvFails(t)
  \/ S!SendChunk(t) \/ S!SendFails(t) \/ S!Shutdown(t) \/ S!Close(t)

Accept == (\E c \in Conns : S!Accept(c)) /\ UNCHANGED <<client, link, asked>>
Serve(t) == ThreadStep(t) /\ UNCHANGED <<client, link, asked>>

-----------------------------------------------------------------------------
Init ==
  /\ D!Init /\ S!Init
  /\ link = 0 /\ asked = [c \in Conns |-> 0]

ClientStep ==
  \/ ClientAlone \/ (\E e \in peer_list : Connect(e)) \/ Ask
  \/ Receive(1) \/ Receive(2) \/ ReceiveNothing

Next == ClientStep \/ Accept \/ \E t \in Conns : Serve(t)

Spec == Init /\ [][Next]_vars

\* Both programs go on: of the network only that a connection is accepted and that
\* what is sent on it arrives.
FairSpec ==
  /\ Spec /\ WF_vars(phase # "menu" /\ ClientStep) /\ WF_vars(Accept)
  /\ \A t \in Conns : WF_vars(Serve(t))

-----------------------------------------------------------------------------
(* Properties.                                                             *)

\* The download with this server is a download as Download describes it, its
\* fairness included.  There that recv returns is assumed of some peers, here it
\* follows from the server's code, although its threads share a socket variable.
ImplementsDownload == D!AnsweredSpec

\* The download of a file that the server holds whole is incomplete only if the
\* thread of one connection was still around when another was accepted.
LoneDownloadCompletes ==
  outcome = "incomplete" /\ fresh => \E c \in 1..link : c \notin lone

\* The download of a file that the server holds whole is complete (README: choose
\* which chunks he does not have yet and from these randomly download one).
ServedDownloadCompletes == ~(outcome = "incomplete" /\ fresh)
=============================================================================
