------------------------------ MODULE Tracker ------------------------------
(***************************************************************************)
(* The tracker (tracker.cpp, tracker_entries.h) and what the clients'      *)
(* menus send it over UDP (p2p_client.cpp).  The tracker is one thread:    *)
(* it receives a datagram, changes its two lists, replies, and receives    *)
(* the next one.  Its lists live in memory only.                           *)
(*                                                                         *)
(* A datagram is its flag, the two words after the flag (head) and the     *)
(* pairs of words after those (items), separated by "|".  Of the vector    *)
(* peer_list the set of the entries is kept: a client draws from it at     *)
(* random, and a repeated entry is only tried twice.                       *)
(***************************************************************************)
EXTENDS Integers, Sequences

CONSTANTS
  Peers,      \* hosts that run a client
  Files,      \* file names
  Chunks,     \* Chunks[f]: number of chunks of file f
  IPs,        \* addresses, as text
  PrivateIP,  \* PrivateIP[p]: the address p writes into its datagrams
  SourceIP,   \* SourceIP[p]: the source address of its datagrams (its NAT's)
  MaxSent     \* bound: datagrams the clients send in a behaviour

ASSUME FilesAssumption ==
  /\ Chunks \in [Files -> Nat]
  /\ PrivateIP \in [Peers -> IPs] /\ SourceIP \in [Peers -> IPs]
  /\ MaxSent \in Nat

VARIABLES
  alive,      \* is the tracker's process running?
  peer_list,  \* the tracker's entries
  file_list,  \* the file names it has heard of, oldest first
  net,        \* net[p]: datagrams from p that the tracker has not received
  client,     \* client[p]: does p's client run, has it quit, or has it died?
  waiting,    \* waiting[p]: <<socket, flag>> of the request whose reply p awaits
  reply,      \* reply[p]: the entries or file names p was last sent
  sent,       \* number of datagrams sent so far
  uploaded,   \* history: entries of the uploads received, up to the exit
  informed    \* history: what the informs received say, up to the exit

vars == <<alive, peer_list, file_list, net, client, waiting, reply, sent,
          uploaded, informed>>
lists == <<peer_list, file_list, uploaded, informed>>

Port == 6881
Words == Files \cup IPs
EntryType == [file : Words, chunk : 0..255, ip : Words, port : Nat]

-----------------------------------------------------------------------------
(* Datagrams.                                                              *)

\* upload_file: chunks 1 to n.
Upload(p, f, n) ==
  [flag |-> 4, head |-> <<PrivateIP[p], Port>>, items |-> [i \in 1..n |-> <<f, i>>]]

\* inform_tracker_downloaded_chunk: file and chunk come first.
Inform(p, f, c) ==
  [flag |-> 3, head |-> <<f, c>>, items |-> << <<PrivateIP[p], Port>> >>]

Exit(p) == [flag |-> 5, head |-> <<PrivateIP[p], Port>>, items |-> <<>>]

\* Requests for the entries of a file (1), for all file names (6) and for a
\* file name (7); 6 carries none.  The reply goes to the socket that asked.
Ask(flag, f, sock) ==
  [flag |-> flag, head |-> <<f>>, items |-> <<>>, sock |-> sock]

Datagrams(p) ==
  (UNION {{Upload(p, f, n) : n \in 0..Chunks[f]} : f \in Files}) \cup
  (UNION {{Inform(p, f, c) : c \in 1..Chunks[f]} : f \in Files}) \cup
  {Exit(p)} \cup
  {Ask(flag, f, sock) : flag \in {1, 6, 7}, f \in Files, sock \in 1..MaxSent}

-----------------------------------------------------------------------------
(* The handlers.                                                           *)

\* Seeded fault: chunk numbers are kept as int.
UInt8Wide(n) == n
UInt8(n) == n % 256

\* tracker_peer_list_entry: the head is read as address and port whatever the
\* request, an item as file name and chunk number.
Entry(head, item) ==
  [file |-> item[1], chunk |-> UInt8(item[2]), ip |-> head[1], port |-> head[2]]

\* Seeded faults: the strtok loop stops before the last item, or starts after the
\* first.
EntriesButLast(m) == {Entry(m.head, m.items[i]) : i \in 1..(Len(m.items) - 1)}
EntriesButFirst(m) == {Entry(m.head, m.items[i]) : i \in 2..Len(m.items)}
Entries(m) == {Entry(m.head, m.items[i]) : i \in 1..Len(m.items)}

Listed(file) == \E i \in 1..Len(file_list) : file_list[i] = file

\* Seeded fault: the new file is compared with the latest one only.
WithFileLatest(file) ==
  IF file_list # <<>> /\ file_list[Len(file_list)] = file
  THEN file_list ELSE Append(file_list, file)

WithFile(file) == IF Listed(file) THEN file_list ELSE Append(file_list, file)

\* The file name of peer_list.back() once the entries of m are in: that of the
\* last item or, without items, of whichever entry came last.
LatestFiles(m) ==
  IF m.items # <<>> THEN {m.items[Len(m.items)][1]} ELSE {e.file : e \in peer_list}

\* addEntry and addFile.
Register(m) ==
  /\ peer_list' = peer_list \cup Entries(m)
  /\ \E file \in LatestFiles(m) : file_list' = WithFile(file)

\* The assertion on the uninitialized file_name_len of a new file's entry may
\* fail, and peer_list.back() of an empty list is undefined: the process aborts.
MayAbort(m) == m.flag \in {3, 4} /\ \A file \in LatestFiles(m) : ~Listed(file)

\* Seeded fault: deleteIP erases nothing (remove_if without the erase).
RemainingAll(ip) == peer_list

\* deleteIP: the address compared is the source of the datagram.
Remaining(ip) == {e \in peer_list : e.ip # ip}

GenerateList(file) == {e \in peer_list : e.file = file}

\* Seeded fault: no reply to a query for a file that is not found.
RepliesOnlyFound(m) == m.flag \in {1, 6} \/ (m.flag = 7 /\ Listed(m.head[1]))
Replies(m) == m.flag \in {1, 6, 7}

FilesHeardOf == {file_list[i] : i \in 1..Len(file_list)}
Response(m) ==
  CASE m.flag = 1 -> GenerateList(m.head[1])
    [] m.flag = 6 -> FilesHeardOf
    [] OTHER      -> {m.head[1]} \cap FilesHeardOf

-----------------------------------------------------------------------------
(* The clients.                                                            *)

\* What the histories keep of peer p's datagrams: the entry they announce.
Announced(p, f, c) == [file |-> f, chunk |-> UInt8(c), ip |-> PrivateIP[p], port |-> Port]

CanSend(p) == client[p] = "running" /\ waiting[p] = <<>> /\ sent < MaxSent

Send(p, m) ==
  /\ net' = [net EXCEPT ![p] = Append(@, m)]
  /\ sent' = sent + 1

\* The number of chunks is what the storage counts, not the file's own.
UploadFile(p, f, n) ==
  /\ CanSend(p) /\ Send(p, Upload(p, f, n))
  /\ UNCHANGED <<alive, client, waiting, reply>> /\ UNCHANGED lists

InformDownloaded(p, f, c) ==
  /\ CanSend(p) /\ Send(p, Inform(p, f, c))
  /\ UNCHANGED <<alive, client, waiting, reply>> /\ UNCHANGED lists

Quit(p) ==
  /\ CanSend(p) /\ Send(p, Exit(p))
  /\ client' = [client EXCEPT ![p] = "quit"]
  /\ UNCHANGED <<alive, waiting, reply>> /\ UNCHANGED lists

AskTracker(p, flag, f) ==
  /\ CanSend(p) /\ Send(p, Ask(flag, f, sent + 1))
  /\ waiting' = [waiting EXCEPT ![p] = <<sent + 1, flag>>]
  /\ UNCHANGED <<alive, client, reply>> /\ UNCHANGED lists

\* download_file waits for its reply for a limited time, the queries for ever.
GiveUp(p) ==
  /\ client[p] = "running" /\ waiting[p] # <<>> /\ waiting[p][2] = 1
  /\ waiting' = [waiting EXCEPT ![p] = <<>>]
  /\ UNCHANGED <<alive, net, client, reply, sent>> /\ UNCHANGED lists

\* The program is closed, or exits by itself: uploading a file it does not have.
Die(p) ==
  /\ client[p] = "running"
  /\ client' = [client EXCEPT ![p] = "dead"]
  /\ waiting' = [waiting EXCEPT ![p] = <<>>]
  /\ UNCHANGED <<alive, net, reply, sent>> /\ UNCHANGED lists

Start(p) ==
  /\ client[p] # "running"
  /\ client' = [client EXCEPT ![p] = "running"]
  /\ UNCHANGED <<alive, net, waiting, reply, sent>> /\ UNCHANGED lists

-----------------------------------------------------------------------------
(* The tracker.                                                            *)

Receive(p) == net' = [net EXCEPT ![p] = Tail(@)]

Add(p) ==
  /\ alive /\ net[p] # <<>> /\ Head(net[p]).flag \in {3, 4}
  /\ Receive(p) /\ Register(Head(net[p]))
  /\ LET m == Head(net[p])
     IN  IF m.flag = 4
         THEN /\ uploaded' = uploaded \cup
                   {Announced(p, m.items[i][1], m.items[i][2]) : i \in 1..Len(m.items)}
              /\ UNCHANGED informed
         ELSE /\ informed' = informed \cup {Announced(p, m.head[1], m.head[2])}
              /\ UNCHANGED uploaded
  /\ UNCHANGED <<alive, client, waiting, reply, sent>>

DeleteIP(p) ==
  /\ alive /\ net[p] # <<>> /\ Head(net[p]).flag = 5
  /\ Receive(p)
  /\ peer_list' = Remaining(SourceIP[p])
  /\ uploaded' = {e \in uploaded : e.ip # PrivateIP[p]}
  /\ informed' = {e \in informed : e.ip # PrivateIP[p]}
  /\ UNCHANGED <<alive, file_list, client, waiting, reply, sent>>

\* A reply nobody waits for any more is dropped with its socket.
Answer(p) ==
  /\ alive /\ net[p] # <<>> /\ Head(net[p]).flag \in {1, 6, 7}
  /\ Receive(p)
  /\ LET m == Head(net[p])
         awaited == Replies(m) /\ waiting[p] = <<m.sock, m.flag>>
     IN  /\ reply' = IF awaited THEN [reply EXCEPT ![p] = Response(m)] ELSE reply
         /\ waiting' = IF awaited THEN [waiting EXCEPT ![p] = <<>>] ELSE waiting
  /\ UNCHANGED <<alive, client, sent>> /\ UNCHANGED lists

Cleared == peer_list' = {} /\ file_list' = <<>> /\ uploaded' = {} /\ informed' = {}

Abort(p) ==
  /\ alive /\ net[p] # <<>> /\ MayAbort(Head(net[p]))
  /\ Receive(p)
  /\ alive' = FALSE /\ Cleared
  /\ UNCHANGED <<client, waiting, reply, sent>>

\* Nobody listens: what arrives is lost.
Drop(p) ==
  /\ ~alive /\ net[p] # <<>>
  /\ Receive(p)
  /\ UNCHANGED <<alive, client, waiting, reply, sent>> /\ UNCHANGED lists

\* An operator starts the tracker again.
Restart ==
  /\ ~alive /\ alive' = TRUE
  /\ UNCHANGED <<net, client, waiting, reply, sent>> /\ UNCHANGED lists

-----------------------------------------------------------------------------
Init ==
  /\ alive = TRUE /\ peer_list = {} /\ file_list = <<>>
  /\ net = [p \in Peers |-> <<>>]
  /\ client = [p \in Peers |-> "running"]
  /\ waiting = [p \in Peers |-> <<>>]
  /\ reply = [p \in Peers |-> {}]
  /\ sent = 0 /\ uploaded = {} /\ informed = {}

ClientStep(p) ==
  \/ \E f \in Files : \E n \in 0..Chunks[f] : UploadFile(p, f, n)
  \/ \E f \in Files : \E c \in 1..Chunks[f] : InformDownloaded(p, f, c)
  \/ Quit(p)
  \/ \E flag \in {1, 6, 7}, f \in Files : AskTracker(p, flag, f)
  \/ GiveUp(p)
  \/ Die(p)
  \/ Start(p)

TrackerStep(p) == Add(p) \/ DeleteIP(p) \/ Answer(p) \/ Abort(p)

Next ==
  \/ \E p \in Peers : ClientStep(p) \/ TrackerStep(p) \/ Drop(p)
  \/ Restart

Spec == Init /\ [][Next]_vars

\* The tracker's loop goes on, whoever's datagram comes next.
FairSpec == Spec /\ \A p \in Peers : WF_vars(TrackerStep(p))

-----------------------------------------------------------------------------
(* Properties.                                                             *)

\* Each variable has its type; a chunk number is a uint8_t.
TypeOK ==
  /\ alive \in BOOLEAN
  /\ peer_list \subseteq EntryType
  /\ file_list \in Seq(Words)
  /\ DOMAIN net = Peers /\ \A p \in Peers : net[p] \in Seq(Datagrams(p))
  /\ client \in [Peers -> {"running", "quit", "dead"}]
  /\ waiting \in [Peers -> {<<>>} \cup ((1..MaxSent) \X {1, 6, 7})]
  /\ sent \in 0..MaxSent
  /\ uploaded \subseteq EntryType /\ informed \subseteq EntryType

\* Whatever is in peer_list can be found with queries 6 and 7, once: the two
\* lists are changed by different statements of a handler.
FileListSound ==
  /\ \A e \in peer_list : Listed(e.file)
  /\ \A i, j \in 1..Len(file_list) : file_list[i] = file_list[j] => i = j

\* What the tracker was told by an upload is listed until the uploader's exit,
\* whatever other peers announce or leave.
UploadedIsListed == uploaded \subseteq peer_list

\* The entries of one address for one file are numbered from 1 on, with no gap:
\* download_file sizes its table of chunks by the number of entries, and would
\* index it out of range otherwise.
PrefixListed ==
  \A e \in peer_list : e.file \in Files =>
    \A c \in 1..e.chunk :
      [file |-> e.file, chunk |-> c, ip |-> e.ip, port |-> e.port] \in peer_list

\* What UploadedIsListed says, for the chunks whose download was reported (README: for every chunk
\* Harry has successfully downloaded the tracker will update its list to include
\* (test.txt, chunk_no, Harry's Public_IP, port_num)).
InformedIsListed == informed \subseteq peer_list

\* Once a peer has quit and the tracker has read all it sent, no entry has its
\* address (README: the tracker will delete the entries corresponding to Harry).
ExitedIsForgotten ==
  \A p \in Peers :
    client[p] = "quit" /\ net[p] = <<>> =>
      \A e \in peer_list : e.ip # PrivateIP[p]

\* A request on its way to the tracker is answered, and its client goes on, unless
\* the tracker aborts first: then the client may wait for ever.
Underway(p) ==
  /\ alive /\ waiting[p] # <<>>
  /\ \E i \in 1..Len(net[p]) : net[p][i].flag \in {1, 6, 7} /\ net[p][i].sock = waiting[p][1]

EventuallyAnswered ==
  \A p \in Peers : Underway(p) ~> (waiting[p] = <<>> \/ ~alive)
=============================================================================
