--------------------------- MODULE TrackerProofs ---------------------------
(***************************************************************************)
(* Proofs about Tracker for any peers, files and number of datagrams.      *)
(***************************************************************************)
EXTENDS Tracker, SequenceTheorems, TLAPS

-----------------------------------------------------------------------------
(* The datagrams.                                                          *)

\* What a datagram is, by its flag.
LEMMA DatagramKinds ==
  ASSUME NEW p \in Peers, NEW m \in Datagrams(p)
  PROVE  /\ m.flag \in {1, 3, 4, 5, 6, 7}
         /\ m.flag = 4 => \E f \in Files : \E n \in 0..Chunks[f] : m = Upload(p, f, n)
         /\ m.flag = 3 => \E f \in Files : \E c \in 1..Chunks[f] : m = Inform(p, f, c)
         /\ m.flag = 5 => m = Exit(p)
         /\ m.flag \in {1, 6, 7} => m.sock \in 1..MaxSent
<1>1. CASE \E f \in Files : \E n \in 0..Chunks[f] : m = Upload(p, f, n)
  <2>1. m.flag = 4
    BY <1>1 DEF Upload
  <2> QED
    BY <1>1, <2>1
<1>2. CASE \E f \in Files : \E c \in 1..Chunks[f] : m = Inform(p, f, c)
  <2>1. m.flag = 3
    BY <1>2 DEF Inform
  <2> QED
    BY <1>2, <2>1
<1>3. CASE m = Exit(p)
  <2>1. m.flag = 5
    BY <1>3 DEF Exit
  <2> QED
    BY <1>3, <2>1
<1>4. CASE \E flag \in {1, 6, 7}, f \in Files, sock \in 1..MaxSent : m = Ask(flag, f, sock)
  <2>1. m.flag \in {1, 6, 7} /\ m.sock \in 1..MaxSent
    BY <1>4 DEF Ask
  <2> QED
    BY <2>1
<1> QED
  BY <1>1, <1>2, <1>3, <1>4 DEF Datagrams

LEMMA UInt8Type == \A n \in Nat : UInt8(n) \in 0..255
BY DEF UInt8

\* The entries of an upload are those the peer announces.
LEMMA UploadEntries ==
  ASSUME NEW p \in Peers, NEW f \in Files, NEW n \in 0..Chunks[f], NEW m,
         m = Upload(p, f, n)
  PROVE  /\ n \in Nat
         /\ Len(m.items) = n
         /\ \A i \in 1..n : m.items[i] = <<f, i>>
         /\ Entries(m) = {Announced(p, f, i) : i \in 1..n}
<1>1. n \in Nat
  BY FilesAssumption
<1>2. m.items = [i \in 1..n |-> <<f, i>>] /\ m.head = <<PrivateIP[p], Port>>
  BY DEF Upload
<1>3. Len(m.items) = n /\ \A i \in 1..n : m.items[i] = <<f, i>>
  BY <1>1, <1>2
<1>4. \A i \in 1..n : Entry(m.head, m.items[i]) = Announced(p, f, i)
  BY <1>2, <1>3 DEF Entry, Announced
<1> QED
  BY <1>1, <1>3, <1>4 DEF Entries

\* The one entry of a report takes the peer's address for a file name and the
\* file name for an address.
LEMMA InformEntries ==
  ASSUME NEW p \in Peers, NEW f \in Files, NEW c \in 1..Chunks[f], NEW m,
         m = Inform(p, f, c)
  PROVE  /\ c \in Nat
         /\ Len(m.items) = 1 /\ m.items[1] = <<PrivateIP[p], Port>>
         /\ m.head = <<f, c>>
         /\ Entries(m) = {[file |-> PrivateIP[p], chunk |-> UInt8(Port), ip |-> f, port |-> c]}
<1>1. c \in Nat
  BY FilesAssumption
<1>2. m.items = << <<PrivateIP[p], Port>> >> /\ m.head = <<f, c>>
  BY DEF Inform
<1>3. Entry(m.head, m.items[1])
        = [file |-> PrivateIP[p], chunk |-> UInt8(Port), ip |-> f, port |-> c]
  BY <1>2 DEF Entry
<1> QED
  BY <1>1, <1>2, <1>3 DEF Entries

\* What a peer announces is an entry.
LEMMA AnnouncedType ==
  ASSUME NEW p \in Peers, NEW f \in Files, NEW c \in Nat
  PROVE  Announced(p, f, c) \in EntryType
BY UInt8Type, FilesAssumption DEF Announced, EntryType, Words, Port

LEMMA EntriesType ==
  ASSUME NEW p \in Peers, NEW m \in Datagrams(p), m.flag \in {3, 4}
  PROVE  Entries(m) \subseteq EntryType
<1>1. CASE m.flag = 4
  BY <1>1, DatagramKinds, UploadEntries, AnnouncedType
<1>2. CASE m.flag = 3
  BY <1>2, DatagramKinds, InformEntries, UInt8Type, FilesAssumption
  DEF EntryType, Words, Port
<1> QED
  BY <1>1, <1>2

\* The history of an upload adds its entries, no more.
LEMMA UploadHistory ==
  ASSUME NEW p \in Peers, NEW m \in Datagrams(p), m.flag = 4
  PROVE  {Announced(p, m.items[i][1], m.items[i][2]) : i \in 1..Len(m.items)} = Entries(m)
<1>1. PICK f \in Files : \E n \in 0..Chunks[f] : m = Upload(p, f, n)
  BY DatagramKinds
<1>n. PICK n \in 0..Chunks[f] : m = Upload(p, f, n)
  BY <1>1
<1>2. /\ Len(m.items) = n /\ \A i \in 1..n : m.items[i] = <<f, i>>
      /\ Entries(m) = {Announced(p, f, i) : i \in 1..n}
  BY <1>n, UploadEntries
<1>3. \A i \in 1..n : Announced(p, m.items[i][1], m.items[i][2]) = Announced(p, f, i)
  BY <1>2
<1> QED
  BY <1>2, <1>3

\* An upload's entries are its sender's; a report's is of a "file" named by its
\* sender's address, at an "address" named by the file.
LEMMA AnnouncedBy ==
  ASSUME NEW p \in Peers, NEW m \in Datagrams(p), m.flag = 4, NEW e \in Entries(m)
  PROVE  e.ip = PrivateIP[p]
<1>1. PICK f \in Files : \E n \in 0..Chunks[f] : m = Upload(p, f, n)
  BY DatagramKinds
<1>2. PICK n \in 0..Chunks[f] : m = Upload(p, f, n)
  BY <1>1
<1> QED
  BY <1>2, UploadEntries DEF Announced

LEMMA ReportNamesAddress ==
  ASSUME NEW p \in Peers, NEW m \in Datagrams(p), m.flag = 3, NEW e \in Entries(m)
  PROVE  e.file = PrivateIP[p] /\ e.ip \in Files
<1>1. PICK f \in Files : \E c \in 1..Chunks[f] : m = Inform(p, f, c)
  BY DatagramKinds
<1>2. PICK c \in 1..Chunks[f] : m = Inform(p, f, c)
  BY <1>1
<1> QED
  BY <1>2, InformEntries

LEMMA LatestFilesType ==
  ASSUME NEW p \in Peers, NEW m \in Datagrams(p), m.flag \in {3, 4},
         peer_list \subseteq EntryType
  PROVE  LatestFiles(m) \subseteq Words
<1>1. CASE m.items = <<>>
  BY <1>1 DEF LatestFiles, EntryType
<1>2. CASE m.items # <<>> /\ m.flag = 4
  <2>1. PICK f \in Files : \E n \in 0..Chunks[f] : m = Upload(p, f, n)
    BY <1>2, DatagramKinds
  <2>n. PICK n \in 0..Chunks[f] : m = Upload(p, f, n)
    BY <2>1
  <2>2. Len(m.items) = n /\ n \in Nat /\ \A i \in 1..n : m.items[i] = <<f, i>>
    BY <2>n, UploadEntries
  <2>3. n # 0
    BY <1>2, <2>n, <2>2 DEF Upload
  <2> QED
    BY <1>2, <2>2, <2>3 DEF LatestFiles, Words
<1>3. CASE m.items # <<>> /\ m.flag = 3
  BY <1>3, DatagramKinds, InformEntries, FilesAssumption DEF LatestFiles, Words
<1> QED
  BY <1>1, <1>2, <1>3

LEMMA WithFileType ==
  ASSUME file_list \in Seq(Words), NEW file \in Words
  PROVE  WithFile(file) \in Seq(Words)
BY AppendProperties DEF WithFile

-----------------------------------------------------------------------------
(* Type correctness.                                                       *)

LEMMA SendType ==
  ASSUME TypeOK, NEW p \in Peers, NEW m \in Datagrams(p), CanSend(p), Send(p, m)
  PROVE  /\ DOMAIN net' = Peers /\ \A q \in Peers : net'[q] \in Seq(Datagrams(q))
         /\ sent' \in 0..MaxSent /\ sent + 1 \in 1..MaxSent
         /\ net'[p] = Append(net[p], m) /\ \A q \in Peers \ {p} : net'[q] = net[q]
<1>1. /\ DOMAIN net' = Peers
      /\ net'[p] = Append(net[p], m) /\ \A q \in Peers \ {p} : net'[q] = net[q]
  BY DEF TypeOK, Send
<1>2. net'[p] \in Seq(Datagrams(p))
  BY <1>1, AppendProperties DEF TypeOK
<1>3. sent' \in 0..MaxSent /\ sent + 1 \in 1..MaxSent
  BY FilesAssumption DEF TypeOK, Send, CanSend
<1> QED
  BY <1>1, <1>2, <1>3 DEF TypeOK

LEMMA ReceiveType ==
  ASSUME TypeOK, NEW p \in Peers, net[p] # <<>>, Receive(p)
  PROVE  /\ DOMAIN net' = Peers /\ \A q \in Peers : net'[q] \in Seq(Datagrams(q))
         /\ Head(net[p]) \in Datagrams(p)
         /\ net'[p] = Tail(net[p]) /\ \A q \in Peers \ {p} : net'[q] = net[q]
<1>1. /\ DOMAIN net' = Peers
      /\ net'[p] = Tail(net[p]) /\ \A q \in Peers \ {p} : net'[q] = net[q]
  BY DEF TypeOK, Receive
<1>2. net'[p] \in Seq(Datagrams(p)) /\ Head(net[p]) \in Datagrams(p)
  BY <1>1, HeadTailProperties DEF TypeOK
<1> QED
  BY <1>1, <1>2 DEF TypeOK

\* The datagrams the menu's operations send.
LEMMA ClientStepType ==
  ASSUME TypeOK, NEW p \in Peers, ClientStep(p)
  PROVE  TypeOK'
<1>1. ASSUME NEW f \in Files, NEW n \in 0..Chunks[f], UploadFile(p, f, n)
      PROVE  TypeOK'
  <2>1. Upload(p, f, n) \in Datagrams(p)
    BY DEF Datagrams
  <2> QED
    BY <1>1, <2>1, SendType DEF UploadFile, TypeOK, lists
<1>2. ASSUME NEW f \in Files, NEW c \in 1..Chunks[f], InformDownloaded(p, f, c)
      PROVE  TypeOK'
  <2>1. Inform(p, f, c) \in Datagrams(p)
    BY DEF Datagrams
  <2> QED
    BY <1>2, <2>1, SendType DEF InformDownloaded, TypeOK, lists
<1>3. CASE Quit(p)
  <2>1. Exit(p) \in Datagrams(p)
    BY DEF Datagrams
  <2> QED
    BY <1>3, <2>1, SendType DEF Quit, TypeOK, lists
<1>4. ASSUME NEW flag \in {1, 6, 7}, NEW f \in Files, AskTracker(p, flag, f)
      PROVE  TypeOK'
  <2>1. sent + 1 \in 1..MaxSent
    BY <1>4, FilesAssumption DEF AskTracker, CanSend, TypeOK
  <2>2. Ask(flag, f, sent + 1) \in Datagrams(p)
    BY <2>1 DEF Datagrams
  <2>3. waiting' \in [Peers -> {<<>>} \cup ((1..MaxSent) \X {1, 6, 7})]
    BY <1>4, <2>1 DEF AskTracker, TypeOK
  <2> QED
    BY <1>4, <2>2, <2>3, SendType DEF AskTracker, TypeOK, lists
<1>5. CASE GiveUp(p) \/ Die(p) \/ Start(p)
  BY <1>5 DEF GiveUp, Die, Start, TypeOK, lists
<1> QED
  BY <1>1, <1>2, <1>3, <1>4, <1>5 DEF ClientStep

\* What an upload or a report leaves in the lists.
LEMMA AddType ==
  ASSUME TypeOK, NEW p \in Peers, Add(p)
  PROVE  TypeOK'
<1> DEFINE m == Head(net[p])
<1>1. /\ net[p] # <<>> /\ m.flag \in {3, 4} /\ Receive(p) /\ Register(m)
      /\ UNCHANGED <<alive, client, waiting, reply, sent>>
  BY DEF Add
<1>2. m \in Datagrams(p)
  BY <1>1, ReceiveType
<1>3. peer_list' \subseteq EntryType
  BY <1>1, <1>2, EntriesType DEF Register, TypeOK
<1>4. file_list' \in Seq(Words)
  <2>1. PICK file \in LatestFiles(m) : file_list' = WithFile(file)
    BY <1>1 DEF Register
  <2>2. file \in Words
    BY <1>1, <1>2, LatestFilesType DEF TypeOK
  <2> QED
    BY <2>1, <2>2, WithFileType DEF TypeOK
<1>5. uploaded' \subseteq EntryType /\ informed' \subseteq EntryType
  <2>1. CASE m.flag = 4
    <3>1. uploaded' = uploaded \cup Entries(m) /\ informed' = informed
      BY <1>2, <2>1, UploadHistory DEF Add
    <3> QED
      BY <1>2, <2>1, <3>1, EntriesType DEF TypeOK
  <2>2. CASE m.flag = 3
    <3>1. PICK f \in Files : \E c \in 1..Chunks[f] : m = Inform(p, f, c)
      BY <1>2, <2>2, DatagramKinds
    <3>2. PICK c \in 1..Chunks[f] : m = Inform(p, f, c)
      BY <3>1
    <3>3. Announced(p, m.head[1], m.head[2]) \in EntryType
      BY <3>2, InformEntries, AnnouncedType
    <3> QED
      BY <2>2, <3>3 DEF Add, TypeOK
  <2> QED
    BY <1>1, <2>1, <2>2
<1> QED
  BY <1>1, <1>3, <1>4, <1>5, ReceiveType DEF TypeOK

LEMMA TrackerStepType ==
  ASSUME TypeOK, NEW p \in Peers, TrackerStep(p) \/ Drop(p)
  PROVE  TypeOK'
<1>1. CASE DeleteIP(p)
  BY <1>1, ReceiveType DEF DeleteIP, Remaining, TypeOK
<1>2. CASE Answer(p)
  <2>1. waiting' \in [Peers -> {<<>>} \cup ((1..MaxSent) \X {1, 6, 7})]
    BY <1>2 DEF Answer, TypeOK
  <2> QED
    BY <1>2, <2>1, ReceiveType DEF Answer, TypeOK, lists
<1>3. CASE Abort(p)
  <2>1. net[p] # <<>> /\ Receive(p) /\ UNCHANGED <<client, waiting, reply, sent>>
    BY <1>3, Zenon DEF Abort
  <2>2. /\ alive' \in BOOLEAN
        /\ peer_list' = {} /\ file_list' = <<>> /\ uploaded' = {} /\ informed' = {}
    BY <1>3, Zenon DEF Abort, Cleared
  <2> QED
    BY <2>1, <2>2, ReceiveType DEF TypeOK
<1>4. CASE Drop(p)
  BY <1>4, ReceiveType DEF Drop, TypeOK, lists
<1> QED
  BY <1>1, <1>2, <1>3, <1>4, AddType DEF TrackerStep

LEMMA TypeIsInductive ==
  ASSUME TypeOK, [Next]_vars
  PROVE  TypeOK'
<1>1. CASE UNCHANGED vars
  BY <1>1 DEF vars, TypeOK
<1>2. CASE Restart
  BY <1>2 DEF Restart, TypeOK, lists
<1> QED
  BY <1>1, <1>2, ClientStepType, TrackerStepType DEF Next

LEMMA InitType == Init => TypeOK
BY FilesAssumption DEF Init, TypeOK

\* Every variable keeps its type; a listed chunk number fits a uint8_t
\* (tracker_entries.h:82).
THEOREM TypeCorrect == Spec => []TypeOK
BY InitType, TypeIsInductive, PTL DEF Spec

-----------------------------------------------------------------------------
(* Which steps change the lists, and how.                                  *)

LEMMA ListSteps ==
  ASSUME [Next]_vars
  PROVE  \/ UNCHANGED lists
         \/ Cleared
         \/ \E p \in Peers : DeleteIP(p)
         \/ \E p \in Peers : Add(p)
<1>1. ASSUME NEW p \in Peers, ClientStep(p) PROVE UNCHANGED lists
  BY <1>1 DEF ClientStep, UploadFile, InformDownloaded, Quit, AskTracker, GiveUp, Die, Start
<1>2. ASSUME NEW p \in Peers, Answer(p) \/ Drop(p) PROVE UNCHANGED lists
  BY <1>2 DEF Answer, Drop
<1>3. ASSUME NEW p \in Peers, Abort(p) PROVE Cleared
  BY <1>3, Zenon DEF Abort
<1>4. ASSUME Restart PROVE UNCHANGED lists
  BY <1>4 DEF Restart
<1>5. ASSUME UNCHANGED vars PROVE UNCHANGED lists
  BY <1>5 DEF vars, lists
<1> QED
  BY <1>1, <1>2, <1>3, <1>4, <1>5 DEF Next, TrackerStep

\* An upload adds entries [file f, chunk 1..n, p's address]; a report adds one,
\* of a file named by p's address.
LEMMA AddSteps ==
  ASSUME TypeOK, NEW p \in Peers, Add(p)
  PROVE  \E m \in Datagrams(p) :
           /\ m = Head(net[p]) /\ m.flag \in {3, 4}
           /\ peer_list' = peer_list \cup Entries(m)
           /\ \E file \in LatestFiles(m) : file_list' = WithFile(file)
           /\ uploaded' = IF m.flag = 4 THEN uploaded \cup Entries(m) ELSE uploaded
<1> DEFINE m == Head(net[p])
<1>1. /\ net[p] # <<>> /\ m.flag \in {3, 4} /\ Receive(p) /\ Register(m)
  BY DEF Add
<1>2. m \in Datagrams(p)
  BY <1>1, ReceiveType
<1>3. CASE m.flag = 4
  <2>1. uploaded' = uploaded \cup Entries(m)
    BY <1>2, <1>3, UploadHistory DEF Add
  <2> QED
    BY <1>1, <1>2, <1>3, <2>1 DEF Register
<1>4. CASE m.flag = 3
  <2>1. uploaded' = uploaded
    BY <1>4 DEF Add
  <2> QED
    BY <1>1, <1>2, <1>4, <2>1 DEF Register
<1> QED
  BY <1>1, <1>3, <1>4

-----------------------------------------------------------------------------
(* The two lists agree.                                                    *)

LEMMA EntriesAreOfLatest ==
  ASSUME NEW p \in Peers, NEW m \in Datagrams(p), m.flag \in {3, 4},
         NEW e \in Entries(m), NEW file \in LatestFiles(m)
  PROVE  e.file = file
<1>1. CASE m.flag = 4
  <2>1. PICK f \in Files : \E n \in 0..Chunks[f] : m = Upload(p, f, n)
    BY <1>1, DatagramKinds
  <2>2. PICK n \in 0..Chunks[f] : m = Upload(p, f, n)
    BY <2>1
  <2>3. /\ n \in Nat /\ Len(m.items) = n /\ \A i \in 1..n : m.items[i] = <<f, i>>
        /\ Entries(m) = {Announced(p, f, i) : i \in 1..n}
    BY <2>2, UploadEntries
  <2>4. e.file = f /\ n # 0
    BY <2>3 DEF Announced
  <2>5. m.items # <<>>
    BY <2>3, <2>4
  <2> QED
    BY <2>3, <2>4, <2>5 DEF LatestFiles
<1>2. CASE m.flag = 3
  <2>1. PICK f \in Files : \E c \in 1..Chunks[f] : m = Inform(p, f, c)
    BY <1>2, DatagramKinds
  <2>2. PICK c \in 1..Chunks[f] : m = Inform(p, f, c)
    BY <2>1
  <2>3. e.file = PrivateIP[p]
    BY <2>2, InformEntries
  <2>4. Len(m.items) = 1 /\ m.items[1] = <<PrivateIP[p], Port>>
    BY <2>2, InformEntries
  <2> QED
    BY <2>3, <2>4 DEF LatestFiles
<1> QED
  BY <1>1, <1>2

LEMMA WithFileFacts ==
  ASSUME file_list \in Seq(Words), NEW file \in Words,
         \A i, j \in 1..Len(file_list) : file_list[i] = file_list[j] => i = j,
         NEW new, new = WithFile(file)
  PROVE  /\ \E i \in 1..Len(new) : new[i] = file
         /\ \A g : Listed(g) => \E i \in 1..Len(new) : new[i] = g
         /\ \A i, j \in 1..Len(new) : new[i] = new[j] => i = j
<1>1. CASE Listed(file)
  BY <1>1 DEF WithFile, Listed
<1>2. CASE ~Listed(file)
  <2>1. /\ new = Append(file_list, file) /\ Len(new) = Len(file_list) + 1
        /\ new[Len(new)] = file /\ Len(file_list) \in Nat
        /\ \A i \in 1..Len(file_list) : new[i] = file_list[i] /\ file_list[i] # file
    BY <1>2, AppendProperties DEF WithFile, Listed
  <2>2. \A i \in 1..Len(new) : i \in 1..Len(file_list) \/ i = Len(new)
    BY <2>1
  <2>3. \A g : Listed(g) => \E i \in 1..Len(new) : new[i] = g
    BY <2>1 DEF Listed
  <2>4. \A i, j \in 1..Len(new) : new[i] = new[j] => i = j
    BY <2>1, <2>2
  <2> QED
    BY <2>1, <2>3, <2>4
<1> QED
  BY <1>1, <1>2

LEMMA AddKeepsFileList ==
  ASSUME TypeOK, FileListSound, NEW p \in Peers, Add(p)
  PROVE  FileListSound'
<1>1. PICK m \in Datagrams(p) :
        /\ m.flag \in {3, 4} /\ peer_list' = peer_list \cup Entries(m)
        /\ \E file \in LatestFiles(m) : file_list' = WithFile(file)
  BY AddSteps
<1>2. PICK file \in LatestFiles(m) : file_list' = WithFile(file)
  BY <1>1
<1>3. file \in Words
  BY <1>1, <1>2, LatestFilesType DEF TypeOK
<1>4. /\ \E i \in 1..Len(file_list') : file_list'[i] = file
      /\ \A g : Listed(g) => \E i \in 1..Len(file_list') : file_list'[i] = g
      /\ \A i, j \in 1..Len(file_list') : file_list'[i] = file_list'[j] => i = j
  <2>1. /\ file_list \in Seq(Words)
        /\ \A i, j \in 1..Len(file_list) : file_list[i] = file_list[j] => i = j
    BY DEF FileListSound, TypeOK
  <2> QED
    BY <1>2, <1>3, <2>1, WithFileFacts
<1>5. \A e \in Entries(m) : e.file = file
  BY <1>1, <1>2, EntriesAreOfLatest
<1>6. \A e \in peer_list' : Listed(e.file)'
  BY <1>1, <1>4, <1>5 DEF FileListSound, Listed
<1> QED
  BY <1>4, <1>6 DEF FileListSound

\* Whatever peer_list holds is in file_list, once (tracker.cpp:142-205): the
\* two are changed by different statements of addFile and addEntry.
THEOREM ListsAgree == Spec => []FileListSound
<1>1. Init => FileListSound
  BY DEF Init, FileListSound, Listed
<1>2. TypeOK /\ FileListSound /\ [Next]_vars => FileListSound'
  <2> SUFFICES ASSUME TypeOK, FileListSound, [Next]_vars PROVE FileListSound'
    OBVIOUS
  <2>1. CASE UNCHANGED lists
    BY <2>1 DEF lists, FileListSound, Listed
  <2>2. CASE Cleared
    BY <2>2 DEF Cleared, FileListSound, Listed
  <2>3. ASSUME NEW p \in Peers, DeleteIP(p) PROVE FileListSound'
    BY <2>3 DEF DeleteIP, Remaining, FileListSound, Listed
  <2> QED
    BY <2>1, <2>2, <2>3, ListSteps, AddKeepsFileList
<1> QED
  BY <1>1, <1>2, TypeCorrect, PTL DEF Spec

-----------------------------------------------------------------------------
(* What was uploaded stays listed.                                         *)

\* The source address of a peer's datagrams is no other peer's address: the
\* NAT it may be behind runs no client with an address of its own.
OwnAddresses ==
  \A p, q \in Peers : SourceIP[p] = PrivateIP[q] => PrivateIP[q] = PrivateIP[p]

UploadInv ==
  /\ UploadedIsListed
  /\ \A e \in uploaded : \E q \in Peers : e.ip = PrivateIP[q]

LEMMA UploadInvStep ==
  ASSUME OwnAddresses, TypeOK, UploadInv, [Next]_vars
  PROVE  UploadInv'
<1>1. CASE UNCHANGED lists
  BY <1>1 DEF lists, UploadInv, UploadedIsListed
<1>2. CASE Cleared
  BY <1>2 DEF Cleared, UploadInv, UploadedIsListed
<1>3. ASSUME NEW p \in Peers, DeleteIP(p) PROVE UploadInv'
  <2>1. /\ peer_list' = {e \in peer_list : e.ip # SourceIP[p]}
        /\ uploaded' = {e \in uploaded : e.ip # PrivateIP[p]}
    BY <1>3 DEF DeleteIP, Remaining
  <2>2. \A e \in uploaded' : e.ip # SourceIP[p]
    BY <2>1 DEF OwnAddresses, UploadInv
  <2> QED
    BY <2>1, <2>2 DEF UploadInv, UploadedIsListed
<1>4. ASSUME NEW p \in Peers, Add(p) PROVE UploadInv'
  <2>1. PICK m \in Datagrams(p) :
          /\ m.flag \in {3, 4} /\ peer_list' = peer_list \cup Entries(m)
          /\ uploaded' = IF m.flag = 4 THEN uploaded \cup Entries(m) ELSE uploaded
    BY <1>4, AddSteps
  <2>2. m.flag = 4 => \A e \in Entries(m) : e.ip = PrivateIP[p]
    BY AnnouncedBy
  <2> QED
    BY <2>1, <2>2 DEF UploadInv, UploadedIsListed
<1> QED
  BY <1>1, <1>2, <1>3, <1>4, ListSteps

\* Between an upload and the uploader's exit, no step of another peer, and no
\* other step of its own, takes one of its entries away (tracker.cpp:142-274).
THEOREM UploadsStayListed ==
  ASSUME OwnAddresses
  PROVE  Spec => []UploadedIsListed
<1>1. Init => UploadInv
  BY DEF Init, UploadInv, UploadedIsListed
<1>2. TypeOK /\ UploadInv /\ [Next]_vars => UploadInv'
  BY UploadInvStep
<1>3. UploadInv => UploadedIsListed
  BY DEF UploadInv
<1> QED
  BY <1>1, <1>2, <1>3, TypeCorrect, PTL DEF Spec

-----------------------------------------------------------------------------
(* The entries of an address for a file have no gap.                       *)

NamesApart == Files \cap IPs = {}

LEMMA PrefixStep ==
  ASSUME NamesApart, TypeOK, PrefixListed, [Next]_vars
  PROVE  PrefixListed'
<1>1. CASE UNCHANGED lists
  BY <1>1 DEF lists, PrefixListed
<1>2. CASE Cleared
  BY <1>2 DEF Cleared, PrefixListed
<1>3. ASSUME NEW p \in Peers, DeleteIP(p) PROVE PrefixListed'
  BY <1>3 DEF DeleteIP, Remaining, PrefixListed
<1>4. ASSUME NEW p \in Peers, Add(p) PROVE PrefixListed'
  <2>1. PICK m \in Datagrams(p) :
          m.flag \in {3, 4} /\ peer_list' = peer_list \cup Entries(m)
    BY <1>4, AddSteps
  <2>2. SUFFICES ASSUME NEW e \in peer_list', e.file \in Files, NEW c \in 1..e.chunk
                 PROVE  [file |-> e.file, chunk |-> c, ip |-> e.ip, port |-> e.port] \in peer_list'
    BY DEF PrefixListed
  <2>3. CASE e \in peer_list
    BY <2>1, <2>2, <2>3 DEF PrefixListed
  <2>4. CASE e \in Entries(m) /\ m.flag = 4
    <3>1. PICK f \in Files : \E n \in 0..Chunks[f] : m = Upload(p, f, n)
      BY <2>4, DatagramKinds
    <3>2. PICK n \in 0..Chunks[f] : m = Upload(p, f, n)
      BY <3>1
    <3>3. n \in Nat /\ Entries(m) = {Announced(p, f, i) : i \in 1..n}
      BY <3>2, UploadEntries
    <3>4. PICK i \in 1..n : e = Announced(p, f, i)
      BY <2>4, <3>3
    <3>5. e.chunk = i % 256 /\ e = [file |-> f, chunk |-> i % 256, ip |-> PrivateIP[p], port |-> Port]
      BY <3>4 DEF Announced, UInt8
    <3>6. i % 256 \in 0..i /\ i % 256 <= 255
      BY <3>3
    <3>7. c \in 1..n /\ c % 256 = c
      BY <3>3, <3>5, <3>6
    <3>8. Announced(p, f, c) = [file |-> e.file, chunk |-> c, ip |-> e.ip, port |-> e.port]
      BY <3>5, <3>7 DEF Announced, UInt8
    <3> QED
      BY <2>1, <3>3, <3>7, <3>8
  <2>5. CASE e \in Entries(m) /\ m.flag = 3
    <3>1. e.file = PrivateIP[p]
      BY <2>5, ReportNamesAddress
    <3> QED
      BY <2>2, <3>1, FilesAssumption DEF NamesApart
  <2> QED
    BY <2>1, <2>3, <2>4, <2>5
<1> QED
  BY <1>1, <1>2, <1>3, <1>4, ListSteps

\* A client that sizes its table by the number of entries never indexes it out
\* of range (p2p_client.cpp:169-182), whoever uploads, reports and exits
\* meanwhile, and even if chunk numbers wrap in their uint8_t.
THEOREM EntriesHaveNoGap ==
  ASSUME NamesApart
  PROVE  Spec => []PrefixListed
<1>1. Init => PrefixListed
  BY DEF Init, PrefixListed
<1>2. TypeOK /\ PrefixListed /\ [Next]_vars => PrefixListed'
  BY PrefixStep
<1> QED
  BY <1>1, <1>2, TypeCorrect, PTL DEF Spec

-----------------------------------------------------------------------------
(* A peer that has quit is forgotten, once its exit is read, if no NAT      *)
(* rewrites its address.                                                   *)

NoNAT ==
  /\ \A p \in Peers : SourceIP[p] = PrivateIP[p]
  /\ \A p, q \in Peers : PrivateIP[p] = PrivateIP[q] => p = q

Forgotten(p) == \A e \in peer_list : e.ip # PrivateIP[p]
ExitIsLast(p) == net[p][Len(net[p])].flag = 5

\* The exit of a client that has quit is the last datagram it sent.
ExitInv ==
  /\ ~alive => peer_list = {}
  /\ \A p \in Peers : client[p] = "quit" =>
       (net[p] = <<>> /\ Forgotten(p)) \/ (net[p] # <<>> /\ ExitIsLast(p))

LEMMA TailLast ==
  ASSUME NEW S, NEW s \in Seq(S), s # <<>>
  PROVE  \/ Tail(s) = <<>> /\ Head(s) = s[Len(s)]
         \/ Tail(s) # <<>> /\ Tail(s)[Len(Tail(s))] = s[Len(s)]
<1> DEFINE t == Tail(s)
<1>1. Len(s) \in Nat \ {0} /\ Head(s) = s[1]
  BY EmptySeq
<1>2. t \in Seq(S) /\ Len(t) = Len(s) - 1
  BY HeadTailProperties
<1>3. \A i \in 1..Len(t) : t[i] = s[i + 1]
  BY <1>1, <1>2
<1>4. t = <<>> <=> Len(t) = 0
  BY <1>2, EmptySeq
<1> HIDE DEF t
<1>5. CASE Len(s) = 1
  BY <1>1, <1>2, <1>4, <1>5 DEF t
<1>6. CASE Len(s) # 1
  <2>1. Len(t) \in 1..Len(t) /\ Len(t) + 1 = Len(s)
    BY <1>1, <1>2, <1>6
  <2>2. t[Len(t)] = s[Len(s)]
    BY <1>3, <2>1
  <2> QED
    BY <1>4, <2>1, <2>2 DEF t
<1> QED
  BY <1>5, <1>6

\* A client's step sends after the exit only by starting again.
LEMMA ExitInvClient ==
  ASSUME TypeOK, ExitInv, NEW p \in Peers, ClientStep(p)
  PROVE  ExitInv'
<1>1. UNCHANGED <<alive, peer_list>>
  BY DEF ClientStep, UploadFile, InformDownloaded, Quit, AskTracker, GiveUp, Die, Start, lists
<1>2. CASE Quit(p)
  <2>1. /\ client' = [client EXCEPT ![p] = "quit"] /\ CanSend(p) /\ Send(p, Exit(p))
        /\ Exit(p) \in Datagrams(p) /\ Exit(p).flag = 5
    BY <1>2 DEF Quit, Datagrams, Exit
  <2>2. net'[p] = Append(net[p], Exit(p)) /\ \A q \in Peers \ {p} : net'[q] = net[q]
    BY <2>1, SendType
  <2>3. net'[p] # <<>> /\ net'[p][Len(net'[p])] = Exit(p)
    BY <2>1, <2>2, AppendProperties DEF TypeOK
  <2> QED
    BY <1>1, <2>1, <2>2, <2>3 DEF ExitInv, ExitIsLast, Forgotten, TypeOK
<1>3. CASE ~Quit(p)
  <2>1. \A q \in Peers : client'[q] = "quit" => client[q] = "quit" /\ net'[q] = net[q]
    BY <1>3 DEF ClientStep, UploadFile, InformDownloaded, AskTracker, GiveUp, Die, Start,
                CanSend, Send, TypeOK
  <2> QED
    BY <1>1, <2>1 DEF ExitInv, ExitIsLast, Forgotten
<1> QED
  BY <1>2, <1>3

\* A step of the tracker takes the oldest datagram of p, and may only have
\* taken the exit if none of p's entries is left.
LEMMA ExitInvReceive ==
  ASSUME TypeOK, ExitInv, NEW p \in Peers, net[p] # <<>>, Receive(p),
         UNCHANGED client,
         (~alive => peer_list = {})',
         Head(net[p]).flag = 5 => Forgotten(p)',
         \A q \in Peers : net[q] = <<>> /\ Forgotten(q) => Forgotten(q)'
  PROVE  ExitInv'
<1>1. net'[p] = Tail(net[p]) /\ \A q \in Peers \ {p} : net'[q] = net[q]
  BY ReceiveType
<1>2. \/ net'[p] = <<>> /\ Head(net[p]) = net[p][Len(net[p])]
      \/ net'[p] # <<>> /\ net'[p][Len(net'[p])] = net[p][Len(net[p])]
  BY <1>1, TailLast DEF TypeOK
<1>3. ASSUME NEW q \in Peers, client'[q] = "quit"
      PROVE  \/ net'[q] = <<>> /\ Forgotten(q)'
             \/ net'[q] # <<>> /\ ExitIsLast(q)'
  <2>1. CASE q = p
    BY <1>2, <1>3, <2>1 DEF ExitInv, ExitIsLast
  <2>2. CASE q # p
    BY <1>1, <1>3, <2>2 DEF ExitInv, ExitIsLast
  <2> QED
    BY <2>1, <2>2
<1> QED
  BY <1>3 DEF ExitInv

LEMMA ExitInvStep ==
  ASSUME NoNAT, NamesApart, TypeOK, ExitInv, [Next]_vars
  PROVE  ExitInv'
<1>1. CASE UNCHANGED vars
  BY <1>1 DEF vars, ExitInv, ExitIsLast, Forgotten
<1>2. CASE Restart
  BY <1>2 DEF Restart, lists, ExitInv, ExitIsLast, Forgotten
<1>3. ASSUME NEW p \in Peers, Add(p) PROVE ExitInv'
  <2>1. PICK m \in Datagrams(p) :
          /\ m = Head(net[p]) /\ m.flag \in {3, 4}
          /\ peer_list' = peer_list \cup Entries(m)
    BY <1>3, AddSteps
  <2>2. alive /\ net[p] # <<>> /\ Receive(p) /\ UNCHANGED <<alive, client>>
    BY <1>3 DEF Add
  <2>3. \A e \in Entries(m) : e.ip = PrivateIP[p] \/ e.ip \in Files
    BY <2>1, AnnouncedBy, ReportNamesAddress
  <2>4. \A q \in Peers \ {p} : Forgotten(q) => Forgotten(q)'
    BY <2>1, <2>3, FilesAssumption DEF Forgotten, NoNAT, NamesApart
  <2>5. \A q \in Peers : net[q] = <<>> /\ Forgotten(q) => Forgotten(q)'
    BY <2>2, <2>4
  <2> QED
    BY <2>1, <2>2, <2>5, ExitInvReceive
<1>4. ASSUME NEW p \in Peers, DeleteIP(p) PROVE ExitInv'
  <2>1. /\ alive /\ net[p] # <<>> /\ Receive(p) /\ UNCHANGED <<alive, client>>
        /\ peer_list' = {e \in peer_list : e.ip # PrivateIP[p]}
    BY <1>4 DEF DeleteIP, Remaining, NoNAT
  <2>2. Forgotten(p)' /\ \A q \in Peers : Forgotten(q) => Forgotten(q)'
    BY <2>1 DEF Forgotten
  <2> QED
    BY <2>1, <2>2, ExitInvReceive
<1>5. ASSUME NEW p \in Peers, Answer(p) PROVE ExitInv'
  <2>1. /\ alive /\ net[p] # <<>> /\ Head(net[p]).flag # 5 /\ Receive(p)
        /\ UNCHANGED <<alive, client, peer_list>>
    BY <1>5 DEF Answer, lists
  <2> QED
    BY <2>1, ExitInvReceive DEF Forgotten
<1>6. ASSUME NEW p \in Peers, Abort(p) PROVE ExitInv'
  <2>1. net[p] # <<>> /\ Receive(p) /\ UNCHANGED client /\ peer_list' = {}
    BY <1>6, Zenon DEF Abort, Cleared
  <2> QED
    BY <2>1, ExitInvReceive DEF Forgotten
<1>7. ASSUME NEW p \in Peers, Drop(p) PROVE ExitInv'
  <2>1. /\ net[p] # <<>> /\ Receive(p) /\ UNCHANGED <<alive, client, peer_list>>
        /\ peer_list = {}
    BY <1>7 DEF Drop, lists, ExitInv
  <2> QED
    BY <2>1, ExitInvReceive DEF Forgotten
<1> QED
  BY <1>1, <1>2, <1>3, <1>4, <1>5, <1>6, <1>7, ExitInvClient DEF Next, TrackerStep

\* README: after an exit the tracker keeps no entry of the peer.  It needs that
\* the source address is the address uploaded, which a NAT falsifies
\* (tracker.cpp:249-266), and nothing about what other peers send meanwhile,
\* nor about the tracker's aborting and starting again.
THEOREM QuitIsForgotten ==
  ASSUME NoNAT, NamesApart
  PROVE  Spec => []ExitedIsForgotten
<1>1. Init => ExitInv
  BY DEF Init, ExitInv
<1>2. TypeOK /\ ExitInv /\ [Next]_vars => ExitInv'
  BY ExitInvStep
<1>3. ExitInv => ExitedIsForgotten
  BY DEF ExitInv, ExitedIsForgotten, Forgotten
<1> QED
  BY <1>1, <1>2, <1>3, TypeCorrect, PTL DEF Spec

-----------------------------------------------------------------------------
(* A request on its way is not passed over: with the fairness of FairSpec  *)
(* this is what EventuallyAnswered rests on.                               *)

\* The requests on their way carry sockets already given out, and the one that a client
\* waits for is of the kind it waits for.
AsksMatch ==
  \A p \in Peers : \A i \in 1..Len(net[p]) :
    net[p][i].flag \in {1, 6, 7} =>
      /\ net[p][i].sock \in 1..sent
      /\ waiting[p] # <<>> /\ net[p][i].sock = waiting[p][1]
           => net[p][i].flag = waiting[p][2]

\* While the tracker runs and the client waits, the request stays on its way, nothing
\* gets in front of it, and each datagram that the tracker takes from this client
\* brings it nearer.
GetsCloser(p) ==
  Underway(p) /\ alive' /\ waiting'[p] = waiting[p] =>
    /\ Underway(p)'
    /\ Len(net'[p]) <= Len(net[p])
    /\ TrackerStep(p) => Len(net'[p]) < Len(net[p])

\* What is left after the tracker took a datagram stood one place further back.
LEMMA TailShifts ==
  ASSUME NEW S, NEW s \in Seq(S), s # <<>>
  PROVE  /\ Len(Tail(s)) = Len(s) - 1 /\ Len(s) \in Nat \ {0}
         /\ \A i \in 1..Len(Tail(s)) : i + 1 \in 1..Len(s) /\ Tail(s)[i] = s[i + 1]
         /\ Head(s) = s[1]
BY HeadTailProperties

\* Each handler takes one datagram, the first, and at most ends its sender's wait.
LEMMA TrackerTakes ==
  ASSUME TypeOK, NEW p \in Peers, TrackerStep(p) \/ Drop(p)
  PROVE  /\ net[p] # <<>> /\ net'[p] = Tail(net[p]) /\ sent' = sent
         /\ \A q \in Peers \ {p} : net'[q] = net[q]
         /\ \A q \in Peers : waiting'[q] \in {<<>>, waiting[q]}
<1>1. net[p] # <<>> /\ Receive(p) /\ sent' = sent
  BY Zenon DEF TrackerStep, Add, DeleteIP, Answer, Abort, Drop
<1>2. \A q \in Peers : waiting'[q] \in {<<>>, waiting[q]}
  <2>1. CASE Answer(p)
    BY <2>1 DEF Answer, TypeOK
  <2>2. CASE ~Answer(p)
    <3>1. waiting' = waiting
      BY <2>2, Zenon DEF TrackerStep, Add, DeleteIP, Abort, Drop
    <3> QED
      BY <3>1
  <2> QED
    BY <2>1, <2>2
<1> QED
  BY <1>1, <1>2, ReceiveType

\* What a client sends: a request is one that it then waits for.
LEMMA AsksMatchSend ==
  ASSUME TypeOK, AsksMatch, NEW p \in Peers, NEW m \in Datagrams(p), CanSend(p), Send(p, m),
         \A q \in Peers \ {p} : waiting'[q] = waiting[q],
         \/ m.flag \in {3, 4, 5} /\ waiting'[p] = <<>>
         \/ /\ m.flag \in {1, 6, 7} /\ m.sock = sent + 1
            /\ waiting'[p] = <<sent + 1, m.flag>>
  PROVE  AsksMatch'
<1>1. /\ sent \in Nat /\ sent' = sent + 1 /\ waiting[p] = <<>>
      /\ net'[p] = Append(net[p], m) /\ \A q \in Peers \ {p} : net'[q] = net[q]
      /\ net[p] \in Seq(Datagrams(p))
  BY SendType, FilesAssumption DEF TypeOK, Send, CanSend
<1>2. /\ Len(net'[p]) = Len(net[p]) + 1 /\ Len(net[p]) \in Nat
      /\ \A i \in 1..Len(net[p]) : net'[p][i] = net[p][i]
      /\ net'[p][Len(net[p]) + 1] = m
  BY <1>1, AppendProperties
<1> SUFFICES ASSUME NEW q \in Peers, NEW i \in 1..Len(net'[q]), net'[q][i].flag \in {1, 6, 7}
             PROVE  /\ net'[q][i].sock \in 1..sent'
                    /\ waiting'[q] # <<>> /\ net'[q][i].sock = waiting'[q][1]
                         => net'[q][i].flag = waiting'[q][2]
  BY DEF AsksMatch
<1>3. CASE q # p
  <2>1. net'[q] = net[q] /\ waiting'[q] = waiting[q]
    BY <1>1, <1>3
  <2>2. /\ net[q][i].sock \in 1..sent
        /\ waiting[q] # <<>> /\ net[q][i].sock = waiting[q][1] => net[q][i].flag = waiting[q][2]
    BY <2>1 DEF AsksMatch
  <2>3. net[q][i].sock \in 1..sent'
    BY <1>1, <2>2
  <2> QED
    BY <2>1, <2>2, <2>3
<1>4. CASE q = p /\ i # Len(net[p]) + 1
  <2>1. i \in 1..Len(net[p]) /\ net'[p][i] = net[p][i]
    BY <1>2, <1>4
  <2>2. net[p][i].sock \in 1..sent
    BY <1>4, <2>1 DEF AsksMatch
  <2>3. net[p][i].sock \in 1..sent' /\ net[p][i].sock # sent + 1
    BY <1>1, <2>2
  <2>4. waiting'[p] # <<>> => waiting'[p][1] = sent + 1
    OBVIOUS
  <2> QED
    BY <1>4, <2>1, <2>3, <2>4
<1>5. CASE q = p /\ i = Len(net[p]) + 1
  <2>1. net'[q][i] = m
    BY <1>2, <1>5
  <2>2. m.flag \in {1, 6, 7}
    BY <2>1
  <2>3. m.sock = sent + 1 /\ waiting'[p] = <<sent + 1, m.flag>>
    BY <2>2
  <2>4. sent + 1 \in 1..sent'
    BY <1>1
  <2> QED
    BY <1>5, <2>1, <2>3, <2>4
<1> QED
  BY <1>3, <1>4, <1>5

LEMMA AsksMatchStep ==
  ASSUME TypeOK, AsksMatch, [Next]_vars
  PROVE  AsksMatch'
\* A client that stops waiting, and what is taken from its datagrams.
<1>1. ASSUME sent' = sent,
             \A q \in Peers : waiting'[q] \in {<<>>, waiting[q]},
             \A q \in Peers :
               net'[q] = net[q] \/ (net[q] # <<>> /\ net'[q] = Tail(net[q]))
      PROVE  AsksMatch'
  <2> SUFFICES ASSUME NEW q \in Peers, NEW i \in 1..Len(net'[q]), net'[q][i].flag \in {1, 6, 7}
               PROVE  /\ net'[q][i].sock \in 1..sent
                      /\ waiting[q] # <<>> /\ net'[q][i].sock = waiting[q][1]
                           => net'[q][i].flag = waiting[q][2]
    BY <1>1 DEF AsksMatch
  <2>1. net[q] \in Seq(Datagrams(q))
    BY DEF TypeOK
  <2>2. \E j \in 1..Len(net[q]) : net'[q][i] = net[q][j]
    <3>1. CASE net'[q] = net[q]
      BY <3>1
    <3>2. CASE net[q] # <<>> /\ net'[q] = Tail(net[q])
      BY <2>1, <3>2, TailShifts
    <3> QED
      BY <1>1, <3>1, <3>2
  <2> QED
    BY <2>2 DEF AsksMatch
<1>2. ASSUME NEW p \in Peers, ClientStep(p)
      PROVE  AsksMatch'
  <2>1. ASSUME NEW f \in Files, NEW n \in 0..Chunks[f], UploadFile(p, f, n)
        PROVE  AsksMatch'
    <3>1. Upload(p, f, n) \in Datagrams(p) /\ Upload(p, f, n).flag = 4
      <4>1. Upload(p, f, n) \in Datagrams(p)
        BY DEF Datagrams
      <4>2. Upload(p, f, n).flag = 4
        BY DEF Upload
      <4> QED
        BY <4>1, <4>2
    <3>2. CanSend(p) /\ Send(p, Upload(p, f, n)) /\ waiting' = waiting /\ waiting[p] = <<>>
      BY <2>1 DEF UploadFile, CanSend
    <3> QED
      BY <3>1, <3>2, AsksMatchSend
  <2>2. ASSUME NEW f \in Files, NEW c \in 1..Chunks[f], InformDownloaded(p, f, c)
        PROVE  AsksMatch'
    <3>1. Inform(p, f, c) \in Datagrams(p) /\ Inform(p, f, c).flag = 3
      BY DEF Datagrams, Inform
    <3>2. CanSend(p) /\ Send(p, Inform(p, f, c)) /\ waiting' = waiting /\ waiting[p] = <<>>
      BY <2>2 DEF InformDownloaded, CanSend
    <3> QED
      BY <3>1, <3>2, AsksMatchSend
  <2>3. CASE Quit(p)
    <3>1. Exit(p) \in Datagrams(p) /\ Exit(p).flag = 5
      BY DEF Datagrams, Exit
    <3>2. CanSend(p) /\ Send(p, Exit(p)) /\ waiting' = waiting /\ waiting[p] = <<>>
      BY <2>3 DEF Quit, CanSend
    <3> QED
      BY <3>1, <3>2, AsksMatchSend
  <2>4. ASSUME NEW flag \in {1, 6, 7}, NEW f \in Files, AskTracker(p, flag, f)
        PROVE  AsksMatch'
    <3>1. sent + 1 \in 1..MaxSent
      BY <2>4, FilesAssumption DEF AskTracker, CanSend, TypeOK
    <3>2. Ask(flag, f, sent + 1) \in Datagrams(p)
      BY <3>1 DEF Datagrams
    <3>3. Ask(flag, f, sent + 1).flag = flag /\ Ask(flag, f, sent + 1).sock = sent + 1
      BY DEF Ask
    <3>4. /\ CanSend(p) /\ Send(p, Ask(flag, f, sent + 1))
          /\ waiting'[p] = <<sent + 1, flag>> /\ \A q \in Peers \ {p} : waiting'[q] = waiting[q]
      BY <2>4 DEF AskTracker, TypeOK
    <3> QED
      BY <3>2, <3>3, <3>4, AsksMatchSend
  <2>5. CASE GiveUp(p) \/ Die(p) \/ Start(p)
    <3>1. /\ UNCHANGED <<net, sent>>
          /\ \A q \in Peers : waiting'[q] \in {<<>>, waiting[q]}
      BY <2>5 DEF GiveUp, Die, Start, TypeOK
    <3> QED
      BY <1>1, <3>1, Zenon
  <2> QED
    BY <1>2, <2>1, <2>2, <2>3, <2>4, <2>5 DEF ClientStep
<1>3. ASSUME NEW p \in Peers, TrackerStep(p) \/ Drop(p)
      PROVE  AsksMatch'
  <2>1. /\ net[p] # <<>> /\ net'[p] = Tail(net[p]) /\ sent' = sent
        /\ \A q \in Peers \ {p} : net'[q] = net[q]
        /\ \A q \in Peers : waiting'[q] \in {<<>>, waiting[q]}
    BY <1>3, TrackerTakes
  <2>2. \A q \in Peers : net'[q] = net[q] \/ (net[q] # <<>> /\ net'[q] = Tail(net[q]))
    BY <2>1
  <2> QED
    BY <1>1, <2>1, <2>2
<1>4. CASE Restart \/ UNCHANGED vars
  <2>1. net' = net /\ waiting' = waiting /\ sent' = sent
    BY <1>4, Zenon DEF Restart, vars
  <2> QED
    BY <1>1, <2>1
<1> QED
  BY <1>2, <1>3, <1>4 DEF Next

\* The request is awaited where it stands: taken from the front it is answered, and any
\* other datagram taken leaves it one place nearer.
LEMMA CloserStep ==
  ASSUME TypeOK, AsksMatch, [Next]_vars, NEW p \in Peers
  PROVE  GetsCloser(p)
<1> SUFFICES ASSUME Underway(p), alive', waiting'[p] = waiting[p]
             PROVE  /\ Underway(p)' /\ Len(net'[p]) <= Len(net[p])
                    /\ TrackerStep(p) => Len(net'[p]) < Len(net[p])
  BY DEF GetsCloser
<1>0. alive /\ waiting[p] # <<>> /\ net[p] \in Seq(Datagrams(p)) /\ Len(net[p]) \in Nat
  BY DEF Underway, TypeOK
<1>1. PICK i \in 1..Len(net[p]) :
        net[p][i].flag \in {1, 6, 7} /\ net[p][i].sock = waiting[p][1]
  BY DEF Underway
<1>2. CASE net'[p] = net[p] /\ ~TrackerStep(p)
  BY <1>0, <1>1, <1>2 DEF Underway
<1>3. CASE TrackerStep(p)
  <2>1. net[p] # <<>> /\ net'[p] = Tail(net[p])
    BY <1>3, TrackerTakes
  <2>2. /\ Len(net'[p]) = Len(net[p]) - 1 /\ Len(net[p]) \in Nat \ {0} /\ Head(net[p]) = net[p][1]
        /\ \A j \in 1..Len(net'[p]) : net'[p][j] = net[p][j + 1]
    BY <1>0, <2>1, TailShifts
  <2>3. i # 1
    <3>1. SUFFICES ASSUME i = 1 PROVE FALSE
      OBVIOUS
    <3>2. /\ Head(net[p]).flag \in {1, 6, 7}
          /\ waiting[p][1] = Head(net[p]).sock /\ waiting[p][2] = Head(net[p]).flag
      BY <1>0, <1>1, <2>2, <3>1 DEF AsksMatch
    <3>3. waiting[p] = <<Head(net[p]).sock, Head(net[p]).flag>>
      BY <1>0, <3>2 DEF TypeOK
    <3>4. ~Add(p) /\ ~DeleteIP(p) /\ ~Abort(p)
      <4>1. Head(net[p]).flag \notin {3, 4} /\ Head(net[p]).flag # 5
        BY <3>2
      <4> QED
        BY <4>1, Zenon DEF Add, DeleteIP, Abort, MayAbort
    <3>5. waiting'[p] = <<>>
      BY <1>3, <3>3, <3>2, <3>4 DEF TrackerStep, Answer, Replies, TypeOK
    <3> QED
      BY <1>0, <3>5
  <2>4. i - 1 \in 1..Len(net'[p]) /\ net'[p][i - 1] = net[p][i]
    <3>1. i \in 1..Len(net[p]) /\ i - 1 \in 1..Len(net'[p])
      BY <1>1, <2>2, <2>3
    <3>2. net'[p][i - 1] = net[p][(i - 1) + 1]
      BY <2>2, <3>1
    <3> QED
      BY <3>1, <3>2
  <2>5. \E j \in 1..Len(net'[p]) :
          net'[p][j].flag \in {1, 6, 7} /\ net'[p][j].sock = waiting'[p][1]
    BY <1>1, <2>4
  <2>6. Underway(p)'
    BY <1>0, <2>5, Zenon DEF Underway
  <2> QED
    BY <2>2, <2>6
<1>4. CASE ~TrackerStep(p)
  <2>1. ASSUME NEW q \in Peers, TrackerStep(q) \/ Drop(q)
        PROVE  net'[p] = net[p]
    <3>1. q # p
      BY <1>0, <1>4, <2>1 DEF Drop
    <3> QED
      BY <2>1, <3>1, TrackerTakes
  <2>2. ASSUME NEW q \in Peers, ClientStep(q)
        PROVE  net'[p] = net[p]
    <3>1. CanSend(q) => q # p
      BY <1>0 DEF CanSend
    <3>2. \/ CanSend(q) /\ \E m : Send(q, m)
          \/ net' = net
      BY <2>2 DEF ClientStep, UploadFile, InformDownloaded, Quit, AskTracker, GiveUp, Die, Start
    <3>3. DOMAIN net = Peers
      BY DEF TypeOK
    <3> QED
      BY <3>1, <3>2, <3>3 DEF Send
  <2>3. ASSUME Restart \/ UNCHANGED vars
        PROVE  net'[p] = net[p]
    BY <2>3 DEF Restart, vars
  <2> QED
    BY <1>2, <1>4, <2>1, <2>2, <2>3 DEF Next
<1> QED
  BY <1>3, <1>4

\* A client waits with one request at a time and sends nothing meanwhile (each request
\* of p2p_client.cpp opens a socket of its own); the tracker answers every request that
\* it takes.  So while it runs a request under way is neither lost nor overtaken, and
\* every datagram read from its client brings the answer nearer.
THEOREM RequestsGetCloser == Spec => [][\A p \in Peers : GetsCloser(p)]_vars
<1>1. Init => AsksMatch
  BY DEF Init, AsksMatch
<1>2. TypeOK /\ AsksMatch /\ [Next]_vars => AsksMatch'
  BY AsksMatchStep
<1>3. TypeOK /\ AsksMatch /\ [Next]_vars => [\A p \in Peers : GetsCloser(p)]_vars
  BY CloserStep
<1> QED
  BY <1>1, <1>2, <1>3, TypeCorrect, PTL DEF Spec
=============================================================================
