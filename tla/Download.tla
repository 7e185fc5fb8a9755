------------------------------ MODULE Download ------------------------------
(***************************************************************************)
(* p2p_client::download_file and its helpers: one client asks the tracker  *)
(* for the entries of a file and goes through them in random order, one    *)
(* chunk and one connection at a time, while the peers it draws go up and  *)
(* down.  peer_list is a global that a download finds as the last one left *)
(* it.  The local storage is that of ChunkStore, one call at a time.       *)
(***************************************************************************)
EXTENDS Integers, FiniteSets

CONSTANTS
  Files,         \* file names
  Chunks,        \* Chunks[f]: number of chunks of file f
  Sources,       \* the other peers
  Announced,     \* Announced[s][f]: how many chunks s uploaded to the tracker
  Has,           \* Has[s][f]: the chunks its storage really holds
  MaxDownloads   \* bound: downloads started

ASSUME DownloadAssumption ==
  /\ Chunks \in [Files -> Nat \ {0}]
  /\ Announced \in [Sources -> [Files -> 0..255]]  \* a chunk number is a uint8_t
  /\ Has \in [Sources -> [Files -> SUBSET Nat]]
  /\ \A s \in Sources : \A f \in Files : Has[s][f] \subseteq 1..Chunks[f]
  /\ IsFiniteSet(Sources)
  /\ MaxDownloads \in Nat

VARIABLES
  phase,      \* where download_file stands; "menu" when it is not called
  file,       \* its file name
  sent,       \* sent_pkt_count
  armed,      \* is the socket still in read_fd_connect_socket?
  peer_list,  \* entries not drawn yet, those of earlier downloads included
  slots,      \* size of check_downloaded_chunks
  done,       \* the chunks it marks as downloaded
  entry,      \* the entry of the connection
  outcome,    \* what the last download printed
  held,       \* held[f]: what the local storage has under the name f
  final,      \* final[f]: number of the last final record in the part file, or 0
  complete,   \* the files whose download the storage has completed
  up,         \* the sources that accept connections
  downloads,  \* number of downloads started
  fresh,      \* history: was peer_list empty when this download started?
  healthy     \* history: has nothing failed in this download, the part file it found sound?

client == <<phase, file, sent, armed, peer_list, slots, done, entry, outcome>>
storage == <<held, final, complete>>
history == <<downloads, fresh, healthy>>
vars == <<client, storage, up, history>>

\* The tracker's reply when the sources S are listed: every upload announced the
\* chunks from 1 on.  A map key (index) never repeats: round keeps that.
Listing(f, S, round) ==
  UNION {{[file |-> f, chunk |-> c, src |-> s, round |-> round] :
            c \in 1..Announced[s][f]} : s \in S}

-----------------------------------------------------------------------------
(* What recv returns of an answer, and what the part file then holds of    *)
(* it: a record with the number and the final mark of the chunk's header,  *)
(* whole or cut short behind the header.                                   *)

Record(f, n, w) == [of |-> f, no |-> n, last |-> n = Chunks[f], whole |-> w]
Whole(f, n) == Record(f, n, TRUE)
Own(f) == {Whole(f, n) : n \in 1..Chunks[f]}
Cut(f) == {Record(f, n, FALSE) : n \in 1..Chunks[f]}
Records == UNION {Own(f) \cup Cut(f) : f \in Files}

\* recvbuf is zeroed before each recv: a chunk of number 0, not final.
Zeros == [of |-> "none", no |-> 0, last |-> FALSE, whole |-> FALSE]

Numbers(R) == {r.no : r \in R}

\* What follows a chunk cut short is read at the wrong place.
Garbled(f) == \E r \in held[f] : ~r.whole

\* Nothing but chunks of the file was saved under its name, and when it had them all
\* that was noticed.
Clean(f) == held[f] \subseteq Own(f)
Sound(f) == Clean(f) /\ (held[f] = Own(f) => f \in complete)

-----------------------------------------------------------------------------
(* The request to the tracker.                                             *)

\* Seeded fault: the vector gets one element per entry.
SlotsOffByOne(pl) == Cardinality(pl)
Slots(pl) == Cardinality(pl) + 1

StartDownload(f) ==
  /\ phase = "menu" /\ downloads < MaxDownloads
  /\ phase' = "ask" /\ file' = f /\ sent' = 0 /\ armed' = TRUE
  /\ outcome' = "none"
  /\ downloads' = downloads + 1
  /\ fresh' = (peer_list = {}) /\ healthy' = Sound(f)
  /\ UNCHANGED <<peer_list, slots, done, entry, storage, up>>

SendRequest ==
  /\ phase = "ask" /\ sent # 3
  /\ sent' = sent + 1 /\ phase' = "select"
  /\ UNCHANGED <<file, armed, peer_list, slots, done, entry, outcome,
                 storage, up, history>>

\* parse_peer_list adds the entries to what peer_list holds.
ReplyArrives(S) ==
  /\ phase = "select" /\ armed
  /\ LET new == Listing(file, S, downloads)
     IN  /\ peer_list' = peer_list \cup new
         /\ healthy' = (healthy /\ \A c \in 1..Chunks[file] : \E e \in new : e.chunk = c)
  /\ slots' = Slots(peer_list') /\ done' = {}
  /\ phase' = "loop"
  /\ UNCHANGED <<file, sent, armed, entry, outcome, storage, up,
                 downloads, fresh>>

\* select takes the socket out of the set when it times out ...
Timeout ==
  /\ phase = "select" /\ armed
  /\ armed' = FALSE /\ phase' = "ask"
  /\ UNCHANGED <<file, sent, peer_list, slots, done, entry, outcome,
                 storage, up, history>>

\* ... and fails the next time, on an empty set.
SelectFails ==
  /\ phase = "select" /\ ~armed
  /\ phase' = "menu" /\ outcome' = "no reply"
  /\ UNCHANGED <<file, sent, armed, peer_list, slots, done, entry,
                 storage, up, history>>

\* The tracker's host refuses the datagram: recvfrom returns an error.
RecvfromFails ==
  /\ phase = "select" /\ armed
  /\ phase' = "menu" /\ outcome' = "no reply"
  /\ UNCHANGED <<file, sent, armed, peer_list, slots, done, entry,
                 storage, up, history>>

-----------------------------------------------------------------------------
(* The loop over the entries.                                              *)

\* check_downloaded_chunks[c]: beyond its end any value, or the end of the process.
InRange(c) == c < slots
MayBeDone(c) == InRange(c) => c \in done
MayBeMissing(c) == InRange(c) => c \notin done

\* Seeded fault: the entry drawn is not erased.
UndrawnKept(e) == peer_list
Undrawn(e) == peer_list \ {e}

\* choose_random_server draws e and erases it.
Draw(e) == phase = "loop" /\ e \in peer_list /\ peer_list' = Undrawn(e)

Skip(e) ==
  /\ Draw(e) /\ MayBeDone(e.chunk)
  /\ UNCHANGED <<phase, file, sent, armed, slots, done, entry, outcome,
                 storage, up, history>>

ConnectFails(e) ==
  /\ Draw(e) /\ MayBeMissing(e.chunk) /\ e.src \notin up
  /\ healthy' = FALSE
  /\ UNCHANGED <<phase, file, sent, armed, slots, done, entry, outcome,
                 storage, up, downloads, fresh>>

Connect(e) ==
  /\ Draw(e) /\ MayBeMissing(e.chunk) /\ e.src \in up
  /\ entry' = e /\ phase' = "recv"
  /\ UNCHANGED <<file, sent, armed, slots, done, outcome, storage, up,
                 history>>

\* The process ends; peer_list goes with it.
OutOfRange(e) ==
  /\ phase = "loop" /\ e \in peer_list /\ ~InRange(e.chunk)
  /\ phase' = "menu" /\ peer_list' = {} /\ outcome' = "aborted"
  /\ UNCHANGED <<file, sent, armed, slots, done, entry, storage, up, history>>

-----------------------------------------------------------------------------
(* Receiving and saving.                                                   *)

\* Seeded fault: the file is completed as soon as its last chunk is saved.
CompletesEarly(n, numbers) == n \in numbers

\* Seeded fault: completion is never noticed.
CompletesNever(n, numbers) == FALSE

Completes(n, numbers) == 1..n \subseteq numbers

\* The number that counts as the last one: that of the last record in the part file
\* marked as final, or else that of the record being saved, if it is marked.
Checked(f, first) ==
  IF final[f] # 0 THEN final[f] ELSE IF first.last THEN first.no ELSE 0

\* All that was received is appended, behind a header checked for the first only.
Append(f, first, got) ==
  LET marked == Numbers({r \in got \ {first} : r.last})
  IN  /\ held' = [held EXCEPT ![f] = @ \cup got]
      /\ \E n \in IF marked # {} THEN marked
                  ELSE IF first.last THEN {first.no} ELSE {final[f]} :
           final' = [final EXCEPT ![f] = n]

\* saveChunk of a buffer that starts with first, of which got was received: refused
\* once the file is complete, or when the number of first is held.  A garbled file may
\* be found complete or not; what else it takes in no longer matters.
Save(f, first, got) ==
  \/ (f \in complete \/ first.no \in Numbers(held[f]) \/ Garbled(f)) /\ UNCHANGED storage
  \/ /\ f \notin complete /\ Garbled(f)
     /\ complete' = complete \cup {f} /\ UNCHANGED <<held, final>>
  \/ /\ f \notin complete /\ first.no \notin Numbers(held[f]) /\ ~Garbled(f)
     /\ Append(f, first, got)
     /\ complete' = IF Checked(f, first) # 0 /\ Completes(Checked(f, first), Numbers(held'[f]))
                    THEN complete \cup {f} ELSE complete

\* Seeded fault: the zeroed buffer is saved as a chunk of number 0.
UnansweredZero == {Zeros}
Unanswered == {}

\* Whatever recv and saveChunk returned, the chunk is marked as downloaded.
Marked == done' = done \cup {entry.chunk} /\ phase' = "inform"

\* What one recv returns: an answer, or two sent one after the other (next = first when
\* there is one), of which the last may be cut short.  The server sends an answer on
\* the connection accepted last: to any request of any client, for any file.
Arrives(first, next) ==
  /\ phase = "recv" /\ entry.src \in up
  /\ {first, next} \subseteq Records
  /\ \A r \in {first, next} : r.no \in Has[entry.src][r.of] /\ r.no <= 255
  /\ next # first => first.whole

ReceiveChunk ==
  /\ phase = "recv"
  /\ LET asked == Whole(file, entry.chunk)
     IN  Arrives(asked, asked) /\ Save(file, asked, {asked})
  /\ Marked
  /\ UNCHANGED <<file, sent, armed, peer_list, slots, entry, outcome, up, history>>

\* Anything else is saved under the name asked for all the same.
ReceiveOther(first, next) ==
  /\ Arrives(first, next) /\ {first, next} # {Whole(file, entry.chunk)}
  /\ Save(file, first, {first, next}) /\ Marked
  /\ healthy' = FALSE
  /\ UNCHANGED <<file, sent, armed, peer_list, slots, entry, outcome, up, downloads, fresh>>

\* The connection ends without an answer: recv returns 0 or -1.
ReceiveNothing ==
  /\ phase = "recv"
  /\ Save(file, Zeros, Unanswered) /\ Marked
  /\ healthy' = FALSE
  /\ UNCHANGED <<file, sent, armed, peer_list, slots, entry, outcome, up,
                 downloads, fresh>>

\* chunkFlags has an element for every number up to the last one, and is written for
\* every number in the part file; a size read at the wrong place overruns the buffer
\* for the contents.  If that ends the process, the part file stays, and so may what
\* was written under the final name.
SaveCrashes(first, next) ==
  /\ phase = "recv" /\ file \notin complete
  /\ Arrives(first, next) \/ {first, next} = {Zeros}
  /\ LET got == {first, next} \ {Zeros}
     IN  \/ Garbled(file) /\ Save(file, first, got)
         \/ /\ ~Garbled(file) /\ first.no \notin Numbers(held[file])
            /\ Checked(file, first) # 0
            /\ \E n \in Numbers(held[file] \cup got) : n > Checked(file, first)
            /\ Append(file, first, got) /\ UNCHANGED complete
  /\ phase' = "menu" /\ peer_list' = {} /\ outcome' = "aborted"
  /\ healthy' = FALSE
  /\ UNCHANGED <<file, sent, armed, slots, done, entry, up, downloads, fresh>>

\* The tracker is told of entry.chunk, received or not.
Inform ==
  /\ phase = "inform"
  /\ IF file \in complete
     THEN phase' = "menu" /\ outcome' = "complete"
     ELSE phase' = "loop" /\ UNCHANGED outcome
  /\ UNCHANGED <<file, sent, armed, peer_list, slots, done, entry, storage, up, history>>

NoEntryLeft ==
  /\ phase = "loop" /\ peer_list = {}
  /\ phase' = "menu" /\ outcome' = "incomplete"
  /\ UNCHANGED <<file, sent, armed, peer_list, slots, done, entry,
                 storage, up, history>>

-----------------------------------------------------------------------------
(* The sources come and go.                                                *)

GoDown(s) == s \in up /\ up' = up \ {s} /\ UNCHANGED <<client, storage, history>>
ComeUp(s) == s \notin up /\ up' = up \cup {s} /\ UNCHANGED <<client, storage, history>>

-----------------------------------------------------------------------------
NoEntry == [file |-> "", chunk |-> 0, src |-> "", round |-> 0]

\* An earlier session may have left chunks of a file, but not all of them.
Init ==
  /\ phase = "menu" /\ file \in Files /\ sent = 0 /\ armed = TRUE
  /\ peer_list = {} /\ slots = 0 /\ done = {} /\ entry = NoEntry /\ outcome = "none"
  /\ held \in [Files -> SUBSET UNION {Own(f) : f \in Files}]
  /\ \A f \in Files : Clean(f) /\ held[f] # Own(f)
  /\ final = [f \in Files |-> IF Chunks[f] \in Numbers(held[f]) THEN Chunks[f] ELSE 0]
  /\ complete = {}
  /\ up = Sources
  /\ downloads = 0 /\ fresh = TRUE /\ healthy = TRUE

\* What download_file does without waiting for a peer.
OwnStep ==
  \/ SendRequest
  \/ \E S \in SUBSET Sources : ReplyArrives(S)
  \/ Timeout
  \/ SelectFails
  \/ RecvfromFails
  \/ \E e \in peer_list : Skip(e) \/ ConnectFails(e) \/ Connect(e) \/ OutOfRange(e)
  \/ Inform
  \/ NoEntryLeft

\* recv returns.
Receive ==
  \/ ReceiveChunk
  \/ \E first, next \in Records : ReceiveOther(first, next)
  \/ ReceiveNothing
  \/ \E first, next \in Records \cup {Zeros} : SaveCrashes(first, next)

ClientStep == OwnStep \/ Receive

Next ==
  \/ \E f \in Files : StartDownload(f)
  \/ ClientStep
  \/ \E s \in Sources : GoDown(s) \/ ComeUp(s)

Spec == Init /\ [][Next]_vars

\* Once called, download_file goes on.  recv has no timeout: nothing says it returns.
FairSpec == Spec /\ WF_vars(OwnStep)

\* With peers that answer or close: Exchange shows which peers do.
AnsweredSpec == FairSpec /\ WF_vars(Receive)

-----------------------------------------------------------------------------
(* Properties.                                                             *)

\* Each variable has its type.
TypeOK ==
  /\ phase \in {"menu", "ask", "select", "loop", "recv", "inform"}
  /\ file \in Files /\ sent \in 0..3 /\ armed \in BOOLEAN
  /\ \A e \in peer_list :
       e.file \in Files /\ e.src \in Sources /\ e.round \in 1..MaxDownloads
  /\ slots \in Nat
  /\ outcome \in {"none", "no reply", "aborted", "complete", "incomplete"}
  /\ \A f \in Files : held[f] \subseteq Records /\ final[f] \in Nat
  /\ complete \subseteq Files /\ up \subseteq Sources

\* A download that started with an empty peer_list indexes check_downloaded_chunks
\* within its size, although that is a number of entries and not of chunks.
IndexInRange ==
  fresh /\ phase = "loop" => \A e \in peer_list : InRange(e.chunk)

\* If the reply lists every chunk and nothing fails, the download ends with the
\* file complete, whatever the order in which the entries are drawn, whichever of its
\* chunks an earlier one left.
HealthyDownloadCompletes ==
  outcome = "incomplete" /\ fresh => ~healthy

\* A file reported complete has every chunk up to one that is marked as final (its
\* own last one, unless another file's was saved under its name), except if recv
\* once returned a part of a chunk.
CompleteIsWhole ==
  outcome = "complete" /\ ~Garbled(file) =>
    \E r \in held[file] : r.last /\ 1..r.no \subseteq Numbers(held[file])

\* Every download comes back to the menu, or stays in one recv for ever.
DownloadsEnd == []<>(phase = "menu") \/ <>[](phase = "recv")
=============================================================================
