------------------------------ MODULE Storage ------------------------------
(***************************************************************************)
(* core/storage.cpp for one file name: chunks received from peers are      *)
(* appended to <name>.p2pdownloading (part); when the check finds every    *)
(* number up to the final one they are written in place into <name>        *)
(* (full), and part is deleted.  The client's thread saves, the threads of *)
(* the server read; myMutex is held for the length of every call, so the   *)
(* steps of a save are visible to a crash but not to a reader.             *)
(*                                                                         *)
(* A file is NoFile or a sequence: of the records appended, for part; of   *)
(* 2048-byte cells, for full.  A record is "short" when fewer bytes were   *)
(* written than its header announces: what follows it is misread.          *)
(***************************************************************************)
EXTENDS Integers, Sequences

CONSTANTS
  LastChunk,  \* number of chunks of the file
  Readers,    \* threads that call getChunk (one per connection of the server)
  NotFound,   \* the return -1 of getChunk
  NoFile      \* a path at which doesFileExist is false

VARIABLES
  part,    \* <name>.p2pdownloading
  full,    \* <name>
  pc,      \* where the call of saveChunk stands; "idle" when there is none
  cur,     \* the chunk it was given
  final,   \* its finalChunkNumber
  k,       \* next record of part to write in place
  acked,   \* history: numbers of the chunks for which saveChunk returned 1
  answer   \* answer[r]: the result of reader r's last getChunk

vars == <<part, full, pc, cur, final, k, acked, answer>>
disk == <<part, full>>

ASSUME LastChunkAssumption == LastChunk \in Nat \ {0}

Numbers == 1..LastChunk
Asked == 0..(LastChunk + 1)

Record == [no : Numbers, flag : {"final", "more"}, body : {"whole", "short"}]
Cell == {"whole", "junk", "hole"}

ASSUME NoFileAssumption == NoFile \notin Seq(Record) \cup Seq(Cell)
ASSUME NotFoundAssumption ==
  NotFound \notin [no : Numbers, flag : {"final", "more"}, body : Cell]

-----------------------------------------------------------------------------
(* The chunks given to saveChunk.  Nothing at all, for a connection closed *)
(* without an answer: number and flag are then read from a zeroed buffer.  *)

\* The final flag of the chunk numbered n of a file of that many chunks.
Flag(n, chunks) == IF n = chunks THEN "final" ELSE "more"

Genuine(n)   == [no |-> n, flag |-> Flag(n, LastChunk), body |-> "whole"]
Truncated(n) == [Genuine(n) EXCEPT !.body = "short"]
Nothing      == [no |-> 0, flag |-> "more", body |-> "none"]

Received == {Genuine(n) : n \in Numbers} \cup {Nothing}

-----------------------------------------------------------------------------
(* What the loops over part read.                                          *)

\* After a short record the stream is out of step with the records: from
\* there on lengths are arbitrary bytes and the behaviour is undefined.
Garbled(s) == \E i \in 1..(Len(s) - 1) : s[i].body = "short"
Defined == part # NoFile => ~Garbled(part)

Holds(s, n) == \E i \in 1..Len(s) : s[i].no = n

\* Seeded faults of FinalNumber: the new chunk's number is taken for the final
\* one; the final record found by the scan is not taken over.
FinalNumberOfNew(s, c) == IF \E i \in 1..Len(s) : s[i].flag = "final" THEN c.no ELSE -1
FinalNumberNoScan(s, c) == IF c.flag = "final" THEN c.no ELSE -1

\* The last final record of the file decides, else the flag of the new chunk.
FinalNumber(s, c) ==
  LET finals == {i \in 1..Len(s) : s[i].flag = "final"}
  IN  IF finals # {}
      THEN s[CHOOSE i \in finals : \A j \in finals : j <= i].no
      ELSE IF c.flag = "final" THEN c.no ELSE -1

\* Seeded fault: the loop over the numbers begins one late.
CompletedOffByOne(s, last) == \A n \in 2..last : Holds(s, n)

Completed(s, last) == \A n \in 1..last : Holds(s, n)

\* Seeded fault: a record is appended for an empty answer too.
AppendedAlways(s, c) == Append(s, c)

Appended(s, c) == IF c.body = "none" THEN s ELSE Append(s, c)

\* seekp and write: what lies between the end of the file and n reads as zeros.
WriteAt(f, n, cell) ==
  [i \in 1..(IF n > Len(f) THEN n ELSE Len(f)) |->
     IF i = n THEN cell ELSE IF i <= Len(f) THEN f[i] ELSE "hole"]

Content(c) == IF c.body = "short" THEN "junk" ELSE "whole"

-----------------------------------------------------------------------------
(* Queries.                                                                *)

\* Seeded fault: the flag is taken before the peek at what follows the chunk.
FetchFullNoPeek(n) ==
  IF n <= Len(full)
  THEN [no |-> n, flag |-> "more", body |-> full[n]]
  ELSE NotFound

\* getChunk: the complete file is looked at first.
FetchFull(n) ==
  IF n <= Len(full)
  THEN [no |-> n, flag |-> Flag(n, Len(full)), body |-> full[n]]
  ELSE NotFound

FetchPart(n) ==
  IF Holds(part, n)
  THEN LET i == CHOOSE i \in 1..Len(part) : part[i].no = n
       IN  [no |-> n, flag |-> part[i].flag, body |-> Content(part[i])]
  ELSE NotFound

Fetch(n) ==
  CASE n <= 0         -> NotFound
    [] n > 0 /\ full # NoFile -> FetchFull(n)
    [] n > 0 /\ full = NoFile /\ part # NoFile -> FetchPart(n)
    [] OTHER          -> NotFound

\* getFinalChunkNumber: an empty complete file counts as one chunk.
FinalChunkNumber ==
  IF full = NoFile THEN -1 ELSE IF full = <<>> THEN 1 ELSE Len(full)

\* Seeded fault: records are counted, their numbers are not read.
ArrByPosition(max) ==
  CASE full # NoFile -> [i \in 1..Len(full) |-> i]
    [] full = NoFile /\ part # NoFile -> [i \in 1..Len(part) |-> i]
    [] OTHER -> <<-1>>

\* getArrOfChunkNumbers with a buffer of max numbers; << -1 >> is its error.
ArrOfChunkNumbers(max) ==
  CASE full # NoFile -> IF Len(full) > max THEN <<-1>>
                        ELSE [i \in 1..Len(full) |-> i]
    [] full = NoFile /\ part # NoFile ->
         IF Len(part) > max THEN <<-1>>
         ELSE [i \in 1..Len(part) |-> part[i].no]
    [] OTHER -> <<-1>>

-----------------------------------------------------------------------------
(* saveChunk, from taking the lock to its return.                          *)

Unlocked == pc = "idle"

\* Seeded fault: the ofstream of line 36 is opened whether or not part exists.
OpenedAnew == <<>>

Opened == IF part = NoFile THEN <<>> ELSE part

Refuse ==
  /\ Unlocked /\ full # NoFile
  /\ UNCHANGED vars

StartSave(c) ==
  /\ Unlocked /\ full = NoFile
  /\ part' = Opened
  /\ cur' = c /\ pc' = "scan"
  /\ UNCHANGED <<full, final, k, acked, answer>>

Duplicate ==
  /\ pc = "scan" /\ Defined /\ Holds(part, cur.no)
  /\ pc' = "idle"
  /\ UNCHANGED <<part, full, cur, final, k, acked, answer>>

\* Numbers acknowledged when saveChunk returns 1 for the chunk it was given.
Acknowledged == acked \cup (IF cur.body = "whole" THEN {cur.no} ELSE {})

AppendChunk ==
  /\ pc = "scan" /\ Defined /\ ~Holds(part, cur.no)
  /\ part' = Appended(part, cur)
  /\ final' = FinalNumber(part, cur)
  /\ IF final' = -1
     THEN pc' = "idle" /\ acked' = Acknowledged
     ELSE pc' = "check" /\ UNCHANGED acked
  /\ UNCHANGED <<full, cur, k, answer>>

NotYetComplete ==
  /\ pc = "check" /\ Defined /\ ~Completed(part, final)
  /\ pc' = "idle" /\ acked' = Acknowledged
  /\ UNCHANGED <<part, full, cur, final, k, answer>>

\* sortAndUpdateFullyDownloadedFile: the complete file is created empty, ...
StartAssembly ==
  /\ pc = "check" /\ Defined /\ Completed(part, final)
  /\ full' = <<>> /\ k' = 1 /\ pc' = "assemble"
  /\ UNCHANGED <<part, cur, final, acked, answer>>

\* Seeded fault: the part is deleted with its last record still to be written.
AssembledOffByOne == k >= Len(part)

Assembled == k > Len(part)

\* ... every record is written at its place, ...
AssembleChunk ==
  /\ pc = "assemble" /\ ~Assembled
  /\ full' = WriteAt(full, part[k].no, Content(part[k]))
  /\ k' = k + 1
  /\ UNCHANGED <<part, pc, cur, final, acked, answer>>

\* ... and the part is deleted.
DeletePart ==
  /\ pc = "assemble" /\ Assembled
  /\ part' = NoFile
  /\ pc' = "idle" /\ acked' = Acknowledged
  /\ UNCHANGED <<full, cur, final, k, answer>>

-----------------------------------------------------------------------------
(* The other calls.                                                        *)

GetChunk(r, n) ==
  /\ Unlocked /\ Defined
  /\ answer' = [answer EXCEPT ![r] = Fetch(n)]
  /\ UNCHANGED <<part, full, pc, cur, final, k, acked>>

\* addFileToDownloadFolder: CopyFile replaces what has the name.
WholeFile == [i \in Numbers |-> "whole"]

AddFile ==
  /\ Unlocked
  /\ full' = WholeFile
  /\ UNCHANGED <<part, pc, cur, final, k, acked, answer>>

\* The process ends at any point; the part and the complete file stay.
Crash ==
  /\ pc' = "idle" /\ cur' = Nothing /\ final' = -1 /\ k' = 1
  /\ answer' = [r \in Readers |-> NotFound]
  /\ UNCHANGED <<part, full, acked>>

-----------------------------------------------------------------------------
Init ==
  /\ part = NoFile
  /\ full \in {NoFile, WholeFile}
  /\ pc = "idle" /\ cur = Nothing /\ final = -1 /\ k = 1
  /\ acked = {}
  /\ answer = [r \in Readers |-> NotFound]

SaveStep ==
  \/ Duplicate
  \/ AppendChunk
  \/ NotYetComplete
  \/ StartAssembly
  \/ AssembleChunk
  \/ DeletePart

Next ==
  \/ Refuse
  \/ \E c \in Received : StartSave(c)
  \/ SaveStep
  \/ AddFile
  \/ \E r \in Readers, n \in Asked : GetChunk(r, n)

Spec == Init /\ [][Next]_vars

\* The thread inside saveChunk keeps running.
FairSpec == Spec /\ WF_vars(SaveStep)

CrashSpec == Init /\ [][Next \/ Crash]_vars

\* recv may return part of a chunk.  Over a garbled part the loops are undefined
\* and no step is modelled.
ShortNext ==
  \/ Next
  \/ \E n \in Numbers : StartSave(Truncated(n))

ShortSpec == Init /\ [][ShortNext]_vars
-----------------------------------------------------------------------------
(* Properties.                                                             *)

\* Each variable has its type.
TypeOK ==
  /\ part \in Seq(Record) \cup {NoFile}
  /\ full \in Seq(Cell) \cup {NoFile}
  /\ pc \in {"idle", "scan", "check", "assemble"}
  /\ cur \in Received
  /\ final \in {-1} \cup Numbers
  /\ k \in Nat \ {0}
  /\ acked \subseteq Numbers

\* Whoever finds a file under its plain name while no save is running finds
\* the whole file (README: the extension tells a partial file from a full one).
CompletedIsWhole == Unlocked /\ full # NoFile => full = WholeFile

\* The extension tells both ways (README.adoc:125): a file under its plain name is
\* the whole file, and a .p2pdownloading without it still lacks a chunk: no file
\* waits, with every chunk in it, for a chunk to come.
ExtensionTells ==
  /\ CompletedIsWhole
  /\ Unlocked /\ part # NoFile /\ full = NoFile => \E n \in Numbers : ~Holds(part, n)

\* A chunk for which saveChunk returned 1 is served, as it was received, by
\* every later getChunk, before and after the file is completed.
AckedIsServed == Unlocked => \A n \in acked : Fetch(n) = Genuine(n)

\* chunkFlags (storage.cpp:86) has final + 1 elements and is indexed by the
\* number of every record of part: none is out of its range.
FlagsInRange ==
  pc = "check" => \A i \in 1..Len(part) : part[i].no \in 0..final

\* What a reader can get at each moment, and whether the file is complete.
complete == full # NoFile /\ pc # "assemble"
held == IF complete THEN 1..Len(full)
        ELSE IF part # NoFile THEN {part[i].no : i \in 1..Len(part)} ELSE {}

\* The numbers getArrOfChunkNumbers lists are the numbers getChunk serves, and
\* getFinalChunkNumber reports a complete file exactly when all are served from
\* it: the three calls look at the two files in their own ways.
Listed == LET arr == ArrOfChunkNumbers(LastChunk) IN {arr[i] : i \in 1..Len(arr)}
ListedIsServed ==
  Unlocked =>
    /\ part # NoFile \/ full # NoFile =>
         \A n \in Asked : n \in Listed <=> Fetch(n) # NotFound
    /\ FinalChunkNumber = IF complete THEN LastChunk ELSE -1

\* The only copy of the chunks (part) is deleted only when the complete file
\* holds all of them, whatever crash or restart came before.
DeletedOnlyWhenWhole ==
  [][part # NoFile /\ part' = NoFile => full = WholeFile]_vars

\* An acknowledged chunk is never lost to a crash: it is in the part or in the
\* complete file.
AckedOnDisk ==
  \A n \in acked :
    \/ part # NoFile /\ Holds(part, n)
    \/ full # NoFile /\ n <= Len(full) /\ full[n] = "whole"

Abstract == INSTANCE ChunkStore WITH held <- held, complete <- complete, answer <- answer

\* The storage implements the abstract store, the progress of a completion
\* included.
ImplementsStore == Abstract!FairStoreSpec

\* The same without the promise of progress.
ImplementsSafely == Abstract!StoreSpec
=============================================================================
