--------------------------- MODULE StorageProofs ---------------------------
(***************************************************************************)
(* Proofs about Storage for every number of chunks and of readers.         *)
(*                                                                         *)
(* DiskInv is inductive even when the process may end at any point: it     *)
(* says where the assembly of the complete file stands (the records before *)
(* k are in place, nothing lies beyond the last chunk) and that no         *)
(* acknowledged chunk is lost.  Without crashes the complete file is also  *)
(* whole or absent outside an assembly (IInv).                             *)
(***************************************************************************)
EXTENDS Storage, SequenceTheorems, FiniteSetTheorems, TLAPS

-----------------------------------------------------------------------------
(* The inductive invariants.                                               *)

\* Every record of the part is a chunk of the file as its sender had it.
PartIsGenuine ==
  part # NoFile =>
    \A i \in 1..Len(part) : part[i].no \in Numbers /\ part[i] = Genuine(part[i].no)

\* No number is in the part twice.
PartIsDistinct ==
  part # NoFile =>
    \A i, j \in 1..Len(part) : part[i].no = part[j].no => i = j

\* While a save is at work the part exists, and until the assembly the complete
\* file does not.
SavingFiles ==
  /\ pc # "idle" => part # NoFile
  /\ pc \in {"scan", "check"} => full = NoFile
  /\ pc = "assemble" => full # NoFile

\* The check knows the number of the final chunk.
CheckKnowsFinal == pc = "check" => final = LastChunk

\* The chunk being saved is in the part when its save is about to return 1.
CurIsAppended ==
  pc \in {"check", "assemble"} /\ cur.body = "whole" => Holds(part, cur.no)

\* During the assembly every chunk is in the part, and the records before k are
\* in place.
AssemblyProgress ==
  pc = "assemble" =>
    /\ \A n \in Numbers : Holds(part, n)
    /\ Len(full) <= LastChunk
    /\ \A j \in 1..Len(part) :
         j < k => part[j].no <= Len(full) /\ full[part[j].no] = "whole"

DiskInv ==
  /\ TypeOK
  /\ PartIsGenuine /\ PartIsDistinct
  /\ SavingFiles /\ CheckKnowsFinal /\ CurIsAppended
  /\ AssemblyProgress /\ AckedOnDisk

\* What a crash breaks: outside an assembly the complete file is whole.
WholeOrAbsent == pc # "assemble" => full = NoFile \/ full = WholeFile

\* What a crash breaks too: a part that no check is looking at, and that no
\* complete file stands beside, lacks a chunk.
PartLacks ==
  pc \in {"idle", "scan"} /\ part # NoFile /\ full = NoFile =>
    \E n \in Numbers : ~Holds(part, n)

IInv == DiskInv /\ WholeOrAbsent /\ PartLacks

-----------------------------------------------------------------------------
(* Facts about the operators.                                              *)

\* An answer with content is a record of the part.
LEMMA ReceivedIsGenuine ==
  ASSUME NEW c \in Received, c.body # "none"
  PROVE  c.no \in Numbers /\ c = Genuine(c.no) /\ c \in Record
BY LastChunkAssumption DEF Received, Genuine, Flag, Nothing, Record, Numbers

\* Only the last chunk carries the final flag.
LEMMA FinalFlag ==
  ASSUME NEW c \in Received, c.flag = "final"
  PROVE  c.no = LastChunk
<1>1. CASE c = Nothing
  BY <1>1 DEF Nothing
<1>2. CASE c # Nothing
  <2>1. PICK n \in Numbers : c = Genuine(n)
    BY <1>2 DEF Received
  <2>2. c.no = n /\ c.flag = Flag(n, LastChunk)
    BY <2>1 DEF Genuine
  <2> QED
    BY <2>2 DEF Flag
<1> QED
  BY <1>1, <1>2

\* Writing a cell keeps what lies before and behind it, and leaves no gap when
\* nothing was missing.
LEMMA WriteAtFacts ==
  ASSUME NEW f \in Seq(Cell), NEW n \in Nat \ {0}, NEW cell \in Cell
  PROVE  /\ WriteAt(f, n, cell) \in Seq(Cell)
         /\ Len(WriteAt(f, n, cell)) = IF n > Len(f) THEN n ELSE Len(f)
         /\ WriteAt(f, n, cell)[n] = cell
         /\ \A i \in 1..Len(f) : i # n => WriteAt(f, n, cell)[i] = f[i]
<1> DEFINE len == IF n > Len(f) THEN n ELSE Len(f)
<1>1. len \in Nat /\ n \in 1..len /\ Len(f) <= len
  OBVIOUS
<1>2. \A i \in 1..Len(f) : f[i] \in Cell
  OBVIOUS
<1>3. WriteAt(f, n, cell) \in [1..len -> Cell]
  BY <1>1, <1>2 DEF WriteAt, Cell
<1> QED
  BY <1>1, <1>3 DEF WriteAt

\* Of genuine records those of the last chunk, and only those, are final.
LEMMA FinalFlags ==
  ASSUME NEW n \in Numbers, NEW c, c = Genuine(n)
  PROVE  /\ c.no = n
         /\ c.flag = "final" <=> n = LastChunk
BY DEF Genuine, Flag

\* Among genuine records only that of the last chunk is final, so what the scan
\* finds is its number or nothing.
LEMMA FinalIsLast ==
  ASSUME NEW s \in Seq(Record), NEW c \in Received,
         \A i \in 1..Len(s) : s[i] = Genuine(s[i].no),
         \A i, j \in 1..Len(s) : s[i].no = s[j].no => i = j
  PROVE  FinalNumber(s, c) \in {-1, LastChunk}
<1> DEFINE finals == {i \in 1..Len(s) : s[i].flag = "final"}
<1>1. \A i \in finals : s[i].no = LastChunk
  <2> TAKE i \in finals
  <2>1. s[i].flag = Genuine(s[i].no).flag
    OBVIOUS
  <2>2. Genuine(s[i].no).flag = Flag(s[i].no, LastChunk)
    BY DEF Genuine
  <2> QED
    BY <2>1, <2>2 DEF Flag
<1>2. CASE finals = {}
  <2>1. c.flag = "final" => c.no = LastChunk
    BY FinalFlag
  <2> QED
    BY <1>2, <2>1 DEF FinalNumber
<1>3. CASE finals # {}
  <2>1. \A i, j \in finals : i = j
    BY <1>1
  <2>2. \E i \in finals : \A j \in finals : j <= i
    BY <1>3, <2>1
  <2>3. (CHOOSE i \in finals : \A j \in finals : j <= i) \in finals
    BY <2>2
  <2> QED
    BY <1>1, <1>3, <2>3 DEF FinalNumber
<1> QED
  BY <1>2, <1>3

\* Appending a record keeps what the part holds and adds its number.
LEMMA AppendHolds ==
  ASSUME NEW s \in Seq(Record), NEW c \in Record
  PROVE  /\ Append(s, c) \in Seq(Record)
         /\ Len(Append(s, c)) = Len(s) + 1
         /\ \A i \in 1..Len(s) : Append(s, c)[i] = s[i]
         /\ Append(s, c)[Len(s) + 1] = c
         /\ \A n : Holds(Append(s, c), n) <=> Holds(s, n) \/ n = c.no
<1>1. /\ Append(s, c) \in Seq(Record)
      /\ Len(Append(s, c)) = Len(s) + 1
      /\ \A i \in 1..Len(s) : Append(s, c)[i] = s[i]
      /\ Append(s, c)[Len(s) + 1] = c
  OBVIOUS
<1>2. \A n : Holds(Append(s, c), n) <=> Holds(s, n) \/ n = c.no
  <2> TAKE n
  <2>1. Holds(s, n) => Holds(Append(s, c), n)
    BY <1>1 DEF Holds
  <2>2. n = c.no => Holds(Append(s, c), n)
    BY <1>1 DEF Holds
  <2>3. ASSUME Holds(Append(s, c), n) PROVE Holds(s, n) \/ n = c.no
    <3>1. PICK i \in 1..(Len(s) + 1) : Append(s, c)[i].no = n
      BY <1>1, <2>3 DEF Holds
    <3>2. CASE i = Len(s) + 1
      BY <1>1, <3>1, <3>2
    <3>3. CASE i \in 1..Len(s)
      BY <1>1, <3>1, <3>3 DEF Holds
    <3> QED
      BY <3>2, <3>3
  <2> QED
    BY <2>1, <2>2, <2>3
<1> QED
  BY <1>1, <1>2

-----------------------------------------------------------------------------
(* The invariant holds initially and every step keeps it.                  *)

LEMMA InitInvariant == Init => IInv
<1> SUFFICES ASSUME Init PROVE IInv
  OBVIOUS
<1>1. WholeFile \in Seq(Cell) /\ NoFile # WholeFile
  <2>1. WholeFile \in Seq(Cell)
    BY LastChunkAssumption DEF WholeFile, Numbers, Cell
  <2> QED
    BY <2>1, NoFileAssumption
<1>2. TypeOK
  BY <1>1 DEF Init, TypeOK, Received
<1> QED
  BY <1>2 DEF Init, IInv, DiskInv, PartIsGenuine, PartIsDistinct, SavingFiles,
     CheckKnowsFinal, CurIsAppended, AssemblyProgress, WholeOrAbsent, AckedOnDisk,
     PartLacks

\* saveChunk opens the part if there is none.
LEMMA StartSaveInvariant ==
  ASSUME DiskInv, NEW c \in Received, StartSave(c)
  PROVE  DiskInv'
<1>1. part' \in Seq(Record) /\ part' # NoFile
  <2>1. <<>> \in Seq(Record)
    OBVIOUS
  <2> QED
    BY <2>1, NoFileAssumption DEF DiskInv, TypeOK, StartSave, Opened
<1>2. part = NoFile => part' = <<>>
  BY DEF StartSave, Opened
<1>3. part # NoFile => part' = part
  BY DEF StartSave, Opened
<1>4. TypeOK'
  BY <1>1 DEF DiskInv, TypeOK, StartSave
<1>5. PartIsGenuine' /\ PartIsDistinct'
  BY <1>2, <1>3 DEF DiskInv, PartIsGenuine, PartIsDistinct
<1>6. AckedOnDisk'
  BY <1>1, <1>3 DEF DiskInv, StartSave, AckedOnDisk, Holds
<1> QED
  BY <1>1, <1>4, <1>5, <1>6
  DEF DiskInv, StartSave, Unlocked, SavingFiles, CheckKnowsFinal, CurIsAppended,
      AssemblyProgress

\* The chunk is appended, and the final number is known if a record carries it.
LEMMA AppendChunkInvariant ==
  ASSUME DiskInv, AppendChunk
  PROVE  DiskInv'
<1>1. /\ part \in Seq(Record) /\ part # NoFile /\ full = NoFile
      /\ cur \in Received /\ pc = "scan"
  BY DEF DiskInv, TypeOK, AppendChunk, SavingFiles
<1>2. ASSUME part' \in Seq(Record), final' \in {-1, LastChunk},
             Acknowledged \subseteq Numbers
      PROVE  TypeOK'
  <2>1. pc' \in {"idle", "check"} /\ acked' \in {acked, Acknowledged}
    BY DEF AppendChunk
  <2>2. final' \in {-1} \cup Numbers
    BY <1>2, LastChunkAssumption DEF Numbers
  <2>3. full' = full /\ cur' = cur /\ k' = k
    BY DEF AppendChunk
  <2>4. acked' \subseteq Numbers
    BY <1>2, <2>1 DEF DiskInv, TypeOK
  <2> QED
    BY <1>2, <2>1, <2>2, <2>3, <2>4 DEF DiskInv, TypeOK
<1>3. CASE cur.body = "none"
  <2>1. part' = part /\ Acknowledged = acked
    BY <1>3 DEF AppendChunk, Appended, Acknowledged
  <2>2. final' \in {-1, LastChunk}
    BY <1>1, FinalIsLast DEF AppendChunk, DiskInv, PartIsGenuine, PartIsDistinct
  <2>3. TypeOK'
    BY <1>1, <1>2, <2>1, <2>2 DEF DiskInv, TypeOK
  <2> QED
    BY <1>1, <1>3, <2>1, <2>2, <2>3
    DEF DiskInv, AppendChunk, PartIsGenuine, PartIsDistinct, SavingFiles, CheckKnowsFinal,
        CurIsAppended, AssemblyProgress, AckedOnDisk
<1>4. CASE cur.body # "none"
  <2>1. cur.no \in Numbers /\ cur = Genuine(cur.no) /\ cur \in Record
    BY <1>1, <1>4, ReceivedIsGenuine
  <2>2. part' = Append(part, cur)
    BY <1>4 DEF AppendChunk, Appended
  <2>3. part' \in Seq(Record) /\ part' # NoFile
    BY <1>1, <2>1, <2>2, AppendHolds, NoFileAssumption
  <2>4. \A n : Holds(part', n) <=> Holds(part, n) \/ n = cur.no
    BY <1>1, <2>1, <2>2, AppendHolds
  <2>5. PartIsGenuine'
    BY <1>1, <2>1, <2>2, AppendHolds DEF DiskInv, PartIsGenuine, Genuine
  <2>6. PartIsDistinct'
    <3>1. \A i \in 1..Len(part) : part[i].no # cur.no
      BY DEF AppendChunk, Holds
    <3> QED
      BY <1>1, <2>1, <2>2, <3>1, AppendHolds DEF DiskInv, PartIsDistinct
  <2>7. final' \in {-1, LastChunk}
    BY <1>1, FinalIsLast DEF AppendChunk, DiskInv, PartIsGenuine, PartIsDistinct
  <2>8. TypeOK'
    <3>1. Acknowledged \subseteq Numbers
      BY <2>1 DEF DiskInv, TypeOK, Acknowledged
    <3> QED
      BY <1>2, <2>3, <2>7, <3>1
  <2>9. AckedOnDisk'
    BY <1>1, <2>3, <2>4 DEF DiskInv, AckedOnDisk, AppendChunk, Acknowledged
  <2>10. CurIsAppended'
    BY <1>1, <2>4 DEF CurIsAppended, AppendChunk
  <2> QED
    BY <1>1, <2>3, <2>5, <2>6, <2>7, <2>8, <2>9, <2>10
    DEF DiskInv, AppendChunk, SavingFiles, CheckKnowsFinal, AssemblyProgress
<1> QED
  BY <1>3, <1>4

\* Nothing is known to be incomplete that was acknowledged.
LEMMA NotYetCompleteInvariant ==
  ASSUME DiskInv, NotYetComplete
  PROVE  DiskInv'
<1>1. part # NoFile /\ full = NoFile /\ pc = "check"
  BY DEF DiskInv, SavingFiles, NotYetComplete
<1>2. cur.body = "whole" => Holds(part, cur.no) /\ cur.no \in Numbers
  BY <1>1, ReceivedIsGenuine DEF DiskInv, CurIsAppended, TypeOK
<1>3. TypeOK'
  BY <1>2 DEF DiskInv, TypeOK, NotYetComplete, Acknowledged
<1>4. AckedOnDisk'
  BY <1>1, <1>2 DEF DiskInv, AckedOnDisk, NotYetComplete, Acknowledged
<1> QED
  BY <1>1, <1>3, <1>4
  DEF DiskInv, NotYetComplete, PartIsGenuine, PartIsDistinct, SavingFiles,
      CheckKnowsFinal, CurIsAppended, AssemblyProgress

\* The complete file starts empty and every chunk is in the part.
LEMMA StartAssemblyInvariant ==
  ASSUME DiskInv, StartAssembly
  PROVE  DiskInv'
<1>1. part # NoFile /\ full = NoFile /\ final = LastChunk
  BY DEF DiskInv, SavingFiles, CheckKnowsFinal, StartAssembly
<1>2. full' = <<>> /\ full' \in Seq(Cell) /\ Len(full') = 0 /\ full' # NoFile
  <2>1. <<>> \in Seq(Cell) /\ Len(<<>>) = 0
    OBVIOUS
  <2> QED
    BY <2>1, NoFileAssumption DEF StartAssembly
<1>3. \A n \in Numbers : Holds(part, n)
  BY <1>1 DEF StartAssembly, Completed, Numbers
<1>4. AssemblyProgress'
  <2>1. part \in Seq(Record)
    BY <1>1 DEF DiskInv, TypeOK
  <2> QED
    BY <1>2, <1>3, <2>1, LastChunkAssumption DEF AssemblyProgress, StartAssembly, Holds
<1>5. TypeOK'
  BY <1>2 DEF DiskInv, TypeOK, StartAssembly
<1>6. AckedOnDisk'
  BY <1>1, <1>3 DEF DiskInv, TypeOK, AckedOnDisk, StartAssembly
<1> QED
  BY <1>1, <1>2, <1>4, <1>5, <1>6
  DEF DiskInv, StartAssembly, PartIsGenuine, PartIsDistinct, SavingFiles,
      CheckKnowsFinal, CurIsAppended

\* The record at k is written in place; those before it stay.
LEMMA AssembleChunkInvariant ==
  ASSUME DiskInv, AssembleChunk
  PROVE  DiskInv'
<1> DEFINE n == part[k].no
<1>1. /\ part \in Seq(Record) /\ part # NoFile
      /\ full \in Seq(Cell) /\ full # NoFile
      /\ k \in 1..Len(part) /\ pc = "assemble"
  BY DEF DiskInv, TypeOK, SavingFiles, AssembleChunk, Assembled
<1>2. n \in Numbers /\ n \in Nat \ {0} /\ Content(part[k]) = "whole"
  <2>1. n \in Numbers /\ part[k] = Genuine(n)
    BY <1>1 DEF DiskInv, PartIsGenuine
  <2>2. part[k].body = "whole"
    BY <2>1 DEF Genuine
  <2> QED
    BY <2>1, <2>2, LastChunkAssumption DEF Content, Numbers
<1>3. full' = WriteAt(full, n, "whole") /\ k' = k + 1 /\ part' = part /\ pc' = pc
  BY <1>2 DEF AssembleChunk
<1>4. /\ full' \in Seq(Cell)
      /\ Len(full') = IF n > Len(full) THEN n ELSE Len(full)
      /\ full'[n] = "whole"
      /\ \A i \in 1..Len(full) : i # n => full'[i] = full[i]
  <2>1. "whole" \in Cell
    BY DEF Cell
  <2> HIDE DEF n
  <2>2. LET f == WriteAt(full, n, "whole")
        IN  /\ f \in Seq(Cell)
            /\ Len(f) = IF n > Len(full) THEN n ELSE Len(full)
            /\ f[n] = "whole"
            /\ \A i \in 1..Len(full) : i # n => f[i] = full[i]
    BY <1>1, <1>2, <2>1, WriteAtFacts
  <2> QED
    BY <1>3, <2>2
<1>5. full' # NoFile
  BY <1>4, NoFileAssumption
<1>6. AssemblyProgress'
  <2>1. Len(full') <= LastChunk
    BY <1>1, <1>2, <1>4, LastChunkAssumption DEF DiskInv, AssemblyProgress, Numbers
  <2>2. ASSUME NEW j \in 1..Len(part), j < k + 1
        PROVE  part[j].no <= Len(full') /\ full'[part[j].no] = "whole"
    <3>1. part[j].no \in Nat \ {0}
      BY <1>1, LastChunkAssumption DEF DiskInv, PartIsGenuine, Numbers
    <3>2. CASE part[j].no = n
      BY <1>1, <1>2, <1>4, <3>2
    <3>3. CASE part[j].no # n
      <4>1. j < k
        BY <1>1, <2>2, <3>3
      <4>2. part[j].no <= Len(full) /\ full[part[j].no] = "whole"
        BY <1>1, <4>1 DEF DiskInv, AssemblyProgress
      <4> QED
        BY <1>1, <1>2, <1>4, <3>1, <3>3, <4>2
    <3> QED
      BY <3>2, <3>3
  <2> QED
    BY <1>1, <1>3, <2>1, <2>2 DEF DiskInv, AssemblyProgress
<1>7. AckedOnDisk'
  BY <1>1, <1>3 DEF DiskInv, TypeOK, AssemblyProgress, AckedOnDisk, AssembleChunk
<1>8. TypeOK'
  BY <1>1, <1>4 DEF DiskInv, TypeOK, AssembleChunk
<1> QED
  BY <1>1, <1>3, <1>5, <1>6, <1>7, <1>8
  DEF DiskInv, AssembleChunk, PartIsGenuine, PartIsDistinct, SavingFiles,
      CheckKnowsFinal, CurIsAppended

\* Facts about the whole file.
LEMMA WholeFileFacts ==
  /\ WholeFile \in Seq(Cell) /\ WholeFile # NoFile /\ Len(WholeFile) = LastChunk
  /\ \A n \in Numbers : n <= Len(WholeFile) /\ WholeFile[n] = "whole"
<1>1. WholeFile \in Seq(Cell) /\ Len(WholeFile) = LastChunk
  BY LastChunkAssumption DEF WholeFile, Numbers, Cell
<1> QED
  BY <1>1, NoFileAssumption, LastChunkAssumption DEF WholeFile, Numbers

\* When every record has been written the complete file is the whole file.
LEMMA AssembledIsWhole ==
  ASSUME DiskInv, pc = "assemble", Assembled
  PROVE  full = WholeFile
<1>1. /\ part \in Seq(Record) /\ full \in Seq(Cell)
      /\ k \in Nat /\ k > Len(part) /\ Len(full) <= LastChunk
  BY DEF DiskInv, TypeOK, SavingFiles, AssemblyProgress, Assembled
<1>2. \A n \in Numbers : n <= Len(full) /\ full[n] = "whole"
  <2> TAKE n \in Numbers
  <2>1. PICK j \in 1..Len(part) : part[j].no = n
    BY DEF DiskInv, AssemblyProgress, Holds
  <2>2. j < k
    BY <1>1
  <2> QED
    BY <2>1, <2>2 DEF DiskInv, AssemblyProgress
<1>3. Len(full) = LastChunk
  BY <1>1, <1>2, LastChunkAssumption DEF Numbers
<1>4. WholeFile \in Seq(Cell) /\ Len(WholeFile) = LastChunk
  BY WholeFileFacts
<1> QED
  BY <1>1, <1>2, <1>3, <1>4, WholeFileFacts DEF Numbers

\* The part is deleted when the complete file holds everything.
LEMMA DeletePartInvariant ==
  ASSUME DiskInv, DeletePart
  PROVE  DiskInv' /\ full' = WholeFile
<1>1. full = WholeFile /\ full' = full /\ part' = NoFile /\ pc' = "idle"
  BY AssembledIsWhole DEF DeletePart
<1>2. Acknowledged \subseteq Numbers
  BY ReceivedIsGenuine DEF DiskInv, TypeOK, Acknowledged
<1>3. TypeOK'
  BY <1>1, <1>2 DEF DiskInv, TypeOK, DeletePart
<1>4. AckedOnDisk'
  BY <1>1, <1>3, WholeFileFacts DEF AckedOnDisk, TypeOK
<1> QED
  BY <1>1, <1>3, <1>4, WholeFileFacts
  DEF DiskInv, PartIsGenuine, PartIsDistinct, SavingFiles, CheckKnowsFinal,
      CurIsAppended, AssemblyProgress

\* The user puts the whole file into the folder.
LEMMA AddFileInvariant ==
  ASSUME DiskInv, AddFile
  PROVE  DiskInv' /\ full' = WholeFile
<1>1. full' = WholeFile /\ full' \in Seq(Cell) /\ pc = "idle" /\ pc' = "idle"
  BY WholeFileFacts DEF AddFile, Unlocked
<1>2. TypeOK'
  BY <1>1 DEF DiskInv, TypeOK, AddFile
<1>3. AckedOnDisk'
  BY <1>1, <1>2, WholeFileFacts DEF AckedOnDisk, TypeOK
<1> QED
  BY <1>1, <1>2, <1>3
  DEF DiskInv, AddFile, PartIsGenuine, PartIsDistinct, SavingFiles, CheckKnowsFinal,
      CurIsAppended, AssemblyProgress

\* A crash forgets the call and leaves the files.
LEMMA CrashInvariant ==
  ASSUME DiskInv, Crash
  PROVE  DiskInv'
<1>1. TypeOK'
  BY DEF DiskInv, TypeOK, Crash, Received
<1> QED
  BY <1>1
  DEF DiskInv, Crash, PartIsGenuine, PartIsDistinct, SavingFiles, CheckKnowsFinal,
      CurIsAppended, AssemblyProgress, AckedOnDisk

\* The steps that change neither a file nor the call.
LEMMA OtherStepsInvariant ==
  ASSUME DiskInv,
         \/ UNCHANGED <<part, full, pc, cur, final, k, acked>>
         \/ Duplicate
  PROVE  DiskInv'
<1>1. TypeOK'
  BY DEF DiskInv, TypeOK, Duplicate
<1> QED
  BY <1>1
  DEF DiskInv, Duplicate, PartIsGenuine, PartIsDistinct, SavingFiles, CheckKnowsFinal,
      CurIsAppended, AssemblyProgress, AckedOnDisk

LEMMA DiskInvIsInductive ==
  ASSUME DiskInv, [Next \/ Crash]_vars
  PROVE  DiskInv'
<1>1. CASE Refuse \/ UNCHANGED vars
  BY <1>1, OtherStepsInvariant DEF Refuse, vars
<1>2. ASSUME NEW c \in Received, StartSave(c) PROVE DiskInv'
  BY <1>2, StartSaveInvariant
<1>3. CASE Duplicate
  BY <1>3, OtherStepsInvariant
<1>4. CASE AppendChunk
  BY <1>4, AppendChunkInvariant
<1>5. CASE NotYetComplete
  BY <1>5, NotYetCompleteInvariant
<1>6. CASE StartAssembly
  BY <1>6, StartAssemblyInvariant
<1>7. CASE AssembleChunk
  BY <1>7, AssembleChunkInvariant
<1>8. CASE DeletePart
  BY <1>8, DeletePartInvariant
<1>9. CASE AddFile
  BY <1>9, AddFileInvariant
<1>10. ASSUME NEW r \in Readers, NEW n \in Asked, GetChunk(r, n) PROVE DiskInv'
  BY <1>10, OtherStepsInvariant DEF GetChunk
<1>11. CASE Crash
  BY <1>11, CrashInvariant
<1> QED
  BY <1>1, <1>2, <1>3, <1>4, <1>5, <1>6, <1>7, <1>8, <1>9, <1>10, <1>11
  DEF Next, SaveStep

\* Without crashes no step leaves an assembly behind.
LEMMA WholeOrAbsentIsInductive ==
  ASSUME IInv, [Next]_vars
  PROVE  WholeOrAbsent'
<1>1. CASE StartAssembly \/ AssembleChunk
  BY <1>1 DEF StartAssembly, AssembleChunk, WholeOrAbsent
<1>2. CASE DeletePart
  BY <1>2, DeletePartInvariant DEF IInv, WholeOrAbsent
<1>3. CASE AddFile
  BY <1>3 DEF AddFile, WholeOrAbsent
<1>4. ASSUME full' = full, pc # "assemble" \/ pc' = "assemble" PROVE WholeOrAbsent'
  BY <1>4 DEF IInv, WholeOrAbsent
<1>5. ASSUME NEW c \in Received, StartSave(c) PROVE WholeOrAbsent'
  BY <1>4, <1>5 DEF StartSave, Unlocked
<1>6. CASE Duplicate \/ AppendChunk \/ NotYetComplete
  BY <1>4, <1>6 DEF Duplicate, AppendChunk, NotYetComplete
<1>7. CASE Refuse \/ UNCHANGED vars
  BY <1>4, <1>7 DEF Refuse, vars
<1>8. ASSUME NEW r \in Readers, NEW n \in Asked, GetChunk(r, n) PROVE WholeOrAbsent'
  BY <1>4, <1>8 DEF GetChunk
<1> QED
  BY <1>1, <1>2, <1>3, <1>5, <1>6, <1>7, <1>8 DEF Next, SaveStep

\* An append without a check leaves the last chunk missing, and so does a check
\* that finds a number missing.
LEMMA PartLacksIsInductive ==
  ASSUME IInv, [Next]_vars
  PROVE  PartLacks'
<1>1. ASSUME UNCHANGED <<part, full>>, pc' \in {"idle", "scan"} => pc \in {"idle", "scan"}
      PROVE  PartLacks'
  BY <1>1 DEF IInv, PartLacks
<1>2. CASE AppendChunk
  <2>1. SUFFICES ASSUME final' = -1 PROVE ~Holds(part', LastChunk)
    BY <1>2, LastChunkAssumption DEF AppendChunk, PartLacks, Numbers
  <2>2. part \in Seq(Record) /\ part # NoFile /\ cur \in Received
    BY <1>2 DEF IInv, DiskInv, TypeOK, SavingFiles, AppendChunk
  <2>3. FinalNumber(part, cur) = -1
    BY <1>2, <2>1 DEF AppendChunk
  <2>4. {i \in 1..Len(part) : part[i].flag = "final"} = {}
    <3> DEFINE finals == {i \in 1..Len(part) : part[i].flag = "final"}
    <3>1. SUFFICES ASSUME finals # {} PROVE FALSE
      OBVIOUS
    <3>2. \A i \in finals : part[i].no = LastChunk
      BY <2>2, FinalFlags DEF IInv, DiskInv, PartIsGenuine
    <3>3. \A i, j \in finals : i = j
      BY <2>2, <3>2 DEF IInv, DiskInv, PartIsDistinct
    <3>4. (CHOOSE i \in finals : \A j \in finals : j <= i) \in finals
      <4>1. \E i \in finals : \A j \in finals : j <= i
        BY <3>1, <3>3
      <4> QED
        BY <4>1
    <3>5. FinalNumber(part, cur) = LastChunk
      BY <3>1, <3>2, <3>4 DEF FinalNumber
    <3> QED
      BY <2>3, <3>5, LastChunkAssumption
  <2>5. cur.flag # "final"
    <3>1. cur.flag = "final" => FinalNumber(part, cur) = cur.no
      BY <2>4 DEF FinalNumber
    <3>2. cur.flag = "final" => cur.no = LastChunk
      BY <2>2, FinalFlag
    <3> QED
      BY <2>3, <3>1, <3>2, LastChunkAssumption
  <2>6. \A i \in 1..Len(part) : part[i].no # LastChunk
    BY <2>2, <2>4, FinalFlags DEF IInv, DiskInv, PartIsGenuine
  <2>7. CASE cur.body = "none"
    BY <1>2, <2>6, <2>7 DEF AppendChunk, Appended, Holds
  <2>8. CASE cur.body # "none"
    <3>1. cur \in Record /\ cur.no \in Numbers /\ cur = Genuine(cur.no)
      BY <2>2, <2>8, ReceivedIsGenuine
    <3>2. cur.no # LastChunk
      BY <2>5, <3>1, FinalFlags
    <3>3. part' = Append(part, cur)
      BY <1>2, <2>8 DEF AppendChunk, Appended
    <3>4. ~Holds(part, LastChunk)
      BY <2>6 DEF Holds
    <3> QED
      BY <2>2, <3>1, <3>2, <3>3, <3>4, AppendHolds
  <2> QED
    BY <2>7, <2>8
<1>3. CASE NotYetComplete
  <2>1. final = LastChunk /\ part' = part
    BY <1>3 DEF NotYetComplete, IInv, DiskInv, CheckKnowsFinal
  <2>2. \E n \in Numbers : ~Holds(part, n)
    BY <1>3, <2>1 DEF NotYetComplete, Completed, Numbers
  <2> QED
    BY <2>1, <2>2 DEF PartLacks
<1>4. ASSUME NEW c \in Received, StartSave(c) PROVE PartLacks'
  <2>1. CASE part # NoFile
    BY <1>4, <2>1 DEF StartSave, Unlocked, Opened, IInv, PartLacks
  <2>2. CASE part = NoFile
    <3>1. part' = <<>>
      BY <1>4, <2>2 DEF StartSave, Opened
    <3>2. ~Holds(part', LastChunk)
      BY <3>1 DEF Holds
    <3> QED
      BY <3>2, LastChunkAssumption DEF PartLacks, Numbers
  <2> QED
    BY <2>1, <2>2
<1>5. CASE StartAssembly \/ AssembleChunk
  BY <1>5 DEF StartAssembly, AssembleChunk, PartLacks
<1>6. CASE DeletePart \/ AddFile
  BY <1>6, WholeFileFacts DEF DeletePart, AddFile, PartLacks
<1>7. CASE Duplicate
  BY <1>1, <1>7 DEF Duplicate
<1>8. CASE Refuse \/ UNCHANGED vars
  BY <1>1, <1>8 DEF Refuse, vars
<1>9. ASSUME NEW r \in Readers, NEW n \in Asked, GetChunk(r, n) PROVE PartLacks'
  BY <1>1, <1>9 DEF GetChunk
<1> QED
  BY <1>2, <1>3, <1>4, <1>5, <1>6, <1>7, <1>8, <1>9 DEF Next, SaveStep

-----------------------------------------------------------------------------
(* What a reader gets.                                                     *)

\* While no save is at work a reader gets the chunk exactly as it was at its
\* sender if it is held, and an error if not.
LEMMA FetchIsHeld ==
  ASSUME IInv, Unlocked, NEW n \in Asked
  PROVE  Fetch(n) = IF n \in held THEN Genuine(n) ELSE NotFound
<1>1. n \in Nat
  BY LastChunkAssumption DEF Asked
<1>2. CASE full # NoFile
  <2>1. full = WholeFile /\ complete
    BY <1>2 DEF IInv, WholeOrAbsent, Unlocked, complete
  <2>2. Len(full) = LastChunk /\ held = 1..LastChunk
    BY <2>1, WholeFileFacts DEF held
  <2>3. CASE n \in 1..LastChunk
    <3>1. full[n] = "whole"
      BY <2>1, <2>3, WholeFileFacts DEF Numbers
    <3>2. Fetch(n) = FetchFull(n)
      BY <1>1, <1>2, <2>3, LastChunkAssumption DEF Fetch
    <3>3. FetchFull(n) = Genuine(n)
      BY <2>2, <2>3, <3>1, LastChunkAssumption DEF FetchFull, Genuine
    <3> QED
      BY <2>2, <2>3, <3>2, <3>3
  <2>4. CASE n \notin 1..LastChunk
    <3>1. n = 0 \/ n > Len(full)
      BY <1>1, <2>2, <2>4, LastChunkAssumption
    <3>2. Fetch(n) = NotFound
      BY <1>1, <1>2, <2>2, <3>1, LastChunkAssumption DEF Fetch, FetchFull
    <3> QED
      BY <2>2, <2>4, <3>2
  <2> QED
    BY <2>3, <2>4
<1>3. CASE full = NoFile /\ part # NoFile
  <2>1. part \in Seq(Record) /\ held = {part[i].no : i \in 1..Len(part)}
    BY <1>3 DEF IInv, DiskInv, TypeOK, held, complete
  <2>2. CASE Holds(part, n)
    <3> DEFINE i == CHOOSE i \in 1..Len(part) : part[i].no = n
    <3>1. i \in 1..Len(part) /\ part[i].no = n
      BY <2>2 DEF Holds
    <3>2. n \in Numbers /\ part[i] = Genuine(n)
      BY <1>3, <3>1 DEF IInv, DiskInv, PartIsGenuine
    <3>3. part[i].flag = Flag(n, LastChunk) /\ part[i].body = "whole"
      BY <3>2 DEF Genuine
    <3>4. FetchPart(n) = [no |-> n, flag |-> part[i].flag, body |-> Content(part[i])]
      BY <2>2 DEF FetchPart
    <3>5. FetchPart(n) = Genuine(n)
      BY <3>3, <3>4 DEF Content, Genuine
    <3>6. n > 0
      BY <3>2 DEF Numbers
    <3>7. Fetch(n) = FetchPart(n)
      BY <1>1, <1>3, <3>6 DEF Fetch
    <3>8. n \in held
      BY <2>1, <2>2 DEF Holds
    <3> QED
      BY <3>5, <3>7, <3>8
  <2>3. CASE ~Holds(part, n)
    <3>1. n \notin held
      BY <2>1, <2>3 DEF Holds
    <3>2. Fetch(n) = NotFound
      BY <1>1, <1>3, <2>3 DEF Fetch, FetchPart
    <3> QED
      BY <3>1, <3>2
  <2> QED
    BY <2>2, <2>3
<1>4. CASE full = NoFile /\ part = NoFile
  BY <1>1, <1>4 DEF Fetch, held, complete
<1> QED
  BY <1>2, <1>3, <1>4

\* An acknowledged chunk is held.
LEMMA AckedIsHeld ==
  ASSUME IInv, Unlocked
  PROVE  acked \subseteq held /\ acked \subseteq Asked
<1>1. acked \subseteq Numbers /\ Numbers \subseteq Asked
  BY LastChunkAssumption DEF IInv, DiskInv, TypeOK, Numbers, Asked
<1>2. CASE full # NoFile
  <2>1. full = WholeFile /\ complete
    BY <1>2 DEF IInv, WholeOrAbsent, Unlocked, complete
  <2> QED
    BY <1>1, <2>1, WholeFileFacts DEF held, Numbers
<1>3. CASE full = NoFile
  BY <1>1, <1>3 DEF IInv, DiskInv, AckedOnDisk, Holds, held, complete
<1> QED
  BY <1>1, <1>2, <1>3

-----------------------------------------------------------------------------
(* The theorems.                                                           *)

\* Every variable keeps its type (storage.cpp:19-267, no failures).
THEOREM TypeCorrect == Spec => []TypeOK
<1>1. Init => IInv
  BY InitInvariant
<1>2. IInv /\ [Next]_vars => IInv'
  BY DiskInvIsInductive, WholeOrAbsentIsInductive, PartLacksIsInductive DEF IInv
<1>3. IInv => TypeOK
  BY DEF IInv, DiskInv
<1> QED
  BY <1>1, <1>2, <1>3, PTL DEF Spec

\* The inductive invariant holds throughout.
THEOREM Invariance == Spec => []IInv
<1>1. Init => IInv
  BY InitInvariant
<1>2. IInv /\ [Next]_vars => IInv'
  BY DiskInvIsInductive, WholeOrAbsentIsInductive, PartLacksIsInductive DEF IInv
<1> QED
  BY <1>1, <1>2, PTL DEF Spec

\* A file under its plain name is the whole file whenever no save is running
\* (sortAndUpdateFullyDownloadedFile), if nothing fails.
THEOREM CompletedFilesAreWhole == Spec => []CompletedIsWhole
<1>1. IInv => CompletedIsWhole
  BY DEF IInv, WholeOrAbsent, CompletedIsWhole, Unlocked
<1> QED
  BY <1>1, Invariance, PTL

\* A part that no save is working on lacks a chunk, a file under its plain name
\* is whole: a download that stands still is one that a further chunk continues
\* (storage.cpp:79-124: the append and the check are one call).
THEOREM ExtensionsTell == Spec => []ExtensionTells
<1>1. IInv => ExtensionTells
  BY DEF IInv, WholeOrAbsent, PartLacks, CompletedIsWhole, ExtensionTells, Unlocked
<1> QED
  BY <1>1, Invariance, PTL

\* What saveChunk acknowledged, getChunk serves as it was received.
THEOREM AcknowledgedChunksAreServed == Spec => []AckedIsServed
<1>1. IInv => AckedIsServed
  BY FetchIsHeld, AckedIsHeld DEF AckedIsServed
<1> QED
  BY <1>1, Invariance, PTL

\* A part has no more records than the file has chunks, so their numbers fit
\* the buffer of a caller that asks for the whole file.
LEMMA PartFits ==
  ASSUME PartIsGenuine, PartIsDistinct, part \in Seq(Record)
  PROVE  Len(part) <= LastChunk
<1> DEFINE f == [i \in 1..Len(part) |-> part[i].no]
<1>1. part # NoFile /\ Len(part) \in Nat /\ LastChunk \in Nat
  BY NoFileAssumption, LastChunkAssumption
<1>2. f \in [1..Len(part) -> Numbers]
  BY <1>1 DEF PartIsGenuine
<1>3. \A i, j \in 1..Len(part) : f[i] = f[j] => i = j
  BY <1>1 DEF PartIsDistinct
<1>4. f \in Injection(1..Len(part), Numbers)
  BY <1>2, <1>3 DEF Injection, IsInjective
<1>5. /\ IsFiniteSet(Numbers)
      /\ Cardinality(Numbers) = LastChunk
      /\ Cardinality(1..Len(part)) = Len(part)
  <2>1. \A n \in Nat : IsFiniteSet(1..n) /\ Cardinality(1..n) = n
    <3> TAKE n \in Nat
    <3>1. 1 \in Int /\ n \in Int
      OBVIOUS
    <3>2. IsFiniteSet(1..n) /\ Cardinality(1..n) = IF 1 > n THEN 0 ELSE n - 1 + 1
      BY <3>1, FS_Interval
    <3> QED
      BY <3>2
  <2> QED
    BY <1>1, <2>1 DEF Numbers
<1> HIDE DEF f
<1>6. Cardinality(1..Len(part)) <= Cardinality(Numbers)
  BY <1>4, <1>5, FS_Injection
<1> QED
  BY <1>5, <1>6

\* The three queries agree: a number is listed exactly when it is served, and a
\* final number is reported exactly of a complete file.
THEOREM ListedNumbersAreServed == Spec => []ListedIsServed
<1>1. ASSUME IInv, Unlocked PROVE held = Listed \/ (part = NoFile /\ full = NoFile)
  <2>1. CASE full # NoFile
    <3>1. full = WholeFile /\ complete = TRUE
      BY <1>1, <2>1 DEF IInv, WholeOrAbsent, Unlocked, complete
    <3>2. ArrOfChunkNumbers(LastChunk) = [i \in 1..LastChunk |-> i]
      BY <2>1, <3>1, WholeFileFacts, LastChunkAssumption DEF ArrOfChunkNumbers
    <3>3. Listed = 1..LastChunk
      BY <3>2, LastChunkAssumption DEF Listed
    <3> QED
      BY <3>1, <3>3, WholeFileFacts DEF held
  <2>2. CASE full = NoFile /\ part # NoFile
    <3>1. part \in Seq(Record) /\ (complete = FALSE)
      BY <1>1, <2>2 DEF IInv, DiskInv, TypeOK, complete
    <3>2. Len(part) <= LastChunk /\ Len(part) \in Nat
      BY <1>1, <3>1, PartFits DEF IInv, DiskInv
    <3>3. ArrOfChunkNumbers(LastChunk) = [i \in 1..Len(part) |-> part[i].no]
      BY <2>2, <3>2, LastChunkAssumption DEF ArrOfChunkNumbers
    <3>4. Listed = {part[i].no : i \in 1..Len(part)}
      BY <3>2, <3>3 DEF Listed
    <3> QED
      BY <2>2, <3>1, <3>4 DEF held
  <2> QED
    BY <2>1, <2>2
<1>2. ASSUME IInv, Unlocked, NEW n \in Asked
      PROVE  n \in held <=> Fetch(n) # NotFound
  <2>1. Fetch(n) = IF n \in held THEN Genuine(n) ELSE NotFound
    BY <1>2, FetchIsHeld
  <2>2. n \in held => n \in Numbers
    <3>1. CASE complete
      BY <1>2, <3>1, WholeFileFacts
      DEF IInv, WholeOrAbsent, Unlocked, complete, held, Numbers
    <3>2. CASE ~complete
      BY <1>2, <3>2 DEF IInv, DiskInv, PartIsGenuine, held
    <3> QED
      BY <3>1, <3>2
  <2>3. n \in held => Genuine(n) \in [no : Numbers, flag : {"final", "more"}, body : Cell]
    BY <2>2 DEF Genuine, Flag, Cell
  <2> QED
    BY <2>1, <2>3, NotFoundAssumption
<1>3. ASSUME IInv, Unlocked
      PROVE  FinalChunkNumber = IF complete THEN LastChunk ELSE -1
  <2>1. CASE full = NoFile
    BY <2>1 DEF FinalChunkNumber, complete
  <2>2. CASE full # NoFile
    <3>1. full = WholeFile /\ (complete = TRUE) /\ Len(full) = LastChunk /\ full # <<>>
      BY <1>3, <2>2, WholeFileFacts, LastChunkAssumption
      DEF IInv, WholeOrAbsent, Unlocked, complete
    <3> QED
      BY <2>2, <3>1 DEF FinalChunkNumber
  <2> QED
    BY <2>1, <2>2
<1>4. IInv => ListedIsServed
  BY <1>1, <1>2, <1>3 DEF ListedIsServed
<1> QED
  BY <1>4, Invariance, PTL

\* The check of saveChunk indexes chunkFlags within its bounds.
THEOREM FlagsStayInRange == Spec => []FlagsInRange
<1>1. IInv => FlagsInRange
  BY LastChunkAssumption
  DEF IInv, DiskInv, SavingFiles, CheckKnowsFinal, PartIsGenuine, FlagsInRange, Numbers
<1> QED
  BY <1>1, Invariance, PTL

\* Crashes at any point keep DiskInv.
THEOREM CrashInvariance == CrashSpec => []DiskInv
<1>1. Init => DiskInv
  BY InitInvariant DEF IInv
<1>2. DiskInv /\ [Next \/ Crash]_vars => DiskInv'
  BY DiskInvIsInductive
<1> QED
  BY <1>1, <1>2, PTL DEF CrashSpec

\* No crash loses a chunk that saveChunk acknowledged.
THEOREM AcknowledgedChunksSurvive == CrashSpec => []AckedOnDisk
<1>1. DiskInv => AckedOnDisk
  BY DEF DiskInv
<1> QED
  BY <1>1, CrashInvariance, PTL

\* The part is deleted only beside a whole file, crashes included
\* (storage.cpp:157).
THEOREM PartOutlivesAssembly == CrashSpec => DeletedOnlyWhenWhole
<1>1. DiskInv /\ [Next \/ Crash]_vars
      => [part # NoFile /\ part' = NoFile => full = WholeFile]_vars
  <2> SUFFICES ASSUME DiskInv, Next \/ Crash, part # NoFile, part' = NoFile
               PROVE  full = WholeFile
    OBVIOUS
  <2>1. CASE DeletePart
    BY <2>1, AssembledIsWhole DEF DeletePart
  <2>2. CASE ~DeletePart
    <3>1. CASE AppendChunk
      <4>1. part \in Seq(Record) /\ cur \in Received
        BY DEF DiskInv, TypeOK
      <4>2. part' \in Seq(Record)
        BY <3>1, <4>1, ReceivedIsGenuine, AppendHolds DEF AppendChunk, Appended
      <4> QED
        BY <4>2, NoFileAssumption
    <3>2. CASE ~AppendChunk
      BY <2>2, <3>2 DEF Next, SaveStep, Crash, Refuse, vars, StartSave, Opened, Duplicate,
         NotYetComplete, StartAssembly, AssembleChunk, AddFile, GetChunk
    <3> QED
      BY <3>1, <3>2
  <2> QED
    BY <2>1, <2>2
<1> QED
  BY <1>1, CrashInvariance, PTL DEF CrashSpec, DeletedOnlyWhenWhole

-----------------------------------------------------------------------------
(* The storage implements the abstract store.                              *)

\* The set of held chunks is what is in the files.
LEMMA HeldFacts ==
  /\ part = NoFile /\ full = NoFile => held = {} /\ ~complete
  /\ full = NoFile \/ pc = "assemble" => ~complete
  /\ part # NoFile /\ ~complete => \A n : n \in held <=> Holds(part, n)
  /\ full = WholeFile /\ pc # "assemble" => held = Numbers /\ complete
BY WholeFileFacts DEF held, complete, Holds, Numbers

\* A step that leaves the mapped variables alone is a stutter of the store.
LEMMA Stutter ==
  ASSUME held' = held, complete' = complete, answer' = answer
  PROVE  [Abstract!StoreNext]_(Abstract!storeVars)
BY DEF Abstract!storeVars

\* A step of saveChunk that appends is Save; the others before the part is
\* deleted are stutters.
LEMMA AppendRefines ==
  ASSUME IInv, IInv', AppendChunk
  PROVE  [Abstract!StoreNext]_(Abstract!storeVars)
<1>1. /\ part \in Seq(Record) /\ part # NoFile /\ full = NoFile /\ cur \in Received
      /\ full' = NoFile /\ answer' = answer
  BY DEF IInv, DiskInv, TypeOK, SavingFiles, AppendChunk
<1>2. ~complete /\ ~complete' /\ complete' = complete
  BY <1>1 DEF complete
<1>3. CASE cur.body = "none"
  <2>1. part' = part
    BY <1>3 DEF AppendChunk, Appended
  <2>2. held' = held
    BY <1>1, <1>2, <2>1 DEF held
  <2> QED
    BY <1>1, <1>2, <2>2, Stutter
<1>4. CASE cur.body # "none"
  <2>1. cur.no \in Numbers /\ cur \in Record
    BY <1>1, <1>4, ReceivedIsGenuine
  <2>2. part' = Append(part, cur)
    BY <1>4 DEF AppendChunk, Appended
  <2>3. part' # NoFile /\ \A n : Holds(part', n) <=> Holds(part, n) \/ n = cur.no
    BY <1>1, <2>1, <2>2, AppendHolds, NoFileAssumption
  <2>4. held = {part[i].no : i \in 1..Len(part)}
    BY <1>1, <1>2 DEF held
  <2>5. held' = {part'[i].no : i \in 1..Len(part')}
    BY <1>2, <2>3 DEF held
  <2>6. held' = held \cup {cur.no}
    BY <2>3, <2>4, <2>5 DEF Holds
  <2>7. Abstract!Save(cur.no)
    BY <1>1, <1>2, <2>6 DEF Abstract!Save
  <2> QED
    BY <2>1, <2>7 DEF Abstract!StoreNext, Abstract!Numbers, Numbers
<1> QED
  BY <1>3, <1>4

\* Deleting the part completes the file for the readers.
LEMMA DeleteRefines ==
  ASSUME IInv, IInv', DeletePart
  PROVE  Abstract!StoreNext
<1>1. pc = "assemble" /\ pc' = "idle" /\ full = WholeFile /\ full' = WholeFile
      /\ answer' = answer
  BY AssembledIsWhole DEF IInv, DeletePart
<1>2. ~complete /\ complete' /\ held' = 1..Len(full')
  BY <1>1, WholeFileFacts DEF complete, held
<1>3. held' = Numbers
  BY <1>1, <1>2, WholeFileFacts DEF Numbers
<1>4. part # NoFile /\ part \in Seq(Record)
  BY <1>1 DEF IInv, DiskInv, TypeOK, SavingFiles
<1>5. held = {part[i].no : i \in 1..Len(part)}
  BY <1>2, <1>4 DEF held
<1>6. held = Numbers
  <2>1. held \subseteq Numbers
    BY <1>4, <1>5 DEF IInv, DiskInv, PartIsGenuine
  <2>2. Numbers \subseteq held
    BY <1>1, <1>5 DEF IInv, DiskInv, AssemblyProgress, Holds
  <2> QED
    BY <2>1, <2>2
<1>7. Abstract!Numbers = Numbers
  BY DEF Abstract!Numbers, Numbers
<1>8. complete' = TRUE
  BY <1>2 DEF complete
<1> QED
  BY <1>1, <1>2, <1>3, <1>6, <1>7, <1>8 DEF Abstract!StoreNext, Abstract!Complete

LEMMA StepRefines ==
  ASSUME IInv, IInv', [Next]_vars
  PROVE  [Abstract!StoreNext]_(Abstract!storeVars)
<1>1. CASE Refuse \/ UNCHANGED vars
  BY <1>1, Stutter DEF Refuse, vars, held, complete
<1>2. ASSUME NEW c \in Received, StartSave(c)
      PROVE  [Abstract!StoreNext]_(Abstract!storeVars)
  <2>1. ~complete /\ ~complete' /\ answer' = answer
    BY <1>2 DEF StartSave, complete
  <2>2. held' = held
    <3>1. CASE part # NoFile
      BY <1>2, <2>1, <3>1 DEF StartSave, Opened, held
    <3>2. CASE part = NoFile
      <4>1. part' = <<>> /\ part' # NoFile
        <5>1. <<>> \in Seq(Record)
          OBVIOUS
        <5> QED
          BY <1>2, <3>2, <5>1, NoFileAssumption DEF StartSave, Opened
      <4>2. held' = {part'[i].no : i \in 1..Len(part')}
        BY <2>1, <4>1 DEF held
      <4>3. 1..Len(part') = {}
        BY <4>1
      <4> QED
        BY <2>1, <3>2, <4>2, <4>3 DEF held
    <3> QED
      BY <3>1, <3>2
  <2>3. complete' = complete
    BY <2>1 DEF complete
  <2> QED
    BY <2>1, <2>2, <2>3, Stutter
<1>3. CASE Duplicate \/ NotYetComplete
  BY <1>3, Stutter DEF Duplicate, NotYetComplete, held, complete
<1>4. CASE StartAssembly \/ AssembleChunk
  <2>1. ~complete /\ ~complete' /\ part' = part /\ answer' = answer
    BY <1>4 DEF IInv, DiskInv, SavingFiles, StartAssembly, AssembleChunk, complete
  <2> QED
    BY <2>1, Stutter DEF held, complete
<1>5. CASE AppendChunk
  BY <1>5, AppendRefines
<1>6. CASE DeletePart
  BY <1>6, DeleteRefines
<1>7. CASE AddFile
  <2>1. full' = WholeFile /\ pc' = "idle" /\ answer' = answer
    BY <1>7 DEF AddFile, Unlocked
  <2>2. (complete' = TRUE) /\ held' = 1..Len(full')
    BY <2>1, WholeFileFacts DEF complete, held
  <2>3. held' = Abstract!Numbers
    BY <2>1, <2>2, WholeFileFacts DEF Abstract!Numbers
  <2> QED
    BY <2>1, <2>2, <2>3 DEF Abstract!StoreNext, Abstract!Import
<1>8. ASSUME NEW r \in Readers, NEW n \in Asked, GetChunk(r, n)
      PROVE  Abstract!StoreNext
  <2>1. answer' = [answer EXCEPT ![r] = IF n \in held THEN Genuine(n) ELSE NotFound]
    BY <1>8, FetchIsHeld DEF GetChunk
  <2>2. held' = held /\ complete' = complete
    BY <1>8 DEF GetChunk, held, complete
  <2>3. Abstract!Get(r, n)
    BY <2>1, <2>2 DEF Abstract!Get, Abstract!Genuine, Genuine, Flag
  <2> QED
    BY <2>3 DEF Abstract!StoreNext, Abstract!Asked, Asked
<1> QED
  BY <1>1, <1>2, <1>3, <1>4, <1>5, <1>6, <1>7, <1>8 DEF Next, SaveStep

\* Saves, completions and reads of the storage are those of the abstract store:
\* no chunk is forgotten, a reader is given exactly a held chunk, and the file
\* is completed once, when every chunk is held.
THEOREM ImplementsTheStore == Spec => ImplementsSafely
<1>1. Init => Abstract!StoreInit
  <2> SUFFICES ASSUME Init PROVE Abstract!StoreInit
    OBVIOUS
  <2>1. CASE full = NoFile
    BY <2>1 DEF Init, held, complete, Abstract!StoreInit
  <2>2. CASE full = WholeFile
    <3>1. (complete = TRUE) /\ held = 1..Len(full)
      BY <2>2, WholeFileFacts DEF Init, held, complete
    <3> QED
      BY <2>2, <3>1, WholeFileFacts DEF Init, Abstract!StoreInit, Abstract!Numbers
  <2> QED
    BY <2>1, <2>2 DEF Init
<1>2. IInv /\ IInv' /\ [Next]_vars => [Abstract!StoreNext]_(Abstract!storeVars)
  BY StepRefines
<1> QED
  BY <1>1, <1>2, Invariance, PTL DEF Spec, ImplementsSafely, Abstract!StoreSpec

-----------------------------------------------------------------------------
(* A save comes to its end: with the fairness of FairSpec this is what the *)
(* liveness of ImplementsStore rests on.                                   *)

\* During the assembly k is one of the records, or the one after the last.
NextRecord == pc = "assemble" => k <= Len(part) + 1

\* How many steps the save can still take.
SaveRank ==
  CASE pc = "idle"  -> 0
    [] pc = "scan"  -> Len(part) + 5
    [] pc = "check" -> Len(part) + 3
    [] OTHER        -> Len(part) + 2 - k

LEMMA NextRecordStep ==
  ASSUME DiskInv, NextRecord, [Next]_vars
  PROVE  NextRecord'
<1>1. ASSUME pc' = "assemble", StartAssembly PROVE NextRecord'
  BY <1>1 DEF StartAssembly, NextRecord, DiskInv, TypeOK, SavingFiles
<1>2. CASE AssembleChunk
  BY <1>2 DEF AssembleChunk, Assembled, NextRecord, DiskInv, TypeOK, SavingFiles
<1>3. CASE UNCHANGED vars
  BY <1>3 DEF NextRecord, vars
<1>4. ASSUME Next, ~StartAssembly, ~AssembleChunk PROVE pc' # "assemble"
  <2>1. ASSUME NEW c \in Received, StartSave(c) PROVE pc' # "assemble"
    BY <2>1 DEF StartSave
  <2>2. ASSUME NEW r \in Readers, NEW n \in Asked, GetChunk(r, n) PROVE pc' # "assemble"
    BY <2>2 DEF GetChunk, Unlocked
  <2>3. CASE Refuse \/ Duplicate \/ AppendChunk \/ NotYetComplete \/ DeletePart \/ AddFile
    BY <2>3 DEF Refuse, Duplicate, AppendChunk, NotYetComplete, DeletePart, AddFile,
       Unlocked, vars
  <2> QED
    BY <1>4, <2>1, <2>2, <2>3 DEF Next, SaveStep
<1> QED
  BY <1>1, <1>2, <1>3, <1>4 DEF NextRecord, StartAssembly

LEMMA SaveRankFalls ==
  ASSUME DiskInv, NextRecord, SaveStep
  PROVE  SaveRank' \in Nat /\ SaveRank' < SaveRank
<1>1. /\ part \in Seq(Record) /\ part # NoFile /\ cur \in Received
      /\ Len(part) \in Nat /\ k \in Nat \ {0}
  BY DEF DiskInv, TypeOK, SavingFiles, SaveStep, Duplicate, AppendChunk, NotYetComplete,
     StartAssembly, AssembleChunk, DeletePart
<1>2. CASE Duplicate
  BY <1>1, <1>2 DEF Duplicate, SaveRank
<1>3. CASE AppendChunk
  <2>1. Len(part') \in {Len(part), Len(part) + 1}
    BY <1>1, <1>3, ReceivedIsGenuine, AppendHolds DEF AppendChunk, Appended
  <2> QED
    BY <1>1, <1>3, <2>1 DEF AppendChunk, SaveRank
<1>4. CASE NotYetComplete
  BY <1>1, <1>4 DEF NotYetComplete, SaveRank
<1>5. CASE StartAssembly
  BY <1>1, <1>5 DEF StartAssembly, SaveRank
<1>6. CASE AssembleChunk
  BY <1>1, <1>6 DEF AssembleChunk, Assembled, SaveRank
<1>7. CASE DeletePart
  BY <1>1, <1>7 DEF DeletePart, NextRecord, SaveRank
<1> QED
  BY <1>2, <1>3, <1>4, <1>5, <1>6, <1>7 DEF SaveStep

\* Every step of a save brings it nearer to its return, by a count that is never
\* negative: the loops of saveChunk over the part and over the numbers end.
THEOREM SavesEnd == Spec => [][SaveStep => SaveRank' \in Nat /\ SaveRank' < SaveRank]_vars
<1>1. Init => NextRecord
  BY DEF Init, NextRecord
<1>2. IInv /\ NextRecord /\ [Next]_vars => NextRecord'
  BY NextRecordStep DEF IInv
<1>3. IInv /\ NextRecord /\ [Next]_vars
        => [SaveStep => SaveRank' \in Nat /\ SaveRank' < SaveRank]_vars
  BY SaveRankFalls DEF IInv
<1> QED
  BY <1>1, <1>2, <1>3, Invariance, PTL DEF Spec

\* As long as no recv is short the loops over the part are in step with its
\* records, whatever crashes there are: no read of it is undefined.
THEOREM PartsAreReadable == CrashSpec => []Defined
<1>1. DiskInv => Defined
  <2>1. \A n : Genuine(n).body = "whole"
    BY DEF Genuine
  <2>2. ASSUME DiskInv, part # NoFile, NEW i \in 1..(Len(part) - 1) PROVE part[i].body # "short"
    <3>1. part \in Seq(Record) /\ i \in 1..Len(part)
      BY <2>2 DEF DiskInv, TypeOK
    <3> QED
      BY <2>1, <2>2, <3>1 DEF DiskInv, PartIsGenuine
  <2> QED
    BY <2>2 DEF Defined, Garbled
<1> QED
  BY <1>1, CrashInvariance, PTL

\* A part that waits for a chunk although it holds them all, as a crash between
\* the append and the assembly leaves it.
WaitsInVain ==
  /\ pc \in {"idle", "scan"} /\ part # NoFile /\ full = NoFile
  /\ \A n \in Numbers : Holds(part, n)

\* No chunk that arrives ends that wait, since each is a duplicate
\* (storage.cpp:62): only an answer that never came, whose number 0 is not in the
\* part, leads to the check, and only that or the user's copy of the file ends it.
THEOREM OnlyNothingCompletes ==
  CrashSpec => [][WaitsInVain /\ ~WaitsInVain' => AddFile \/ (AppendChunk /\ cur = Nothing)]_vars
<1>1. ASSUME DiskInv, [Next \/ Crash]_vars, WaitsInVain, ~AddFile,
             ~(AppendChunk /\ cur = Nothing)
      PROVE  WaitsInVain'
  <2>1. CASE Refuse \/ UNCHANGED vars
    BY <1>1, <2>1 DEF Refuse, vars, WaitsInVain
  <2>2. ASSUME NEW c \in Received, StartSave(c) PROVE WaitsInVain'
    BY <1>1, <2>2 DEF StartSave, Opened, WaitsInVain
  <2>3. CASE Duplicate
    BY <1>1, <2>3 DEF Duplicate, WaitsInVain
  <2>4. CASE AppendChunk
    <3>1. cur \in Received /\ cur # Nothing /\ ~Holds(part, cur.no)
      BY <1>1, <2>4 DEF AppendChunk, DiskInv, TypeOK
    <3>2. PICK n \in Numbers : cur = Genuine(n)
      BY <3>1 DEF Received
    <3>3. cur.no = n
      BY <3>2 DEF Genuine
    <3> QED
      BY <1>1, <3>1, <3>3 DEF WaitsInVain
  <2>5. CASE NotYetComplete \/ StartAssembly \/ AssembleChunk \/ DeletePart
    BY <1>1, <2>5 DEF NotYetComplete, StartAssembly, AssembleChunk, DeletePart, WaitsInVain
  <2>6. ASSUME NEW r \in Readers, NEW n \in Asked, GetChunk(r, n) PROVE WaitsInVain'
    BY <1>1, <2>6 DEF GetChunk, WaitsInVain
  <2>7. CASE Crash
    BY <1>1, <2>7 DEF Crash, WaitsInVain
  <2> QED
    BY <1>1, <2>1, <2>2, <2>3, <2>4, <2>5, <2>6, <2>7 DEF Next, SaveStep
<1>2. DiskInv /\ [Next \/ Crash]_vars
        => [WaitsInVain /\ ~WaitsInVain' => AddFile \/ (AppendChunk /\ cur = Nothing)]_vars
  BY <1>1
<1> QED
  BY <1>2, CrashInvariance, PTL DEF CrashSpec
=============================================================================
