--------------------------- MODULE DownloadProofs ---------------------------
(***************************************************************************)
(* Proofs about Download for any files, sources, announcements and number  *)
(* of downloads.                                                           *)
(***************************************************************************)
EXTENDS Download, FiniteSetTheorems, TLAPS

Under == {"loop", "recv", "inform"}

\* The number of downloads, finitely many entries, and the storage as a table.
Counted ==
  /\ downloads \in 0..MaxDownloads
  /\ phase # "menu" => downloads # 0 /\ outcome = "none"
  /\ IsFiniteSet(peer_list)
  /\ held \in [Files -> SUBSET Records] /\ final \in [Files -> Nat]

\* The number checked is that of a final record in the part file, its last chunk's if
\* the file is clean; a complete file has all numbers up to that of a final record.
FileExact(f) ==
  /\ final[f] # 0 => \E r \in held[f] : r.last /\ r.no = final[f]
  /\ Clean(f) => final[f] = IF Chunks[f] \in Numbers(held[f]) THEN Chunks[f] ELSE 0
  /\ f \in complete /\ ~Garbled(f) =>
       \E r \in held[f] : r.last /\ 1..r.no \subseteq Numbers(held[f])

CompleteExact ==
  /\ \A f \in Files : FileExact(f)
  /\ outcome = "complete" => file \in complete
  /\ healthy => Sound(file)

\* check_downloaded_chunks has an element for every entry, from the reply on.
TableFits ==
  fresh =>
    /\ phase \in {"ask", "select"} => peer_list = {}
    /\ phase \in Under => \A e \in peer_list : InRange(e.chunk)

\* If nothing failed, each chunk is marked, or still to be drawn, or being received;
\* what is marked is held, unless the file was complete when the download started.
NothingMissed ==
  fresh /\ healthy /\ phase \in Under =>
    /\ \A c \in 1..Chunks[file] :
         \/ c \in done
         \/ \E e \in peer_list : e.chunk = c
         \/ phase = "recv" /\ entry.chunk = c
    /\ file \in complete => phase = "inform" \/ done = {}
    /\ file \notin complete => done \subseteq Numbers(held[file])

IInv ==
  /\ TypeOK
  /\ Counted
  /\ CompleteExact
  /\ TableFits
  /\ NothingMissed
  /\ HealthyDownloadCompletes

-----------------------------------------------------------------------------
(* The tracker's reply.                                                    *)

\* The entries of a reply are finitely many, and no chunk number exceeds their number:
\* a source that announced chunk c announced 1 to c.
LEMMA ListingBounds ==
  ASSUME NEW f \in Files, NEW S \in SUBSET Sources, NEW round
  PROVE  /\ IsFiniteSet(Listing(f, S, round))
         /\ \A e \in Listing(f, S, round) :
              /\ e.chunk \in Nat /\ e.chunk <= Cardinality(Listing(f, S, round))
              /\ e.file = f /\ e.src \in S /\ e.round = round
<1> DEFINE L == Listing(f, S, round)
           Entry(s, c) == [file |-> f, chunk |-> c, src |-> s, round |-> round]
<1>1. \A e \in L : \E s \in S : \E c \in 1..Announced[s][f] : e = Entry(s, c)
  BY DEF Listing
<1>2. \A s \in S : \A c \in 1..Announced[s][f] : Entry(s, c) \in L
  BY DEF Listing
<1>3. \A s \in S : Announced[s][f] \in 0..255
  BY DownloadAssumption
<1>4. IsFiniteSet(L)
  <2> DEFINE T == S \X (1..255)
             g == [e \in L |-> <<e.src, e.chunk>>]
  <2>1. IsFiniteSet(T)
    <3>1. IsFiniteSet(S)
      BY DownloadAssumption, FS_Subset
    <3>2. IsFiniteSet(1..255)
      <4>1. \A n \in Nat : IsFiniteSet(1..n)
        BY FS_Interval
      <4>2. 255 \in Nat
        OBVIOUS
      <4> QED
        BY <4>1, <4>2, Zenon
    <3> QED
      BY <3>1, <3>2, FS_Product
  <2>2. \A e \in L : <<e.src, e.chunk>> \in T
    BY <1>1, <1>3
  <2>3. \A d, e \in L : <<d.src, d.chunk>> = <<e.src, e.chunk>> => d = e
    BY <1>1
  <2> HIDE DEF L, T
  <2>4. g \in Injection(L, T)
    BY <2>2, <2>3 DEF Injection, IsInjective
  <2> QED
    BY <2>1, <2>4, FS_Injection
<1>5. ASSUME NEW s \in S, NEW c \in 1..Announced[s][f]
      PROVE  c <= Cardinality(L)
  <2> DEFINE n == Announced[s][f]
             h == [k \in 1..n |-> Entry(s, k)]
  <2>1. n \in Nat
    BY <1>3
  <2>2. \A k \in 1..n : Entry(s, k) \in L
    BY <1>2
  <2>3. \A j, k \in 1..n : Entry(s, j) = Entry(s, k) => j = k
    OBVIOUS
  <2> HIDE DEF L, n, Entry
  <2>4. h \in Injection(1..n, L)
    BY <2>2, <2>3 DEF Injection, IsInjective
  <2>5. Cardinality(1..n) <= Cardinality(L)
    BY <1>4, <2>4, FS_Injection
  <2>6. Cardinality(1..n) = n
    BY <2>1, FS_Interval
  <2>7. Cardinality(L) \in Nat
    BY <1>4, FS_CardinalityType
  <2> QED
    BY <1>5, <2>1, <2>5, <2>6, <2>7 DEF n
<1> HIDE DEF L
<1>6. ASSUME NEW e \in L
      PROVE  /\ e.chunk \in Nat /\ e.chunk <= Cardinality(L)
             /\ e.file = f /\ e.src \in S /\ e.round = round
  <2> PICK s \in S : \E c \in 1..Announced[s][f] : e = Entry(s, c)
    BY <1>1
  <2> PICK c \in 1..Announced[s][f] : e = Entry(s, c)
    OBVIOUS
  <2>1. c \in Nat /\ c <= Cardinality(L)
    BY <1>3, <1>5
  <2> QED
    BY <2>1
<1> QED
  BY <1>4, <1>6 DEF L

-----------------------------------------------------------------------------
(* Types.                                                                  *)

\* The fields of records, and which of them are a file's own.
LEMMA RecordFacts ==
  /\ \A r \in Records : /\ r.of \in Files /\ r.no \in Nat \ {0} /\ r.no \in 1..Chunks[r.of]
                        /\ r.last \in BOOLEAN /\ (r.last <=> r.no = Chunks[r.of])
  /\ \A f \in Files : \A n \in 1..Chunks[f] : Whole(f, n) \in Own(f) /\ Whole(f, n) \in Records
  /\ \A f \in Files : \A r \in Own(f) :
       /\ r \in Records /\ r.whole /\ r.no \in 1..Chunks[f] /\ r = Whole(f, r.no)
       /\ r.last <=> r.no = Chunks[f]
<1>1. \A f \in Files : Chunks[f] \in Nat \ {0}
  BY DownloadAssumption
<1>2. ASSUME NEW r \in Records
      PROVE  /\ r.of \in Files /\ r.no \in Nat \ {0} /\ r.no \in 1..Chunks[r.of]
             /\ r.last \in BOOLEAN /\ (r.last <=> r.no = Chunks[r.of])
  <2> PICK f \in Files : r \in Own(f) \cup Cut(f)
    BY DEF Records
  <2> PICK n \in 1..Chunks[f], w \in BOOLEAN : r = Record(f, n, w)
    BY DEF Own, Cut, Whole
  <2>1. r.of = f /\ r.no = n /\ r.last = (n = Chunks[f])
    BY DEF Record
  <2>2. Chunks[f] \in Nat /\ n \in Nat \ {0}
    BY <1>1
  <2> QED
    BY <2>1, <2>2
<1>3. ASSUME NEW f \in Files, NEW n \in 1..Chunks[f]
      PROVE  Whole(f, n) \in Own(f) /\ Whole(f, n) \in Records
  BY DEF Own, Records
<1>4. ASSUME NEW f \in Files, NEW r \in Own(f)
      PROVE  /\ r \in Records /\ r.whole /\ r.no \in 1..Chunks[f] /\ r = Whole(f, r.no)
             /\ r.last <=> r.no = Chunks[f]
  <2> PICK n \in 1..Chunks[f] : r = Whole(f, n)
    BY DEF Own
  <2> QED
    BY <1>3 DEF Whole, Record
<1> QED
  BY <1>2, <1>3, <1>4

\* A file that has all its own chunks and nothing else.
LEMMA OwnNumbers ==
  ASSUME NEW f \in Files, NEW R \in SUBSET Own(f)
  PROVE  /\ Numbers(R) \subseteq 1..Chunks[f]
         /\ \A n \in Numbers(R) : Whole(f, n) \in R
         /\ 1..Chunks[f] \subseteq Numbers(R) <=> R = Own(f)
<1>1. \A r \in R : r.no \in 1..Chunks[f] /\ r = Whole(f, r.no)
  BY RecordFacts
<1>2. \A n \in Numbers(R) : n \in 1..Chunks[f] /\ Whole(f, n) \in R
  BY <1>1 DEF Numbers
<1>3. ASSUME 1..Chunks[f] \subseteq Numbers(R)
      PROVE  R = Own(f)
  BY <1>2, <1>3 DEF Own
<1>4. ASSUME R = Own(f)
      PROVE  1..Chunks[f] \subseteq Numbers(R)
  <2> SUFFICES ASSUME NEW n \in 1..Chunks[f]
               PROVE  \E r \in R : n = r.no
    BY DEF Numbers
  <2>1. Whole(f, n) \in R /\ Whole(f, n).no = n
    BY <1>4 DEF Own, Whole, Record
  <2> QED
    BY <2>1
<1> QED
  BY <1>2, <1>3, <1>4

\* What saveChunk is given: nothing, or records of which the first begins the buffer.
Given(first, got) ==
  /\ got \in SUBSET Records
  /\ first \in got \/ (first = Zeros /\ got = {})

\* What the append does to the part file, of whichever file's records.
LEMMA AppendBounds ==
  ASSUME TypeOK, Counted, FileExact(file), NEW first, NEW got, Given(first, got),
         Append(file, first, got)
  PROVE  /\ held' = [held EXCEPT ![file] = held[file] \cup got]
         /\ held'[file] = held[file] \cup got
         /\ held' \in [Files -> SUBSET Records] /\ final' \in [Files -> Nat]
         /\ \A f \in Files \ {file} : held'[f] = held[f] /\ final'[f] = final[f]
         /\ final'[file] # 0 => \E r \in held'[file] : r.last /\ r.no = final'[file]
         /\ held'[file] \subseteq Own(file) =>
              final'[file] = IF Chunks[file] \in Numbers(held'[file]) THEN Chunks[file] ELSE 0
<1> DEFINE marked == Numbers({r \in got \ {first} : r.last})
<1>0. file \in Files /\ first.no \in Nat /\ first.last \in BOOLEAN
      /\ (first.last => first \in got /\ first.no # 0)
  <2>1. file \in Files
    BY DEF TypeOK
  <2>2. CASE first \in got
    <3>1. first \in Records
      BY <2>2 DEF Given
    <3> QED
      BY <2>1, <2>2, <3>1, RecordFacts
  <2>3. CASE first = Zeros
    BY <2>1, <2>3 DEF Zeros
  <2> QED
    BY <2>1, <2>2, <2>3 DEF Given
<1>1. held' = [held EXCEPT ![file] = held[file] \cup got] /\ held[file] \subseteq Records
  BY <1>0 DEF Append, Counted
<1>2. held'[file] = held[file] \cup got /\ held' \in [Files -> SUBSET Records]
  BY <1>0, <1>1 DEF Counted, Given
<1>3. PICK n \in IF marked # {} THEN marked
                  ELSE IF first.last THEN {first.no} ELSE {final[file]} :
        final' = [final EXCEPT ![file] = n]
  BY DEF Append
<1>4. \A m \in marked : \E r \in got \ {first} : r.last /\ r.no = m
  BY DEF Numbers
<1>5. /\ n \in marked => \E r \in got : r.last /\ r.no = n
      /\ n \in Nat
      /\ n \in marked \/ (first.last /\ n = first.no) \/ (~first.last /\ n = final[file])
      /\ marked = {} \/ n \in marked
  <2> HIDE DEF marked
  <2>1. n \in marked \/ (marked = {} /\ first.last /\ n = first.no)
          \/ (marked = {} /\ ~first.last /\ n = final[file])
    BY <1>0, <1>3
  <2>2. n \in marked => \E r \in got : r.last /\ r.no = n
    BY <1>4
  <2>3. n \in Nat
    BY <1>0, <2>1, <2>2, RecordFacts DEF Given, Counted
  <2> QED
    BY <2>1, <2>2, <2>3
<1>6. final'[file] = n /\ final' \in [Files -> Nat]
      /\ \A f \in Files \ {file} : final'[f] = final[f]
  BY <1>0, <1>3, <1>5 DEF Counted
<1>7. n # 0 => \E r \in held'[file] : r.last /\ r.no = n
  BY <1>0, <1>2, <1>5 DEF FileExact
<1>8. ASSUME held'[file] \subseteq Own(file)
      PROVE  n = IF Chunks[file] \in Numbers(held'[file]) THEN Chunks[file] ELSE 0
  <2>1. held'[file] \subseteq Own(file) /\ Clean(file)
    BY <1>2, <1>8 DEF Clean
  <2>2. \A r \in held'[file] : r.last <=> r.no = Chunks[file]
    BY <1>0, <2>1, RecordFacts
  <2>3. CASE n # 0
    <3>1. \E r \in held'[file] : r.no = n /\ n = Chunks[file]
      BY <1>7, <2>2, <2>3
    <3>2. n = Chunks[file] /\ Chunks[file] \in Numbers(held'[file])
      BY <3>1 DEF Numbers
    <3> QED
      BY <3>2
  <2>4. CASE n = 0
    <3> SUFFICES ASSUME NEW r \in held'[file], r.no = Chunks[file]
                 PROVE  FALSE
      BY <2>4 DEF Numbers
    <3>1. r.last
      BY <2>2
    <3>2. n \notin marked /\ marked = {}
      BY <1>4, <1>5, <2>4, RecordFacts DEF Given
    <3>3. ~first.last /\ final[file] = 0
      BY <1>0, <1>5, <2>4, <3>2
    <3>4. r \notin got
      BY <3>1, <3>2, <3>3 DEF Numbers
    <3>5. Chunks[file] \in Numbers(held[file])
      BY <1>2, <3>4 DEF Numbers
    <3> QED
      BY <1>0, <2>1, <3>3, <3>5, DownloadAssumption DEF FileExact
  <2> QED
    BY <2>3, <2>4
<1> QED
  BY <1>0, <1>1, <1>2, <1>6, <1>7, <1>8 DEF Counted

\* What saveChunk, or a crash in it, does to the storage.
LEMMA SaveBounds ==
  ASSUME TypeOK, Counted, CompleteExact, NEW first, NEW got, Given(first, got),
         \/ Save(file, first, got)
         \/ file \notin complete /\ Append(file, first, got) /\ UNCHANGED complete,
         file' = file
  PROVE  /\ held' \in [Files -> SUBSET Records] /\ final' \in [Files -> Nat]
         /\ complete \subseteq complete' /\ complete' \subseteq complete \cup {file}
         /\ \A f \in Files : FileExact(f)'
         /\ \A f \in Files : Numbers(held[f]) \subseteq Numbers(held'[f])
<1>0. /\ file \in Files /\ complete \subseteq Files /\ FileExact(file)
      /\ \A f \in Files : FileExact(f)
      /\ held \in [Files -> SUBSET Records] /\ final \in [Files -> Nat]
  BY DEF TypeOK, CompleteExact, Counted
<1>1. CASE UNCHANGED storage
  BY <1>0, <1>1 DEF storage, FileExact, Clean, Garbled, Numbers
<1>2. CASE file \notin complete /\ Garbled(file) /\ complete' = complete \cup {file}
             /\ UNCHANGED <<held, final>>
  BY <1>0, <1>2 DEF FileExact, Clean, Garbled
<1>3. ASSUME file \notin complete, Append(file, first, got),
             \/ UNCHANGED complete
             \/ complete' = IF Checked(file, first) # 0
                                 /\ Completes(Checked(file, first), Numbers(held'[file]))
                            THEN complete \cup {file} ELSE complete
      PROVE  /\ held' \in [Files -> SUBSET Records] /\ final' \in [Files -> Nat]
             /\ complete \subseteq complete' /\ complete' \subseteq complete \cup {file}
             /\ \A f \in Files : FileExact(f)'
             /\ \A f \in Files : Numbers(held[f]) \subseteq Numbers(held'[f])
  <2>1. /\ held'[file] = held[file] \cup got
        /\ held' \in [Files -> SUBSET Records] /\ final' \in [Files -> Nat]
        /\ \A f \in Files \ {file} : held'[f] = held[f] /\ final'[f] = final[f]
        /\ final'[file] # 0 => \E r \in held'[file] : r.last /\ r.no = final'[file]
        /\ held'[file] \subseteq Own(file) =>
             final'[file] = IF Chunks[file] \in Numbers(held'[file]) THEN Chunks[file] ELSE 0
    BY <1>0, <1>3, AppendBounds
  <2>2. complete \subseteq complete' /\ complete' \subseteq complete \cup {file}
    BY <1>3
  <2>3. \A f \in Files : Numbers(held[f]) \subseteq Numbers(held'[f])
    BY <2>1 DEF Numbers
  <2>4. ASSUME file \in complete'
        PROVE  \E r \in held'[file] : r.last /\ 1..r.no \subseteq Numbers(held'[file])
    <3>1. Checked(file, first) # 0 /\ 1..Checked(file, first) \subseteq Numbers(held'[file])
      BY <1>3, <2>4 DEF Completes
    <3>2. \E r \in held[file] \cup got : r.last /\ r.no = Checked(file, first)
      <4>1. CASE final[file] # 0
        BY <1>0, <4>1 DEF FileExact, Checked
      <4>2. CASE final[file] = 0
        <5>1. first.last /\ Checked(file, first) = first.no
          BY <3>1, <4>2 DEF Checked
        <5>2. first \in got
          BY <5>1 DEF Given, Zeros
        <5> QED
          BY <5>1, <5>2
      <4> QED
        BY <4>1, <4>2
    <3> QED
      BY <2>1, <3>1, <3>2
  <2>5. FileExact(file)'
    <3>1. file \in complete' /\ ~(\E r \in held'[file] : ~r.whole) =>
            \E r \in held'[file] : r.last /\ 1..r.no \subseteq Numbers(held'[file])
      BY <2>4
    <3> QED
      BY <2>1, <3>1 DEF FileExact, Clean, Garbled
  <2>6. ASSUME NEW f \in Files \ {file}
        PROVE  FileExact(f)'
    <3>1. FileExact(f) /\ held'[f] = held[f] /\ final'[f] = final[f]
          /\ (f \in complete' <=> f \in complete)
      BY <1>0, <2>1, <2>2
    <3> QED
      BY <3>1 DEF FileExact, Clean, Garbled
  <2> QED
    BY <2>1, <2>2, <2>3, <2>5, <2>6
<1> QED
  BY <1>1, <1>2, <1>3 DEF Save

\* A chunk of the file, whole, keeps its part file sound, and is held then.
LEMMA SaveOwn ==
  ASSUME TypeOK, Counted, CompleteExact, Sound(file), NEW n \in 1..Chunks[file],
         Save(file, Whole(file, n), {Whole(file, n)}), file' = file
  PROVE  Sound(file)' /\ (file \notin complete' => n \in Numbers(held'[file]))
<1> DEFINE r == Whole(file, n)
<1>0. /\ file \in Files /\ FileExact(file) /\ Clean(file) /\ held[file] \subseteq Own(file)
      /\ r \in Own(file) /\ r.no = n /\ r \in Records /\ Given(r, {r})
  <2>1. file \in Files
    BY DEF TypeOK
  <2>2. r \in Own(file) /\ r.no = n /\ r \in Records
    BY <2>1, RecordFacts DEF Whole, Record
  <2> QED
    BY <2>1, <2>2 DEF CompleteExact, Sound, Clean, Given
<1>1. ~Garbled(file)
  BY <1>0, RecordFacts DEF Garbled
<1>2. CASE file \in complete \/ n \in Numbers(held[file])
  <2>1. UNCHANGED storage
    BY <1>0, <1>1, <1>2 DEF Save
  <2> QED
    BY <1>2, <2>1 DEF storage, Sound, Clean
<1>3. CASE file \notin complete /\ n \notin Numbers(held[file])
  <2>1. /\ Append(file, r, {r})
        /\ complete' = IF Checked(file, r) # 0
                            /\ Completes(Checked(file, r), Numbers(held'[file]))
                       THEN complete \cup {file} ELSE complete
    BY <1>0, <1>1, <1>3 DEF Save
  <2>2. held'[file] = held[file] \cup {r}
    BY <1>0, <2>1, AppendBounds
  <2>3. Clean(file)' /\ n \in Numbers(held'[file])
    BY <1>0, <2>2 DEF Clean, Numbers
  <2>4. ASSUME held'[file] = Own(file)
        PROVE  file \in complete'
    <3>1. Chunks[file] \in Nat \ {0} /\ Chunks[file] \in 1..Chunks[file]
      BY <1>0, DownloadAssumption
    <3>2. 1..Chunks[file] \subseteq Numbers(held'[file])
      BY <1>0, <2>4, OwnNumbers
    <3>3. Checked(file, r) = Chunks[file]
      <4>1. CASE Chunks[file] \in Numbers(held[file])
        BY <1>0, <3>1, <4>1 DEF FileExact, Checked
      <4>2. CASE Chunks[file] \notin Numbers(held[file])
        <5>1. final[file] = 0
          BY <1>0, <4>2 DEF FileExact
        <5>2. n = Chunks[file]
          BY <1>0, <2>2, <3>1, <3>2, <4>2 DEF Numbers
        <5>3. r.last
          BY <1>0, <5>2, RecordFacts
        <5> QED
          BY <1>0, <5>1, <5>2, <5>3 DEF Checked
      <4> QED
        BY <4>1, <4>2
    <3> QED
      BY <2>1, <3>1, <3>2, <3>3 DEF Completes
  <2> QED
    BY <2>3, <2>4 DEF Sound, Clean
<1> QED
  BY <1>2, <1>3

\* The three ways a connection ends, and the fourth, in which the process does.
Received(first, got) ==
  /\ phase = "recv" /\ phase' = "inform"
  /\ Given(first, got)
  /\ Save(file, first, got) /\ done' = done \cup {entry.chunk}
  /\ healthy' \in {healthy, FALSE}
  /\ healthy' => /\ first = Whole(file, entry.chunk) /\ got = {first}
                 /\ entry.chunk \in 1..Chunks[file]
  /\ UNCHANGED <<file, sent, armed, peer_list, slots, entry, outcome, up, downloads, fresh>>

Crashed(first, got) ==
  /\ phase = "recv" /\ phase' = "menu" /\ peer_list' = {} /\ outcome' = "aborted"
  /\ healthy' = FALSE
  /\ Given(first, got)
  /\ \/ Save(file, first, got)
     \/ file \notin complete /\ Append(file, first, got) /\ UNCHANGED complete
  /\ UNCHANGED <<file, sent, armed, slots, done, entry, up, downloads, fresh>>

Arrived == \E first, got : Received(first, got) \/ Crashed(first, got)

LEMMA ReceiveCases ==
  ASSUME TypeOK, Receive
  PROVE  Arrived
<1>0. file \in Files /\ \A g \in Files : \A r \in Own(g) : r.no \in 1..Chunks[g]
  BY RecordFacts DEF TypeOK
<1>1. CASE ReceiveChunk
  <2> DEFINE r == Whole(file, entry.chunk)
  <2>1. r \in Records /\ r.no = entry.chunk /\ r.of = file
    BY <1>1 DEF ReceiveChunk, Arrives, Whole, Record
  <2>2. entry.chunk \in 1..Chunks[file]
    BY <2>1, RecordFacts
  <2>3. Received(r, {r})
    BY <1>1, <2>1, <2>2 DEF ReceiveChunk, Received, Given, Marked, history
  <2> QED
    BY <2>3 DEF Arrived
<1>2. CASE ReceiveNothing
  <2>1. Received(Zeros, {})
    BY <1>2 DEF ReceiveNothing, Received, Given, Marked, Unanswered
  <2> QED
    BY <2>1 DEF Arrived
<1>3. ASSUME NEW first \in Records, NEW next \in Records, ReceiveOther(first, next)
      PROVE  Arrived
  <2>1. Given(first, {first, next})
    BY DEF Given
  <2>2. Received(first, {first, next})
    BY <1>3, <2>1 DEF ReceiveOther, Arrives, Received, Marked
  <2> QED
    BY <2>2 DEF Arrived
<1>4. ASSUME NEW first \in Records \cup {Zeros}, NEW next \in Records \cup {Zeros},
             SaveCrashes(first, next)
      PROVE  Arrived
  <2> DEFINE got == {first, next} \ {Zeros}
  <2>1. Given(first, got)
    <3>1. Zeros \notin Records
      BY RecordFacts DEF Zeros
    <3> QED
      BY <1>4, <3>1 DEF SaveCrashes, Arrives, Given
  <2>2. Crashed(first, got)
    BY <1>4, <2>1 DEF SaveCrashes, Crashed
  <2> QED
    BY <2>2 DEF Arrived
<1> QED
  BY <1>1, <1>2, <1>3, <1>4 DEF Receive

\* Everything else leaves the storage alone.
Elsewhere ==
  \/ \E f \in Files : StartDownload(f)
  \/ SendRequest
  \/ \E S \in SUBSET Sources : ReplyArrives(S)
  \/ Timeout \/ SelectFails \/ RecvfromFails
  \/ \E e \in peer_list : Skip(e) \/ ConnectFails(e) \/ Connect(e) \/ OutOfRange(e)
  \/ Inform \/ NoEntryLeft
  \/ \E s \in Sources : GoDown(s) \/ ComeUp(s)

LEMMA NextCases ==
  ASSUME TypeOK, Next
  PROVE  Elsewhere \/ Arrived
<1>1. CASE Receive
  BY <1>1, ReceiveCases
<1>2. CASE OwnStep
  BY <1>2 DEF OwnStep, Elsewhere
<1> QED
  BY <1>1, <1>2 DEF Next, ClientStep, Elsewhere

LEMMA ElsewhereKeeps ==
  ASSUME TypeOK, Counted, Elsewhere
  PROVE  /\ UNCHANGED storage
         /\ file' \in Files /\ sent' \in 0..3 /\ armed' \in BOOLEAN
         /\ up' \subseteq Sources
         /\ downloads' \in 0..MaxDownloads
         /\ phase' # "menu" => downloads' # 0 /\ outcome' = "none"
         /\ file' # file => outcome' = "none"
<1>0. /\ MaxDownloads \in Nat /\ downloads \in 0..MaxDownloads
      /\ file \in Files /\ sent \in 0..3 /\ armed \in BOOLEAN /\ up \subseteq Sources
      /\ phase # "menu" => downloads # 0 /\ outcome = "none"
  BY DownloadAssumption DEF TypeOK, Counted
<1>1. CASE \E f \in Files : StartDownload(f)
  <2>1. /\ downloads < MaxDownloads /\ downloads' = downloads + 1
        /\ file' \in Files /\ sent' = 0 /\ armed' = TRUE /\ outcome' = "none"
        /\ UNCHANGED <<held, final, complete, up>>
    BY <1>1 DEF StartDownload, storage
  <2>2. downloads' \in 0..MaxDownloads /\ downloads' # 0
    BY <1>0, <2>1
  <2> QED
    BY <1>0, <2>1, <2>2 DEF storage
<1>2. CASE SendRequest
  BY <1>0, <1>2 DEF SendRequest, history
<1>3. CASE \E S \in SUBSET Sources : ReplyArrives(S)
  BY <1>0, <1>3 DEF ReplyArrives
<1>4. CASE Timeout \/ SelectFails \/ RecvfromFails
  BY <1>0, <1>4 DEF Timeout, SelectFails, RecvfromFails, history
<1>5. CASE \E e \in peer_list : Skip(e) \/ ConnectFails(e) \/ Connect(e) \/ OutOfRange(e)
  <2> PICK e \in peer_list : Skip(e) \/ ConnectFails(e) \/ Connect(e) \/ OutOfRange(e)
    BY <1>5
  <2>1. phase = "loop" /\ UNCHANGED <<storage, file, sent, armed, up, downloads>>
    BY DEF Skip, ConnectFails, Connect, OutOfRange, Draw, history
  <2>2. phase' # "menu" => outcome' = outcome
    BY DEF Skip, ConnectFails, Connect, OutOfRange
  <2> QED
    BY <1>0, <2>1, <2>2
<1>6. CASE Inform \/ NoEntryLeft
  BY <1>0, <1>6 DEF Inform, NoEntryLeft, history
<1>7. CASE \E s \in Sources : GoDown(s) \/ ComeUp(s)
  BY <1>0, <1>7 DEF GoDown, ComeUp, client, storage, history
<1> QED
  BY <1>1, <1>2, <1>3, <1>4, <1>5, <1>6, <1>7 DEF Elsewhere

LEMMA TypeStep ==
  ASSUME TypeOK, Counted, CompleteExact, Next
  PROVE  TypeOK' /\ Counted'
<1>1. ASSUME NEW first, NEW got, Received(first, got) \/ Crashed(first, got)
      PROVE  TypeOK' /\ Counted'
  <2>1. /\ held' \in [Files -> SUBSET Records] /\ final' \in [Files -> Nat]
        /\ complete' \subseteq Files
    <3>1. file \in Files /\ complete \subseteq Files
      BY DEF TypeOK
    <3> QED
      BY <1>1, <3>1, SaveBounds DEF Received, Crashed
  <2>2. IsFiniteSet(peer_list')
    BY <1>1, FS_EmptySet DEF Received, Crashed, Counted
  <2> QED
    BY <1>1, <2>1, <2>2 DEF Received, Crashed, TypeOK, Counted
<1>2. CASE Elsewhere
  <2>1. /\ UNCHANGED <<held, final, complete>> /\ up' \subseteq Sources
        /\ file' \in Files /\ sent' \in 0..3 /\ armed' \in BOOLEAN
        /\ downloads' \in 0..MaxDownloads
        /\ phase' # "menu" => downloads' # 0 /\ outcome' = "none"
    BY <1>2, ElsewhereKeeps DEF storage
  <2>2. /\ phase' \in {"menu", "ask", "select", "loop", "recv", "inform"}
        /\ outcome' \in {"none", "no reply", "aborted", "complete", "incomplete"}
    BY <1>2 DEF Elsewhere, StartDownload, SendRequest, ReplyArrives, Timeout, SelectFails,
         RecvfromFails, Skip, ConnectFails, Connect, OutOfRange, Draw, Inform, NoEntryLeft,
         GoDown, ComeUp, client, TypeOK
  <2>3. slots' \in Nat /\ IsFiniteSet(peer_list') /\ \A e \in peer_list' :
          e.file \in Files /\ e.src \in Sources /\ e.round \in 1..MaxDownloads
    <3>1. CASE \E S \in SUBSET Sources : ReplyArrives(S)
      <4> PICK S \in SUBSET Sources : ReplyArrives(S)
        BY <3>1
      <4>1. downloads \in 1..MaxDownloads /\ file \in Files
        BY DEF ReplyArrives, Counted, TypeOK
      <4>2. peer_list' = peer_list \cup Listing(file, S, downloads)
            /\ slots' = Cardinality(peer_list') + 1
        BY DEF ReplyArrives, Slots
      <4>3. IsFiniteSet(Listing(file, S, downloads))
        BY <4>1, ListingBounds
      <4>4. IsFiniteSet(peer_list')
        BY <4>2, <4>3, FS_Union DEF Counted
      <4>5. slots' \in Nat
        <5>1. Cardinality(peer_list') \in Nat
          BY <4>4, FS_CardinalityType
        <5> QED
          BY <4>2, <5>1
      <4>6. \A e \in Listing(file, S, downloads) :
              e.file \in Files /\ e.src \in Sources /\ e.round \in 1..MaxDownloads
        BY <4>1, ListingBounds
      <4> QED
        BY <4>2, <4>4, <4>5, <4>6 DEF TypeOK
    <3>2. CASE peer_list' \subseteq peer_list /\ slots' = slots
      <4>1. IsFiniteSet(peer_list')
        BY <3>2, FS_Subset DEF Counted
      <4> QED
        BY <3>2, <4>1 DEF TypeOK
    <3>3. (peer_list' \subseteq peer_list /\ slots' = slots) \/ \E S \in SUBSET Sources : ReplyArrives(S)
      BY <1>2 DEF Elsewhere, StartDownload, SendRequest, Timeout, SelectFails,
           RecvfromFails, Skip, ConnectFails, Connect, OutOfRange, Draw, Undrawn, Inform,
           NoEntryLeft, GoDown, ComeUp, client
    <3> QED
      BY <3>1, <3>2, <3>3
  <2> QED
    BY <2>1, <2>2, <2>3 DEF TypeOK, Counted
<1> QED
  BY <1>1, <1>2, NextCases DEF Arrived

-----------------------------------------------------------------------------
(* The invariants.                                                         *)

LEMMA CompleteStep ==
  ASSUME TypeOK, Counted, CompleteExact, Next
  PROVE  CompleteExact'
<1>1. ASSUME NEW first, NEW got, Received(first, got) \/ Crashed(first, got)
      PROVE  CompleteExact'
  <2>1. \A f \in Files : FileExact(f)'
    BY <1>1, SaveBounds DEF Received, Crashed
  <2>2. healthy' => Sound(file)'
    BY <1>1, SaveOwn DEF Received, Crashed, CompleteExact
  <2>3. outcome' = "complete" => file' \in complete'
    BY <1>1, SaveBounds DEF Received, Crashed, CompleteExact
  <2> QED
    BY <2>1, <2>2, <2>3 DEF CompleteExact
<1>2. CASE Elsewhere
  <2>1. UNCHANGED <<held, final, complete>> /\ (file' # file => outcome' = "none")
    BY <1>2, ElsewhereKeeps DEF storage
  <2>2. outcome' = "complete" => outcome = "complete" \/ file \in complete
    BY <1>2 DEF Elsewhere, StartDownload, SendRequest, ReplyArrives, Timeout, SelectFails,
         RecvfromFails, Skip, ConnectFails, Connect, OutOfRange, Inform, NoEntryLeft,
         GoDown, ComeUp, client
  <2>3. \A f \in Files : FileExact(f)'
    BY <2>1 DEF CompleteExact, FileExact, Clean, Garbled
  <2>4. healthy' => Sound(file)'
    <3>1. CASE \E f \in Files : StartDownload(f)
      BY <2>1, <3>1 DEF StartDownload, Sound, Clean
    <3>2. CASE ~\E f \in Files : StartDownload(f)
      <4>1. file' = file /\ (healthy' => healthy)
        <5>1. CASE \E S \in SUBSET Sources : ReplyArrives(S)
          BY <5>1 DEF ReplyArrives
        <5>2. CASE SendRequest \/ Timeout \/ Inform \/ NoEntryLeft
          BY <5>2 DEF SendRequest, Timeout, Inform, NoEntryLeft, history
        <5>3. CASE SelectFails \/ RecvfromFails
          <6>1. UNCHANGED <<file, history>>
            BY <5>3 DEF SelectFails, RecvfromFails
          <6> QED
            BY <6>1 DEF history
        <5>4. CASE \E e \in peer_list : Skip(e) \/ ConnectFails(e) \/ Connect(e) \/ OutOfRange(e)
          BY <5>4 DEF Skip, ConnectFails, Connect, OutOfRange, history
        <5>5. CASE \E s \in Sources : GoDown(s) \/ ComeUp(s)
          BY <5>5 DEF GoDown, ComeUp, client, history
        <5> QED
          BY <1>2, <3>2, <5>1, <5>2, <5>3, <5>4, <5>5 DEF Elsewhere
      <4> QED
        BY <2>1, <4>1 DEF CompleteExact, Sound, Clean
    <3> QED
      BY <3>1, <3>2
  <2>5. outcome' = "complete" => file' \in complete'
    BY <2>1, <2>2 DEF CompleteExact
  <2> QED
    BY <2>3, <2>4, <2>5 DEF CompleteExact
<1> QED
  BY <1>1, <1>2, NextCases DEF Arrived

LEMMA TableStep ==
  ASSUME TypeOK, Counted, TableFits, Next
  PROVE  TableFits'
<1>1. ASSUME NEW first, NEW got, Received(first, got) \/ Crashed(first, got)
      PROVE  TableFits'
  BY <1>1 DEF Received, Crashed, TableFits, Under, InRange
<1>2. CASE Elsewhere
  <2>1. ASSUME NEW f \in Files, StartDownload(f)
        PROVE  TableFits'
    BY <2>1 DEF StartDownload, TableFits, Under
  <2>2. ASSUME NEW S \in SUBSET Sources, ReplyArrives(S)
        PROVE  TableFits'
    <3>1. /\ fresh' = fresh /\ phase = "select" /\ phase' = "loop"
          /\ peer_list' = peer_list \cup Listing(file, S, downloads)
          /\ slots' = Cardinality(peer_list') + 1 /\ file \in Files
      BY <2>2 DEF ReplyArrives, Slots, TypeOK
    <3> SUFFICES ASSUME fresh, NEW e \in peer_list'
                 PROVE  e.chunk < slots'
      BY <3>1 DEF TableFits, InRange, Under
    <3>2. peer_list' = Listing(file, S, downloads)
      BY <3>1 DEF TableFits
    <3>3. e.chunk \in Nat /\ e.chunk <= Cardinality(peer_list')
      <4>1. \A d \in Listing(file, S, downloads) :
              d.chunk \in Nat /\ d.chunk <= Cardinality(Listing(file, S, downloads))
        BY <3>1, ListingBounds
      <4> QED
        BY <3>2, <4>1
    <3>4. Cardinality(peer_list') \in Nat
      BY <3>1, <3>2, ListingBounds, FS_CardinalityType
    <3> QED
      BY <3>1, <3>3, <3>4
  <2>3. ASSUME peer_list' \subseteq peer_list, slots' = slots, fresh' = fresh,
               phase' \in Under => phase \in Under,
               phase' \in {"ask", "select"} => phase \in {"ask", "select"}
        PROVE  TableFits'
    BY <2>3 DEF TableFits, InRange
  <2>4. CASE SendRequest \/ Timeout \/ SelectFails \/ RecvfromFails \/ Inform \/ NoEntryLeft
    BY <2>3, <2>4 DEF SendRequest, Timeout, SelectFails, RecvfromFails, Inform, NoEntryLeft,
         history, Under
  <2>5. CASE \E e \in peer_list : Skip(e) \/ ConnectFails(e) \/ Connect(e) \/ OutOfRange(e)
    BY <2>3, <2>5 DEF Skip, ConnectFails, Connect, OutOfRange, Draw, Undrawn, history, Under
  <2>6. CASE \E s \in Sources : GoDown(s) \/ ComeUp(s)
    BY <2>3, <2>6 DEF GoDown, ComeUp, client, history
  <2> QED
    BY <1>2, <2>1, <2>2, <2>4, <2>5, <2>6 DEF Elsewhere
<1> QED
  BY <1>1, <1>2, NextCases DEF Arrived

\* Drawing an entry loses no chunk: it is marked, or being received, or the draw failed.
LEMMA MissedStep ==
  ASSUME TypeOK, Counted, CompleteExact, TableFits, NothingMissed, Next
  PROVE  NothingMissed'
<1>1. ASSUME NEW first, NEW got, Received(first, got) \/ Crashed(first, got)
      PROVE  NothingMissed'
  <2>1. CASE ~healthy' \/ Crashed(first, got)
    BY <2>1 DEF Crashed, NothingMissed, Under
  <2>2. CASE healthy' /\ Received(first, got)
    <3> SUFFICES ASSUME fresh
                 PROVE  /\ \A c \in 1..Chunks[file] :
                             c \in done' \/ \E e \in peer_list : e.chunk = c
                        /\ file \notin complete' => done' \subseteq Numbers(held'[file])
      BY <2>2 DEF Received, NothingMissed
    <3>1. /\ complete \subseteq complete' /\ file \in Files
          /\ Numbers(held[file]) \subseteq Numbers(held'[file])
      <4>1. file \in Files
        BY DEF TypeOK
      <4> QED
        BY <2>2, <4>1, SaveBounds DEF Received
    <3>2. healthy /\ Sound(file)
      BY <2>2 DEF Received, CompleteExact
    <3>3. file \notin complete' => entry.chunk \in Numbers(held'[file])
      BY <2>2, <3>2, SaveOwn DEF Received
    <3>4. /\ \A c \in 1..Chunks[file] :
               c \in done \/ (\E e \in peer_list : e.chunk = c) \/ entry.chunk = c
          /\ file \notin complete => done \subseteq Numbers(held[file])
      BY <2>2, <3>2 DEF Received, NothingMissed, Under
    <3> QED
      BY <2>2, <3>1, <3>3, <3>4 DEF Received
  <2> QED
    BY <1>1, <2>1, <2>2
<1>2. CASE Elsewhere
  <2>0. UNCHANGED <<held, complete>>
    BY <1>2, ElsewhereKeeps DEF storage
  <2>1. CASE \E f \in Files : StartDownload(f)
    BY <2>1 DEF StartDownload, NothingMissed, Under
  <2>2. CASE SendRequest \/ Timeout \/ SelectFails \/ RecvfromFails \/ NoEntryLeft
    BY <2>2 DEF SendRequest, Timeout, SelectFails, RecvfromFails, NoEntryLeft, NothingMissed,
         Under
  <2>3. ASSUME NEW S \in SUBSET Sources, ReplyArrives(S)
        PROVE  NothingMissed'
    <3>1. /\ file' = file /\ phase' = "loop" /\ done' = {}
          /\ Listing(file, S, downloads) \subseteq peer_list'
          /\ healthy' => \A c \in 1..Chunks[file] :
                           \E e \in Listing(file, S, downloads) : e.chunk = c
      BY <2>3 DEF ReplyArrives
    <3> QED
      BY <3>1 DEF NothingMissed
  <2>4. ASSUME NEW e \in peer_list, Skip(e)
        PROVE  NothingMissed'
    <3> SUFFICES ASSUME fresh, healthy
                 PROVE  \A c \in 1..Chunks[file] :
                          c \in done \/ \E d \in peer_list' : d.chunk = c
      BY <2>0, <2>4 DEF Skip, Draw, NothingMissed, Under, history
    <3>1. e.chunk \in done
      BY <2>4 DEF Skip, Draw, MayBeDone, TableFits, Under
    <3>2. peer_list' = peer_list \ {e} /\ phase = "loop"
      BY <2>4 DEF Skip, Draw, Undrawn
    <3> QED
      BY <3>1, <3>2 DEF NothingMissed, Under
  <2>5. ASSUME NEW e \in peer_list, Connect(e)
        PROVE  NothingMissed'
    <3>1. /\ peer_list' = peer_list \ {e} /\ phase = "loop" /\ phase' = "recv" /\ entry' = e
          /\ UNCHANGED <<file, done, fresh, healthy>>
      BY <2>5 DEF Connect, Draw, Undrawn, history
    <3> QED
      BY <2>0, <3>1 DEF NothingMissed, Under
  <2>6. CASE \E e \in peer_list : ConnectFails(e) \/ OutOfRange(e)
    BY <2>6 DEF ConnectFails, OutOfRange, NothingMissed, Under
  <2>7. CASE Inform
    BY <2>0, <2>7 DEF Inform, NothingMissed, Under, history
  <2>8. CASE \E s \in Sources : GoDown(s) \/ ComeUp(s)
    BY <2>8 DEF GoDown, ComeUp, client, storage, history, NothingMissed
  <2> QED
    BY <1>2, <2>1, <2>2, <2>3, <2>4, <2>5, <2>6, <2>7, <2>8 DEF Elsewhere
<1> QED
  BY <1>1, <1>2, NextCases DEF Arrived

LEMMA HealthyStep ==
  ASSUME IInv, Next
  PROVE  HealthyDownloadCompletes'
<1> USE DEF HealthyDownloadCompletes
<1>0. TypeOK /\ Counted /\ CompleteExact /\ NothingMissed /\ HealthyDownloadCompletes
  BY DEF IInv
<1>1. ASSUME NEW first, NEW got, Received(first, got) \/ Crashed(first, got)
      PROVE  HealthyDownloadCompletes'
  BY <1>0, <1>1 DEF Received, Crashed, Counted
<1>2. CASE NoEntryLeft
  <2> SUFFICES ASSUME fresh, healthy
               PROVE  FALSE
    BY <1>2 DEF NoEntryLeft, history
  <2>1. 1..Chunks[file] \subseteq done /\ (file \in complete => done = {})
        /\ (file \notin complete => done \subseteq Numbers(held[file]))
    BY <1>0, <1>2 DEF NoEntryLeft, NothingMissed, Under
  <2>2. file \in Files /\ Chunks[file] \in Nat \ {0} /\ Sound(file)
    BY <1>0, DownloadAssumption DEF TypeOK, CompleteExact
  <2>3. 1 \in 1..Chunks[file]
    BY <2>2
  <2>4. file \notin complete
    BY <2>1, <2>3
  <2>5. held[file] = Own(file)
    <3>1. held[file] \subseteq Own(file)
      BY <2>2 DEF Sound, Clean
    <3> QED
      BY <2>1, <2>2, <2>4, <3>1, OwnNumbers
  <2> QED
    BY <2>2, <2>4, <2>5 DEF Sound
<1>3. CASE Elsewhere /\ ~NoEntryLeft
  BY <1>0, <1>3 DEF Elsewhere, StartDownload, SendRequest, ReplyArrives, Timeout, SelectFails,
       RecvfromFails, Skip, ConnectFails, Connect, OutOfRange, Draw, Inform, GoDown, ComeUp,
       client, history, Counted
<1> QED
  BY <1>0, <1>1, <1>2, <1>3, NextCases DEF Arrived

-----------------------------------------------------------------------------
(* The theorems.                                                           *)

\* The inductive invariant of a download: where each chunk of the file is between the
\* reply of the tracker and the last entry.
THEOREM Invariance == Spec => []IInv
<1>1. Init => IInv
  <2> SUFFICES ASSUME Init
               PROVE  IInv
    OBVIOUS
  <2>1. TypeOK /\ Counted
    <3>1. MaxDownloads \in Nat /\ Chunks \in [Files -> Nat \ {0}]
      BY DownloadAssumption
    <3>2. held \in [Files -> SUBSET Records] /\ final \in [Files -> Nat]
      <4>1. \A f \in Files : Own(f) \subseteq Records
        BY RecordFacts
      <4>2. held \in [Files -> SUBSET Records]
        BY <4>1 DEF Init, Clean
      <4> QED
        BY <3>1, <4>2 DEF Init
    <3>3. IsFiniteSet(peer_list)
      BY FS_EmptySet DEF Init
    <3> QED
      BY <3>1, <3>2, <3>3 DEF Init, TypeOK, Counted
  <2>2. CompleteExact
    <3>1. ASSUME NEW f \in Files
          PROVE  FileExact(f)
      <4>1. held[f] \subseteq Own(f) /\ f \notin complete
            /\ final[f] = IF Chunks[f] \in Numbers(held[f]) THEN Chunks[f] ELSE 0
        BY DEF Init, Clean
      <4>2. Chunks[f] \in Numbers(held[f]) => \E r \in held[f] : r.last /\ r.no = Chunks[f]
        BY <4>1, RecordFacts DEF Numbers
      <4> QED
        BY <4>1, <4>2 DEF FileExact
    <3> QED
      BY <3>1 DEF Init, CompleteExact, Sound
  <2>3. TableFits /\ NothingMissed /\ HealthyDownloadCompletes
    BY DEF Init, TableFits, NothingMissed, HealthyDownloadCompletes, Under
  <2> QED
    BY <2>1, <2>2, <2>3 DEF IInv
<1>2. IInv /\ [Next]_vars => IInv'
  <2> SUFFICES ASSUME IInv, [Next]_vars
               PROVE  IInv'
    OBVIOUS
  <2>1. CASE Next
    <3>1. TypeOK' /\ Counted' /\ CompleteExact'
      BY <2>1, TypeStep, CompleteStep DEF IInv
    <3>2. TableFits' /\ NothingMissed' /\ HealthyDownloadCompletes'
      BY <2>1, TableStep, MissedStep, HealthyStep DEF IInv
    <3> QED
      BY <3>1, <3>2 DEF IInv
  <2>2. CASE UNCHANGED vars
    <3> USE <2>2 DEF vars, client, storage, history, IInv
    <3>1. TypeOK' /\ Counted'
      BY DEF TypeOK, Counted
    <3>2. CompleteExact' /\ HealthyDownloadCompletes'
      BY DEF CompleteExact, FileExact, Sound, Clean, Garbled, HealthyDownloadCompletes
    <3>3. TableFits' /\ NothingMissed'
      BY DEF TableFits, NothingMissed, InRange
    <3> QED
      BY <3>1, <3>2, <3>3
  <2> QED
    BY <2>1, <2>2
<1> QED
  BY <1>1, <1>2, PTL DEF Spec

\* Type correctness of the download.
THEOREM TypeCorrect == Spec => []TypeOK
<1>1. IInv => TypeOK
  BY DEF IInv
<1> QED
  BY <1>1, Invariance, PTL

\* download_file indexes check_downloaded_chunks within its size if peer_list was empty
\* when it started, for any announcements of any number of sources.
THEOREM TableIsLargeEnough == Spec => []IndexInRange
<1>1. IInv => IndexInRange
  BY DEF IInv, TableFits, IndexInRange, Under
<1> QED
  BY <1>1, Invariance, PTL

\* A download in which nothing fails and every chunk is listed does not end incomplete,
\* in whatever order choose_random_server draws.
THEOREM HealthyDownloadsComplete == Spec => []HealthyDownloadCompletes
<1>1. IInv => HealthyDownloadCompletes
  BY DEF IInv
<1> QED
  BY <1>1, Invariance, PTL

\* What a reported success is worth: every chunk of the file if nothing but chunks of
\* the file was ever saved under its name, whichever of them came together; with other
\* files' chunks among them, the numbers up to that of some final chunk; and nothing
\* once recv returned a part of a chunk.
THEOREM CompleteDownloadsAreWhole ==
  Spec => [](/\ CompleteIsWhole
             /\ outcome = "complete" /\ Clean(file) => held[file] = Own(file))
<1>1. ASSUME IInv
      PROVE  /\ CompleteIsWhole
             /\ outcome = "complete" /\ Clean(file) => held[file] = Own(file)
  <2>1. CompleteIsWhole
    BY <1>1 DEF IInv, TypeOK, CompleteExact, FileExact, CompleteIsWhole
  <2>2. ASSUME outcome = "complete", Clean(file)
        PROVE  held[file] = Own(file)
    <3>1. file \in Files /\ held[file] \subseteq Own(file)
      BY <1>1, <2>2 DEF IInv, TypeOK, Clean
    <3>2. ~Garbled(file)
      BY <3>1, RecordFacts DEF Garbled
    <3>3. PICK r \in held[file] : r.last /\ 1..r.no \subseteq Numbers(held[file])
      BY <2>1, <2>2, <3>2 DEF CompleteIsWhole
    <3>4. r.no = Chunks[file]
      BY <3>1, <3>3, RecordFacts
    <3> QED
      BY <3>1, <3>3, <3>4, OwnNumbers
  <2> QED
    BY <2>1, <2>2
<1> QED
  BY <1>1, Invariance, PTL

-----------------------------------------------------------------------------
(* A download comes to its end: with the fairness of FairSpec this is what *)
(* DownloadsEnd rests on.                                                  *)

\* The request is sent twice at most: the second select, on a set that the timeout of
\* the first emptied, fails at once.  The test of sent_pkt_count against 3 never holds.
RequestsCounted ==
  /\ phase = "ask" => sent = IF armed THEN 0 ELSE 1
  /\ phase = "select" => sent = IF armed THEN 1 ELSE 2

\* How far the request to the tracker is from its end, and the loop over the entries.
AskRank == (2 - sent) + (IF armed THEN 1 ELSE 0)
LoopRank ==
  3 * Cardinality(peer_list) +
    (CASE phase = "recv" -> 2 [] phase = "inform" -> 1 [] OTHER -> 0)

Asking == phase \in {"ask", "select"}
Drawing == phase \in Under

NearsItsEnd ==
  \/ phase' = "menu"
  \/ Asking /\ Asking' /\ AskRank' \in Nat /\ AskRank' < AskRank
  \/ Asking /\ Drawing'
  \/ Drawing /\ Drawing' /\ LoopRank' \in Nat /\ LoopRank' < LoopRank

LEMMA RequestsCountedStep ==
  ASSUME TypeOK, RequestsCounted, [Next]_vars
  PROVE  RequestsCounted'
<1>1. ASSUME NEW f \in Files, StartDownload(f)
      PROVE  RequestsCounted'
  BY <1>1 DEF StartDownload, RequestsCounted
<1>2. CASE SendRequest
  BY <1>2 DEF SendRequest, RequestsCounted
<1>3. CASE Timeout
  BY <1>3 DEF Timeout, RequestsCounted
<1>4. CASE UNCHANGED vars \/ \E s \in Sources : GoDown(s) \/ ComeUp(s)
  BY <1>4 DEF vars, client, GoDown, ComeUp, RequestsCounted
<1>5. CASE \E S \in SUBSET Sources : ReplyArrives(S)
  BY <1>5 DEF ReplyArrives, RequestsCounted
<1>6. CASE SelectFails \/ RecvfromFails \/ Inform \/ NoEntryLeft
  BY <1>6 DEF SelectFails, RecvfromFails, Inform, NoEntryLeft, RequestsCounted
<1>7. CASE \E e \in peer_list : Skip(e) \/ ConnectFails(e) \/ Connect(e) \/ OutOfRange(e)
  BY <1>7 DEF Skip, ConnectFails, Connect, OutOfRange, Draw, RequestsCounted
<1>8. CASE Receive
  BY <1>8 DEF Receive, ReceiveChunk, ReceiveNothing, ReceiveOther, SaveCrashes, Marked,
       RequestsCounted
<1> QED
  BY <1>1, <1>2, <1>3, <1>4, <1>5, <1>6, <1>7, <1>8 DEF Next, ClientStep, OwnStep

\* Every step of download_file is one of the two requests, ends the request, draws an
\* entry that no later step puts back, or carries on with the connection.
LEMMA StepNearsItsEnd ==
  ASSUME TypeOK, Counted, RequestsCounted, ClientStep
  PROVE  NearsItsEnd
<1> USE DEF Asking, Drawing, Under
<1>0. Cardinality(peer_list) \in Nat
  BY FS_CardinalityType DEF Counted
<1>1. CASE SendRequest
  BY <1>1 DEF SendRequest, RequestsCounted, AskRank, NearsItsEnd
<1>2. CASE \E S \in SUBSET Sources : ReplyArrives(S)
  BY <1>2 DEF ReplyArrives, NearsItsEnd
<1>3. CASE Timeout
  BY <1>3 DEF Timeout, RequestsCounted, AskRank, NearsItsEnd
<1>4. CASE SelectFails \/ RecvfromFails \/ NoEntryLeft
  BY <1>4 DEF SelectFails, RecvfromFails, NoEntryLeft, NearsItsEnd
<1>5. ASSUME NEW e \in peer_list, Skip(e) \/ ConnectFails(e) \/ Connect(e) \/ OutOfRange(e)
      PROVE  NearsItsEnd
  <2>1. CASE OutOfRange(e)
    BY <2>1 DEF OutOfRange, NearsItsEnd
  <2>2. CASE Skip(e) \/ ConnectFails(e) \/ Connect(e)
    <3>1. peer_list' = peer_list \ {e} /\ phase = "loop" /\ phase' \in {"loop", "recv"}
      BY <2>2 DEF Skip, ConnectFails, Connect, Draw, Undrawn
    <3>2. /\ Cardinality(peer_list') = Cardinality(peer_list) - 1
          /\ IsFiniteSet(peer_list')
      BY <1>5, <3>1, FS_RemoveElement DEF Counted
    <3>3. Cardinality(peer_list') \in Nat
      BY <3>2, FS_CardinalityType
    <3> QED
      BY <1>0, <3>1, <3>2, <3>3 DEF LoopRank, NearsItsEnd
  <2> QED
    BY <1>5, <2>1, <2>2
<1>6. CASE Receive
  <2>1. phase' = "menu" \/ (phase = "recv" /\ phase' = "inform" /\ peer_list' = peer_list)
    BY <1>6 DEF Receive, ReceiveChunk, ReceiveNothing, ReceiveOther, Arrives, SaveCrashes,
         Marked
  <2> QED
    BY <1>0, <2>1 DEF LoopRank, NearsItsEnd
<1>7. CASE Inform
  BY <1>0, <1>7 DEF Inform, LoopRank, NearsItsEnd
<1> QED
  BY <1>1, <1>2, <1>3, <1>4, <1>5, <1>6, <1>7 DEF ClientStep, OwnStep

\* Neither the request with its retry (p2p_client.cpp, the loop around select) nor the
\* loop over the entries can go on for ever: every step of download_file returns to the
\* menu, goes from the request to the loop, or lowers a rank that is never negative.
THEOREM DownloadsNearTheirEnd == Spec => [][ClientStep => NearsItsEnd]_vars
<1>1. Init => RequestsCounted
  BY DEF Init, RequestsCounted
<1>2. IInv /\ RequestsCounted /\ [Next]_vars => RequestsCounted'
  BY RequestsCountedStep DEF IInv
<1>3. IInv /\ RequestsCounted /\ [Next]_vars => [ClientStep => NearsItsEnd]_vars
  BY StepNearsItsEnd DEF IInv
<1> QED
  BY <1>1, <1>2, <1>3, Invariance, PTL DEF Spec
=============================================================================
