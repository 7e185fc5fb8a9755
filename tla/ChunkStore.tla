---------------------------- MODULE ChunkStore ----------------------------
(***************************************************************************)
(* What the storage of one shared file promises to the two kinds of thread *)
(* that use it (storage.h:37-76): chunks are saved one at a time and never *)
(* forgotten, a reader is given exactly a saved chunk or an error, and the *)
(* file becomes complete once, when every chunk has been saved.            *)
(***************************************************************************)
EXTENDS Integers

CONSTANTS
  LastChunk,  \* number of chunks of the file
  Readers,    \* threads that read chunks (one per connection of the server)
  NotFound    \* the error answer of a read

VARIABLES
  held,       \* numbers of the chunks a reader can get
  complete,   \* has the file been completed?
  answer      \* answer[r]: what reader r was last given

storeVars == <<held, complete, answer>>

Numbers == 1..LastChunk

\* Numbers a peer may ask for: the chunks, and one too small and too large.
Asked == 0..(LastChunk + 1)

\* A chunk as it travels between peers: its number, the final flag of its
\* header, and whether its content is the content of the file.
Genuine(n) == [no |-> n, flag |-> IF n = LastChunk THEN "final" ELSE "more", body |-> "whole"]

StoreInit ==
  /\ \/ held = {} /\ complete = FALSE
     \/ held = Numbers /\ complete = TRUE
  /\ answer = [r \in Readers |-> NotFound]

Save(n) ==
  /\ ~complete
  /\ held' = held \cup {n}
  /\ UNCHANGED <<complete, answer>>

Complete ==
  /\ held = Numbers /\ ~complete
  /\ complete' = TRUE
  /\ UNCHANGED <<held, answer>>

\* The user puts the whole file into the folder.
Import ==
  /\ held' = Numbers /\ complete' = TRUE
  /\ UNCHANGED answer

Get(r, n) ==
  /\ answer' = [answer EXCEPT ![r] = IF n \in held THEN Genuine(n) ELSE NotFound]
  /\ UNCHANGED <<held, complete>>

StoreNext ==
  \/ \E n \in Numbers : Save(n)
  \/ Complete
  \/ Import
  \/ \E r \in Readers, n \in Asked : Get(r, n)

StoreSpec == StoreInit /\ [][StoreNext]_storeVars

\* With fairness: a file all of whose chunks are held is eventually complete.
FairStoreSpec == StoreSpec /\ WF_storeVars(Complete)
=============================================================================
