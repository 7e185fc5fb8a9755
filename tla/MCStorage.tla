----------------------------- MODULE MCStorage -----------------------------
(* Instances of Storage for TLC.                                           *)
EXTENDS Storage, TLC

\* Threads of the server are interchangeable; used with safety properties only.
ReaderSymmetry == Permutations(Readers)
=============================================================================
