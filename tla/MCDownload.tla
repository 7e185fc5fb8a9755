----------------------------- MODULE MCDownload -----------------------------
(* Instances of Download for TLC.                                          *)
EXTENDS Download, TLC

CONSTANTS f, g, s1, s2

\* f has two chunks, g has one.
MCChunks == f :> 2 @@ g :> 1

\* s1 shares both files.  s2 announced f from a part that holds only its second
\* chunk, as upload_file does: one chunk is counted and chunk 1 announced.
MCAnnounced == s1 :> (f :> 2 @@ g :> 1) @@ s2 :> (f :> 1 @@ g :> 0)
MCHas == s1 :> (f :> {1, 2} @@ g :> {1}) @@ s2 :> (f :> {2} @@ g :> {})
=============================================================================
