----------------------------- MODULE MCTracker -----------------------------
(* Instances of Tracker for TLC.                                           *)
EXTENDS Tracker, TLC

CONSTANTS p1, p2, f1, f2, a1, a2

MCPeers == {p1, p2}
MCIPs == {a1, a2}
MCPrivateIP == p1 :> a1 @@ p2 :> a2

\* A file of one chunk and a file of two.
MCChunks == f1 :> 1 @@ f2 :> 2
=============================================================================
