------------------------------ MODULE MCRelay ------------------------------
(* Instances of Relay for TLC.                                             *)
EXTENDS Relay, TLC

CONSTANTS c1, c2, c3, a, b

\* c3 may come back with the address and the descriptor that c1 had.
MCAddr == c1 :> a @@ c2 :> b @@ c3 :> a
=============================================================================
