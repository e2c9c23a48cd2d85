------------------------------- MODULE MCHub -------------------------------
(***************************************************************************)
(* Small instances of Hub for TLC.                                         *)
(***************************************************************************)
EXTENDS Hub, TLC

CONSTANTS c1, c2, p, q

Symmetry == Permutations(Clients)

\* All connections watch p; messages for q must reach none of them.
OneRoom == [c \in Clients |-> p]
=============================================================================
