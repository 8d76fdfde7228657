--------------------------- MODULE MCSmmRendezvous ---------------------------
(* Values of the constants of SmmRendezvous. *)
EXTENDS SmmRendezvous, TLC

CONSTANTS c1, c2, c3    \* processors

Symmetry == Permutations(CPU)
=============================================================================
