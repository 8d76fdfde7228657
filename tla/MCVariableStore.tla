--------------------------- MODULE MCVariableStore ---------------------------
(* Instances of VariableStore for TLC: names and data are interchangeable. *)
EXTENDS VariableStore

CONSTANTS n1, n2, n3, n4, v1, v2

MCSymmetry == Permutations(Name) \cup Permutations(Value)
=============================================================================
