------------------------------- MODULE MCCib -------------------------------
(* Instance of CibProperties for TLC. *)
EXTENDS CibProperties, TLC

Symmetry == Permutations(Primitives) \cup Permutations(Groups) \cup Permutations(Sets)
=============================================================================
