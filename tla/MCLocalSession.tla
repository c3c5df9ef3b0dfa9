--------------------------- MODULE MCLocalSession ---------------------------
(* Finite instances of LocalSession for TLC. *)
EXTENDS LocalSession

Symmetry == Permutations(Sessions) \cup Permutations(Callers) \cup Permutations(Hosts)
=============================================================================
