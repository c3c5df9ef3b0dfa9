------------------------------ MODULE MCWinRM ------------------------------
(* Finite instances of WinRM for TLC. *)
EXTENDS WinRM, TLC

Symmetry == Permutations(Callers) \cup Permutations(Attempts)
=============================================================================
