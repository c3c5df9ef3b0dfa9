------------------------------- MODULE MCCore -------------------------------
(* Finite instances of Core for TLC. *)
EXTENDS Core, TLC

CallSymmetry == Permutations(Calls)
HostSymmetry == Permutations(Hosts)
ToolSymmetry == Permutations(Tools)
Symmetry == CallSymmetry \cup HostSymmetry \cup ToolSymmetry
=============================================================================
