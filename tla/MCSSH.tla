------------------------------- MODULE MCSSH -------------------------------
(* Finite instances of SSH for TLC. *)
EXTENDS SSH
=============================================================================
