-------------------------- MODULE MCControlServer --------------------------
(* Finite instances of ControlServer for TLC. *)
EXTENDS ControlServer
=============================================================================
