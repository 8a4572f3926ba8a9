-------------------------- MODULE MCTransRoundRobin --------------------------
(* Instances of TransRoundRobin for TLC. *)
EXTENDS MCTransController, TransRoundRobin
=============================================================================
