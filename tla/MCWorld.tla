------------------------------ MODULE MCWorld ------------------------------
(* Instances of World for TLC. *)
EXTENDS World
=============================================================================
