------------------------------ MODULE MCSystem ------------------------------
(* Model-checking instance of System. *)
EXTENDS System
=============================================================================
