---------------------------- MODULE MCDacpClient ----------------------------
(* Model-checking instance of DacpClient. *)
EXTENDS DacpClient

CONSTANTS a, b

MCSource == {a, b}
=============================================================================
