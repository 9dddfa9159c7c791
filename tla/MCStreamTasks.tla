--------------------------- MODULE MCStreamTasks ---------------------------
(* Model-checking instance of StreamTasks. *)
EXTENDS StreamTasks
=============================================================================
