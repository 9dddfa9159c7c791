----------------------------- MODULE MCNtpClock -----------------------------
(* Model-checking instance of NtpClock. *)
EXTENDS NtpClock

MCSender == {"phone", "mac"}
MCSenderOffset == [s \in MCSender |-> IF s = "phone" THEN 0 ELSE 40]
=============================================================================
