---------------------------- MODULE MCPtpClock ----------------------------
(* Model-checking instance of PtpClock. *)
EXTENDS PtpClock

MCMaster == {"phone", "homepod"}
MCOffsetOf == [m \in MCMaster |-> IF m = "phone" THEN 0 ELSE 20]
MCJitter == {-1, 0, 2}
=============================================================================
