--------------------------- MODULE MCRtspServer ---------------------------
(* Model-checking instance of RtspServer. *)
EXTENDS RtspServer, TLC

CONSTANTS c1, c2, c3

MCConn == {c1, c2, c3}
MCThreeEach == [c \in MCConn |-> 3]
MCTwoEach == [c \in MCConn |-> 2]

(* One sender that makes a request, two that only want a slot.             *)
MCOneBusy == [c \in MCConn |-> IF c = c1 THEN 1 ELSE 0]

(* The senders are alike.                                                  *)
MCSymmetry == Permutations(Conn)

(* Of a connection nobody serves any more only the socket can be asked     *)
(* for; an event port task that is gone has no stop flag.                  *)
Served(c) == \E s \in Slot : client[s].conn = c
                             /\ client[s].pc \in {"serve", "start event", "await event"}

LiveSession ==
  [c \in Conn |-> IF Served(c) THEN <<session[c]>> ELSE session[c].socket]

LiveView ==
  <<build, peer, running, server, current, client, slot, LiveSession, services,
    event.conn, EventTaskUp /\ event.stop>>
=============================================================================
