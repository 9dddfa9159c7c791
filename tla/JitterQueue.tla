---------------------------- MODULE JitterQueue ----------------------------
(***************************************************************************)
(* What the audio buffer promises, without slots, locks or semaphores: a   *)
(* bounded set of frames from which the player always takes an oldest one, *)
(* and which makes room, when it is full, only by dropping an oldest one.  *)
(***************************************************************************)
EXTENDS RtpTime, FiniteSets

CONSTANTS Frame,     \* identities of frames: the pool slot that stores one
          Capacity   \* frames the queue may hold

VARIABLES queued,    \* frames waiting, as <<frame, timestamp>> pairs
          playing    \* the frame the player works on: at most one pair

queueVars == <<queued, playing>>

(* The frames no other frame of Q precedes.                                *)
Oldest(Q) == {f \in Q : \A g \in Q : TsCmp(g[2], f[2]) >= 0}

Fresh(f, Q) == \A g \in Q \cup playing : g[1] # f[1]

Init == queued = {} /\ playing = {}

(* A frame joins the queue while there is room.                            *)
Enqueue(f) == /\ Cardinality(queued) < Capacity
              /\ Fresh(f, queued)
              /\ queued' = queued \cup {f}
              /\ UNCHANGED playing

(* A frame joins a full queue: an oldest frame leaves to make room.        *)
Replace(f) == /\ Cardinality(queued) = Capacity
              /\ \E old \in Oldest(queued) :
                   /\ Fresh(f, queued \ {old})
                   /\ queued' = (queued \ {old}) \cup {f}
              /\ UNCHANGED playing

(* The player takes an oldest frame.                                       *)
TakeOldest == /\ playing = {}
              /\ \E old \in Oldest(queued) :
                   /\ queued' = queued \ {old}
                   /\ playing' = {old}

(* The player is done with its frame.                                      *)
Release == /\ playing # {}
           /\ playing' = {}
           /\ UNCHANGED queued

(* A flush drops every waiting frame and leaves the player's frame alone.  *)
Clear == queued' = {} /\ UNCHANGED playing

Next == \/ \E f \in Frame \X Timestamp : Enqueue(f) \/ Replace(f)
        \/ TakeOldest
        \/ Release
        \/ Clear

Spec == Init /\ [][Next]_queueVars
=============================================================================
