-------------------------- MODULE MCAudioReceiver --------------------------
(* Model-checking instance of AudioReceiver. *)
EXTENDS AudioReceiver

(* One offset for each way audio_timing_read can treat a frame, in ms.     *)
MCOffset == {-3000, -100, 0, 100, 20000}

(* A seek back in a stream whose timestamps wrap.                          *)
MCSeekTo == {13}

(* The view drops what no later step can read.  The step sequence of a     *)
(* handler tells which of its arguments it still needs; the timing fields  *)
(* and the gates matter while frames can still come; and the ghost fields  *)
(* matter only for the frames that still exist.                            *)
Ahead(steps) == \E i \in 1..Len(rtsp.todo) : rtsp.todo[i] \in steps
Live(is, x) == IF is THEN x ELSE 0

Waiting == (IF recv.pc = "idle" THEN {} ELSE {recv.frame})
             \cup {wire[i] : i \in 1..Len(wire)}
Alive == queued \cup taken \cup InHand \cup Waiting
           \cup (IF timing.pendingValid THEN {pending} ELSE {})
Before(n) == {f \in Alive : Number(f) < n}

MoreFrames == sender.next < MaxFrames \/ Waiting # {}
MoreSteps == sender.ops < MaxOps \/ rtsp.todo # <<>>

LiveTiming ==
  IF ~MoreFrames /\ Alive = {} THEN timing.playing
  ELSE <<[timing EXCEPT
            !.until = Live(timing.deferred \/ play.pc = "until" \/ Ahead({"arm deferred"}), @),
            !.ready = @ /\ ~timing.anchorValid /\ ~timing.started]>>

LiveGate ==
  IF ~MoreFrames THEN 0
  ELSE [gate EXCEPT !.before = Live(gate.beforeValid, @),
                    !.above = Live(gate.aboveValid, @),
                    !.armNext = @ /\ MoreSteps]

LivePlay ==
  IF play.pc = "idle" THEN <<>>
  ELSE <<play.pc, play.attempt, play.item, play.fromPending,
         IF play.pc = "act" THEN play.verdict ELSE "none">>

LiveRtsp ==
  IF rtsp.todo = <<>> THEN <<>>
  ELSE <<rtsp.todo,
         Live(Ahead({"set until", "detect seek", "arm before", "arm above", "check arm next"}),
              rtsp.rtp),
         IF Ahead({"reset timing", "forget playout"}) THEN Before(rtsp.mark) ELSE {}>>

LiveGhost ==
  <<{f \in Before(ghost.mark) : Number(f) \notin ghost.excused},
    Before(ghost.epoch),
    Before(ghost.last + 1) \ Before(ghost.epoch),
    Live(~timing.playing, ghost.quiet)>>

LiveView ==
  <<queued, taken, IF timing.pendingValid THEN pending ELSE NoFrame, LiveTiming,
    LiveGate, LivePlay, LiveRtsp, recv, wire, sender.next,
    Live(sender.ops < MaxOps \/ sender.next < MaxFrames, sender.at),
    sender.ops, LiveGhost>>
=============================================================================
