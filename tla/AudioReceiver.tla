--------------------------- MODULE AudioReceiver ---------------------------
(***************************************************************************)
(* The receiving side of one buffered stream: main/audio/audio_timing.c    *)
(* (when a frame is played), main/audio/audio_receiver.c (what the RTSP    *)
(* handlers do to the stream) and audio_stream_process_frame (which frames *)
(* enter the buffer).  Three tasks share one structure without a mutex:    *)
(*   play   the playback task, inside audio_timing_read,                   *)
(*   rtsp   the RTSP client task, inside a handler,                        *)
(*   recv   the stream's receiver task, inside audio_stream_process_frame. *)
(* A step reads or writes what no other task can tell apart from an atomic *)
(* access; a decision and the writes it leads to are two steps.            *)
(*                                                                         *)
(* The audio buffer is the abstract queue that AudioBuffer implements.     *)
(* Frames are <<number, timestamp>> pairs, numbered as they are sent.      *)
(***************************************************************************)
EXTENDS RtpTime, Sequences, FiniteSets

CONSTANTS
  MaxFrames,      \* frames the sender sends
  MaxOps,         \* requests the controller makes
  MaxWire,        \* frames in the sockets on the way
  Capacity,       \* frames at which the receiver stops reading
  Target,         \* target_buffer_frames: frames to wait for at startup
  Attempts,       \* frames one read looks at: 8
  MaxEarly,       \* MAX_CONSECUTIVE_EARLY
  MaxLate,        \* MAX_CONSECUTIVE_LATE
  Offset,         \* how early a frame can be found to be, in ms
  SeekTo,         \* positions the user can seek to
  SeekThreshold,  \* displacement that counts as a seek: 5 s of samples
  GateWindow,     \* height of the gate: 10 s of samples
  StartAt         \* timestamp of the first frame

(* TIMING_THRESHOLD_US, BULK_FLUSH_LATE_THRESHOLD_US and                   *)
(* POST_FLUSH_STALE_THRESHOLD_US, in ms.                                   *)
TimingThreshold == 40
BulkFlushLateThreshold == 2000
PostFlushStaleThreshold == 10000

ASSUME AudioReceiverAssumption ==
  /\ {MaxFrames, MaxOps, MaxWire, Capacity, Target, Attempts} \subseteq Nat \ {0}
  /\ {MaxEarly, MaxLate} \subseteq Nat
  /\ Target <= Capacity
  /\ Offset \subseteq Int
  /\ SeekTo \subseteq Timestamp
  /\ SeekThreshold \in 1..(Half - 1)
  /\ GateWindow \in SeekThreshold..(Half - 1)
  /\ StartAt \in Timestamp

VARIABLES
  queued,    \* the audio buffer: frames waiting
  taken,     \* the frame the playback task took from the buffer
  pending,   \* pending_frame: the frame held back because it is early
  timing,    \* audio_timing_t, the other fields
  gate,      \* the two gates of audio_receiver_state_t
  play,      \* where the playback task stands, and with which frame
  rtsp,      \* what the current handler has left to do, and its arguments
  recv,      \* where the receiver task stands, and with which frame
  wire,      \* frames in the sockets, first to arrive first
  sender,    \* next frame: its number, its timestamp, and requests made
  ghost      \* history the properties speak about; no step reads it

shared == <<queued, taken, pending, timing, gate>>
vars == <<queued, taken, pending, timing, gate, play, rtsp, recv, wire, sender,
          ghost>>

Frame == (0..(MaxFrames - 1)) \X Timestamp

NoFrame == <<>>

Number(f) == f[1]
Stamp(f) == f[2]

Buffer == INSTANCE JitterQueue
            WITH Frame <- 0..(MaxFrames - 1), playing <- taken

(* The frame the playback task works on, if it works on one.               *)
InHand == IF play.item = NoFrame THEN {} ELSE {play.item}

(* The number of the first frame that has not entered the buffer.          *)
NextArrival == IF recv.pc # "idle" THEN Number(recv.frame)
               ELSE IF wire # <<>> THEN Number(Head(wire))
               ELSE sender.next

Max2(a, b) == IF a > b THEN a ELSE b

-----------------------------------------------------------------------------
Init ==
  /\ queued = {} /\ taken = {} /\ pending = NoFrame
  /\ timing = [started |-> FALSE, playing |-> TRUE, anchorValid |-> FALSE,
               pendingValid |-> FALSE, ready |-> FALSE,
               early |-> 0, late |-> 0, postFlush |-> FALSE,
               postFlushStarted |-> FALSE, deferred |-> FALSE, until |-> 0]
  /\ gate = [before |-> 0, beforeValid |-> FALSE,
             above |-> 0, aboveValid |-> FALSE, armNext |-> FALSE]
  /\ play = [pc |-> "idle", item |-> NoFrame, fromPending |-> FALSE,
             attempt |-> 0, verdict |-> "none"]
  /\ rtsp = [todo |-> <<>>, rtp |-> 0, mark |-> 0]
  /\ recv = [pc |-> "idle", frame |-> NoFrame]
  /\ wire = <<>>
  /\ sender = [next |-> 0, at |-> StartAt, ops |-> 0]
  /\ ghost = [mark |-> 0, excused |-> {}, last |-> -1, epoch |-> 0, quiet |-> 0]

-----------------------------------------------------------------------------
(* The playback task: audio_timing_read.                                   *)

StartupWait == ~timing.started /\ ~timing.pendingValid

(* The buffer is ready but there is no anchor: note since when.            *)
BecomeReady ==
  /\ play.pc = "idle"
  /\ timing.playing
  /\ StartupWait
  /\ Cardinality(queued) >= Target
  /\ ~timing.anchorValid
  /\ ~timing.ready
  /\ timing' = [timing EXCEPT !.ready = TRUE]
  /\ UNCHANGED <<queued, taken, pending, gate, play, rtsp, recv, wire, sender, ghost>>

(* Variant: a read does not look at playing.                               *)
ReadWhilePaused ==
  /\ play.pc = "idle"
  /\ StartupWait => /\ Cardinality(queued) >= Target
                    /\ timing.anchorValid \/ timing.ready
  /\ play' = [play EXCEPT !.pc = "get", !.attempt = 1]
  /\ UNCHANGED <<shared, rtsp, recv, wire, sender, ghost>>

(* A read gets past the startup conditions: one second after the buffer    *)
(* became ready it goes on without an anchor.                              *)
ReadStart ==
  /\ play.pc = "idle"
  /\ timing.playing
  /\ StartupWait => /\ Cardinality(queued) >= Target
                    /\ timing.anchorValid \/ timing.ready
  /\ play' = [play EXCEPT !.pc = "get", !.attempt = 1]
  /\ UNCHANGED <<shared, rtsp, recv, wire, sender, ghost>>

(* Variant: the queue is looked at before the pending frame.               *)
GetQueuedFirst ==
  /\ play.pc = "get"
  /\ \/ /\ play.attempt > Attempts \/ (~timing.pendingValid /\ queued = {})
        /\ play' = [play EXCEPT !.pc = "idle"]
        /\ UNCHANGED <<queued, taken>>
     \/ /\ play.attempt <= Attempts /\ queued = {} /\ timing.pendingValid
        /\ play' = [play EXCEPT !.pc = "deferred", !.item = pending,
                                !.fromPending = TRUE]
        /\ UNCHANGED <<queued, taken>>
     \/ /\ play.attempt <= Attempts
        /\ Buffer!TakeOldest
        /\ \E f \in taken' :
             play' = [play EXCEPT !.pc = "deferred", !.item = f,
                                  !.fromPending = FALSE]
  /\ UNCHANGED <<pending, timing, gate, rtsp, recv, wire, sender, ghost>>

(* The next frame to look at: the pending one, else the oldest queued one. *)
GetFrame ==
  /\ play.pc = "get"
  /\ \/ /\ play.attempt > Attempts \/ (~timing.pendingValid /\ queued = {})
        /\ play' = [play EXCEPT !.pc = "idle"]
        /\ UNCHANGED <<queued, taken>>
     \/ /\ play.attempt <= Attempts /\ timing.pendingValid
        /\ play' = [play EXCEPT !.pc = "deferred", !.item = pending,
                                !.fromPending = TRUE]
        /\ UNCHANGED <<queued, taken>>
     \/ /\ play.attempt <= Attempts /\ ~timing.pendingValid
        /\ Buffer!TakeOldest
        /\ \E f \in taken' :
             play' = [play EXCEPT !.pc = "deferred", !.item = f,
                                  !.fromPending = FALSE]
  /\ UNCHANGED <<pending, timing, gate, rtsp, recv, wire, sender, ghost>>

(* Line 345 reads the flag, line 346 the timestamp.                        *)
ReadDeferredFlag ==
  /\ play.pc = "deferred"
  /\ play' = [play EXCEPT !.pc = IF timing.deferred THEN "until" ELSE "judge"]
  /\ UNCHANGED <<shared, rtsp, recv, wire, sender, ghost>>

ReadDeferredUntil ==
  /\ play.pc = "until"
  /\ play' = [play EXCEPT !.pc = IF TsCmp(Stamp(play.item), timing.until) >= 0
                                 THEN "fire" ELSE "judge"]
  /\ UNCHANGED <<shared, rtsp, recv, wire, sender, ghost>>

(* Gives the frame in hand back, then empties the buffer.                  *)
DropItemAndFlush == queued' = {} /\ taken' = {}

(* Forgets the pending frame when it is the one in hand.                   *)
ForgetItem == [timing EXCEPT !.pendingValid = @ /\ ~play.fromPending]

FireDeferredFlush ==
  /\ play.pc = "fire"
  /\ DropItemAndFlush
  /\ timing' = ForgetItem
  /\ play' = [play EXCEPT !.pc = "fired", !.item = NoFrame]
  /\ UNCHANGED <<pending, gate, rtsp, recv, wire, sender, ghost>>

FinishDeferredFlush ==
  /\ play.pc = "fired"
  /\ timing' = [timing EXCEPT !.deferred = FALSE, !.started = FALSE,
                              !.ready = FALSE, !.early = 0, !.late = 0,
                              !.postFlush = TRUE, !.postFlushStarted = FALSE]
  /\ play' = [play EXCEPT !.pc = "idle"]
  /\ UNCHANGED <<queued, taken, pending, gate, rtsp, recv, wire, sender, ghost>>

(* What the timing code makes of a frame found early by so much; expired   *)
(* says that the post-flush bypass has run out of time.                    *)
Verdict(early, expired) ==
  IF timing.postFlush
  THEN IF early > PostFlushStaleThreshold THEN "flush"
       ELSE IF (early >= -TimingThreshold /\ early <= TimingThreshold) \/ expired
       THEN "play and settle" ELSE "play"
  ELSE IF early > TimingThreshold
  THEN IF timing.early + 1 > MaxEarly THEN "give up" ELSE "hold"
  ELSE IF early < -TimingThreshold
  THEN IF -early > BulkFlushLateThreshold \/ timing.late + 1 > MaxLate
       THEN "flush" ELSE "drop"
  ELSE "play"

(* Variant: early frames are not counted.                                  *)
JudgeWithoutCounting ==
  /\ play.pc = "judge"
  /\ \/ /\ ~timing.anchorValid
        /\ play' = [play EXCEPT !.pc = "act", !.verdict = "play"]
     \/ /\ timing.anchorValid
        /\ \E early \in Offset, expired \in BOOLEAN :
             /\ expired => timing.postFlushStarted
             /\ play' = [play EXCEPT !.pc = "act", !.verdict = Verdict(early, expired)]
  /\ UNCHANGED <<shared, rtsp, recv, wire, sender, ghost>>

(* The clock offset, and with it how early a frame is, can be anything:    *)
(* anchors come from the sender, their three fields are written one by     *)
(* one, and the clock they refer to locks, drifts and times out.           *)
Judge ==
  /\ play.pc = "judge"
  /\ \/ /\ ~timing.anchorValid
        /\ play' = [play EXCEPT !.pc = "act", !.verdict = "play"]
        /\ UNCHANGED timing
     \/ /\ timing.anchorValid
        /\ \E early \in Offset, expired \in BOOLEAN :
             /\ expired => timing.postFlushStarted
             /\ play' = [play EXCEPT !.pc = "act", !.verdict = Verdict(early, expired)]
             /\ timing' =
                  IF timing.postFlush
                  THEN [timing EXCEPT !.postFlushStarted = TRUE]
                  ELSE IF early > TimingThreshold
                  THEN [timing EXCEPT !.early = @ + 1]
                  ELSE IF early < -TimingThreshold
                  THEN [timing EXCEPT !.early = 0, !.late = @ + 1]
                  ELSE timing
  /\ UNCHANGED <<queued, taken, pending, gate, rtsp, recv, wire, sender, ghost>>

(* The frame goes to the output.                                           *)
PlayItem ==
  /\ play.pc = "act"
  /\ play.verdict \in {"play", "play and settle", "give up"}
  /\ timing' =
       [ForgetItem EXCEPT
          !.started = TRUE, !.early = 0, !.late = 0,
          !.anchorValid = @ /\ play.verdict # "give up",
          !.postFlush = @ /\ play.verdict # "play and settle",
          !.postFlushStarted = @ /\ play.verdict # "play and settle"]
  /\ taken' = {}
  /\ play' = [play EXCEPT !.pc = "idle", !.item = NoFrame]
  /\ ghost' = [ghost EXCEPT !.last = Max2(@, Number(play.item)),
                            !.quiet = IF timing.playing \/ @ = 2 THEN @ ELSE @ + 1]
  /\ UNCHANGED <<queued, pending, gate, rtsp, recv, wire, sender>>

(* The frame is early: silence now, the frame at a later call.             *)
HoldItem ==
  /\ play.pc = "act" /\ play.verdict = "hold"
  /\ IF play.fromPending
     THEN UNCHANGED <<taken, pending, timing>>
     ELSE /\ pending' = play.item
          /\ timing' = [timing EXCEPT !.pendingValid = TRUE]
          /\ taken' = {}
  /\ play' = [play EXCEPT !.pc = "idle", !.item = NoFrame]
  /\ UNCHANGED <<queued, gate, rtsp, recv, wire, sender, ghost>>

(* The frame is late: look at the next one.                                *)
DropLate ==
  /\ play.pc = "act" /\ play.verdict = "drop"
  /\ timing' = ForgetItem
  /\ taken' = {}
  /\ play' = [play EXCEPT !.pc = "get", !.attempt = @ + 1, !.item = NoFrame]
  /\ UNCHANGED <<queued, pending, gate, rtsp, recv, wire, sender, ghost>>

(* The whole buffer is stale: both bulk flushes.                           *)
BulkFlush ==
  /\ play.pc = "act" /\ play.verdict = "flush"
  /\ DropItemAndFlush
  /\ timing' = [ForgetItem EXCEPT !.started = FALSE, !.ready = FALSE, !.early = 0,
                                  !.late = 0]
  /\ play' = [play EXCEPT !.pc = "idle", !.item = NoFrame]
  /\ UNCHANGED <<pending, gate, rtsp, recv, wire, sender, ghost>>

Reader == \/ BecomeReady \/ ReadStart \/ GetFrame
          \/ ReadDeferredFlag \/ ReadDeferredUntil
          \/ FireDeferredFlush \/ FinishDeferredFlush
          \/ Judge \/ PlayItem \/ HoldItem \/ DropLate \/ BulkFlush

-----------------------------------------------------------------------------
(* The controller's requests, and what their handlers do to the stream.    *)
(* A handler is the sequence of its steps; todo is what is left of it.     *)

FlushSteps == <<"flush buffer", "reset timing", "disarm deferred",
                "clear until", "disarm gates">>

SeekFlushSteps == Append(FlushSteps, "post flush")

PauseSteps == <<"stop playing", "drop pending">>

AnchorSteps == <<"detect seek", "check arm next", "set anchor">>

GateSteps == <<"arm before", "arm above">>

(* The controller makes a request; the user may have moved the sender to   *)
(* another position.                                                       *)
Request(steps, rtp, position) ==
  /\ rtsp.todo = <<>>
  /\ sender.ops < MaxOps
  /\ rtsp' = [rtsp EXCEPT !.todo = steps, !.rtp = rtp]
  /\ sender' = [sender EXCEPT !.ops = @ + 1, !.at = position]
  /\ ghost' = [ghost EXCEPT !.epoch = IF position = sender.at THEN @ ELSE sender.next]
  /\ UNCHANGED <<shared, play, recv, wire>>

(* FLUSH, and FLUSHBUFFERED without a range.                               *)
HandleFlush ==
  \E position \in SeekTo \cup {sender.at} : Request(SeekFlushSteps, 0, position)

(* FLUSHBUFFERED with a range: what is queued up to its end plays first.   *)
HandleDeferredFlush ==
  \E until \in {sender.at, Wrap(sender.at - 1)} :
    Request(<<"set until", "arm deferred">>, until, sender.at)

(* PAUSE.                                                                  *)
HandlePause == Request(PauseSteps, 0, sender.at)

(* SETRATEANCHORTIME: a rate and, unless the time or the position is       *)
(* missing or 0, an anchor at the sender's position.                       *)
HandleAnchor ==
  \E tail \in {<<"start playing">>, PauseSteps} :
    \/ Request(tail, 0, sender.at)
    \/ \E position \in (SeekTo \cup {sender.at}) \ {0} :
         Request(AnchorSteps \o tail, position, position)

Requests == HandleFlush \/ HandleDeferredFlush \/ HandlePause \/ HandleAnchor

-----------------------------------------------------------------------------
(* One step of the handler; more is what the step adds to the handler.     *)
Doing(step, more) ==
  /\ rtsp.todo # <<>> /\ Head(rtsp.todo) = step
  /\ rtsp' = [rtsp EXCEPT !.todo = more \o Tail(@),
                          !.mark = IF step = "flush buffer" THEN NextArrival ELSE @]
  /\ UNCHANGED <<taken, pending, play, recv, wire, sender>>

FlushBuffer ==
  /\ Doing("flush buffer", <<>>)
  /\ queued' = {}
  /\ UNCHANGED <<timing, gate, ghost>>

(* From here on no frame flushed may play, but for the one in hand.        *)
Forgotten == [ghost EXCEPT !.mark = rtsp.mark,
                           !.excused = {Number(f) : f \in InHand}]

(* Variant: the pending frame survives the reset.                          *)
ResetKeepsPending ==
  /\ Doing("reset timing", <<>>)
  /\ timing' = [timing EXCEPT !.started = FALSE, !.anchorValid = FALSE,
                              !.ready = FALSE,
                              !.early = 0, !.late = 0, !.postFlush = FALSE,
                              !.postFlushStarted = FALSE]
  /\ ghost' = Forgotten
  /\ UNCHANGED <<queued, gate>>

(* audio_timing_reset, up to post_flush_start_us.                          *)
ResetTiming ==
  /\ Doing("reset timing", <<>>)
  /\ timing' = [timing EXCEPT !.started = FALSE, !.anchorValid = FALSE,
                              !.pendingValid = FALSE, !.ready = FALSE,
                              !.early = 0, !.late = 0, !.postFlush = FALSE,
                              !.postFlushStarted = FALSE]
  /\ ghost' = Forgotten
  /\ UNCHANGED <<queued, gate>>

(* Its last two writes, which are in this order.                           *)
DisarmDeferred ==
  /\ Doing("disarm deferred", <<>>)
  /\ timing' = [timing EXCEPT !.deferred = FALSE]
  /\ UNCHANGED <<queued, gate, ghost>>

ClearUntil ==
  /\ Doing("clear until", <<>>)
  /\ timing' = [timing EXCEPT !.until = 0]
  /\ UNCHANGED <<queued, gate, ghost>>

DisarmGates ==
  /\ Doing("disarm gates", <<>>)
  /\ gate' = [gate EXCEPT !.beforeValid = FALSE, !.aboveValid = FALSE, !.armNext = FALSE]
  /\ UNCHANGED <<queued, timing, ghost>>

SetPostFlush ==
  /\ Doing("post flush", <<>>)
  /\ timing' = [timing EXCEPT !.postFlush = TRUE, !.postFlushStarted = FALSE]
  /\ gate' = [gate EXCEPT !.armNext = TRUE]
  /\ UNCHANGED <<queued, ghost>>

(* audio_receiver_set_deferred_flush.                                      *)
SetUntil ==
  /\ Doing("set until", <<>>)
  /\ timing' = [timing EXCEPT !.until = rtsp.rtp]
  /\ UNCHANGED <<queued, gate, ghost>>

ArmDeferred ==
  /\ Doing("arm deferred", <<>>)
  /\ timing' = [timing EXCEPT !.deferred = TRUE]
  /\ UNCHANGED <<queued, gate, ghost>>

(* audio_timing_set_playing.                                               *)
StopPlaying ==
  /\ Doing("stop playing", <<>>)
  /\ timing' = [timing EXCEPT !.playing = FALSE]
  /\ ghost' = [ghost EXCEPT !.quiet = 0]
  /\ UNCHANGED <<queued, gate>>

DropPending ==
  /\ Doing("drop pending", <<>>)
  /\ timing' = [timing EXCEPT !.pendingValid = FALSE]
  /\ UNCHANGED <<queued, gate, ghost>>

StartPlaying ==
  /\ Doing("start playing", <<>>)
  /\ timing' = [timing EXCEPT !.playing = TRUE]
  /\ UNCHANGED <<queued, gate, ghost>>

(* audio_receiver_set_anchor_time.  Negating the most negative difference  *)
(* overflows and leaves it negative.                                       *)
Displacement(a, b) == LET d == TsCmp(a, b)
                      IN  IF d < 0 /\ d # -Half THEN -d ELSE d

DetectSeek ==
  LET seek == \E f \in Buffer!Oldest(queued) :
                Displacement(Stamp(f), rtsp.rtp) > SeekThreshold
  IN  /\ Doing("detect seek",
               IF seek THEN <<"flush buffer", "forget playout">> \o GateSteps ELSE <<>>)
      /\ UNCHANGED <<queued, timing, gate, ghost>>

ForgetPlayout ==
  /\ Doing("forget playout", <<>>)
  /\ timing' = [timing EXCEPT !.started = FALSE, !.pendingValid = FALSE, !.ready = FALSE]
  /\ gate' = [gate EXCEPT !.armNext = FALSE]
  /\ ghost' = Forgotten
  /\ UNCHANGED queued

CheckArmNext ==
  /\ Doing("check arm next", IF gate.armNext THEN GateSteps ELSE <<>>)
  /\ gate' = [gate EXCEPT !.armNext = FALSE]
  /\ UNCHANGED <<queued, timing, ghost>>

(* The threshold, then the flag: the receiver reads the flag first, so it  *)
(* cannot tell the two writes from one.                                    *)
ArmBefore ==
  /\ Doing("arm before", <<>>)
  /\ gate' = [gate EXCEPT !.before = rtsp.rtp, !.beforeValid = TRUE]
  /\ UNCHANGED <<queued, timing, ghost>>

ArmAbove ==
  /\ Doing("arm above", <<>>)
  /\ gate' = [gate EXCEPT !.above = Wrap(rtsp.rtp + GateWindow), !.aboveValid = TRUE]
  /\ UNCHANGED <<queued, timing, ghost>>

(* audio_timing_set_anchor.                                                *)
SetAnchor ==
  /\ Doing("set anchor", <<>>)
  /\ timing' = [timing EXCEPT !.anchorValid = TRUE, !.early = 0, !.late = 0]
  /\ UNCHANGED <<queued, gate, ghost>>

Handler == \/ FlushBuffer \/ ResetTiming \/ DisarmDeferred \/ ClearUntil
           \/ DisarmGates \/ SetPostFlush
           \/ SetUntil \/ ArmDeferred
           \/ StopPlaying \/ DropPending \/ StartPlaying
           \/ DetectSeek \/ ForgetPlayout \/ CheckArmNext
           \/ ArmBefore \/ ArmAbove \/ SetAnchor

-----------------------------------------------------------------------------
(* The sender's TCP stream, and the receiver task.                         *)

Send ==
  /\ sender.next < MaxFrames
  /\ Len(wire) < MaxWire
  /\ wire' = Append(wire, <<sender.next, sender.at>>)
  /\ sender' = [sender EXCEPT !.next = @ + 1, !.at = Wrap(@ + 1)]
  /\ UNCHANGED <<shared, play, rtsp, recv, ghost>>

(* Where the receiver goes after a gate: valid and threshold are read, the *)
(* frame is discarded, or the gate disarmed in a later step, or passed.    *)
Through(valid, outside, disarm, next) ==
  IF ~valid THEN next ELSE IF outside THEN "idle" ELSE disarm

(* Variant: packets are read whatever the buffer holds.                    *)
ReceiveUnbounded ==
  /\ recv.pc = "idle"
  /\ wire # <<>>
  /\ LET f == Head(wire)
         to == Through(gate.beforeValid, TsCmp(Stamp(f), gate.before) < 0,
                       "disarm before", "above")
     IN  recv' = [pc |-> to, frame |-> IF to = "idle" THEN NoFrame ELSE f]
  /\ wire' = Tail(wire)
  /\ UNCHANGED <<shared, play, rtsp, sender, ghost>>

(* A packet is read, when the buffer is not nearly full, and meets the     *)
(* lower gate.                                                             *)
ReceivePacket ==
  /\ recv.pc = "idle"
  /\ wire # <<>>
  /\ Cardinality(queued) < Capacity
  /\ LET f == Head(wire)
         to == Through(gate.beforeValid, TsCmp(Stamp(f), gate.before) < 0,
                       "disarm before", "above")
     IN  recv' = [pc |-> to, frame |-> IF to = "idle" THEN NoFrame ELSE f]
  /\ wire' = Tail(wire)
  /\ UNCHANGED <<shared, play, rtsp, sender, ghost>>

DisarmBefore ==
  /\ recv.pc = "disarm before"
  /\ gate' = [gate EXCEPT !.beforeValid = FALSE]
  /\ recv' = [recv EXCEPT !.pc = "above"]
  /\ UNCHANGED <<queued, taken, pending, timing, play, rtsp, wire, sender, ghost>>

UpperGate ==
  /\ recv.pc = "above"
  /\ LET to == Through(gate.aboveValid, TsCmp(Stamp(recv.frame), gate.above) > 0,
                       "disarm above", "enqueue")
     IN  recv' = [pc |-> to, frame |-> IF to = "idle" THEN NoFrame ELSE recv.frame]
  /\ UNCHANGED <<shared, play, rtsp, wire, sender, ghost>>

DisarmAbove ==
  /\ recv.pc = "disarm above"
  /\ gate' = [gate EXCEPT !.aboveValid = FALSE]
  /\ recv' = [recv EXCEPT !.pc = "enqueue"]
  /\ UNCHANGED <<queued, taken, pending, timing, play, rtsp, wire, sender, ghost>>

EnqueueFrame ==
  /\ recv.pc = "enqueue"
  /\ queued' = queued \cup {recv.frame}
  /\ recv' = [pc |-> "idle", frame |-> NoFrame]
  /\ UNCHANGED <<taken, pending, timing, gate, play, rtsp, wire, sender, ghost>>

Receiver == ReceivePacket \/ DisarmBefore \/ UpperGate \/ DisarmAbove \/ EnqueueFrame

-----------------------------------------------------------------------------
Next == Reader \/ Handler \/ Requests \/ Receiver \/ Send

Spec == Init /\ [][Next]_vars

(* The playback task runs at priority 7 on a core of its own and never     *)
(* blocks for good; a handler and the receiver task run whenever they have *)
(* something to do.                                                        *)
FairSpec == Spec /\ WF_vars(Reader) /\ WF_vars(Handler) /\ WF_vars(Receiver)

-----------------------------------------------------------------------------
TypeOK ==
  /\ queued \subseteq Frame
  /\ taken \subseteq Frame /\ Cardinality(taken) <= 1
  /\ pending \in Frame \cup {NoFrame}
  /\ timing \in [started : BOOLEAN, playing : BOOLEAN, anchorValid : BOOLEAN,
                 pendingValid : BOOLEAN, ready : BOOLEAN,
                 early : 0..(MaxEarly + 1), late : 0..(MaxLate + 1),
                 postFlush : BOOLEAN, postFlushStarted : BOOLEAN,
                 deferred : BOOLEAN, until : Timestamp]
  /\ gate \in [before : Timestamp, beforeValid : BOOLEAN,
               above : Timestamp, aboveValid : BOOLEAN, armNext : BOOLEAN]
  /\ play.item \in Frame \cup {NoFrame}
  /\ play.attempt \in 0..(Attempts + 1)
  /\ recv.frame \in Frame \cup {NoFrame}
  /\ wire \in Seq(Frame)
  /\ Cardinality(queued) <= Capacity

Played(f) == PlayItem /\ play.item = f

(* A flush is a flush: once audio_timing_reset (or the seek branch of      *)
(* audio_receiver_set_anchor_time) has forgotten the pending frame, no     *)
(* frame that was in the buffer at the flush is ever played, except the    *)
(* one the playback task had in hand at that moment.                       *)
FlushedFramesStaySilent ==
  [][\A f \in InHand : Played(f) => \/ Number(f) >= ghost.mark
                                    \/ Number(f) \in ghost.excused]_vars

(* Pausing lets at most the frame in hand through: audio_timing_read tests *)
(* playing once, at its start, and plays at most one frame per call.       *)
QuietWhilePaused == ~timing.playing => ghost.quiet <= 1

(* Frames of one position play in the order they were sent, none twice:    *)
(* the pending frame is always older than all queued frames.               *)
PlaysInOrder ==
  [][\A f \in InHand : Played(f) => \/ Number(f) < ghost.epoch
                                    \/ Number(f) > ghost.last]_vars

(* The player never gets stuck: whatever anchors it is given, it plays or  *)
(* drops what it has, and waits only for more frames or while paused.      *)
KeepsDraining ==
  <>[](timing.playing =>
         /\ taken = {} /\ ~timing.pendingValid
         /\ queued = {} \/ (~timing.started /\ Cardinality(queued) < Target))

=============================================================================
