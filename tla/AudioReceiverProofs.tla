------------------------ MODULE AudioReceiverProofs ------------------------
(***************************************************************************)
(* Proofs about AudioReceiver, for any number of frames, requests, frames  *)
(* on the wire and clock offsets, and any way the three tasks interleave.  *)
(*                                                                         *)
(* Types is inductive by itself.  On top of it Flushed says that whatever  *)
(* can still be played was sent after the last flush or was in hand when   *)
(* it forgot the pending frame, and Hush that a read that has played its   *)
(* frame during a pause is over.                                           *)
(***************************************************************************)
EXTENDS AudioReceiver, FiniteSetTheorems, TLAPS

(* ------------------------- the state's parts --------------------------- *)

FrameOrNone == Frame \cup {NoFrame}

TimingType ==
  [started : BOOLEAN, playing : BOOLEAN, anchorValid : BOOLEAN,
   pendingValid : BOOLEAN, ready : BOOLEAN, early : Nat, late : Nat,
   postFlush : BOOLEAN, postFlushStarted : BOOLEAN,
   deferred : BOOLEAN, until : Timestamp]

GateType == [before : Timestamp, beforeValid : BOOLEAN,
             above : Timestamp, aboveValid : BOOLEAN, armNext : BOOLEAN]

PlayPc == {"idle", "get", "deferred", "until", "fire", "fired", "judge", "act"}
Verdicts == {"none", "play", "play and settle", "give up", "hold", "flush", "drop"}
PlayType == [pc : PlayPc, item : FrameOrNone, fromPending : BOOLEAN,
             attempt : Nat, verdict : Verdicts]

RtspOK == /\ rtsp = [todo |-> rtsp.todo, rtp |-> rtsp.rtp, mark |-> rtsp.mark]
          /\ rtsp.rtp \in Timestamp /\ rtsp.mark \in Nat

RecvPc == {"idle", "disarm before", "above", "disarm above", "enqueue"}
RecvType == [pc : RecvPc, frame : FrameOrNone]

SenderType == [next : Nat, at : Timestamp, ops : Nat]
GhostType == [mark : Nat, excused : SUBSET Nat, last : Int, epoch : Nat, quiet : 0..2]

(* Between these the playback task has a frame in hand.                    *)
Holding == {"deferred", "until", "fire", "judge", "act"}

PlayOK == /\ play \in PlayType
          /\ play.attempt <= Attempts + 1
          /\ play.pc \in Holding => play.item \in Frame /\ play.attempt <= Attempts

(* A count past its maximum is on its way to being cleared.                *)
CountsOK == /\ \/ timing.early <= MaxEarly
               \/ /\ timing.early = MaxEarly + 1
                  /\ play.pc = "act" /\ play.verdict = "give up"
            /\ \/ timing.late <= MaxLate
               \/ /\ timing.late = MaxLate + 1
                  /\ play.pc = "act" /\ play.verdict = "flush"

PendingOK == /\ pending \in FrameOrNone
             /\ timing.pendingValid => pending \in Frame

(* The receiver task keeps room for the frame it works on.                 *)
BufferOK == /\ queued \subseteq Frame /\ IsFiniteSet(queued)
            /\ Cardinality(queued) <= Capacity
            /\ recv.pc # "idle" => Cardinality(queued) < Capacity
            /\ taken = {} \/ \E f \in Frame : taken = {f}

ReceiverOK == /\ recv \in RecvType
              /\ recv.pc # "idle" => recv.frame \in Frame
              /\ wire \in Seq(Frame)
              /\ sender \in SenderType

Types == /\ timing \in TimingType /\ gate \in GateType /\ ghost \in GhostType
         /\ RtspOK /\ PlayOK /\ CountsOK /\ PendingOK /\ BufferOK /\ ReceiverOK

(* ---------------------------- small facts ------------------------------ *)

LEMMA Parameters ==
  /\ MaxFrames \in Nat \ {0} /\ MaxOps \in Nat \ {0} /\ MaxWire \in Nat \ {0}
  /\ Capacity \in Nat \ {0} /\ Target \in Nat \ {0} /\ Attempts \in Nat \ {0}
  /\ MaxEarly \in Nat /\ MaxLate \in Nat
  /\ Half \in Nat \ {0} /\ 0 \in Timestamp /\ Timestamp \subseteq Nat
  /\ Modulus = 2 * Half
BY AudioReceiverAssumption, HalfAssumption DEF Timestamp, Modulus

LEMMA WrapTyped ==
  ASSUME NEW x \in Int, x >= -Modulus, x < 2 * Modulus
  PROVE  Wrap(x) \in Timestamp
BY Parameters DEF Wrap, Timestamp, Modulus

LEMMA FrameFields ==
  ASSUME NEW f \in Frame
  PROVE  /\ Number(f) \in Nat /\ Number(f) < MaxFrames
         /\ Stamp(f) \in Timestamp
         /\ f # NoFrame
BY Parameters DEF Frame, Number, Stamp, NoFrame

LEMMA HeadTyped ==
  ASSUME NEW s \in Seq(Frame), s # <<>>
  PROVE  Head(s) \in Frame
OBVIOUS

LEMMA NextArrivalTyped ==
  ASSUME ReceiverOK
  PROVE  NextArrival \in Nat
<1>1. CASE recv.pc # "idle"
  BY <1>1, FrameFields DEF ReceiverOK, NextArrival
<1>2. CASE recv.pc = "idle" /\ wire # <<>>
  <2>1. Head(wire) \in Frame
    BY <1>2 DEF ReceiverOK
  <2> QED BY <1>2, <2>1, FrameFields DEF NextArrival
<1>3. CASE recv.pc = "idle" /\ wire = <<>>
  BY <1>3 DEF ReceiverOK, NextArrival, SenderType
<1> QED BY <1>1, <1>2, <1>3

LEMMA InitTypes == Init => Types
<1> SUFFICES ASSUME Init PROVE Types
  OBVIOUS
<1> USE Parameters
<1>1. timing \in TimingType /\ gate \in GateType /\ timing.early = 0 /\ timing.late = 0
      /\ ~timing.pendingValid
  BY DEF Init, TimingType, GateType
<1>2. RtspOK /\ ghost \in GhostType
  BY DEF Init, RtspOK, GhostType
<1>3. PlayOK
  BY DEF Init, PlayOK, PlayType, PlayPc, FrameOrNone, Verdicts, Holding
<1>4. ReceiverOK
  BY AudioReceiverAssumption DEF Init, ReceiverOK, RecvType, RecvPc, FrameOrNone, SenderType
<1>5. BufferOK
  BY FS_EmptySet DEF Init, BufferOK
<1>6. PendingOK /\ CountsOK
  BY <1>1 DEF Init, PendingOK, FrameOrNone, CountsOK
<1> QED BY <1>1, <1>2, <1>3, <1>4, <1>5, <1>6 DEF Types

(* ------------------------ a step of a handler -------------------------- *)

LEMMA DoingStep ==
  ASSUME RtspOK, ReceiverOK, NEW step, NEW more, Doing(step, more)
  PROVE  /\ UNCHANGED <<taken, pending, play, recv, wire, sender>>
         /\ RtspOK' /\ rtsp'.rtp = rtsp.rtp
         /\ rtsp'.mark = IF step = "flush buffer" THEN NextArrival ELSE rtsp.mark
BY NextArrivalTyped DEF Doing, RtspOK

LEMMA HandlerDoes ==
  ASSUME RtspOK, ReceiverOK, Handler
  PROVE  /\ UNCHANGED <<taken, pending, play, recv, wire, sender>>
         /\ RtspOK' /\ rtsp'.rtp = rtsp.rtp
         /\ \/ rtsp'.mark = NextArrival /\ queued' = {} /\ UNCHANGED <<timing, gate, ghost>>
            \/ rtsp'.mark = rtsp.mark /\ UNCHANGED queued
<1>1. CASE FlushBuffer
  BY <1>1, DoingStep DEF FlushBuffer
<1>2. ASSUME NEW step, NEW more, Doing(step, more), step # "flush buffer",
             UNCHANGED queued
      PROVE  /\ UNCHANGED <<taken, pending, play, recv, wire, sender>>
             /\ RtspOK' /\ rtsp'.rtp = rtsp.rtp
             /\ rtsp'.mark = rtsp.mark /\ UNCHANGED queued
  BY <1>2, DoingStep
<1>3. CASE \/ ResetTiming \/ DisarmDeferred \/ ClearUntil \/ DisarmGates \/ SetPostFlush
           \/ SetUntil \/ ArmDeferred \/ StopPlaying \/ DropPending \/ StartPlaying
           \/ ForgetPlayout \/ ArmBefore \/ ArmAbove \/ SetAnchor
  <2>1. UNCHANGED queued /\ \E step : step # "flush buffer" /\ Doing(step, <<>>)
    BY <1>3 DEF ResetTiming, DisarmDeferred, ClearUntil, DisarmGates, SetPostFlush, SetUntil,
          ArmDeferred, StopPlaying, DropPending, StartPlaying, ForgetPlayout, ArmBefore, ArmAbove,
          SetAnchor
  <2> QED BY <1>2, <2>1
<1>4. CASE CheckArmNext
  <2>1. UNCHANGED queued /\ \E more : Doing("check arm next", more)
    BY <1>4 DEF CheckArmNext
  <2> QED BY <1>2, <2>1
<1>5. CASE DetectSeek
  <2>1. UNCHANGED queued /\ \E more : Doing("detect seek", more)
    BY <1>5 DEF DetectSeek
  <2> QED BY <1>2, <2>1
<1> QED BY <1>1, <1>3, <1>4, <1>5 DEF Handler

(* What a step of a handler does to the timing, the gates and the history. *)
LEMMA HandlerWrites ==
  ASSUME Types, Handler
  PROVE  /\ timing' \in TimingType /\ gate' \in GateType /\ ghost' \in GhostType
         /\ timing'.early \in {timing.early, 0} /\ timing'.late \in {timing.late, 0}
         /\ timing'.pendingValid => timing.pendingValid
         /\ \/ ghost'.quiet = 0
            \/ ghost'.quiet = ghost.quiet /\ (timing.playing => timing'.playing)
         /\ \/ ghost'.mark = ghost.mark /\ ghost'.excused = ghost.excused
            \/ /\ ghost'.mark = rtsp.mark /\ ghost'.excused = {Number(f) : f \in InHand}
               /\ ~timing'.pendingValid
               /\ queued' = queued /\ rtsp'.mark = rtsp.mark
<1> USE DEF Types
<1>0. Timestamp \subseteq Nat /\ 0 \in Timestamp
  BY Parameters
<1>1. CASE FlushBuffer \/ DetectSeek
  BY <1>1 DEF FlushBuffer, DetectSeek
<1>2. CASE ResetTiming \/ ForgetPlayout
  <2>1. /\ timing' \in TimingType
        /\ timing'.early \in {timing.early, 0} /\ timing'.late \in {timing.late, 0}
        /\ ~timing'.pendingValid /\ timing'.playing = timing.playing
    <3>1. CASE ResetTiming
      <4>1. timing' = [timing EXCEPT !.started = FALSE, !.anchorValid = FALSE,
                                     !.pendingValid = FALSE, !.ready = FALSE,
                                     !.early = 0, !.late = 0, !.postFlush = FALSE,
                                     !.postFlushStarted = FALSE]
        BY <3>1 DEF ResetTiming
      <4> QED BY <4>1 DEF TimingType
    <3>2. CASE ForgetPlayout
      <4>1. timing' = [timing EXCEPT !.started = FALSE, !.pendingValid = FALSE,
                                     !.ready = FALSE]
        BY <3>2 DEF ForgetPlayout
      <4> QED BY <4>1 DEF TimingType
    <3> QED BY <1>2, <3>1, <3>2
  <2>2. gate' \in GateType
    BY <1>2 DEF ResetTiming, ForgetPlayout, GateType
  <2>3. {Number(f) : f \in InHand} \in SUBSET Nat
    BY FrameFields DEF InHand, PlayOK, PlayType, FrameOrNone
  <2>4. ghost' = Forgotten /\ queued' = queued
    BY <1>2 DEF ResetTiming, ForgetPlayout
  <2>5. /\ ghost' \in GhostType /\ ghost'.mark = rtsp.mark /\ ghost'.quiet = ghost.quiet
        /\ ghost'.excused = {Number(f) : f \in InHand}
    <3> DEFINE numbers == {Number(f) : f \in InHand}
    <3>1. ghost' = [ghost EXCEPT !.mark = rtsp.mark, !.excused = numbers]
      BY <2>4 DEF Forgotten
    <3>2. numbers \in SUBSET Nat /\ rtsp.mark \in Nat
      BY <2>3 DEF RtspOK
    <3> HIDE DEF numbers
    <3>3. /\ ghost' \in GhostType /\ ghost'.mark = rtsp.mark /\ ghost'.quiet = ghost.quiet
          /\ ghost'.excused = numbers
      BY <3>1, <3>2 DEF GhostType
    <3> QED BY <3>3 DEF numbers
  <2>6. rtsp'.mark = rtsp.mark
    <3>1. \E step : step # "flush buffer" /\ Doing(step, <<>>)
      BY <1>2 DEF ResetTiming, ForgetPlayout
    <3> QED BY <3>1, DoingStep
  <2> QED BY <2>1, <2>2, <2>4, <2>5, <2>6
<1>3. CASE DisarmDeferred \/ ClearUntil \/ ArmDeferred \/ DropPending \/ StartPlaying \/ SetAnchor
  <2>1. UNCHANGED <<gate, ghost>>
    BY <1>3 DEF DisarmDeferred, ClearUntil, ArmDeferred, DropPending, StartPlaying, SetAnchor
  <2>2. /\ timing' \in TimingType
        /\ timing'.early \in {timing.early, 0} /\ timing'.late \in {timing.late, 0}
        /\ timing'.pendingValid => timing.pendingValid
        /\ timing.playing => timing'.playing
    BY <1>0, <1>3 DEF DisarmDeferred, ClearUntil, ArmDeferred, DropPending, StartPlaying,
                      SetAnchor, TimingType
  <2> QED BY <2>1, <2>2
<1>4. CASE DisarmGates \/ CheckArmNext
  <2>1. UNCHANGED <<timing, ghost>>
    BY <1>4 DEF DisarmGates, CheckArmNext
  <2>2. gate' \in GateType
    BY <1>4 DEF DisarmGates, CheckArmNext, GateType
  <2> QED BY <2>1, <2>2
<1>5. CASE SetPostFlush
  <2>1. ghost' = ghost /\ gate' \in GateType
    BY <1>5 DEF SetPostFlush, GateType
  <2>2. /\ timing' \in TimingType /\ timing'.early = timing.early /\ timing'.late = timing.late
        /\ timing'.pendingValid = timing.pendingValid /\ timing'.playing = timing.playing
    BY <1>5 DEF SetPostFlush, TimingType
  <2> QED BY <2>1, <2>2
<1>6. CASE SetUntil
  <2>1. UNCHANGED <<gate, ghost>>
    BY <1>6 DEF SetUntil
  <2>2. /\ timing' \in TimingType /\ timing'.early = timing.early /\ timing'.late = timing.late
        /\ timing'.pendingValid = timing.pendingValid /\ timing'.playing = timing.playing
    BY <1>6 DEF SetUntil, TimingType, RtspOK
  <2> QED BY <2>1, <2>2
<1>7. CASE StopPlaying
  <2>1. /\ gate' = gate /\ ghost' \in GhostType /\ ghost'.quiet = 0
        /\ ghost'.mark = ghost.mark /\ ghost'.excused = ghost.excused
    <3>1. gate' = gate /\ ghost' = [ghost EXCEPT !.quiet = 0]
      BY <1>7 DEF StopPlaying
    <3> QED BY <3>1 DEF GhostType
  <2>2. /\ timing' \in TimingType /\ timing'.early = timing.early /\ timing'.late = timing.late
        /\ timing'.pendingValid = timing.pendingValid
    BY <1>7 DEF StopPlaying, TimingType
  <2> QED BY <2>1, <2>2
<1>8. CASE ArmBefore \/ ArmAbove
  <2>1. UNCHANGED <<timing, ghost>>
    BY <1>8 DEF ArmBefore, ArmAbove
  <2>2. GateWindow \in Nat /\ GateWindow < Half
    BY AudioReceiverAssumption, Parameters
  <2>3. rtsp.rtp \in Nat /\ rtsp.rtp < Modulus
    BY <1>0, Parameters DEF RtspOK, Timestamp
  <2>4. Wrap(rtsp.rtp + GateWindow) \in Timestamp
    BY <2>2, <2>3, WrapTyped, Parameters
  <2>5. gate' \in GateType
    BY <1>8, <2>4 DEF ArmBefore, ArmAbove, GateType, RtspOK
  <2> QED BY <2>1, <2>5
<1> QED BY <1>1, <1>2, <1>3, <1>4, <1>5, <1>6, <1>7, <1>8 DEF Handler

LEMMA RequestsDo ==
  ASSUME Types, Requests
  PROVE  /\ UNCHANGED <<queued, taken, pending, timing, gate, play, recv, wire>>
         /\ RtspOK' /\ rtsp'.mark = rtsp.mark
         /\ sender' \in SenderType /\ sender'.next = sender.next
         /\ ghost' \in GhostType /\ ghost'.mark = ghost.mark
         /\ ghost'.excused = ghost.excused /\ ghost'.quiet = ghost.quiet
<1> USE DEF Types
<1>0. sender \in SenderType
  BY DEF ReceiverOK
<1>1. ASSUME NEW steps, NEW rtp \in Timestamp, NEW position \in Timestamp,
             Request(steps, rtp, position)
      PROVE  /\ UNCHANGED <<queued, taken, pending, timing, gate, play, recv, wire>>
             /\ RtspOK' /\ rtsp'.mark = rtsp.mark
             /\ sender' \in SenderType /\ sender'.next = sender.next
             /\ ghost' \in GhostType /\ ghost'.mark = ghost.mark
             /\ ghost'.excused = ghost.excused /\ ghost'.quiet = ghost.quiet
  <2>1. UNCHANGED <<queued, taken, pending, timing, gate, play, recv, wire>>
    BY <1>1 DEF Request, shared
  <2>2. RtspOK' /\ rtsp'.mark = rtsp.mark
    BY <1>1 DEF Request, RtspOK
  <2>3. sender' \in SenderType /\ sender'.next = sender.next
    <3>1. sender' = [sender EXCEPT !.ops = @ + 1, !.at = position]
      BY <1>1 DEF Request
    <3>2. sender.ops + 1 \in Nat
      BY <1>0 DEF SenderType
    <3> HIDE DEF Types
    <3> QED BY <1>0, <1>1, <3>1, <3>2 DEF SenderType
  <2>4. sender.next \in Nat
    BY <1>0 DEF SenderType
  <2>5. /\ ghost' \in GhostType /\ ghost'.mark = ghost.mark
        /\ ghost'.excused = ghost.excused /\ ghost'.quiet = ghost.quiet
    BY <1>1, <2>4 DEF Request, GhostType
  <2> QED BY <2>1, <2>2, <2>3, <2>5
<1>2. /\ 0 \in Timestamp /\ sender.at \in Timestamp /\ SeekTo \subseteq Timestamp
  BY <1>0, Parameters, AudioReceiverAssumption DEF SenderType
<1>3. Wrap(sender.at - 1) \in Timestamp
  BY <1>2, WrapTyped, Parameters DEF Timestamp
<1>4. \E steps : \E rtp, position \in Timestamp : Request(steps, rtp, position)
  <2>1. CASE HandleFlush
    BY <1>2, <2>1 DEF HandleFlush
  <2>2. CASE HandleDeferredFlush
    BY <1>2, <1>3, <2>2 DEF HandleDeferredFlush
  <2>3. CASE HandlePause
    BY <1>2, <2>3 DEF HandlePause
  <2>4. CASE HandleAnchor
    BY <1>2, <2>4 DEF HandleAnchor
  <2> QED BY <2>1, <2>2, <2>3, <2>4 DEF Requests
<1> QED BY <1>1, <1>4

(* --------------------- a step of the receiver task --------------------- *)

LEMMA ThroughEnds ==
  ASSUME NEW valid, NEW outside, NEW disarm, NEW next
  PROVE  Through(valid, outside, disarm, next) \in {"idle", disarm, next}
BY DEF Through

LEMMA ReceiverDoes ==
  ASSUME Types, Receiver
  PROVE  /\ UNCHANGED <<taken, pending, timing, play, rtsp, sender, ghost>>
         /\ gate' \in GateType
         /\ \/ queued' = queued
            \/ recv.pc # "idle" /\ queued' = queued \cup {recv.frame} /\ recv'.pc = "idle"
         /\ \/ /\ recv.pc = "idle" /\ wire # <<>> /\ wire' = Tail(wire)
               /\ Cardinality(queued) < Capacity /\ queued' = queued
               /\ recv' \in RecvType /\ (recv'.pc # "idle" => recv'.frame = Head(wire))
            \/ /\ recv.pc # "idle" /\ wire' = wire
               /\ recv' \in RecvType /\ (recv'.pc # "idle" => recv'.frame = recv.frame)
<1>0. gate \in GateType /\ recv \in RecvType /\ ReceiverOK
  BY DEF Types, ReceiverOK
<1>1. CASE ReceivePacket
  <2>1. /\ UNCHANGED <<taken, pending, timing, play, rtsp, sender, ghost, gate, queued>>
        /\ recv.pc = "idle" /\ wire # <<>> /\ wire' = Tail(wire)
        /\ Cardinality(queued) < Capacity
    BY <1>1 DEF ReceivePacket, shared
  <2>2. PICK to \in {"idle", "disarm before", "above"} :
          recv' = [pc |-> to, frame |-> IF to = "idle" THEN NoFrame ELSE Head(wire)]
    BY <1>1, ThroughEnds DEF ReceivePacket
  <2>3. Head(wire) \in Frame
    <3>1. wire \in Seq(Frame) /\ wire # <<>>
      BY <1>0, <2>1 DEF ReceiverOK
    <3> QED BY <3>1, HeadTyped
  <2>4. recv' \in RecvType /\ (recv'.pc # "idle" => recv'.frame = Head(wire))
    BY <2>2, <2>3 DEF RecvType, RecvPc, FrameOrNone
  <2> QED BY <1>0, <2>1, <2>4
<1>2. CASE DisarmBefore \/ DisarmAbove
  <2>1. /\ UNCHANGED <<taken, pending, timing, play, rtsp, sender, ghost, queued, wire>>
        /\ recv.pc # "idle"
    BY <1>2 DEF DisarmBefore, DisarmAbove
  <2>2. gate' \in GateType
    BY <1>0, <1>2 DEF DisarmBefore, DisarmAbove, GateType
  <2>3. recv' \in RecvType /\ recv'.frame = recv.frame
    BY <1>0, <1>2 DEF DisarmBefore, DisarmAbove, RecvType, RecvPc
  <2> QED BY <2>1, <2>2, <2>3
<1>3. CASE UpperGate
  <2>1. /\ UNCHANGED <<taken, pending, timing, play, rtsp, sender, ghost, gate, queued, wire>>
        /\ recv.pc # "idle"
    BY <1>3 DEF UpperGate, shared
  <2>2. PICK to \in {"idle", "disarm above", "enqueue"} :
          recv' = [pc |-> to, frame |-> IF to = "idle" THEN NoFrame ELSE recv.frame]
    BY <1>3, ThroughEnds DEF UpperGate
  <2>3. recv' \in RecvType /\ (recv'.pc # "idle" => recv'.frame = recv.frame)
    BY <1>0, <2>2 DEF RecvType, RecvPc, FrameOrNone
  <2> QED BY <1>0, <2>1, <2>3
<1>4. CASE EnqueueFrame
  <2>1. /\ UNCHANGED <<taken, pending, timing, play, rtsp, sender, ghost, gate, wire>>
        /\ recv.pc # "idle" /\ queued' = queued \cup {recv.frame}
    BY <1>4 DEF EnqueueFrame
  <2>2. recv' \in RecvType /\ recv'.pc = "idle"
    BY <1>4 DEF EnqueueFrame, RecvType, RecvPc, FrameOrNone
  <2> QED BY <1>0, <2>1, <2>2
<1> QED BY <1>1, <1>2, <1>3, <1>4 DEF Receiver

LEMMA ReceiverTyped ==
  ASSUME Types, Receiver
  PROVE  Types'
<1>0. /\ UNCHANGED <<taken, pending, timing, play, rtsp, sender, ghost>>
      /\ gate' \in GateType
  BY ReceiverDoes
<1>1. ReceiverOK /\ BufferOK
  BY DEF Types
<1>2. ReceiverOK'
  <2>1. CASE recv.pc = "idle" /\ wire # <<>> /\ wire' = Tail(wire)
             /\ recv' \in RecvType /\ (recv'.pc # "idle" => recv'.frame = Head(wire))
    BY <1>0, <1>1, <2>1 DEF ReceiverOK
  <2>2. CASE recv.pc # "idle" /\ wire' = wire
             /\ recv' \in RecvType /\ (recv'.pc # "idle" => recv'.frame = recv.frame)
    BY <1>0, <1>1, <2>2 DEF ReceiverOK
  <2> QED BY <2>1, <2>2, ReceiverDoes
<1>3. BufferOK'
  <2>1. CASE queued' = queued
    <3>1. recv'.pc # "idle" => Cardinality(queued) < Capacity
      BY <1>1, ReceiverDoes DEF BufferOK
    <3> QED BY <1>0, <1>1, <2>1, <3>1 DEF BufferOK
  <2>2. CASE recv.pc # "idle" /\ queued' = queued \cup {recv.frame} /\ recv'.pc = "idle"
    <3>1. recv.frame \in Frame /\ Cardinality(queued) < Capacity /\ IsFiniteSet(queued)
      BY <1>1, <2>2 DEF ReceiverOK, BufferOK
    <3>2. /\ IsFiniteSet(queued')
          /\ Cardinality(queued') \in {Cardinality(queued), Cardinality(queued) + 1}
          /\ Cardinality(queued) \in Nat
      BY <2>2, <3>1, FS_AddElement, FS_CardinalityType
    <3> QED BY <1>0, <1>1, <2>2, <3>1, <3>2, Parameters DEF BufferOK
  <2> QED BY <2>1, <2>2, ReceiverDoes
<1> QED BY <1>0, <1>2, <1>3 DEF Types, RtspOK, PlayOK, CountsOK, PendingOK

(* ----------------------------- the sender ------------------------------ *)

LEMMA SendDoes ==
  ASSUME Types, Send
  PROVE  /\ UNCHANGED <<queued, taken, pending, timing, gate, play, rtsp, recv, ghost>>
         /\ sender' \in SenderType /\ sender'.next = sender.next + 1
         /\ <<sender.next, sender.at>> \in Frame
         /\ wire' = Append(wire, <<sender.next, sender.at>>)
<1>0. sender \in SenderType
  BY DEF Types, ReceiverOK
<1>1. /\ UNCHANGED <<queued, taken, pending, timing, gate, play, rtsp, recv, ghost>>
      /\ wire' = Append(wire, <<sender.next, sender.at>>)
      /\ sender' = [sender EXCEPT !.next = @ + 1, !.at = Wrap(@ + 1)]
      /\ sender.next < MaxFrames
  BY DEF Send, shared
<1>2. sender.next \in Nat /\ sender.at \in Timestamp
  BY <1>0 DEF SenderType
<1>3. <<sender.next, sender.at>> \in Frame
  BY <1>1, <1>2, Parameters DEF Frame
<1>4. sender.at \in Nat /\ sender.at < Modulus
  BY <1>2, Parameters DEF Timestamp
<1>5. Wrap(sender.at + 1) \in Timestamp
  BY <1>4, WrapTyped, Parameters
<1>6. sender.next + 1 \in Nat
  BY <1>2
<1>7. sender' \in SenderType /\ sender'.next = sender.next + 1
  BY <1>0, <1>1, <1>5, <1>6 DEF SenderType
<1> QED BY <1>1, <1>3, <1>7

(* --------------------- a step of the playback task --------------------- *)

LEMMA ForgetItemTyped ==
  ASSUME timing \in TimingType, play \in PlayType
  PROVE  /\ ForgetItem \in TimingType
         /\ ForgetItem.early = timing.early /\ ForgetItem.late = timing.late
         /\ ForgetItem.playing = timing.playing
         /\ ForgetItem.pendingValid => timing.pendingValid
<1>1. (timing.pendingValid /\ ~play.fromPending) \in BOOLEAN
  OBVIOUS
<1> QED BY <1>1 DEF ForgetItem, TimingType, PlayType

(* The frame in hand: none, the pending frame, or a queued one; it is held *)
(* back, or it is gone.                                                    *)
LEMMA ReaderItem ==
  ASSUME Types, Reader
  PROVE  /\ UNCHANGED <<gate, rtsp, recv, wire, sender>>
         /\ queued' \subseteq queued
         /\ taken' = {} \/ taken' = taken \/ \E f \in queued : taken' = {f}
         /\ \/ play'.item \in {play.item, NoFrame}
            \/ timing.pendingValid /\ play'.item = pending
            \/ play'.item \in queued
         /\ \/ pending' = pending /\ (timing'.pendingValid => timing.pendingValid)
            \/ pending' = play.item /\ play.item \in Frame
         /\ ghost'.mark = ghost.mark /\ ghost'.excused = ghost.excused
<1> USE DEF Types, PlayOK
<1>1. CASE BecomeReady
  BY <1>1 DEF BecomeReady, TimingType
<1>2. CASE ReadStart \/ ReadDeferredFlag \/ ReadDeferredUntil
  BY <1>2 DEF ReadStart, ReadDeferredFlag, ReadDeferredUntil, shared, PlayType
<1>3. CASE GetFrame
  <2>1. UNCHANGED <<pending, timing, gate, rtsp, recv, wire, sender, ghost>>
    BY <1>3 DEF GetFrame
  <2>2. CASE UNCHANGED <<queued, taken>> /\ play' = [play EXCEPT !.pc = "idle"]
    BY <2>1, <2>2 DEF PlayType
  <2>3. CASE /\ UNCHANGED <<queued, taken>> /\ timing.pendingValid
             /\ play' = [play EXCEPT !.pc = "deferred", !.item = pending, !.fromPending = TRUE]
    BY <2>1, <2>3 DEF PlayType
  <2>4. CASE /\ Buffer!TakeOldest
             /\ \E f \in taken' :
                  play' = [play EXCEPT !.pc = "deferred", !.item = f, !.fromPending = FALSE]
    <3>1. PICK old \in queued : queued' = queued \ {old} /\ taken' = {old}
      BY <2>4 DEF Buffer!TakeOldest, Buffer!Oldest
    <3>2. play'.item = old
      BY <2>4, <3>1 DEF PlayType
    <3> QED BY <2>1, <3>1, <3>2
  <2> QED BY <1>3, <2>2, <2>3, <2>4 DEF GetFrame
<1>4. CASE FireDeferredFlush \/ BulkFlush \/ DropLate
  <2>1. /\ UNCHANGED <<pending, gate, rtsp, recv, wire, sender, ghost>>
        /\ taken' = {} /\ queued' \in {{}, queued}
    BY <1>4 DEF FireDeferredFlush, BulkFlush, DropLate, DropItemAndFlush
  <2>2. play'.item = NoFrame
    BY <1>4 DEF FireDeferredFlush, BulkFlush, DropLate, PlayType
  <2>3. timing'.pendingValid => timing.pendingValid
    <3>1. CASE FireDeferredFlush \/ DropLate
      BY <3>1, ForgetItemTyped DEF FireDeferredFlush, DropLate
    <3>2. CASE BulkFlush
      BY <3>2, ForgetItemTyped DEF BulkFlush, TimingType
    <3> QED BY <1>4, <3>1, <3>2
  <2> QED BY <2>1, <2>2, <2>3
<1>5. CASE FinishDeferredFlush
  BY <1>5 DEF FinishDeferredFlush, PlayType, TimingType
<1>6. CASE Judge
  <2>1. /\ UNCHANGED <<queued, taken, pending, gate, rtsp, recv, wire, sender, ghost>>
        /\ \E verdict : play' = [play EXCEPT !.pc = "act", !.verdict = verdict]
    BY <1>6 DEF Judge
  <2>2. play'.item = play.item
    BY <2>1 DEF PlayType
  <2>3. timing'.pendingValid = timing.pendingValid
    BY <1>6 DEF Judge, TimingType
  <2> QED BY <2>1, <2>2, <2>3
<1>7. CASE PlayItem
  <2>1. UNCHANGED <<queued, pending, gate, rtsp, recv, wire, sender>> /\ taken' = {}
    BY <1>7 DEF PlayItem
  <2>2. play'.item = NoFrame
    BY <1>7 DEF PlayItem, PlayType
  <2>3. timing'.pendingValid => timing.pendingValid
    BY <1>7, ForgetItemTyped DEF PlayItem, TimingType
  <2>4. ghost'.mark = ghost.mark /\ ghost'.excused = ghost.excused
    BY <1>7 DEF PlayItem, GhostType
  <2> QED BY <2>1, <2>2, <2>3, <2>4
<1>8. CASE HoldItem
  <2>1. /\ UNCHANGED <<queued, gate, rtsp, recv, wire, sender, ghost>>
        /\ taken' \in {taken, {}}
        /\ play.item \in Frame
    BY <1>8 DEF HoldItem, Holding
  <2>2. play'.item = NoFrame
    BY <1>8 DEF HoldItem, PlayType
  <2>3. \/ pending' = pending /\ timing' = timing
        \/ pending' = play.item
    BY <1>8 DEF HoldItem
  <2> QED BY <2>1, <2>2, <2>3
<1> QED BY <1>1, <1>2, <1>3, <1>4, <1>5, <1>6, <1>7, <1>8 DEF Reader

(* A frame in hand is looked at as one of the Attempts of this read.       *)
LEMMA ReaderPlay ==
  ASSUME Types, Reader
  PROVE  PlayOK'
<1>0. play \in PlayType /\ Attempts \in Nat \ {0} /\ play.attempt <= Attempts + 1
      /\ (play.pc \in Holding => play.item \in Frame /\ play.attempt <= Attempts)
  BY Parameters DEF Types, PlayOK
<1>1. CASE BecomeReady
  BY <1>0, <1>1 DEF BecomeReady, PlayOK
<1>2. CASE ReadStart
  <2>1. play' = [play EXCEPT !.pc = "get", !.attempt = 1]
    BY <1>2 DEF ReadStart
  <2>2. 1 \in Nat /\ 1 <= Attempts + 1
    BY <1>0
  <2>3. play' \in PlayType /\ play'.pc = "get" /\ play'.attempt = 1
    BY <1>0, <2>1, <2>2 DEF PlayType, PlayPc
  <2> QED BY <2>2, <2>3 DEF PlayOK, Holding
<1>3. CASE GetFrame
  <2>1. CASE play' = [play EXCEPT !.pc = "idle"]
    BY <1>0, <2>1 DEF PlayOK, PlayType, PlayPc, Holding
  <2>2. CASE /\ play.attempt <= Attempts
             /\ \E f \in Frame, b \in BOOLEAN :
                  play' = [play EXCEPT !.pc = "deferred", !.item = f, !.fromPending = b]
    <3>1. PICK f \in Frame, b \in BOOLEAN :
            play' = [play EXCEPT !.pc = "deferred", !.item = f, !.fromPending = b]
      BY <2>2
    <3> QED BY <1>0, <2>2, <3>1 DEF PlayOK, PlayType, PlayPc, Holding, FrameOrNone
  <2>3. CASE /\ play.attempt <= Attempts /\ timing.pendingValid
             /\ play' = [play EXCEPT !.pc = "deferred", !.item = pending, !.fromPending = TRUE]
    <3>1. pending \in Frame
      BY <2>3 DEF Types, PendingOK
    <3> QED BY <2>2, <2>3, <3>1
  <2>4. CASE /\ play.attempt <= Attempts /\ Buffer!TakeOldest
             /\ \E f \in taken' :
                  play' = [play EXCEPT !.pc = "deferred", !.item = f, !.fromPending = FALSE]
    <3>1. PICK old \in queued : taken' = {old}
      BY <2>4 DEF Buffer!TakeOldest, Buffer!Oldest
    <3>2. old \in Frame
      BY <3>1 DEF Types, BufferOK
    <3>3. play' = [play EXCEPT !.pc = "deferred", !.item = old, !.fromPending = FALSE]
      BY <2>4, <3>1
    <3> QED BY <2>2, <2>4, <3>2, <3>3
  <2> QED BY <1>3, <2>1, <2>3, <2>4 DEF GetFrame
<1>4. CASE ReadDeferredFlag \/ ReadDeferredUntil
  <2>1. /\ play.pc \in Holding
        /\ \E pc \in {"until", "judge", "fire"} : play' = [play EXCEPT !.pc = pc]
    BY <1>4 DEF ReadDeferredFlag, ReadDeferredUntil, Holding
  <2> QED BY <1>0, <2>1 DEF PlayOK, PlayType, PlayPc, Holding
<1>5. CASE FireDeferredFlush \/ PlayItem \/ HoldItem \/ BulkFlush
  <2>1. \E pc \in {"idle", "fired"} : play' = [play EXCEPT !.pc = pc, !.item = NoFrame]
    BY <1>5 DEF FireDeferredFlush, PlayItem, HoldItem, BulkFlush
  <2> QED BY <1>0, <2>1 DEF PlayOK, PlayType, PlayPc, Holding, FrameOrNone
<1>6. CASE FinishDeferredFlush
  <2>1. play' = [play EXCEPT !.pc = "idle"]
    BY <1>6 DEF FinishDeferredFlush
  <2> QED BY <1>0, <2>1 DEF PlayOK, PlayType, PlayPc, Holding
<1>7. CASE Judge
  <2>1. /\ play.pc \in Holding
        /\ \E verdict \in Verdicts : play' = [play EXCEPT !.pc = "act", !.verdict = verdict]
    <3>1. \A early, expired : Verdict(early, expired) \in Verdicts
      BY DEF Verdict, Verdicts
    <3>2. \/ play' = [play EXCEPT !.pc = "act", !.verdict = "play"]
          \/ \E early \in Offset, expired \in BOOLEAN :
               play' = [play EXCEPT !.pc = "act", !.verdict = Verdict(early, expired)]
      BY <1>7 DEF Judge
    <3>3. play.pc \in Holding
      BY <1>7 DEF Judge, Holding
    <3> QED BY <3>1, <3>2, <3>3 DEF Verdicts
  <2> QED BY <1>0, <2>1 DEF PlayOK, PlayType, PlayPc, Holding
<1>8. CASE DropLate
  <2>1. /\ play.pc \in Holding
        /\ play' = [play EXCEPT !.pc = "get", !.attempt = @ + 1, !.item = NoFrame]
    BY <1>8 DEF DropLate, Holding
  <2>2. play.attempt + 1 \in Nat /\ play.attempt + 1 <= Attempts + 1
    BY <1>0, <2>1 DEF PlayType
  <2> QED BY <1>0, <2>1, <2>2 DEF PlayOK, PlayType, PlayPc, Holding, FrameOrNone
<1> QED BY <1>1, <1>2, <1>3, <1>4, <1>5, <1>6, <1>7, <1>8 DEF Reader

(* A verdict that lets a count pass its maximum is acted on by clearing    *)
(* the count.                                                              *)
LEMMA ReaderCounts ==
  ASSUME Types, Reader
  PROVE  timing' \in TimingType /\ CountsOK'
<1>0. /\ timing \in TimingType /\ play \in PlayType /\ CountsOK
      /\ MaxEarly \in Nat /\ MaxLate \in Nat
  BY Parameters DEF Types, PlayOK
<1>a. /\ timing.early \in Nat /\ timing.late \in Nat
      /\ timing.early + 1 \in Nat /\ timing.late + 1 \in Nat
  BY <1>0 DEF TimingType
<1>b. 0 <= MaxEarly /\ 0 <= MaxLate
  BY <1>0
(* Steps that leave the counts alone, outside "act".                       *)
<1>1. CASE BecomeReady
  <2>1. timing' = [timing EXCEPT !.ready = TRUE] /\ play' = play
    BY <1>1 DEF BecomeReady
  <2> QED BY <1>0, <2>1 DEF TimingType, CountsOK
<1>2. CASE ReadStart \/ GetFrame \/ ReadDeferredFlag \/ ReadDeferredUntil
  <2>1. timing' = timing /\ play.pc # "act"
    BY <1>2 DEF ReadStart, GetFrame, ReadDeferredFlag, ReadDeferredUntil, shared
  <2> QED BY <1>0, <2>1 DEF CountsOK
<1>3. CASE FireDeferredFlush
  <2>1. timing' = ForgetItem /\ play.pc # "act"
    BY <1>3 DEF FireDeferredFlush
  <2> QED BY <1>0, <2>1, ForgetItemTyped DEF CountsOK
<1>4. CASE FinishDeferredFlush
  <2>1. timing' = [timing EXCEPT !.deferred = FALSE, !.started = FALSE, !.ready = FALSE,
                                 !.early = 0, !.late = 0, !.postFlush = TRUE,
                                 !.postFlushStarted = FALSE]
    BY <1>4 DEF FinishDeferredFlush
  <2>2. timing' \in TimingType /\ timing'.early = 0 /\ timing'.late = 0
    BY <1>0, <2>1 DEF TimingType
  <2> QED BY <1>b, <2>2 DEF CountsOK
<1>5. CASE Judge
  <2>0. timing.early <= MaxEarly /\ timing.late <= MaxLate
    BY <1>0, <1>5 DEF Judge, CountsOK
  <2>1. CASE timing' = timing
    BY <1>0, <2>0, <2>1 DEF CountsOK
  <2>2. ASSUME NEW early \in Offset, NEW expired \in BOOLEAN,
               play' = [play EXCEPT !.pc = "act", !.verdict = Verdict(early, expired)],
               timing' =
                  IF timing.postFlush
                  THEN [timing EXCEPT !.postFlushStarted = TRUE]
                  ELSE IF early > TimingThreshold
                  THEN [timing EXCEPT !.early = @ + 1]
                  ELSE IF early < -TimingThreshold
                  THEN [timing EXCEPT !.early = 0, !.late = @ + 1]
                  ELSE timing
        PROVE  timing' \in TimingType /\ CountsOK'
    <3>0. play'.pc = "act" /\ play'.verdict = Verdict(early, expired)
      BY <1>0, <2>2 DEF PlayType
    <3>1. CASE timing.postFlush
      <4>1. timing' = [timing EXCEPT !.postFlushStarted = TRUE]
        BY <2>2, <3>1
      <4>2. timing' \in TimingType /\ timing'.early = timing.early /\ timing'.late = timing.late
        BY <1>0, <4>1 DEF TimingType
      <4> QED BY <2>0, <4>2 DEF CountsOK
    <3>2. CASE ~timing.postFlush /\ early > TimingThreshold
      <4>1. timing' = [timing EXCEPT !.early = @ + 1]
        BY <2>2, <3>2
      <4>2. /\ timing' \in TimingType /\ timing'.early = timing.early + 1
            /\ timing'.late = timing.late
        BY <1>0, <1>a, <4>1 DEF TimingType
      <4>3. timing.early + 1 > MaxEarly => play'.verdict = "give up"
        BY <3>0, <3>2 DEF Verdict
      <4>4. \/ timing.early + 1 <= MaxEarly
            \/ timing.early + 1 = MaxEarly + 1 /\ timing.early + 1 > MaxEarly
        BY <1>0, <1>a, <2>0
      <4> QED BY <2>0, <3>0, <4>2, <4>3, <4>4 DEF CountsOK
    <3>3. CASE ~timing.postFlush /\ ~(early > TimingThreshold) /\ early < -TimingThreshold
      <4>1. timing' = [timing EXCEPT !.early = 0, !.late = @ + 1]
        BY <2>2, <3>3
      <4>2. /\ timing' \in TimingType /\ timing'.early = 0
            /\ timing'.late = timing.late + 1
        BY <1>0, <1>a, <4>1 DEF TimingType
      <4>3. timing.late + 1 > MaxLate => play'.verdict = "flush"
        BY <3>0, <3>3 DEF Verdict
      <4>4. \/ timing.late + 1 <= MaxLate
            \/ timing.late + 1 = MaxLate + 1 /\ timing.late + 1 > MaxLate
        BY <1>0, <1>a, <2>0
      <4> QED BY <1>b, <3>0, <4>2, <4>3, <4>4 DEF CountsOK
    <3>4. CASE ~timing.postFlush /\ ~(early > TimingThreshold) /\ ~(early < -TimingThreshold)
      BY <2>1, <2>2, <3>4
    <3> QED BY <3>1, <3>2, <3>3, <3>4
  <2> QED BY <1>5, <2>1, <2>2 DEF Judge
<1>6. CASE PlayItem
  <2>1. timing' = [ForgetItem EXCEPT
                     !.started = TRUE, !.early = 0, !.late = 0,
                     !.anchorValid = @ /\ play.verdict # "give up",
                     !.postFlush = @ /\ play.verdict # "play and settle",
                     !.postFlushStarted = @ /\ play.verdict # "play and settle"]
    BY <1>6 DEF PlayItem
  <2>2. timing' \in TimingType /\ timing'.early = 0 /\ timing'.late = 0
    <3>1. ForgetItem \in TimingType
      BY <1>0, ForgetItemTyped
    <3>2. PICK a, b, c \in BOOLEAN :
            timing' = [ForgetItem EXCEPT !.started = TRUE, !.early = 0, !.late = 0,
                                         !.anchorValid = a, !.postFlush = b,
                                         !.postFlushStarted = c]
      BY <2>1, Zenon
    <3> QED BY <3>1, <3>2 DEF TimingType
  <2> QED BY <1>b, <2>2 DEF CountsOK
<1>7. CASE HoldItem
  <2>1. timing' = timing \/ timing' = [timing EXCEPT !.pendingValid = TRUE]
    BY <1>7 DEF HoldItem
  <2>2. timing' \in TimingType /\ timing'.early = timing.early /\ timing'.late = timing.late
    BY <1>0, <2>1 DEF TimingType
  <2>3. play.verdict = "hold"
    BY <1>7 DEF HoldItem
  <2> QED BY <1>0, <2>2, <2>3 DEF CountsOK
<1>8. CASE DropLate
  <2>1. timing' = ForgetItem /\ play.verdict = "drop"
    BY <1>8 DEF DropLate
  <2> QED BY <1>0, <2>1, ForgetItemTyped DEF CountsOK
<1>9. CASE BulkFlush
  <2>1. timing' = [ForgetItem EXCEPT !.started = FALSE, !.ready = FALSE, !.early = 0, !.late = 0]
    BY <1>9 DEF BulkFlush
  <2>2. timing' \in TimingType /\ timing'.early = 0 /\ timing'.late = 0
    <3>1. ForgetItem \in TimingType
      BY <1>0, ForgetItemTyped
    <3> QED BY <2>1, <3>1 DEF TimingType
  <2> QED BY <1>b, <2>2 DEF CountsOK
<1> QED BY <1>1, <1>2, <1>3, <1>4, <1>5, <1>6, <1>7, <1>8, <1>9 DEF Reader

LEMMA ReaderTyped ==
  ASSUME Types, Reader
  PROVE  Types'
<1>1. /\ UNCHANGED <<gate, rtsp, recv, wire, sender>>
      /\ queued' \subseteq queued
      /\ taken' = {} \/ taken' = taken \/ \E f \in queued : taken' = {f}
      /\ \/ pending' = pending /\ (timing'.pendingValid => timing.pendingValid)
         \/ pending' = play.item /\ play.item \in Frame
  BY ReaderItem
<1>2. BufferOK'
  <2>1. queued' \subseteq Frame
    BY <1>1 DEF Types, BufferOK
  <2>2. /\ IsFiniteSet(queued) /\ Cardinality(queued) <= Capacity
        /\ recv.pc # "idle" => Cardinality(queued) < Capacity
    BY DEF Types, BufferOK
  <2>3. /\ IsFiniteSet(queued') /\ Cardinality(queued') <= Cardinality(queued)
        /\ Cardinality(queued) \in Nat /\ Cardinality(queued') \in Nat
    BY <1>1, <2>2, FS_Subset, FS_CardinalityType
  <2>4. /\ Cardinality(queued') <= Capacity
        /\ recv'.pc # "idle" => Cardinality(queued') < Capacity
    BY <1>1, <2>2, <2>3, Parameters
  <2>5. taken' = {} \/ \E f \in Frame : taken' = {f}
    BY <1>1 DEF Types, BufferOK
  <2> QED BY <2>1, <2>3, <2>4, <2>5 DEF BufferOK
<1>3. PendingOK'
  BY <1>1 DEF Types, PendingOK, FrameOrNone
<1>4. ghost' \in GhostType
  <2>1. CASE PlayItem
    <3>1. play.item \in Frame
      BY <2>1 DEF PlayItem, Types, PlayOK, Holding
    <3>2. ghost.last \in Int /\ ghost.quiet \in 0..2 /\ ghost \in GhostType
      BY DEF Types, GhostType
    <3>3. Max2(ghost.last, Number(play.item)) \in Int
      BY <3>1, <3>2, FrameFields DEF Max2
    <3>4. (IF timing.playing \/ ghost.quiet = 2 THEN ghost.quiet ELSE ghost.quiet + 1) \in 0..2
      BY <3>2
    <3>5. PICK last \in Int, quiet \in 0..2 :
            ghost' = [ghost EXCEPT !.last = last, !.quiet = quiet]
      BY <2>1, <3>3, <3>4 DEF PlayItem
    <3> QED BY <3>2, <3>5 DEF GhostType
  <2>2. CASE ~PlayItem
    <3>1. ghost' = ghost
      BY <2>2 DEF Reader, BecomeReady, ReadStart, GetFrame, ReadDeferredFlag,
                  ReadDeferredUntil, FireDeferredFlush, FinishDeferredFlush, Judge, HoldItem,
                  DropLate, BulkFlush
    <3> QED BY <3>1 DEF Types
  <2> QED BY <2>1, <2>2
<1>5. ReceiverOK' /\ RtspOK' /\ gate' \in GateType
  BY <1>1 DEF Types, ReceiverOK, RtspOK
<1> QED BY <1>2, <1>3, <1>4, <1>5, ReaderPlay, ReaderCounts DEF Types

LEMMA HandlerTyped ==
  ASSUME Types, Handler
  PROVE  Types'
<1>1. /\ UNCHANGED <<taken, pending, play, recv, wire, sender>> /\ RtspOK'
      /\ queued' = {} \/ queued' = queued
  BY HandlerDoes DEF Types
<1>2. /\ timing' \in TimingType /\ gate' \in GateType /\ ghost' \in GhostType
      /\ timing'.early \in {timing.early, 0} /\ timing'.late \in {timing.late, 0}
      /\ timing'.pendingValid => timing.pendingValid
  BY HandlerWrites
<1>3. BufferOK'
  <2>1. CASE queued' = queued
    BY <1>1, <2>1 DEF Types, BufferOK
  <2>2. CASE queued' = {}
    <3>1. IsFiniteSet(queued') /\ Cardinality(queued') = 0
      BY <2>2, FS_EmptySet
    <3>2. 0 <= Capacity /\ 0 < Capacity
      BY Parameters
    <3> QED BY <1>1, <2>2, <3>1, <3>2 DEF Types, BufferOK
  <2> QED BY <1>1, <2>1, <2>2
<1>4. PendingOK' /\ PlayOK'
  BY <1>1, <1>2 DEF Types, PendingOK, PlayOK
<1>5. CountsOK'
  <2>1. 0 <= MaxEarly /\ 0 <= MaxLate
    BY Parameters
  <2>2. CountsOK
    BY DEF Types
  <2>3. \/ timing'.early <= MaxEarly
        \/ timing'.early = MaxEarly + 1 /\ play.pc = "act" /\ play.verdict = "give up"
    BY <1>2, <2>1, <2>2 DEF CountsOK
  <2>4. \/ timing'.late <= MaxLate
        \/ timing'.late = MaxLate + 1 /\ play.pc = "act" /\ play.verdict = "flush"
    BY <1>2, <2>1, <2>2 DEF CountsOK
  <2> QED BY <1>1, <2>3, <2>4 DEF CountsOK
<1>6. ReceiverOK'
  BY <1>1 DEF Types, ReceiverOK
<1> QED BY <1>1, <1>2, <1>3, <1>4, <1>5, <1>6 DEF Types

LEMMA TypesKeep == Types /\ [Next]_vars => Types'
<1> SUFFICES ASSUME Types, [Next]_vars PROVE Types'
  OBVIOUS
<1>1. CASE Requests
  <2>1. /\ UNCHANGED <<queued, taken, pending, timing, gate, play, recv, wire>>
        /\ RtspOK' /\ sender' \in SenderType /\ ghost' \in GhostType
    BY <1>1, RequestsDo
  <2> QED BY <2>1 DEF Types, PlayOK, CountsOK, PendingOK, BufferOK, ReceiverOK
<1>2. CASE Send
  <2>1. /\ UNCHANGED <<queued, taken, pending, timing, gate, play, rtsp, recv, ghost>>
        /\ sender' \in SenderType /\ <<sender.next, sender.at>> \in Frame
        /\ wire' = Append(wire, <<sender.next, sender.at>>)
    BY <1>2, SendDoes
  <2>2. wire' \in Seq(Frame)
    BY <2>1 DEF Types, ReceiverOK
  <2> QED BY <2>1, <2>2 DEF Types, RtspOK, PlayOK, CountsOK, PendingOK, BufferOK, ReceiverOK
<1>3. CASE UNCHANGED vars
  BY <1>3 DEF vars, shared, Types, RtspOK, PlayOK, CountsOK, PendingOK, BufferOK, ReceiverOK
<1> QED BY <1>1, <1>2, <1>3, ReaderTyped, HandlerTyped, ReceiverTyped DEF Next

(* No count, cursor or buffer leaves its range: at most MaxEarly frames in *)
(* a row are held and MaxLate dropped, a read looks at Attempts frames at  *)
(* most, and the receiver never fills the buffer beyond Capacity.          *)
THEOREM Typed == Spec => []TypeOK
<1>1. Types => TypeOK
  <2> SUFFICES ASSUME Types PROVE TypeOK
    OBVIOUS
  <2>1. timing \in [started : BOOLEAN, playing : BOOLEAN, anchorValid : BOOLEAN,
                    pendingValid : BOOLEAN, ready : BOOLEAN,
                    early : 0..(MaxEarly + 1), late : 0..(MaxLate + 1),
                    postFlush : BOOLEAN, postFlushStarted : BOOLEAN,
                    deferred : BOOLEAN, until : Timestamp]
    <3>a. timing.early \in Nat /\ timing.late \in Nat
      BY DEF Types, TimingType
    <3>b. timing.early <= MaxEarly \/ timing.early = MaxEarly + 1
      BY DEF Types, CountsOK
    <3>c. timing.late <= MaxLate \/ timing.late = MaxLate + 1
      BY DEF Types, CountsOK
    <3>1. timing.early \in 0..(MaxEarly + 1) /\ timing.late \in 0..(MaxLate + 1)
      BY <3>a, <3>b, <3>c, Parameters
    <3>2. timing \in TimingType
      BY DEF Types
    <3> QED BY <3>1, <3>2 DEF TimingType
  <2>2. taken \subseteq Frame /\ Cardinality(taken) <= 1
    <3>1. CASE taken = {}
      BY <3>1, FS_EmptySet
    <3>2. CASE \E f \in Frame : taken = {f}
      BY <3>2, FS_Singleton
    <3> QED BY <3>1, <3>2 DEF Types, BufferOK
  <2>3. play.attempt \in 0..(Attempts + 1) /\ play.item \in Frame \cup {NoFrame}
    BY Parameters DEF Types, PlayOK, PlayType, FrameOrNone
  <2>4. /\ queued \subseteq Frame /\ Cardinality(queued) <= Capacity
        /\ pending \in Frame \cup {NoFrame}
        /\ recv.frame \in Frame \cup {NoFrame} /\ wire \in Seq(Frame)
        /\ gate \in GateType
    BY DEF Types, BufferOK, PendingOK, ReceiverOK, RecvType, FrameOrNone
  <2> QED BY <2>1, <2>2, <2>3, <2>4 DEF TypeOK, GateType
<1> QED BY <1>1, InitTypes, TypesKeep, PTL DEF Spec

(* ----------------------- silence after a flush ------------------------- *)

(* Frames enter the buffer in the order they were sent.                    *)
Order ==
  /\ \A i \in 1..Len(wire) : Number(wire[i]) < sender.next
  /\ \A i, j \in 1..Len(wire) : i < j => Number(wire[i]) < Number(wire[j])
  /\ recv.pc # "idle" => /\ Number(recv.frame) < sender.next
                         /\ \A i \in 1..Len(wire) : Number(recv.frame) < Number(wire[i])

(* All frames that are in the buffer or have yet to enter it were sent     *)
(* after the last flush of the buffer.                                     *)
Marks ==
  /\ ghost.mark <= rtsp.mark /\ rtsp.mark <= sender.next
  /\ \A f \in queued : Number(f) >= rtsp.mark
  /\ recv.pc # "idle" => Number(recv.frame) >= rtsp.mark
  /\ \A i \in 1..Len(wire) : Number(wire[i]) >= rtsp.mark

MayPlay(f) == Number(f) >= ghost.mark \/ Number(f) \in ghost.excused

Silence == /\ timing.pendingValid => MayPlay(pending)
           /\ \A f \in InHand : MayPlay(f)

Flushed == Order /\ Marks /\ Silence

LEMMA Numbers ==
  ASSUME Types
  PROVE  /\ sender.next \in Nat /\ rtsp.mark \in Nat /\ ghost.mark \in Nat
         /\ Len(wire) \in Nat
         /\ \A i \in 1..Len(wire) : wire[i] \in Frame /\ Number(wire[i]) \in Nat
         /\ recv.pc # "idle" => Number(recv.frame) \in Nat
         /\ \A f \in queued : Number(f) \in Nat
<1>1. sender.next \in Nat /\ rtsp.mark \in Nat /\ ghost.mark \in Nat
  BY DEF Types, ReceiverOK, SenderType, RtspOK, GhostType
<1>2. wire \in Seq(Frame)
  BY DEF Types, ReceiverOK
<1>3. Len(wire) \in Nat /\ \A i \in 1..Len(wire) : wire[i] \in Frame
  BY <1>2
<1>4. recv.pc # "idle" => recv.frame \in Frame
  BY DEF Types, ReceiverOK
<1>5. queued \subseteq Frame
  BY DEF Types, BufferOK
<1> QED BY <1>1, <1>3, <1>4, <1>5, FrameFields

LEMMA NextArrivalLeast ==
  ASSUME Types, Order, Marks
  PROVE  /\ rtsp.mark <= NextArrival /\ NextArrival <= sender.next
         /\ \A i \in 1..Len(wire) : Number(wire[i]) >= NextArrival
         /\ recv.pc # "idle" => Number(recv.frame) >= NextArrival
<1>1. CASE recv.pc # "idle"
  <2>1. NextArrival = Number(recv.frame)
    BY <1>1 DEF NextArrival
  <2> QED BY <1>1, <2>1, Numbers DEF Order, Marks
<1>2. CASE recv.pc = "idle" /\ wire # <<>>
  <2>1. wire \in Seq(Frame)
    BY DEF Types, ReceiverOK
  <2>2. Head(wire) = wire[1] /\ 1 \in 1..Len(wire)
    BY <1>2, <2>1
  <2>3. NextArrival = Number(wire[1])
    BY <1>2, <2>2 DEF NextArrival
  <2>4. \A i \in 1..Len(wire) : i = 1 \/ 1 < i
    BY Numbers
  <2>5. \A i \in 1..Len(wire) : Number(wire[i]) >= Number(wire[1])
    BY <2>2, <2>4, Numbers DEF Order
  <2> QED BY <1>2, <2>2, <2>3, <2>5, Numbers DEF Order, Marks
<1>3. CASE recv.pc = "idle" /\ wire = <<>>
  <2>1. NextArrival = sender.next
    BY <1>3 DEF NextArrival
  <2>2. Len(wire) = 0
    BY <1>3
  <2> QED BY <1>3, <2>1, <2>2, Numbers DEF Marks
<1> QED BY <1>1, <1>2, <1>3

LEMMA ReaderFlushed ==
  ASSUME Types, Flushed, Reader
  PROVE  Flushed'
<1>1. /\ UNCHANGED <<gate, rtsp, recv, wire, sender>>
      /\ queued' \subseteq queued
      /\ \/ play'.item \in {play.item, NoFrame}
         \/ timing.pendingValid /\ play'.item = pending
         \/ play'.item \in queued
      /\ \/ pending' = pending /\ (timing'.pendingValid => timing.pendingValid)
         \/ pending' = play.item /\ play.item \in Frame
      /\ ghost'.mark = ghost.mark /\ ghost'.excused = ghost.excused
  BY ReaderItem
<1>2. Order' /\ Marks'
  BY <1>1 DEF Flushed, Order, Marks
<1>3. \A f \in queued : MayPlay(f)
  BY Numbers DEF Flushed, Marks, MayPlay
<1>4. play.item # NoFrame => MayPlay(play.item)
  BY DEF Flushed, Silence, InHand
<1>5. play'.item # NoFrame => MayPlay(play'.item)
  BY <1>1, <1>3, <1>4 DEF Flushed, Silence
<1>6. timing'.pendingValid => MayPlay(pending')
  BY <1>1, <1>4, FrameFields DEF Flushed, Silence
<1>7. Silence'
  BY <1>1, <1>5, <1>6 DEF Silence, InHand, MayPlay
<1> QED BY <1>2, <1>7 DEF Flushed

LEMMA HandlerFlushed ==
  ASSUME Types, Flushed, Handler
  PROVE  Flushed'
<1>1. /\ UNCHANGED <<taken, pending, play, recv, wire, sender>>
      /\ \/ rtsp'.mark = NextArrival /\ queued' = {} /\ UNCHANGED <<timing, gate, ghost>>
         \/ rtsp'.mark = rtsp.mark /\ UNCHANGED queued
  BY HandlerDoes DEF Types
<1>2. /\ timing'.pendingValid => timing.pendingValid
      /\ \/ ghost'.mark = ghost.mark /\ ghost'.excused = ghost.excused
         \/ /\ ghost'.mark = rtsp.mark /\ ghost'.excused = {Number(f) : f \in InHand}
            /\ ~timing'.pendingValid
            /\ queued' = queued /\ rtsp'.mark = rtsp.mark
  BY HandlerWrites
<1>3. Order' /\ InHand' = InHand
  BY <1>1 DEF Flushed, Order, InHand
<1>4. Marks'
  <2>1. CASE rtsp'.mark = NextArrival /\ queued' = {} /\ UNCHANGED ghost
    <3>1. ghost'.mark <= rtsp'.mark
      BY <2>1, NextArrivalLeast, NextArrivalTyped, Numbers DEF Flushed, Marks, Types
    <3> QED BY <1>1, <2>1, <3>1, NextArrivalLeast DEF Flushed, Marks
  <2>2. CASE rtsp'.mark = rtsp.mark /\ queued' = queued
    <3>1. ghost'.mark <= rtsp'.mark
      BY <1>2, <2>2, Numbers DEF Flushed, Marks
    <3> QED BY <1>1, <2>2, <3>1 DEF Flushed, Marks
  <2> QED BY <1>1, <2>1, <2>2
<1>5. Silence'
  <2>1. CASE ghost'.mark = ghost.mark /\ ghost'.excused = ghost.excused
    BY <1>1, <1>2, <1>3, <2>1 DEF Flushed, Silence, MayPlay
  <2>2. CASE ghost'.excused = {Number(f) : f \in InHand} /\ ~timing'.pendingValid
    BY <1>3, <2>2 DEF Silence, MayPlay
  <2> QED BY <1>2, <2>1, <2>2
<1> QED BY <1>3, <1>4, <1>5 DEF Flushed

LEMMA ReceiverFlushed ==
  ASSUME Types, Flushed, Receiver
  PROVE  Flushed'
<1>1. /\ UNCHANGED <<taken, pending, timing, play, rtsp, sender, ghost>>
      /\ \/ queued' = queued
         \/ recv.pc # "idle" /\ queued' = queued \cup {recv.frame} /\ recv'.pc = "idle"
      /\ \/ /\ recv.pc = "idle" /\ wire # <<>> /\ wire' = Tail(wire)
            /\ Cardinality(queued) < Capacity /\ queued' = queued
            /\ recv'.pc # "idle" => recv'.frame = Head(wire)
         \/ /\ recv.pc # "idle" /\ wire' = wire
            /\ recv'.pc # "idle" => recv'.frame = recv.frame
  BY ReceiverDoes
<1>2. Silence'
  BY <1>1 DEF Flushed, Silence, MayPlay, InHand
<1>3. /\ ghost'.mark <= rtsp'.mark /\ rtsp'.mark <= sender'.next
      /\ \A f \in queued' : Number(f) >= rtsp'.mark
  BY <1>1 DEF Flushed, Marks
<1>4. CASE recv.pc # "idle" /\ wire' = wire /\ (recv'.pc # "idle" => recv'.frame = recv.frame)
  BY <1>1, <1>2, <1>3, <1>4 DEF Flushed, Order, Marks
<1>5. CASE wire # <<>> /\ wire' = Tail(wire) /\ (recv'.pc # "idle" => recv'.frame = Head(wire))
  <2>1. wire \in Seq(Frame)
    BY DEF Types, ReceiverOK
  <2>2. /\ Head(wire) = wire[1] /\ 1 \in 1..Len(wire)
        /\ Len(wire') = Len(wire) - 1
        /\ \A i \in 1..Len(wire') : wire'[i] = wire[i + 1] /\ i + 1 \in 1..Len(wire) /\ 1 < i + 1
    BY <1>5, <2>1
  <2>3. Len(wire') \in Nat
    BY <2>2, Numbers
  <2>4. \A i, j \in 1..Len(wire') : i < j => i + 1 < j + 1
    BY <2>3
  <2>5. Order'
    <3>1. \A i \in 1..Len(wire') : Number(wire'[i]) < sender'.next
      BY <1>1, <2>2 DEF Flushed, Order
    <3>2. \A i, j \in 1..Len(wire') : i < j => Number(wire'[i]) < Number(wire'[j])
      BY <2>2, <2>4 DEF Flushed, Order
    <3>3. recv'.pc # "idle" => /\ Number(recv'.frame) < sender'.next
                               /\ \A i \in 1..Len(wire') : Number(recv'.frame) < Number(wire'[i])
      BY <1>1, <1>5, <2>2 DEF Flushed, Order
    <3> QED BY <3>1, <3>2, <3>3 DEF Order
  <2>6. Marks'
    <3>1. \A i \in 1..Len(wire') : Number(wire'[i]) >= rtsp'.mark
      BY <1>1, <2>2 DEF Flushed, Marks
    <3>2. recv'.pc # "idle" => Number(recv'.frame) >= rtsp'.mark
      BY <1>1, <1>5, <2>2 DEF Flushed, Marks
    <3> QED BY <1>3, <3>1, <3>2 DEF Marks
  <2> QED BY <1>2, <2>5, <2>6 DEF Flushed
<1> QED BY <1>1, <1>4, <1>5

LEMMA SendFlushed ==
  ASSUME Types, Flushed, Send
  PROVE  Flushed'
<1>1. /\ UNCHANGED <<queued, taken, pending, timing, gate, play, rtsp, recv, ghost>>
      /\ sender'.next = sender.next + 1
      /\ <<sender.next, sender.at>> \in Frame
      /\ wire' = Append(wire, <<sender.next, sender.at>>)
  BY SendDoes
<1>2. wire \in Seq(Frame)
  BY DEF Types, ReceiverOK
<1>3. /\ Len(wire') = Len(wire) + 1
      /\ \A i \in 1..Len(wire) : wire'[i] = wire[i]
      /\ wire'[Len(wire) + 1] = <<sender.next, sender.at>>
  BY <1>1, <1>2
<1>4. Number(wire'[Len(wire) + 1]) = sender.next
  BY <1>3 DEF Number
<1>5. \A i \in 1..Len(wire') : i \in 1..Len(wire) \/ i = Len(wire) + 1
  BY <1>3, Numbers
<1>6. /\ \A i \in 1..Len(wire') : Number(wire'[i]) <= sender.next
      /\ \A i \in 1..Len(wire) : Number(wire'[i]) < sender.next
  <2>1. sender.next \in Nat /\ \A i \in 1..Len(wire) : Number(wire[i]) \in Nat
    BY Numbers
  <2>2. \A i \in 1..Len(wire) : Number(wire[i]) < sender.next
    BY DEF Flushed, Order
  <2>3. \A i \in 1..Len(wire) : Number(wire'[i]) < sender.next
    BY <1>3, <2>2
  <2>4. \A i \in 1..Len(wire) : Number(wire'[i]) <= sender.next
    BY <1>3, <2>1, <2>2
  <2>5. Number(wire'[Len(wire) + 1]) <= sender.next
    BY <1>4, <2>1
  <2> QED BY <1>5, <2>3, <2>4, <2>5
<1>7. Order'
  <2>1. \A i \in 1..Len(wire') : Number(wire'[i]) < sender'.next
    <3>1. \A i \in 1..Len(wire') : Number(wire'[i]) \in Nat
      BY <1>3, <1>4, <1>5, Numbers
    <3> QED BY <1>1, <1>6, <3>1, Numbers
  <2>2. ASSUME NEW i \in 1..Len(wire'), NEW j \in 1..Len(wire'), i < j
        PROVE  Number(wire'[i]) < Number(wire'[j])
    <3>1. i \in 1..Len(wire)
      BY <1>3, <2>2, Numbers
    <3>2. CASE j \in 1..Len(wire)
      BY <1>3, <2>2, <3>1, <3>2 DEF Flushed, Order
    <3>3. CASE j = Len(wire) + 1
      BY <1>4, <1>6, <3>1, <3>3
    <3> QED BY <1>5, <3>2, <3>3
  <2>3. ASSUME recv'.pc # "idle"
        PROVE  /\ Number(recv'.frame) < sender'.next
               /\ \A i \in 1..Len(wire') : Number(recv'.frame) < Number(wire'[i])
    <3>1. /\ Number(recv.frame) < sender.next /\ Number(recv.frame) \in Nat
          /\ \A i \in 1..Len(wire) : Number(recv.frame) < Number(wire[i])
      BY <1>1, <2>3, Numbers DEF Flushed, Order
    <3>2. Number(recv.frame) < sender.next + 1
      BY <3>1, Numbers
    <3>3. \A i \in 1..Len(wire') : Number(recv.frame) < Number(wire'[i])
      BY <1>3, <1>4, <1>5, <3>1
    <3> QED BY <1>1, <3>2, <3>3
  <2> QED BY <2>1, <2>2, <2>3 DEF Order
<1>8. Marks'
  <2>1. \A i \in 1..Len(wire') : Number(wire'[i]) >= rtsp'.mark
    BY <1>1, <1>3, <1>4, <1>5 DEF Flushed, Marks
  <2>2. rtsp'.mark <= sender'.next
    BY <1>1, Numbers DEF Flushed, Marks
  <2> QED BY <1>1, <2>1, <2>2 DEF Flushed, Marks
<1>9. Silence'
  BY <1>1 DEF Flushed, Silence, MayPlay, InHand
<1> QED BY <1>7, <1>8, <1>9 DEF Flushed

LEMMA FlushedKeeps == Types /\ Flushed /\ [Next]_vars => Flushed'
<1> SUFFICES ASSUME Types, Flushed, [Next]_vars PROVE Flushed'
  OBVIOUS
<1>1. CASE Requests
  <2>1. /\ UNCHANGED <<queued, taken, pending, timing, gate, play, recv, wire>>
        /\ rtsp'.mark = rtsp.mark /\ sender'.next = sender.next
        /\ ghost'.mark = ghost.mark /\ ghost'.excused = ghost.excused
    BY <1>1, RequestsDo
  <2> QED BY <2>1 DEF Flushed, Order, Marks, Silence, MayPlay, InHand
<1>2. CASE UNCHANGED vars
  BY <1>2 DEF vars, shared, Flushed, Order, Marks, Silence, MayPlay, InHand
<1> QED BY <1>1, <1>2, ReaderFlushed, HandlerFlushed, ReceiverFlushed, SendFlushed DEF Next

(* A flush is a flush: whatever the playback task, the handlers and the    *)
(* receiver task are in the middle of when audio_receiver_flush (or a seek *)
(* in audio_receiver_set_anchor_time) runs, no frame it flushed is played  *)
(* after the pending frame is forgotten, but for the one in hand then.     *)
THEOREM FlushSilences == Spec => FlushedFramesStaySilent
<1>1. Init => Flushed
  <2> SUFFICES ASSUME Init PROVE Flushed
    OBVIOUS
  <2>1. /\ queued = {} /\ wire = <<>> /\ recv.pc = "idle" /\ play.item = NoFrame
        /\ ~timing.pendingValid /\ ghost.mark = 0 /\ rtsp.mark = 0 /\ sender.next = 0
    BY DEF Init
  <2>2. Len(wire) = 0
    BY <2>1
  <2>3. Order /\ Marks
    BY <2>1, <2>2 DEF Order, Marks
  <2>4. Silence
    BY <2>1 DEF Silence, InHand
  <2> QED BY <2>3, <2>4 DEF Flushed
<1>2. Flushed /\ [Next]_vars
        => [\A f \in InHand : Played(f) => \/ Number(f) >= ghost.mark
                                           \/ Number(f) \in ghost.excused]_vars
  BY DEF Flushed, Silence, MayPlay
<1> QED BY <1>1, <1>2, InitTypes, TypesKeep, FlushedKeeps, PTL DEF Spec, FlushedFramesStaySilent

(* --------------------- silence while paused ---------------------------- *)

(* A read that began before the pause plays its frame and is over; no read *)
(* begins during the pause.                                                *)
Hush == ~timing.playing => ghost.quiet = 0 \/ (ghost.quiet = 1 /\ play.pc = "idle")

LEMMA ReaderHush ==
  ASSUME Types, Hush, Reader
  PROVE  Hush'
<1>0. timing \in TimingType /\ play \in PlayType /\ ghost \in GhostType
  BY DEF Types, PlayOK
<1>1. CASE BecomeReady
  <2>1. timing.playing /\ timing' = [timing EXCEPT !.ready = TRUE]
    BY <1>1 DEF BecomeReady
  <2>2. timing'.playing
    BY <1>0, <2>1 DEF TimingType
  <2> QED BY <2>2 DEF Hush
<1>2. CASE ReadStart
  BY <1>2 DEF ReadStart, shared, Hush
<1>3. CASE PlayItem
  <2>1. timing' = [ForgetItem EXCEPT
                     !.started = TRUE, !.early = 0, !.late = 0,
                     !.anchorValid = @ /\ play.verdict # "give up",
                     !.postFlush = @ /\ play.verdict # "play and settle",
                     !.postFlushStarted = @ /\ play.verdict # "play and settle"]
    BY <1>3 DEF PlayItem
  <2>2. timing'.playing = timing.playing
    BY <1>0, <2>1, ForgetItemTyped DEF TimingType
  <2>3. play.pc = "act" /\ play'.pc = "idle"
    BY <1>0, <1>3 DEF PlayItem, PlayType
  <2>4. ~timing.playing => ghost'.quiet = ghost.quiet + 1
    <3> SUFFICES ASSUME ~timing.playing PROVE ghost'.quiet = ghost.quiet + 1
      OBVIOUS
    <3>1. ghost.quiet = 0
      BY <2>3 DEF Hush
    <3>2. ghost' = [ghost EXCEPT !.last = Max2(@, Number(play.item)),
                                 !.quiet = IF timing.playing \/ @ = 2 THEN @ ELSE @ + 1]
      BY <1>3 DEF PlayItem
    <3>3. ghost'.quiet = IF timing.playing \/ ghost.quiet = 2 THEN ghost.quiet
                         ELSE ghost.quiet + 1
      BY <1>0, <3>2 DEF GhostType
    <3> QED BY <3>1, <3>3
  <2> QED BY <2>2, <2>3, <2>4 DEF Hush
<1>4. CASE \/ GetFrame \/ ReadDeferredFlag \/ ReadDeferredUntil \/ FireDeferredFlush
           \/ FinishDeferredFlush \/ Judge \/ HoldItem \/ DropLate \/ BulkFlush
  <2>1. ghost' = ghost /\ play.pc # "idle"
    BY <1>4 DEF GetFrame, ReadDeferredFlag, ReadDeferredUntil, FireDeferredFlush,
                FinishDeferredFlush, Judge, HoldItem, DropLate, BulkFlush
  <2>2. timing'.playing = timing.playing
    <3>1. CASE GetFrame \/ ReadDeferredFlag \/ ReadDeferredUntil
      BY <3>1 DEF GetFrame, ReadDeferredFlag, ReadDeferredUntil, shared
    <3>2. CASE FireDeferredFlush \/ DropLate
      BY <1>0, <3>2, ForgetItemTyped DEF FireDeferredFlush, DropLate
    <3>3. CASE BulkFlush
      BY <1>0, <3>3, ForgetItemTyped DEF BulkFlush, TimingType
    <3>4. CASE FinishDeferredFlush \/ HoldItem
      BY <1>0, <3>4 DEF FinishDeferredFlush, HoldItem, TimingType
    <3>5. CASE Judge
      BY <1>0, <3>5 DEF Judge, TimingType
    <3> QED BY <1>4, <3>1, <3>2, <3>3, <3>4, <3>5
  <2> QED BY <2>1, <2>2 DEF Hush
<1> QED BY <1>1, <1>2, <1>3, <1>4 DEF Reader

(* However the pause falls into a read, at most one frame is still played. *)
THEOREM PauseSilences == Spec => []QuietWhilePaused
<1>1. Init => Hush
  BY DEF Init, Hush
<1>2. Types /\ Hush /\ [Next]_vars => Hush'
  <2> SUFFICES ASSUME Types, Hush, [Next]_vars PROVE Hush'
    OBVIOUS
  <2>1. CASE Handler
    <3>1. play' = play
      BY <2>1, HandlerDoes DEF Types
    <3>2. \/ ghost'.quiet = 0
          \/ ghost'.quiet = ghost.quiet /\ (timing.playing => timing'.playing)
      BY <2>1, HandlerWrites
    <3> QED BY <3>1, <3>2 DEF Hush
  <2>2. CASE Requests
    BY <2>2, RequestsDo DEF Hush
  <2>3. CASE Receiver
    BY <2>3, ReceiverDoes DEF Hush
  <2>4. CASE Send
    BY <2>4, SendDoes DEF Hush
  <2>5. CASE UNCHANGED vars
    BY <2>5 DEF vars, shared, Hush
  <2> QED BY <2>1, <2>2, <2>3, <2>4, <2>5, ReaderHush DEF Next
<1>3. Hush => QuietWhilePaused
  BY DEF Hush, QuietWhilePaused
<1> QED BY <1>1, <1>2, <1>3, InitTypes, TypesKeep, PTL DEF Spec

(* ----------------------- the order of playout -------------------------- *)

(* Frames the sender sent since its position last changed.                 *)
Current(f) == Number(f) >= ghost.epoch

(* What the playback task holds, what it can still get, what has yet to    *)
(* enter the buffer.                                                       *)
Held == InHand \cup (IF timing.pendingValid THEN {pending} ELSE {})
Inside == queued \cup Held
Outside == (IF recv.pc = "idle" THEN {} ELSE {recv.frame})
             \cup {wire[i] : i \in 1..Len(wire)}

(* The timestamp the current frame of this number was sent with.           *)
StampOf(n) == Wrap(sender.at - (sender.next - n))

Sent == /\ ghost.epoch <= sender.next /\ ghost.last < sender.next
        /\ sender.next <= MaxFrames
        /\ \A f \in Inside : Number(f) < sender.next

Stamped == \A f \in Inside \cup Outside : Current(f) => Stamp(f) = StampOf(Number(f))

(* What has yet to enter is younger than all that entered or was played.   *)
Later == /\ \A f \in Inside, g \in Outside : Number(f) < Number(g)
         /\ \A g \in Outside : Number(g) > ghost.last

(* What can still be played is younger than what was, and what is held     *)
(* older than what is queued.                                              *)
Ahead == /\ \A f \in Inside : Current(f) => Number(f) > ghost.last
         /\ \A f \in Held, g \in queued :
              Current(f) /\ Current(g) => Number(f) < Number(g)

(* There is a pending frame only when the frame in hand is that one.       *)
One == timing.pendingValid /\ play.item # NoFrame
         => play.item = pending /\ play.fromPending

InOrder == Sent /\ Stamped /\ Later /\ Ahead /\ One

LEMMA FramesTyped ==
  ASSUME Types
  PROVE  /\ \A f \in Inside \cup Outside : f \in Frame /\ Number(f) \in Nat
         /\ queued \subseteq Inside /\ Held \subseteq Inside
         /\ sender.next \in Nat /\ sender.at \in Timestamp
         /\ ghost.epoch \in Nat /\ ghost.last \in Int
<1>1. /\ sender.next \in Nat /\ sender.at \in Timestamp
      /\ ghost.epoch \in Nat /\ ghost.last \in Int
  BY DEF Types, ReceiverOK, SenderType, GhostType
<1>2. queued \subseteq Frame /\ InHand \subseteq Frame
  BY DEF Types, BufferOK, PlayOK, PlayType, FrameOrNone, InHand
<1>3. timing.pendingValid => pending \in Frame
  BY DEF Types, PendingOK
<1>4. recv.pc # "idle" => recv.frame \in Frame
  BY DEF Types, ReceiverOK
<1>5. \A i \in 1..Len(wire) : wire[i] \in Frame
  BY Numbers
<1>6. \A f \in Inside \cup Outside : f \in Frame
  BY <1>2, <1>3, <1>4, <1>5 DEF Inside, Held, Outside
<1> QED BY <1>1, <1>6, FrameFields DEF Inside

(* Half a turn of the timestamp is more than the frames there are, so      *)
(* among current frames an older timestamp is an earlier number.           *)
LEMMA OlderIsEarlier ==
  ASSUME MaxFrames <= Half, NEW at \in Timestamp, NEW next \in Nat, next <= MaxFrames,
         NEW m \in Nat, NEW n \in Nat, m < next, n < next,
         TsCmp(Wrap(at - (next - n)), Wrap(at - (next - m))) >= 0
  PROVE  m <= n
<1>1. at \in Nat /\ at < 2 * Half /\ Half \in Nat \ {0} /\ Modulus = 2 * Half
  BY Parameters DEF Timestamp
<1> DEFINE d == next - m
           e == next - n
<1>2. d \in 1..Half /\ e \in 1..Half /\ (m <= n <=> e <= d)
  BY Parameters
<1> HIDE DEF d, e
<1>3. TsCmp(Wrap(at - e), Wrap(at - d)) = d - e
  BY <1>1, <1>2 DEF TsCmp, Wrap
<1>4. d - e >= 0
  <2>1. TsCmp(Wrap(at - e), Wrap(at - d)) >= 0
    BY DEF d, e
  <2> QED BY <1>3, <2>1
<1> QED BY <1>2, <1>4

(* A frame leaves the queue in its turn.                                   *)
LEMMA OldestIsFirst ==
  ASSUME MaxFrames <= Half, Types, Sent, Stamped,
         NEW f \in Buffer!Oldest(queued), NEW g \in queued,
         Current(f), Current(g), f # g
  PROVE  Number(f) < Number(g)
<1>1. /\ f \in queued /\ f \in Inside /\ g \in Inside
      /\ Buffer!TsCmp(g[2], f[2]) >= 0
  BY FramesTyped DEF Buffer!Oldest
<1>2. /\ f \in Frame /\ g \in Frame /\ Number(f) \in Nat /\ Number(g) \in Nat
      /\ Number(f) < sender.next /\ Number(g) < sender.next
      /\ Stamp(f) = StampOf(Number(f)) /\ Stamp(g) = StampOf(Number(g))
  BY <1>1, FramesTyped DEF Sent, Stamped
<1>3. TsCmp(StampOf(Number(g)), StampOf(Number(f))) >= 0
  BY <1>1, <1>2 DEF Buffer!TsCmp, TsCmp, Buffer!Modulus, Modulus, Stamp
<1>4. Number(f) <= Number(g)
  BY <1>2, <1>3, OlderIsEarlier, FramesTyped DEF StampOf, Sent
<1>5. f = <<Number(f), Stamp(f)>> /\ g = <<Number(g), Stamp(g)>>
  BY <1>2 DEF Frame, Number, Stamp
<1>6. Number(f) # Number(g)
  BY <1>2, <1>5
<1> QED BY <1>2, <1>4, <1>6

(* Steps of the playback task that neither take a frame nor play one.      *)
LEMMA ReaderKeepsFrames ==
  ASSUME Types, One, Reader, ~ PlayItem, ~ (play.pc = "get" /\ Buffer!TakeOldest)
  PROVE  /\ queued' \subseteq queued /\ Held' \subseteq Held
         /\ One' /\ ghost' = ghost
<1> USE DEF Types, PlayOK
<1>1. CASE BecomeReady
  BY <1>1 DEF BecomeReady, TimingType, Held, InHand, One
<1>2. CASE ReadStart \/ ReadDeferredFlag \/ ReadDeferredUntil
  BY <1>2 DEF ReadStart, ReadDeferredFlag, ReadDeferredUntil, shared, PlayType, Held, InHand,
              One
<1>3. CASE GetFrame
  <2>1. UNCHANGED <<queued, taken, pending, timing, ghost>> /\ play.pc = "get"
    BY <1>3 DEF GetFrame
  <2>2. CASE play' = [play EXCEPT !.pc = "idle"]
    BY <2>1, <2>2 DEF PlayType, Held, InHand, One
  <2>3. CASE /\ timing.pendingValid
             /\ play' = [play EXCEPT !.pc = "deferred", !.item = pending, !.fromPending = TRUE]
    <3>1. play'.item = pending /\ play'.fromPending
      BY <2>3 DEF PlayType
    <3> QED BY <2>1, <2>3, <3>1 DEF Held, InHand, One
  <2> QED BY <1>3, <2>1, <2>2, <2>3 DEF GetFrame
<1>4. CASE FireDeferredFlush \/ BulkFlush \/ DropLate
  <2>1. UNCHANGED <<pending, ghost>> /\ queued' \subseteq queued
    BY <1>4 DEF FireDeferredFlush, BulkFlush, DropLate, DropItemAndFlush
  <2>2. play'.item = NoFrame
    BY <1>4 DEF FireDeferredFlush, BulkFlush, DropLate, PlayType
  <2>3. timing'.pendingValid => timing.pendingValid
    BY <1>4, ForgetItemTyped DEF FireDeferredFlush, DropLate, BulkFlush, TimingType
  <2> QED BY <2>1, <2>2, <2>3 DEF Held, InHand, One
<1>5. CASE FinishDeferredFlush
  BY <1>5 DEF FinishDeferredFlush, PlayType, TimingType, Held, InHand, One
<1>6. CASE Judge
  <2>1. /\ UNCHANGED <<queued, pending, ghost>>
        /\ \E verdict : play' = [play EXCEPT !.pc = "act", !.verdict = verdict]
    BY <1>6 DEF Judge
  <2>2. play'.item = play.item /\ play'.fromPending = play.fromPending
    BY <2>1 DEF PlayType
  <2>3. timing'.pendingValid = timing.pendingValid
    BY <1>6 DEF Judge, TimingType
  <2> QED BY <2>1, <2>2, <2>3 DEF Held, InHand, One
<1>7. CASE HoldItem
  <2>1. queued' = queued /\ ghost' = ghost /\ play'.item = NoFrame
    BY <1>7 DEF HoldItem, PlayType
  <2>2. CASE UNCHANGED <<pending, timing>>
    BY <2>1, <2>2 DEF Held, InHand, One
  <2>3. CASE pending' = play.item
    <3>1. play.item # NoFrame
      BY <1>7, FrameFields DEF HoldItem, Holding
    <3> QED BY <2>1, <2>3, <3>1 DEF Held, InHand, One
  <2> QED BY <1>7, <2>2, <2>3 DEF HoldItem
<1> QED BY <1>1, <1>2, <1>3, <1>4, <1>5, <1>6, <1>7 DEF Reader, GetFrame

LEMMA ReaderInOrder ==
  ASSUME MaxFrames <= Half, Types, InOrder, Reader
  PROVE  InOrder'
<1>1. UNCHANGED <<recv, wire, sender>> /\ queued' \subseteq queued
  BY ReaderItem
<1>2. /\ Outside' = Outside /\ sender' = sender
      /\ \A n : StampOf(n)' = StampOf(n)
  BY <1>1 DEF Outside, StampOf
<1>3. CASE ~ PlayItem /\ ~ (play.pc = "get" /\ Buffer!TakeOldest)
  <2>1. queued' \subseteq queued /\ Held' \subseteq Held /\ One' /\ ghost' = ghost
    BY <1>3, ReaderKeepsFrames DEF InOrder
  <2>2. Inside' \subseteq Inside
    BY <2>1 DEF Inside
  <2> QED BY <1>2, <2>1, <2>2 DEF InOrder, Sent, Stamped, Later, Ahead, Current
<1>4. CASE PlayItem
  <2>1. /\ play.item \in Frame /\ play.item \in Held /\ play.item \in Inside
        /\ Number(play.item) \in Nat
    BY <1>4, FrameFields DEF PlayItem, Types, PlayOK, Holding, Held, InHand, Inside
  <2>2. play'.item = NoFrame /\ queued' = queued /\ pending' = pending
    BY <1>4 DEF PlayItem, Types, PlayOK, PlayType
  <2>3. ~ timing'.pendingValid
    <3>1. ~ ForgetItem.pendingValid
      <4>1. ForgetItem.pendingValid = (timing.pendingValid /\ ~play.fromPending)
        BY DEF ForgetItem, Types, TimingType
      <4> QED BY <2>1, <4>1, FrameFields DEF InOrder, One
    <3>2. ForgetItem \in TimingType
      BY ForgetItemTyped DEF Types, PlayOK
    <3>3. timing'.pendingValid = ForgetItem.pendingValid
      BY <1>4, <3>2 DEF PlayItem, TimingType
    <3> QED BY <3>1, <3>3
  <2>4. Held' = {} /\ Inside' = queued
    BY <2>2, <2>3 DEF Held, InHand, Inside
  <2>5. /\ ghost'.epoch = ghost.epoch
        /\ ghost'.last \in Int
        /\ ghost'.last = ghost.last \/ ghost'.last = Number(play.item)
    <3>1. ghost' = [ghost EXCEPT !.last = Max2(@, Number(play.item)),
                                 !.quiet = IF timing.playing \/ @ = 2 THEN @ ELSE @ + 1]
      BY <1>4 DEF PlayItem
    <3>2. /\ ghost'.epoch = ghost.epoch
          /\ ghost'.last = Max2(ghost.last, Number(play.item))
      BY <3>1 DEF Types, GhostType
    <3> QED BY <2>1, <3>2, FramesTyped DEF Max2
  <2>6. Sent' /\ Stamped' /\ One' /\ Later'
    <3>1. Number(play.item) < sender.next
      BY <2>1 DEF InOrder, Sent
    <3>2. \A g \in Outside : Number(g) > ghost'.last
      BY <2>1, <2>5 DEF InOrder, Later
    <3>3. Sent'
      BY <1>2, <2>4, <2>5, <3>1, FramesTyped DEF InOrder, Sent
    <3>4. Stamped'
      BY <1>2, <2>4, <2>5, FramesTyped DEF InOrder, Stamped, Current
    <3>5. Later'
      BY <1>2, <2>4, <3>2, FramesTyped DEF InOrder, Later
    <3> QED BY <2>2, <3>3, <3>4, <3>5 DEF One
  <2>7. ASSUME NEW f \in queued, Current(f)
        PROVE  Number(f) > ghost'.last
    <3>1. Number(f) > ghost.last /\ Number(f) \in Nat /\ Number(f) >= ghost.epoch
      BY <2>7, FramesTyped DEF InOrder, Ahead, Current
    <3>2. Number(f) > Number(play.item)
      <4>1. CASE Current(play.item)
        BY <2>1, <2>7, <4>1 DEF InOrder, Ahead
      <4>2. CASE ~ Current(play.item)
        BY <2>1, <3>1, <4>2, FramesTyped DEF Current
      <4> QED BY <4>1, <4>2
    <3> QED BY <2>5, <3>1, <3>2
  <2>8. Ahead'
    BY <2>2, <2>4, <2>5, <2>7 DEF Ahead, Current
  <2> QED BY <2>6, <2>8 DEF InOrder
<1>5. CASE ~ PlayItem /\ play.pc = "get" /\ Buffer!TakeOldest
  <2>1. PICK old \in Buffer!Oldest(queued) : queued' = queued \ {old} /\ taken' = {old}
    BY <1>5 DEF Buffer!TakeOldest
  <2>2. old \in queued /\ old \in Inside
    BY <2>1, FramesTyped DEF Buffer!Oldest
  <2>3. GetFrame
    BY <1>5 DEF Reader, BecomeReady, ReadStart, ReadDeferredFlag, ReadDeferredUntil,
                FireDeferredFlush, FinishDeferredFlush, Judge, HoldItem, DropLate, BulkFlush
  <2>4. UNCHANGED <<pending, timing, ghost>>
    BY <2>3 DEF GetFrame
  <2>5. queued' # queued
    BY <2>1, <2>2
  <2>6. /\ ~ timing.pendingValid
        /\ play' = [play EXCEPT !.pc = "deferred", !.item = old, !.fromPending = FALSE]
    BY <2>1, <2>3, <2>5 DEF GetFrame
  <2>7. play'.item = old
    BY <2>6 DEF Types, PlayOK, PlayType
  <2>8. Held' = {old} /\ Inside' \subseteq Inside /\ One'
    BY <2>1, <2>2, <2>4, <2>6, <2>7, FramesTyped, FrameFields DEF Held, InHand, Inside, One
  <2>9. \A g \in queued' : Current(old) /\ Current(g) => Number(old) < Number(g)
    BY <2>1, OldestIsFirst DEF InOrder
  <2>10. Ahead'
    <3>1. \A f \in Inside' : Current(f) => Number(f) > ghost.last
      BY <2>8 DEF InOrder, Ahead
    <3> QED BY <2>4, <2>8, <2>9, <3>1 DEF Ahead, Current
  <2>11. Sent' /\ Stamped' /\ Later'
    BY <1>2, <2>4, <2>8 DEF InOrder, Sent, Stamped, Later, Current
  <2> QED BY <2>8, <2>10, <2>11 DEF InOrder
<1> QED BY <1>3, <1>4, <1>5

LEMMA HandlerInOrder ==
  ASSUME Types, InOrder, Handler
  PROVE  InOrder'
<1>1. /\ UNCHANGED <<pending, play, recv, wire, sender>>
      /\ queued' \subseteq queued
      /\ timing'.pendingValid => timing.pendingValid
  BY HandlerDoes, HandlerWrites DEF Types
<1>2. ghost'.last = ghost.last /\ ghost'.epoch = ghost.epoch
  <2>1. ghost' \in {ghost, Forgotten, [ghost EXCEPT !.quiet = 0]}
    BY DEF Handler, FlushBuffer, ResetTiming, DisarmDeferred, ClearUntil, DisarmGates,
           SetPostFlush, SetUntil, ArmDeferred, StopPlaying, DropPending, StartPlaying,
           DetectSeek, ForgetPlayout, CheckArmNext, ArmBefore, ArmAbove, SetAnchor
  <2> QED BY <2>1 DEF Forgotten, Types, GhostType
<1>3. Held' \subseteq Held /\ Inside' \subseteq Inside /\ Outside' = Outside /\ One'
  BY <1>1 DEF Held, InHand, Inside, Outside, InOrder, One
<1> QED BY <1>1, <1>2, <1>3 DEF InOrder, Sent, Stamped, StampOf, Later, Ahead, Current

(* A change of position makes every frame there is a frame of an earlier   *)
(* position.                                                               *)
LEMMA RequestsInOrder ==
  ASSUME Types, Flushed, InOrder, Requests
  PROVE  InOrder'
<1>1. /\ UNCHANGED <<queued, pending, timing, play, recv, wire>>
      /\ sender'.next = sender.next
  BY RequestsDo
<1>2. /\ ghost'.last = ghost.last
      /\ \/ sender'.at = sender.at /\ ghost'.epoch = ghost.epoch
         \/ ghost'.epoch = sender.next
  <2>1. PICK steps, rtp, position : Request(steps, rtp, position)
    BY DEF Requests, HandleFlush, HandleDeferredFlush, HandlePause, HandleAnchor
  <2>2. /\ sender' = [sender EXCEPT !.ops = @ + 1, !.at = position]
        /\ ghost' = [ghost EXCEPT !.epoch = IF position = sender.at THEN @ ELSE sender.next]
    BY <2>1 DEF Request
  <2>3. sender \in SenderType /\ ghost \in GhostType
    BY DEF Types, ReceiverOK
  <2>4. sender'.at = position
    BY <2>2, <2>3 DEF SenderType
  <2>5. /\ ghost'.last = ghost.last
        /\ ghost'.epoch = IF position = sender.at THEN ghost.epoch ELSE sender.next
    BY <2>2, <2>3 DEF GhostType
  <2> QED BY <2>4, <2>5
<1>3. Held' = Held /\ Inside' = Inside /\ Outside' = Outside /\ One'
  BY <1>1 DEF Held, InHand, Inside, Outside, InOrder, One
<1>4. \A f \in Inside \cup Outside : Number(f) < sender.next /\ Number(f) \in Nat
  BY FramesTyped DEF InOrder, Sent, Flushed, Order, Outside
<1>5. CASE sender'.at = sender.at /\ ghost'.epoch = ghost.epoch
  BY <1>1, <1>2, <1>3, <1>5 DEF InOrder, Sent, Stamped, StampOf, Later, Ahead, Current
<1>6. CASE ghost'.epoch = sender.next
  <2>1. \A f \in Inside \cup Outside : ~ (Number(f) >= ghost'.epoch)
    BY <1>4, <1>6, FramesTyped
  <2>2. Stamped' /\ Ahead'
    BY <1>1, <1>3, <2>1, FramesTyped DEF Stamped, Ahead, Current
  <2>3. Sent' /\ Later'
    BY <1>1, <1>2, <1>3, <1>6, FramesTyped DEF InOrder, Sent, Later
  <2> QED BY <1>3, <2>2, <2>3 DEF InOrder
<1> QED BY <1>2, <1>5, <1>6

(* A frame comes in, or stops at a gate; nothing new is on the way.         *)
LEMMA ReceiverFrames ==
  ASSUME Types, Receiver
  PROVE  Held' = Held /\ Outside' \subseteq Outside
<1>1. /\ UNCHANGED <<pending, timing, play>>
      /\ \/ /\ wire # <<>> /\ wire' = Tail(wire)
            /\ recv'.pc # "idle" => recv'.frame = Head(wire)
         \/ /\ recv.pc # "idle" /\ wire' = wire
            /\ recv'.pc # "idle" => recv'.frame = recv.frame
  BY ReceiverDoes
<1>2. Held' = Held
  BY <1>1 DEF Held, InHand
<1>3. Outside' \subseteq Outside
  <2>1. CASE wire # <<>> /\ wire' = Tail(wire) /\ (recv'.pc # "idle" => recv'.frame = Head(wire))
    <3>1. wire \in Seq(Frame)
      BY DEF Types, ReceiverOK
    <3>2. /\ Head(wire) = wire[1] /\ 1 \in 1..Len(wire)
          /\ \A i \in 1..Len(wire') : wire'[i] = wire[i + 1] /\ i + 1 \in 1..Len(wire)
      BY <2>1, <3>1
    <3> QED BY <2>1, <3>2 DEF Outside
  <2>2. CASE recv.pc # "idle" /\ wire' = wire /\ (recv'.pc # "idle" => recv'.frame = recv.frame)
    BY <2>2 DEF Outside
  <2> QED BY <1>1, <2>1, <2>2
<1> QED BY <1>2, <1>3

LEMMA ReceiverInOrder ==
  ASSUME Types, Flushed, InOrder, Receiver
  PROVE  InOrder'
<1>1. /\ UNCHANGED <<pending, timing, play, sender, ghost>>
      /\ \/ queued' = queued
         \/ recv.pc # "idle" /\ queued' = queued \cup {recv.frame} /\ recv'.pc = "idle"
      /\ \/ /\ recv.pc = "idle" /\ wire # <<>> /\ wire' = Tail(wire)
            /\ queued' = queued
            /\ recv'.pc # "idle" => recv'.frame = Head(wire)
         \/ /\ recv.pc # "idle" /\ wire' = wire
            /\ recv'.pc # "idle" => recv'.frame = recv.frame
  BY ReceiverDoes
<1>2. Held' = Held /\ One'
  BY <1>1 DEF Held, InHand, InOrder, One
<1>3. Outside' \subseteq Outside
  BY ReceiverFrames
<1>4. CASE queued' = queued
  <2>1. Inside' = Inside
    BY <1>2, <1>4 DEF Inside
  <2> QED BY <1>1, <1>2, <1>3, <1>4, <2>1
       DEF InOrder, Sent, Stamped, StampOf, Later, Ahead, Current
<1>5. CASE recv.pc # "idle" /\ queued' = queued \cup {recv.frame} /\ recv'.pc = "idle"
  <2>1. wire' = wire /\ recv.frame \in Outside
    BY <1>1, <1>5 DEF Outside
  <2>2. Inside' = Inside \cup {recv.frame}
    BY <1>2, <1>5 DEF Inside
  <2>3. \A g \in Outside' : Number(recv.frame) < Number(g)
    BY <1>5, <2>1 DEF Outside, Flushed, Order
  <2>4. Sent'
    <3>1. Number(recv.frame) < sender.next
      BY <1>5 DEF Flushed, Order
    <3> QED BY <1>1, <2>2, <3>1 DEF InOrder, Sent
  <2>5. Stamped'
    BY <1>1, <1>3, <2>1, <2>2 DEF InOrder, Stamped, StampOf, Current
  <2>6. Later'
    BY <1>1, <1>3, <2>2, <2>3 DEF InOrder, Later
  <2>7. Ahead'
    <3>1. Number(recv.frame) > ghost.last
      BY <2>1 DEF InOrder, Later
    <3>2. \A f \in Held : Number(f) < Number(recv.frame)
      BY <2>1, FramesTyped DEF InOrder, Later
    <3> QED BY <1>1, <1>2, <1>5, <2>2, <3>1, <3>2 DEF InOrder, Ahead, Current
  <2> QED BY <1>2, <2>4, <2>5, <2>6, <2>7 DEF InOrder
<1> QED BY <1>1, <1>4, <1>5

(* One frame further on, a current frame is one frame further back.        *)
LEMMA NextStamp ==
  ASSUME MaxFrames <= Half, NEW at \in Timestamp, NEW next \in Nat, next < MaxFrames,
         NEW n \in Nat
  PROVE  /\ n < next => Wrap(Wrap(at + 1) - (next + 1 - n)) = Wrap(at - (next - n))
         /\ Wrap(Wrap(at + 1) - (next + 1 - next)) = at
<1>1. at \in Nat /\ at < 2 * Half /\ Half \in Nat \ {0} /\ Modulus = 2 * Half
  BY Parameters DEF Timestamp
<1>2. Wrap(Wrap(at + 1) - (next + 1 - next)) = at
  BY <1>1 DEF Wrap
<1>3. ASSUME n < next
      PROVE  Wrap(Wrap(at + 1) - (next + 1 - n)) = Wrap(at - (next - n))
  <2> DEFINE d == next - n
  <2>1. d \in 1..Half /\ next + 1 - n = d + 1
    BY <1>3, Parameters
  <2> HIDE DEF d
  <2>2. Wrap(Wrap(at + 1) - (d + 1)) = Wrap(at - d)
    BY <1>1, <2>1 DEF Wrap
  <2> QED BY <2>1, <2>2 DEF d
<1> QED BY <1>2, <1>3

(* The frame sent is on the way.                                           *)
LEMMA SendFrames ==
  ASSUME Types, Send
  PROVE  /\ Held' = Held /\ Inside' = Inside
         /\ Outside' = Outside \cup {<<sender.next, sender.at>>}
<1> DEFINE new == <<sender.next, sender.at>>
<1>1. /\ UNCHANGED <<queued, pending, timing, play, recv>>
      /\ new \in Frame
      /\ wire' = Append(wire, new)
  BY SendDoes
<1> HIDE DEF new
<1>2. Held' = Held /\ Inside' = Inside
  BY <1>1 DEF Held, InHand, Inside
<1>3. Outside' = Outside \cup {new}
  <2>1. wire \in Seq(Frame)
    BY DEF Types, ReceiverOK
  <2>2. /\ Len(wire) \in Nat /\ Len(wire') = Len(wire) + 1
        /\ \A i \in 1..Len(wire) : wire'[i] = wire[i]
        /\ wire'[Len(wire) + 1] = new
    BY <1>1, <2>1
  <2>3. /\ \A i \in 1..Len(wire') : i \in 1..Len(wire) \/ i = Len(wire) + 1
        /\ \A i \in 1..Len(wire) : i \in 1..Len(wire')
        /\ Len(wire) + 1 \in 1..Len(wire')
    BY <2>2
  <2>4. {wire'[i] : i \in 1..Len(wire')} = {wire[i] : i \in 1..Len(wire)} \cup {new}
    BY <2>2, <2>3
  <2> QED BY <1>1, <2>4 DEF Outside
<1> QED BY <1>2, <1>3 DEF new

LEMMA SendInOrder ==
  ASSUME MaxFrames <= Half, Types, Flushed, InOrder, Send
  PROVE  InOrder'
<1> DEFINE new == <<sender.next, sender.at>>
<1>1. /\ UNCHANGED <<queued, pending, timing, play, recv, ghost>>
      /\ sender'.next = sender.next + 1
      /\ new \in Frame
      /\ wire' = Append(wire, new)
  BY SendDoes
<1>2. sender'.at = Wrap(sender.at + 1) /\ sender.next < MaxFrames
  BY DEF Send, Types, ReceiverOK, SenderType
<1>3. Number(new) = sender.next /\ Stamp(new) = sender.at
  BY DEF Number, Stamp
<1> HIDE DEF new
<1>4. Held' = Held /\ Inside' = Inside /\ One'
  BY <1>1 DEF Held, InHand, Inside, InOrder, One
<1>5. Outside' = Outside \cup {new}
  BY SendFrames DEF new
<1>6. \A f \in Inside \cup Outside : Number(f) < sender.next /\ Number(f) \in Nat
  BY FramesTyped DEF InOrder, Sent, Flushed, Order, Outside
<1>7. Sent'
  BY <1>1, <1>2, <1>4, <1>6, FramesTyped, Parameters DEF InOrder, Sent
<1>8. Stamped'
  <2>1. \A n \in Nat : n < sender.next => Wrap(sender'.at - (sender'.next - n)) = StampOf(n)
    BY <1>1, <1>2, NextStamp, FramesTyped DEF StampOf
  <2>3. Stamp(new) = Wrap(sender'.at - (sender'.next - Number(new)))
    <3>1. sender.next \in Nat /\ sender.at \in Timestamp
      BY FramesTyped
    <3>2. Wrap(Wrap(sender.at + 1) - (sender.next + 1 - sender.next)) = sender.at
      BY <1>2, <3>1, NextStamp
    <3>3. sender'.next - Number(new) = sender.next + 1 - sender.next
      BY <1>1, <1>3, <3>1
    <3> QED BY <1>2, <1>3, <3>2, <3>3
  <2>4. \A f \in Inside \cup Outside :
          Current(f) => Stamp(f) = Wrap(sender'.at - (sender'.next - Number(f)))
    BY <1>6, <2>1 DEF InOrder, Stamped, StampOf
  <2> QED BY <1>1, <1>4, <1>5, <2>3, <2>4 DEF Stamped, StampOf, Current
<1>9. Later'
  BY <1>1, <1>3, <1>4, <1>5, <1>6 DEF InOrder, Later, Sent
<1>10. Ahead'
  BY <1>1, <1>4 DEF InOrder, Ahead, Current
<1> QED BY <1>4, <1>7, <1>8, <1>9, <1>10 DEF InOrder

(* However flushes, seeks, pauses and anchors fall between the reads, the  *)
(* frames of one position leave audio_timing_read in the order they were   *)
(* sent and none leaves it twice, as long as less than half a turn of the  *)
(* timestamp is sent.                                                      *)
THEOREM PlaysAsSent ==
  ASSUME MaxFrames <= Half
  PROVE  Spec => PlaysInOrder
<1>1. Init => Flushed /\ InOrder
  <2> SUFFICES ASSUME Init PROVE Flushed /\ InOrder
    OBVIOUS
  <2>1. /\ queued = {} /\ wire = <<>> /\ recv.pc = "idle" /\ play.item = NoFrame
        /\ ~timing.pendingValid /\ ghost.mark = 0 /\ rtsp.mark = 0 /\ sender.next = 0
        /\ ghost.epoch = 0 /\ ghost.last = -1
    BY DEF Init
  <2>2. Len(wire) = 0
    BY <2>1
  <2>3. Flushed
    BY <2>1, <2>2 DEF Flushed, Order, Marks, Silence, InHand
  <2>4. Inside = {} /\ Held = {} /\ Outside = {}
    BY <2>1, <2>2 DEF Inside, Held, InHand, Outside
  <2>5. InOrder
    BY <2>1, <2>4, Parameters DEF InOrder, Sent, Stamped, Later, Ahead, One
  <2> QED BY <2>3, <2>5
<1>2. Types /\ Flushed /\ InOrder /\ [Next]_vars => InOrder'
  <2> SUFFICES ASSUME Types, Flushed, InOrder, [Next]_vars PROVE InOrder'
    OBVIOUS
  <2>1. CASE UNCHANGED vars
    BY <2>1 DEF vars, shared, InOrder, Sent, Stamped, StampOf, Later, Ahead, One, Current,
                Inside, Held, InHand, Outside
  <2> QED BY <2>1, ReaderInOrder, HandlerInOrder, RequestsInOrder, ReceiverInOrder,
             SendInOrder DEF Next
<1>3. Types /\ InOrder /\ [Next]_vars
        => [\A f \in InHand : Played(f) => \/ Number(f) < ghost.epoch
                                           \/ Number(f) > ghost.last]_vars
  <2> SUFFICES ASSUME InOrder, Types, NEW f \in InHand
               PROVE  Number(f) < ghost.epoch \/ Number(f) > ghost.last
    OBVIOUS
  <2> QED BY FramesTyped DEF InOrder, Ahead, Current, Held
<1> QED BY <1>1, <1>2, <1>3, InitTypes, TypesKeep, FlushedKeeps, PTL DEF Spec, PlaysInOrder

(* ------------------- the buffer is used as promised -------------------- *)

(* A frame taken from the buffer is in hand until it is given back.        *)
TakenInHand == \/ taken = {}
               \/ play.pc \in Holding /\ ~play.fromPending /\ taken = {play.item}

Entered == /\ \A f \in Inside : Number(f) < sender.next
           /\ \A f \in Inside, g \in Outside : Number(f) < Number(g)

(* The bulk flushes of audio_timing_read return their frame and flush.     *)
ReturnAndClear == queued' = {} /\ taken' = {}

UsesBuffer == Buffer!Next \/ ReturnAndClear \/ UNCHANGED <<queued, taken>>

LEMMA ReaderUsesBuffer ==
  ASSUME Types, TakenInHand, Reader
  PROVE  TakenInHand' /\ UsesBuffer
<1>0. play \in PlayType
  BY DEF Types, PlayOK
<1>1. CASE BecomeReady \/ ReadStart
  <2>1. UNCHANGED <<queued, taken>> /\ play.pc = "idle"
    BY <1>1 DEF BecomeReady, ReadStart, shared
  <2>2. taken = {}
    BY <2>1 DEF TakenInHand, Holding
  <2> QED BY <2>1, <2>2 DEF TakenInHand, UsesBuffer
<1>2. CASE GetFrame
  <2>1. taken = {}
    BY <1>2 DEF GetFrame, TakenInHand, Holding
  <2>2. CASE UNCHANGED <<queued, taken>>
    BY <2>1, <2>2 DEF TakenInHand, UsesBuffer
  <2>3. CASE /\ Buffer!TakeOldest
             /\ \E f \in taken' :
                  play' = [play EXCEPT !.pc = "deferred", !.item = f, !.fromPending = FALSE]
    <3>1. PICK old \in queued : taken' = {old}
      BY <2>3 DEF Buffer!TakeOldest, Buffer!Oldest
    <3>2. play' = [play EXCEPT !.pc = "deferred", !.item = old, !.fromPending = FALSE]
      BY <2>3, <3>1
    <3>3. play'.pc = "deferred" /\ play'.item = old /\ ~play'.fromPending
      BY <1>0, <3>2 DEF PlayType
    <3> QED BY <2>3, <3>1, <3>3 DEF TakenInHand, Holding, UsesBuffer, Buffer!Next
  <2> QED BY <1>2, <2>2, <2>3 DEF GetFrame
<1>3. CASE ReadDeferredFlag \/ ReadDeferredUntil \/ Judge
  <2>1. /\ UNCHANGED <<queued, taken>>
        /\ \E pc \in Holding : \E verdict :
             play' = [play EXCEPT !.pc = pc, !.verdict = verdict]
    <3>1. CASE ReadDeferredFlag \/ ReadDeferredUntil
      <4>1. PICK pc \in Holding : play' = [play EXCEPT !.pc = pc]
        BY <3>1 DEF ReadDeferredFlag, ReadDeferredUntil, Holding
      <4>2. play' = [play EXCEPT !.pc = pc, !.verdict = play.verdict]
        BY <1>0, <4>1 DEF PlayType
      <4> QED BY <3>1, <4>2 DEF ReadDeferredFlag, ReadDeferredUntil, shared
    <3>2. CASE Judge
      BY <3>2 DEF Judge, Holding
    <3> QED BY <1>3, <3>1, <3>2
  <2>2. play'.pc \in Holding /\ play'.item = play.item /\ play'.fromPending = play.fromPending
    BY <1>0, <2>1 DEF PlayType
  <2> QED BY <2>1, <2>2 DEF TakenInHand, UsesBuffer
<1>4. CASE FireDeferredFlush \/ BulkFlush
  BY <1>4 DEF FireDeferredFlush, BulkFlush, DropItemAndFlush, ReturnAndClear, UsesBuffer,
              TakenInHand
<1>5. CASE FinishDeferredFlush
  <2>1. UNCHANGED <<queued, taken>> /\ taken = {}
    BY <1>5 DEF FinishDeferredFlush, TakenInHand, Holding
  <2> QED BY <2>1 DEF TakenInHand, UsesBuffer
<1>6. CASE PlayItem \/ HoldItem \/ DropLate
  <2>1. queued' = queued /\ taken' = {}
    BY <1>6 DEF PlayItem, HoldItem, DropLate, TakenInHand
  <2> QED BY <2>1 DEF TakenInHand, UsesBuffer, Buffer!Next, Buffer!Release
<1> QED BY <1>1, <1>2, <1>3, <1>4, <1>5, <1>6 DEF Reader

LEMMA EnqueueUsesBuffer ==
  ASSUME Types, TakenInHand, Entered, EnqueueFrame
  PROVE  UsesBuffer
<1> DEFINE f == recv.frame
<1>1. /\ recv.pc # "idle" /\ queued' = queued \cup {f} /\ taken' = taken
      /\ f \in Frame /\ f \in Outside
      /\ Cardinality(queued) < Capacity
  BY DEF EnqueueFrame, Types, BufferOK, ReceiverOK, Outside
<1>2. f \in (0..(MaxFrames - 1)) \X Buffer!Timestamp
  BY <1>1 DEF Frame, Buffer!Timestamp, Timestamp, Buffer!Modulus, Modulus
<1>3. \A g \in queued \cup taken : g \in Inside
  <2>1. \A g \in taken : g \in InHand
    BY FrameFields DEF TakenInHand, InHand, Types, PlayOK
  <2> QED BY <2>1 DEF Inside, Held
<1>4. \A g \in queued \cup taken : g[1] # f[1]
  BY <1>1, <1>3, FramesTyped DEF Entered, Number
<1>5. Buffer!Enqueue(f)
  <2>1. Buffer!Cardinality(queued) = Cardinality(queued)
    BY DEF Buffer!Cardinality, Cardinality
  <2> QED BY <1>1, <1>4, <2>1 DEF Buffer!Enqueue, Buffer!Fresh
<1> QED BY <1>2, <1>5 DEF UsesBuffer, Buffer!Next

LEMMA EnteredKeeps ==
  ASSUME Types, Flushed, Entered, [Next]_vars
  PROVE  Entered'
<1>1. CASE Reader
  <2>1. /\ UNCHANGED <<recv, wire, sender>> /\ queued' \subseteq queued
        /\ \/ play'.item \in {play.item, NoFrame}
           \/ timing.pendingValid /\ play'.item = pending
           \/ play'.item \in queued
        /\ \/ pending' = pending /\ (timing'.pendingValid => timing.pendingValid)
           \/ pending' = play.item /\ play.item \in Frame
    BY <1>1, ReaderItem
  <2>2. InHand' \subseteq Inside
    BY <2>1 DEF InHand, Inside, Held
  <2>3. timing'.pendingValid => pending' \in Inside
    BY <2>1, FrameFields DEF InHand, Inside, Held
  <2>4. Inside' \subseteq Inside
    BY <2>1, <2>2, <2>3 DEF Inside, Held
  <2> QED BY <2>1, <2>4 DEF Entered, Outside
<1>2. CASE Handler
  <2>1. /\ UNCHANGED <<pending, play, recv, wire, sender>> /\ queued' \subseteq queued
        /\ timing'.pendingValid => timing.pendingValid
    BY <1>2, HandlerDoes, HandlerWrites DEF Types
  <2> QED BY <2>1 DEF Entered, Inside, Held, InHand, Outside
<1>3. CASE Requests
  BY <1>3, RequestsDo DEF Entered, Inside, Held, InHand, Outside
<1>4. CASE Receiver
  <2>1. Held' = Held /\ Outside' \subseteq Outside /\ sender' = sender
    BY <1>4, ReceiverFrames, ReceiverDoes
  <2>2. CASE queued' = queued
    BY <2>1, <2>2 DEF Entered, Inside
  <2>3. CASE queued' = queued \cup {recv.frame} /\ recv.pc # "idle" /\ recv'.pc = "idle"
    <3>1. wire' = wire
      BY <1>4, <2>3, ReceiverDoes
    <3>2. \A g \in Outside' : Number(recv.frame) < Number(g)
      BY <2>3, <3>1 DEF Outside, Flushed, Order
    <3>3. Number(recv.frame) < sender.next
      BY <2>3 DEF Flushed, Order
    <3> QED BY <2>1, <2>3, <3>2, <3>3 DEF Entered, Inside
  <2> QED BY <1>4, <2>2, <2>3, ReceiverDoes
<1>5. CASE Send
  <2>1. Held' = Held /\ Inside' = Inside /\ Outside' = Outside \cup {<<sender.next, sender.at>>}
    BY <1>5, SendFrames
  <2>2. sender'.next = sender.next + 1
    BY <1>5, SendDoes
  <2>3. \A f \in Inside : Number(f) < sender.next + 1
    BY FramesTyped DEF Entered
  <2> QED BY <2>1, <2>2, <2>3 DEF Entered, Number
<1>6. CASE UNCHANGED vars
  BY <1>6 DEF vars, shared, Entered, Inside, Held, InHand, Outside
<1> QED BY <1>1, <1>2, <1>3, <1>4, <1>5, <1>6 DEF Next

LEMMA BufferStep ==
  Types /\ Flushed /\ TakenInHand /\ Entered /\ [Next]_vars
    => TakenInHand' /\ Entered' /\ UsesBuffer
<1> SUFFICES ASSUME Types, Flushed, TakenInHand, Entered, [Next]_vars
             PROVE  TakenInHand' /\ UsesBuffer
  BY EnteredKeeps
<1>1. CASE Handler
  <2>1. UNCHANGED <<taken, play>> /\ (queued' = {} \/ queued' = queued)
    BY <1>1, HandlerDoes DEF Types
  <2> QED BY <2>1 DEF TakenInHand, UsesBuffer, Buffer!Next, Buffer!Clear
<1>2. CASE Requests
  BY <1>2, RequestsDo DEF TakenInHand, UsesBuffer
<1>3. CASE Receiver
  <2>1. UNCHANGED <<taken, play>>
    BY <1>3, ReceiverDoes
  <2>2. CASE EnqueueFrame
    BY <2>1, <2>2, EnqueueUsesBuffer DEF TakenInHand
  <2>3. CASE ~EnqueueFrame
    <3>1. queued' = queued
      BY <1>3, <2>3 DEF Receiver, ReceivePacket, DisarmBefore, UpperGate, DisarmAbove, shared
    <3> QED BY <2>1, <3>1 DEF TakenInHand, UsesBuffer
  <2> QED BY <2>2, <2>3
<1>4. CASE Send
  BY <1>4, SendDoes DEF TakenInHand, UsesBuffer
<1>5. CASE UNCHANGED vars
  BY <1>5 DEF vars, shared, TakenInHand, UsesBuffer
<1> QED BY <1>1, <1>2, <1>3, <1>4, <1>5, ReaderUsesBuffer DEF Next

LEMMA InitUsesBuffer == Init => Flushed /\ TakenInHand /\ Entered /\ Buffer!Init
<1> SUFFICES ASSUME Init PROVE Flushed /\ TakenInHand /\ Entered /\ Buffer!Init
  OBVIOUS
<1>1. /\ queued = {} /\ taken = {} /\ wire = <<>> /\ recv.pc = "idle"
      /\ play.item = NoFrame /\ ~timing.pendingValid
      /\ ghost.mark = 0 /\ rtsp.mark = 0 /\ sender.next = 0
  BY DEF Init
<1>2. Len(wire) = 0
  BY <1>1
<1>3. Flushed
  BY <1>1, <1>2 DEF Flushed, Order, Marks, Silence, InHand
<1>4. Inside = {}
  BY <1>1 DEF Inside, Held, InHand
<1> QED BY <1>1, <1>3, <1>4 DEF TakenInHand, Entered, Buffer!Init

(* The three tasks do to the buffer only what it promises anything about:  *)
(* the receiver adds a frame that is not there yet and for which there is  *)
(* room, the playback task takes an oldest one when it has given the last  *)
(* one back, and flushes clear it.  So what AudioBuffer implements is all  *)
(* that audio_timing.c and audio_receiver.c rely on.                       *)
THEOREM BufferUse == Spec => Buffer!Init /\ [][UsesBuffer]_vars
BY InitTypes, TypesKeep, FlushedKeeps, InitUsesBuffer, BufferStep, PTL DEF Spec

(* A read that looks for a frame has given the last one back, whichever    *)
(* way the frame left it: audio_timing.c returns each frame it takes, on   *)
(* every path.                                                             *)
THEOREM FramesReturn == Spec => [](play.pc \notin Holding => taken = {})
<1>1. TakenInHand => (play.pc \notin Holding => taken = {})
  BY DEF TakenInHand
<1> QED BY <1>1, InitTypes, TypesKeep, FlushedKeeps, InitUsesBuffer, BufferStep, PTL DEF Spec
=============================================================================
