------------------------------ MODULE NtpClock ------------------------------
(***************************************************************************)
(* The NTP clock of AirPlay 1: main/network/ntp_clock.c.  A task asks the  *)
(* sender for its time; each answer is a measurement of the offset between *)
(* the sender's clock and the local one, with half its round trip as the   *)
(* dispersion, and the best of the last ones is the offset of the clock.   *)
(* RTSP tasks start and stop the task, one call at a time.                 *)
(*                                                                         *)
(* All values are in halves of a millisecond, so that no division loses a  *)
(* half.  The sender answers at once: what an answer takes to come back    *)
(* is what the network takes.                                              *)
(***************************************************************************)
EXTENDS Integers, Sequences, SequencesExt

CONSTANTS
  Sender,          \* senders that answer timing requests
  NoSender,        \* no sender yet
  SenderOffset,    \* offset of each sender's clock, in half milliseconds
  Delay,           \* what a packet takes one way, in milliseconds
  MaxRoundTrip,    \* longest round trip accepted, in milliseconds
  HistorySize,     \* TIMING_HISTORY_SIZE
  MinMeasurements, \* MIN_MEASUREMENTS
  MaxCalls,        \* calls of start and stop, at most
  MaxFailures      \* socket errors, at most

ASSUME NtpClockAssumption ==
  /\ NoSender \notin Sender
  /\ SenderOffset \in [Sender -> Int]
  /\ Delay \subseteq Nat /\ MaxRoundTrip \in Nat
  /\ HistorySize \in Nat /\ MinMeasurements \in 1..HistorySize
  /\ {MaxCalls, MaxFailures} \subseteq Nat

VARIABLES
  running,      \* ntp.running
  target,       \* ntp.remote_addr
  socket,       \* whether ntp.socket is open
  handle,       \* whether ntp.task_handle is set
  task,         \* where ntp_task stands, and the measurement it processes
  asked,        \* a request was sent on the open socket
  measurements, \* measurements and dispersions, oldest first
  offset,       \* ntp.offset_ns
  locked,       \* ntp.locked
  rtsp,         \* where a call of start or stop stands, and its sender
  calls,        \* calls made
  failures      \* socket errors so far

estimate == <<measurements, offset, locked>>
bounds == <<calls, failures>>
vars == <<running, target, socket, handle, task, asked, estimate, rtsp, bounds>>

Idle == [pc |-> "idle", sender |-> NoSender]
At(pc) == [pc |-> pc, offset |-> 0, dispersion |-> 0]

-----------------------------------------------------------------------------
Init ==
  /\ running = FALSE /\ target = NoSender
  /\ socket = FALSE /\ handle = FALSE /\ asked = FALSE
  /\ task = At("none")
  /\ measurements = <<>> /\ offset = 0 /\ locked = FALSE
  /\ rtsp = Idle
  /\ calls = 0 /\ failures = 0

-----------------------------------------------------------------------------
(* ntp_clock_start_client and ntp_clock_stop.                              *)

Call == rtsp = Idle /\ calls < MaxCalls /\ calls' = calls + 1

(* A stop clears running, closes the socket and then waits for the task.   *)
Halt(next) ==
  /\ running' = FALSE
  /\ socket' = FALSE /\ asked' = FALSE
  /\ rtsp' = [pc |-> "await", sender |-> next]

(* Variant: a client that runs is not stopped before another is started.   *)
StartOver(s) ==
  /\ Call
  /\ \/ running /\ target = s /\ UNCHANGED rtsp
     \/ ~(running /\ target = s) /\ rtsp' = [pc |-> "start", sender |-> s]
  /\ UNCHANGED <<running, target, socket, handle, task, asked, estimate, failures>>

(* A client that asks this sender already is left alone.                   *)
StartClient(s) ==
  /\ Call
  /\ \/ /\ running /\ target = s
        /\ UNCHANGED <<running, socket, asked, rtsp>>
     \/ /\ running /\ target # s
        /\ Halt(s)
     \/ /\ ~running
        /\ rtsp' = [pc |-> "start", sender |-> s]
        /\ UNCHANGED <<running, socket, asked>>
  /\ UNCHANGED <<target, handle, task, estimate, failures>>

Stop ==
  /\ Call
  /\ running
  /\ Halt(NoSender)
  /\ UNCHANGED <<target, handle, task, estimate, failures>>

(* The task ends within its receive timeout, well before the wait does.    *)
AwaitTask ==
  /\ rtsp.pc = "await" /\ ~handle
  /\ measurements' = <<>> /\ locked' = FALSE
  /\ rtsp' = IF rtsp.sender = NoSender THEN Idle ELSE [rtsp EXCEPT !.pc = "start"]
  /\ UNCHANGED <<running, target, socket, handle, task, asked, offset, bounds>>

Fails == failures < MaxFailures /\ failures' = failures + 1

NoSocket ==
  /\ rtsp.pc = "start"
  /\ Fails
  /\ rtsp' = Idle
  /\ UNCHANGED <<running, target, socket, handle, task, asked, estimate, calls>>

Launch ==
  /\ rtsp.pc = "start"
  /\ running' = TRUE /\ target' = rtsp.sender
  /\ socket' = TRUE /\ asked' = FALSE
  /\ measurements' = <<>> /\ offset' = 0 /\ locked' = FALSE
  /\ handle' = TRUE /\ task' = At("loop")
  /\ rtsp' = Idle
  /\ UNCHANGED bounds

Rtsp == AwaitTask \/ NoSocket \/ Launch

-----------------------------------------------------------------------------
(* ntp_task.                                                               *)

(* A request goes out when one is due.                                     *)
Request ==
  /\ task.pc = "loop" /\ running
  /\ task' = At("receive")
  /\ asked' = socket
  /\ UNCHANGED <<running, target, socket, handle, estimate, rtsp, bounds>>

(* An answer, maybe one of several to a request: the later it comes, the   *)
(* longer its way back seems.                                              *)
Answer ==
  /\ task.pc = "receive" /\ asked
  /\ \E out, back \in Delay :
       task' = [pc |-> "process",
                offset |-> SenderOffset[target] + out - back,
                dispersion |-> out + back]
  /\ UNCHANGED <<running, target, socket, handle, asked, estimate, rtsp, bounds>>

(* Variant: a receive timeout ends the task.                               *)
EndOnTimeout ==
  /\ task.pc = "receive"
  /\ task' = At("end")
  /\ UNCHANGED <<running, target, socket, handle, asked, estimate, rtsp, bounds>>

Timeout ==
  /\ task.pc = "receive"
  /\ task' = At("loop")
  /\ UNCHANGED <<running, target, socket, handle, asked, estimate, rtsp, bounds>>

(* The socket was closed, or fails: the task ends, and running stays.      *)
ReceiveError ==
  /\ task.pc = "receive"
  /\ IF socket THEN Fails ELSE UNCHANGED failures
  /\ task' = At("end")
  /\ UNCHANGED <<running, target, socket, handle, asked, estimate, rtsp, calls>>

Remember(m) ==
  Append(IF Len(measurements) = HistorySize THEN Tail(measurements) ELSE measurements,
         [offset |-> m.offset, dispersion |-> m.dispersion])

(* Of measurements with the same dispersion the newest or the first in the *)
(* ring is the best: which one, the properties do not tell apart.          *)
Best(ms) == CHOOSE m \in ToSet(ms) : \A n \in ToSet(ms) : m.dispersion <= n.dispersion

(* Variant: the newest measurement is the offset of the clock.             *)
TakeNewest ==
  /\ task.pc = "process"
  /\ IF task.dispersion > MaxRoundTrip THEN UNCHANGED estimate
     ELSE /\ measurements' = Remember(task)
          /\ offset' = task.offset
          /\ locked' = (locked \/ Len(measurements') >= MinMeasurements)
  /\ task' = At("loop")
  /\ UNCHANGED <<running, target, socket, handle, asked, rtsp, bounds>>

(* process_timing_response.  The dispersion in half milliseconds is the    *)
(* round trip in milliseconds.                                             *)
Process ==
  /\ task.pc = "process"
  /\ IF task.dispersion > MaxRoundTrip THEN UNCHANGED estimate
     ELSE /\ measurements' = Remember(task)
          /\ offset' = Best(measurements').offset
          /\ locked' = (locked \/ Len(measurements') >= MinMeasurements)
  /\ task' = At("loop")
  /\ UNCHANGED <<running, target, socket, handle, asked, rtsp, bounds>>

LeaveLoop ==
  /\ task.pc = "loop" /\ ~running
  /\ task' = At("end")
  /\ UNCHANGED <<running, target, socket, handle, asked, estimate, rtsp, bounds>>

End ==
  /\ task.pc = "end"
  /\ handle' = FALSE /\ task' = At("none")
  /\ UNCHANGED <<running, target, socket, asked, estimate, rtsp, bounds>>

Task == Request \/ Timeout \/ Process \/ LeaveLoop \/ End

-----------------------------------------------------------------------------
Next == \/ \E s \in Sender : StartClient(s)
        \/ Stop \/ Rtsp
        \/ Task \/ Answer \/ ReceiveError

Spec == Init /\ [][Next]_vars

InTime == task'.dispersion <= MaxRoundTrip

(* The tasks run, and a request that is repeated is answered in time       *)
(* sometimes.                                                              *)
FairSpec ==
  /\ Spec
  /\ WF_vars(Task) /\ WF_vars(Rtsp)
  /\ SF_vars(Answer /\ InTime)

-----------------------------------------------------------------------------
TypeOK ==
  LET O == {SenderOffset[s] + d - e : s \in Sender, d \in Delay, e \in Delay}
      D == {d + e : d \in Delay, e \in Delay}
  IN  /\ {running, socket, handle, asked, locked} \subseteq BOOLEAN
      /\ target \in Sender \cup {NoSender}
      /\ task \in [pc : {"none", "loop", "receive", "process", "end"},
                   offset : O \cup {0}, dispersion : D \cup {0}]
      /\ measurements \in Seq([offset : O, dispersion : D])
      /\ Len(measurements) <= HistorySize
      /\ offset \in O \cup {0}
      /\ rtsp \in [pc : {"idle", "await", "start"}, sender : Sender \cup {NoSender}]

(* The offset of a locked clock is as good as the best of the last         *)
(* measurements promises: no further from the sender's than its            *)
(* dispersion, whatever the delays either way, and never from an answer of *)
(* a sender asked before.                                                  *)
OffsetIsAccurate ==
  /\ locked => measurements # <<>>
  /\ \A m \in ToSet(measurements) :
       offset - SenderOffset[target] \in -m.dispersion..m.dispersion

(* The static memory of the NTP task is given to a new task only when the  *)
(* one before has ended.                                                   *)
NtpTaskIsAlone == rtsp.pc = "start" => task.pc = "none"

(* A client that is left alone locks on to a sender that answers now and   *)
(* then, however many answers are lost or late, unless its socket fails.   *)
NtpLocks ==
  (/\ running /\ rtsp = Idle /\ calls = MaxCalls /\ failures = MaxFailures
   /\ task.pc \in {"loop", "receive", "process"}) ~> locked
=============================================================================
