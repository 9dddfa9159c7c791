--------------------------- MODULE NtpClockProofs ---------------------------
(***************************************************************************)
(* Proofs about NtpClock, for any senders and offsets, any delays, any     *)
(* length of the history and any number of calls and failures.             *)
(*                                                                         *)
(* The inductive invariant ties the handle of the task to the task, the    *)
(* task to the calls that start and stop it, and every measurement to the  *)
(* clock of the sender that is asked.                                      *)
(***************************************************************************)
EXTENDS NtpClock, WellFoundedInduction, TLAPS

Offsets == {SenderOffset[s] + d - e : s \in Sender, d \in Delay, e \in Delay}
Dispersions == {d + e : d \in Delay, e \in Delay}
Measurement == [offset : Offsets, dispersion : Dispersions]
CallType == [pc : {"idle", "await", "start"}, sender : Sender \cup {NoSender}]
TaskType == [pc : {"none", "loop", "receive", "process", "end"},
             offset : Offsets \cup {0}, dispersion : Dispersions \cup {0}]

(* An offset that is no further from the sender's than a dispersion.       *)
Near(o, m) == o - SenderOffset[target] \in -m.dispersion..m.dispersion

(* TypeOK, one variable at a time.                                         *)
Types ==
  /\ running \in BOOLEAN /\ socket \in BOOLEAN /\ handle \in BOOLEAN
  /\ asked \in BOOLEAN /\ locked \in BOOLEAN
  /\ target \in Sender \cup {NoSender}
  /\ task \in TaskType
  /\ measurements \in Seq(Measurement) /\ Len(measurements) <= HistorySize
  /\ offset \in Offsets \cup {0}
  /\ rtsp \in CallType

(* There is a task as long as its handle is set; a call waits for it while *)
(* running is clear, and starts one when there is none.                    *)
CallsFit ==
  /\ handle <=> task.pc # "none"
  /\ rtsp.pc # "idle" => ~running
  /\ rtsp.pc = "start" => task.pc = "none" /\ rtsp.sender \in Sender
  /\ rtsp.pc = "idle" /\ ~running => task.pc = "none"
  /\ task.pc # "none" => target \in Sender

(* What is measured, and the offset of the clock, fit the sender asked.    *)
MeasuresFit ==
  /\ task.pc = "process" => task.offset \in Offsets /\ task.dispersion \in Dispersions
                            /\ Near(task.offset, task)
  /\ \A m \in ToSet(measurements) : Near(m.offset, m) /\ Near(offset, m)
  /\ locked => measurements # <<>>
  /\ measurements # <<>> => target \in Sender

Inv == Types /\ CallsFit /\ MeasuresFit

LEMMA TypesAreTypeOK == Types <=> TypeOK
BY DEF Types, TypeOK, Offsets, Dispersions, Measurement, CallType, TaskType

LEMMA Numbers == /\ Delay \subseteq Nat /\ Offsets \subseteq Int /\ Dispersions \subseteq Nat
                 /\ HistorySize \in Nat /\ HistorySize > 0 /\ MinMeasurements \in Nat
                 /\ MinMeasurements > 0 /\ MaxRoundTrip \in Nat
                 /\ \A s \in Sender : SenderOffset[s] \in Int
BY NtpClockAssumption DEF Offsets, Dispersions

LEMMA AtTyped ==
  ASSUME NEW pc \in {"none", "loop", "receive", "process", "end"}
  PROVE  At(pc) \in TaskType /\ At(pc).pc = pc
BY DEF At, TaskType

LEMMA InitTyped == Init => Types
<1> SUFFICES ASSUME Init PROVE Types
  OBVIOUS
<1>1. task \in TaskType
  BY AtTyped DEF Init
<1>2. rtsp \in CallType
  BY DEF Init, Idle, CallType
<1>3. measurements \in Seq(Measurement) /\ Len(measurements) <= HistorySize
  BY Numbers DEF Init
<1> QED BY <1>1, <1>2, <1>3 DEF Init, Types

LEMMA InitInv == Init => Inv
<1> SUFFICES ASSUME Init PROVE Inv
  OBVIOUS
<1>1. task.pc = "none" /\ rtsp.pc = "idle"
  BY AtTyped DEF Init, Idle
<1>2. ToSet(measurements) = {}
  BY DEF Init, ToSet
<1> QED BY <1>1, <1>2, InitTyped DEF Init, Inv, CallsFit, MeasuresFit

(* ------------------------------ the history ---------------------------- *)

Less == {p \in Nat \X Nat : p[1] < p[2]}

LEMMA SmallestOne ==
  ASSUME NEW S \in SUBSET Nat, S # {}
  PROVE  \E x \in S : \A y \in S : x <= y
<1>1. IsWellFoundedOn(Less, Nat)
  BY NatLessThanWellFounded DEF OpToRel, Less
<1>2. PICK x \in S : \A y \in S : ~ (<<y, x>> \in Less)
  BY <1>1, WFMin
<1>3. \A y \in S : ~ (y < x)
  <2>1. \A y \in S : <<y, x>> \in Nat \X Nat
    OBVIOUS
  <2> QED BY <1>2, <2>1 DEF Less
<1>4. S \subseteq Nat /\ x \in Nat
  OBVIOUS
<1> QED BY <1>3, <1>4

(* There is a best measurement: one of them with the least dispersion.     *)
LEMMA BestIsBest ==
  ASSUME NEW ms \in Seq(Measurement), ToSet(ms) # {}
  PROVE  /\ Best(ms) \in ToSet(ms)
         /\ \A n \in ToSet(ms) : Best(ms).dispersion <= n.dispersion
<1>1. \A m \in ToSet(ms) : m \in Measurement
  BY DEF ToSet
<1> DEFINE D == {m.dispersion : m \in ToSet(ms)}
<1>2. D \in SUBSET Nat /\ D # {}
  BY <1>1, Numbers DEF Measurement
<1>3. PICK x \in D : \A y \in D : x <= y
  BY <1>2, SmallestOne
<1>4. PICK m \in ToSet(ms) : \A n \in ToSet(ms) : m.dispersion <= n.dispersion
  BY <1>3
<1> QED BY <1>4 DEF Best

(* A measurement takes its place in the history, of its length at most.    *)
LEMMA RememberTyped ==
  ASSUME NEW m, m.offset \in Offsets, m.dispersion \in Dispersions,
         measurements \in Seq(Measurement), Len(measurements) <= HistorySize
  PROVE  /\ Remember(m) \in Seq(Measurement) /\ Len(Remember(m)) <= HistorySize
         /\ Remember(m) # <<>>
         /\ ToSet(Remember(m)) # {}
         /\ \A n \in ToSet(Remember(m)) :
              \/ n \in ToSet(measurements)
              \/ n = [offset |-> m.offset, dispersion |-> m.dispersion]
<1> DEFINE kept == IF Len(measurements) = HistorySize THEN Tail(measurements) ELSE measurements
           new == [offset |-> m.offset, dispersion |-> m.dispersion]
<1>1. kept \in Seq(Measurement) /\ Len(kept) < HistorySize
      /\ \A i \in 1..Len(kept) : \E j \in 1..Len(measurements) : kept[i] = measurements[j]
  <2>1. CASE Len(measurements) = HistorySize
    <3>1. measurements # <<>>
      BY <2>1, Numbers
    <3>2. kept = Tail(measurements)
      BY <2>1
    <3>3. Len(kept) = Len(measurements) - 1 /\ kept \in Seq(Measurement)
      BY <3>1, <3>2
    <3>4. \A i \in 1..Len(kept) : kept[i] = measurements[i + 1] /\ i + 1 \in 1..Len(measurements)
      BY <3>1, <3>2, <3>3
    <3> QED BY <2>1, <3>3, <3>4, Numbers
  <2>2. CASE Len(measurements) # HistorySize
    BY <2>2, Numbers
  <2> QED BY <2>1, <2>2
<1>2. new \in Measurement
  BY DEF Measurement
<1>3. Remember(m) = Append(kept, new)
  BY DEF Remember
<1> HIDE DEF kept, new
<1>4. /\ Append(kept, new) \in Seq(Measurement) /\ Len(Append(kept, new)) = Len(kept) + 1
      /\ \A i \in 1..Len(kept) : Append(kept, new)[i] = kept[i]
      /\ Append(kept, new)[Len(kept) + 1] = new
  BY <1>1, <1>2
<1>5. Len(kept) \in Nat /\ HistorySize \in Nat
  BY <1>1, Numbers
<1>6. DOMAIN Remember(m) = 1..(Len(kept) + 1) /\ DOMAIN measurements = 1..Len(measurements)
  BY <1>3, <1>4
<1>7. \A n \in ToSet(Remember(m)) : n \in ToSet(measurements) \/ n = new
  <2> SUFFICES ASSUME NEW i \in 1..(Len(kept) + 1)
               PROVE  Remember(m)[i] \in ToSet(measurements) \/ Remember(m)[i] = new
    BY <1>6 DEF ToSet
  <2>1. CASE i = Len(kept) + 1
    BY <1>3, <1>4, <2>1
  <2>2. CASE i # Len(kept) + 1
    <3>1. i \in 1..Len(kept)
      BY <1>5, <2>2
    <3>2. PICK j \in 1..Len(measurements) : kept[i] = measurements[j]
      BY <1>1, <3>1
    <3> QED BY <1>3, <1>4, <1>6, <3>1, <3>2 DEF ToSet
  <2> QED BY <2>1, <2>2
<1>8. Remember(m)[1] \in ToSet(Remember(m))
  BY <1>5, <1>6 DEF ToSet
<1>9. Remember(m) # <<>>
  BY <1>3, <1>4, <1>5
<1> QED BY <1>1, <1>3, <1>4, <1>5, <1>7, <1>8, <1>9 DEF new

(* ------------------------------- the steps ----------------------------- *)

(* An answer is as far from the sender's offset as its round trip at most. *)
LEMMA AnswerIsNear ==
  ASSUME NEW s \in Sender, NEW out \in Delay, NEW back \in Delay
  PROVE  (SenderOffset[s] + out - back) - SenderOffset[s] \in -(out + back)..(out + back)
BY Numbers

LEMMA ProcessKeeps ==
  ASSUME Inv, Process
  PROVE  Inv'
<1>0. /\ task.pc = "process" /\ task' = At("loop") /\ task'.pc = "loop" /\ task' \in TaskType
      /\ UNCHANGED <<running, target, socket, handle, asked, rtsp>>
  BY AtTyped DEF Process
<1>1. CallsFit'
  BY <1>0 DEF Inv, CallsFit
<1>2. CASE UNCHANGED estimate
  <2>1. Types'
    BY <1>0, <1>2 DEF Inv, Types, estimate
  <2>2. MeasuresFit'
    BY <1>0, <1>2 DEF Inv, MeasuresFit, Near, estimate
  <2> QED BY <1>1, <2>1, <2>2 DEF Inv
<1>3. CASE /\ measurements' = Remember(task)
           /\ offset' = Best(measurements').offset
           /\ locked' = (locked \/ Len(measurements') >= MinMeasurements)
  <2> DEFINE best == Best(measurements')
  <2>1. /\ task.offset \in Offsets /\ task.dispersion \in Dispersions /\ Near(task.offset, task)
        /\ target \in Sender
    BY <1>0 DEF Inv, MeasuresFit, CallsFit
  <2>2. /\ measurements' \in Seq(Measurement) /\ Len(measurements') <= HistorySize
        /\ measurements' # <<>> /\ ToSet(measurements') # {}
        /\ \A n \in ToSet(measurements') :
             \/ n \in ToSet(measurements)
             \/ n = [offset |-> task.offset, dispersion |-> task.dispersion]
    BY <1>3, <2>1, RememberTyped DEF Inv, Types
  <2>3. best \in ToSet(measurements')
        /\ \A n \in ToSet(measurements') : best.dispersion <= n.dispersion
    BY <2>2, BestIsBest
  <2>4. \A n \in ToSet(measurements') : n \in Measurement
    BY <2>2 DEF ToSet
  <2>5. \A n \in ToSet(measurements') :
          n.offset - SenderOffset[target] \in -n.dispersion..n.dispersion
    BY <2>1, <2>2 DEF Inv, MeasuresFit, Near
  <2>6. offset' = best.offset
    BY <1>3
  <2> HIDE DEF best
  <2>7. offset' \in Offsets
    BY <2>3, <2>4, <2>6 DEF Measurement
  <2>8. ASSUME NEW n \in ToSet(measurements')
        PROVE  offset' - SenderOffset[target] \in -n.dispersion..n.dispersion
    <3>1. best.offset - SenderOffset[target] \in -best.dispersion..best.dispersion
      BY <2>3, <2>5
    <3>2. best.dispersion <= n.dispersion
      BY <2>3
    <3>3. /\ best.dispersion \in Nat /\ n.dispersion \in Nat /\ best.offset \in Int
          /\ SenderOffset[target] \in Int
      BY <2>1, <2>3, <2>4, Numbers DEF Measurement
    <3> QED BY <2>6, <3>1, <3>2, <3>3
  <2>9. locked' \in BOOLEAN
    BY <1>3 DEF Inv, Types
  <2>10. Types'
    BY <1>0, <2>2, <2>7, <2>9 DEF Inv, Types
  <2>11. MeasuresFit'
    BY <1>0, <2>1, <2>2, <2>5, <2>8 DEF MeasuresFit, Near
  <2> QED BY <1>1, <2>10, <2>11 DEF Inv
<1> QED BY <1>2, <1>3 DEF Process

(* The steps of the task that measure nothing.                             *)
LEMMA TaskKeeps ==
  ASSUME Inv, Request \/ Timeout \/ LeaveLoop \/ End \/ ReceiveError
  PROVE  Inv'
<1>1. /\ UNCHANGED <<running, target, socket, measurements, offset, locked, rtsp>>
      /\ handle' = (handle /\ ~End)
      /\ task.pc # "none"
      /\ asked' \in BOOLEAN
      /\ \E pc \in {"none", "loop", "receive", "end"} : task' = At(pc) /\ (pc = "none" <=> End)
  BY DEF Request, Timeout, LeaveLoop, End, ReceiveError, estimate, Inv, Types
<1>2. PICK pc \in {"none", "loop", "receive", "end"} :
        task' = At(pc) /\ (pc = "none" <=> End)
  BY <1>1
<1>3. task' \in TaskType /\ task'.pc = pc
  BY <1>2, AtTyped
<1>4. Types'
  BY <1>1, <1>3 DEF Inv, Types
<1>5. CallsFit'
  BY <1>1, <1>2, <1>3 DEF Inv, CallsFit
<1>6. MeasuresFit'
  BY <1>1, <1>3 DEF Inv, MeasuresFit, Near
<1> QED BY <1>4, <1>5, <1>6 DEF Inv

LEMMA AnswerKeeps ==
  ASSUME Inv, Answer
  PROVE  Inv'
<1>1. PICK out \in Delay, back \in Delay :
        task' = [pc |-> "process", offset |-> SenderOffset[target] + out - back,
                 dispersion |-> out + back]
  BY DEF Answer
<1>2. /\ task.pc = "receive"
      /\ UNCHANGED <<running, target, socket, handle, asked, measurements, offset, locked, rtsp>>
  BY DEF Answer, estimate
<1>3. target \in Sender
  BY <1>2 DEF Inv, CallsFit
<1>4. task'.offset \in Offsets /\ task'.dispersion \in Dispersions /\ task'.pc = "process"
  BY <1>1, <1>3 DEF Offsets, Dispersions
<1>5. task' \in TaskType
  BY <1>1, <1>4 DEF TaskType
<1>6. Near(task.offset, task)'
  BY <1>1, <1>2, <1>3, AnswerIsNear DEF Near
<1>7. Types'
  BY <1>2, <1>5 DEF Inv, Types
<1>8. CallsFit'
  BY <1>2, <1>3, <1>4 DEF Inv, CallsFit
<1>9. MeasuresFit'
  BY <1>2, <1>4, <1>6 DEF Inv, MeasuresFit, Near
<1> QED BY <1>7, <1>8, <1>9 DEF Inv

LEMMA LaunchKeeps ==
  ASSUME Inv, Launch
  PROVE  Inv'
<1>1. /\ rtsp.pc = "start" /\ target' = rtsp.sender /\ rtsp' = Idle /\ task' = At("loop")
      /\ running' = TRUE /\ socket' = TRUE /\ asked' = FALSE /\ handle' = TRUE
      /\ measurements' = <<>> /\ offset' = 0 /\ locked' = FALSE
  BY DEF Launch
<1>2. rtsp.sender \in Sender
  BY <1>1 DEF Inv, CallsFit
<1>3. task' \in TaskType /\ task'.pc = "loop" /\ rtsp' \in CallType /\ rtsp'.pc = "idle"
  BY <1>1, AtTyped DEF Idle, CallType
<1>4. /\ measurements' \in Seq(Measurement) /\ Len(measurements') <= HistorySize
      /\ ToSet(measurements') = {}
  BY <1>1, Numbers DEF ToSet
<1>5. Types'
  BY <1>1, <1>2, <1>3, <1>4 DEF Types
<1> QED BY <1>1, <1>2, <1>3, <1>4, <1>5 DEF Inv, CallsFit, MeasuresFit

LEMMA CallKeeps ==
  ASSUME Inv, Stop \/ AwaitTask \/ NoSocket \/ \E s \in Sender : StartClient(s)
  PROVE  Inv'
<1> USE DEF Inv
<1>1. ASSUME NEW next \in Sender \cup {NoSender}, Halt(next), running, rtsp = Idle,
             UNCHANGED <<target, handle, task, estimate>>
      PROVE  Inv'
  <2>1. rtsp' \in CallType /\ rtsp'.pc = "await"
    BY <1>1 DEF Halt, CallType
  <2>2. Types'
    BY <1>1, <2>1 DEF Types, Halt, estimate
  <2>3. CallsFit'
    BY <1>1, <2>1 DEF CallsFit, Halt
  <2>4. MeasuresFit'
    BY <1>1 DEF MeasuresFit, Near, estimate
  <2> QED BY <2>2, <2>3, <2>4
<1>2. CASE Stop
  BY <1>1, <1>2 DEF Stop, Call
<1>3. ASSUME NEW s \in Sender, StartClient(s) PROVE Inv'
  <2>0. rtsp = Idle /\ rtsp.pc = "idle" /\ UNCHANGED <<target, handle, task, estimate>>
    BY <1>3 DEF StartClient, Call, Idle
  <2>1. CASE running /\ target # s
    BY <1>1, <1>3, <2>0, <2>1 DEF StartClient
  <2>2. CASE running /\ target = s
    <3>1. UNCHANGED <<running, socket, asked, rtsp, target, handle, task, measurements,
                      offset, locked>>
      BY <1>3, <2>0, <2>2 DEF StartClient, estimate
    <3> QED BY <3>1 DEF Types, CallsFit, MeasuresFit, Near
  <2>3. CASE ~running
    <3>1. UNCHANGED <<running, socket, asked, target, handle, task, measurements, offset,
                      locked>>
      BY <1>3, <2>0, <2>3 DEF StartClient, estimate
    <3>2. rtsp' = [pc |-> "start", sender |-> s] /\ rtsp' \in CallType
      BY <1>3, <2>3 DEF StartClient, CallType
    <3> QED BY <2>0, <2>3, <3>1, <3>2 DEF Types, CallsFit, MeasuresFit, Near
  <2> QED BY <2>1, <2>2, <2>3
<1>4. CASE AwaitTask
  <2>1. /\ rtsp.pc = "await" /\ ~handle /\ measurements' = <<>> /\ locked' = FALSE
        /\ rtsp' = IF rtsp.sender = NoSender THEN Idle ELSE [rtsp EXCEPT !.pc = "start"]
        /\ UNCHANGED <<running, target, socket, handle, task, asked, offset>>
    BY <1>4 DEF AwaitTask
  <2>2. task.pc = "none" /\ ~running
    BY <2>1 DEF CallsFit
  <2>3. /\ rtsp' \in CallType /\ rtsp'.pc \in {"idle", "start"}
        /\ rtsp'.pc = "start" => rtsp'.sender \in Sender
    <3>1. CASE rtsp.sender = NoSender
      BY <2>1, <3>1 DEF Idle, CallType
    <3>2. CASE rtsp.sender # NoSender
      BY <2>1, <3>2 DEF Types, CallType
    <3> QED BY <3>1, <3>2
  <2>4. /\ measurements' \in Seq(Measurement) /\ Len(measurements') <= HistorySize
        /\ ToSet(measurements') = {}
    BY <2>1, Numbers DEF ToSet
  <2>5. Types'
    BY <2>1, <2>3, <2>4 DEF Types
  <2>6. CallsFit'
    BY <2>1, <2>2, <2>3 DEF CallsFit
  <2> QED BY <2>1, <2>2, <2>4, <2>5, <2>6 DEF MeasuresFit
<1>5. CASE NoSocket
  <2>1. /\ rtsp.pc = "start" /\ rtsp' = Idle
        /\ UNCHANGED <<running, target, socket, handle, task, asked, measurements, offset,
                       locked>>
    BY <1>5 DEF NoSocket, estimate
  <2>2. rtsp' \in CallType /\ rtsp'.pc = "idle"
    BY <2>1 DEF Idle, CallType
  <2> QED BY <2>1, <2>2 DEF Types, CallsFit, MeasuresFit, Near
<1> QED BY <1>2, <1>3, <1>4, <1>5

LEMMA Inductive == Inv /\ [Next]_vars => Inv'
<1> SUFFICES ASSUME Inv, [Next]_vars PROVE Inv'
  OBVIOUS
<1>1. CASE UNCHANGED vars
  BY <1>1 DEF vars, estimate, Inv, Types, CallsFit, MeasuresFit, Near
<1> QED
  BY <1>1, ProcessKeeps, TaskKeeps, AnswerKeeps, LaunchKeeps, CallKeeps DEF Next, Task, Rtsp

(* Every variable keeps its type, the history its length.                  *)
THEOREM Typed == Spec => []TypeOK
<1>1. Inv => TypeOK
  BY TypesAreTypeOK DEF Inv
<1> QED BY <1>1, InitInv, Inductive, PTL DEF Spec

(* The static memory of ntp_task is given to a new task only when there is *)
(* none: ntp_clock_start_client after ntp_clock_stop.                      *)
THEOREM TaskIsAlone == Spec => []NtpTaskIsAlone
<1>1. Inv => NtpTaskIsAlone
  BY DEF Inv, CallsFit, NtpTaskIsAlone
<1> QED BY <1>1, InitInv, Inductive, PTL DEF Spec

(* process_timing_response keeps the offset of the clock within the        *)
(* dispersion of each measurement in the history, for any delays either    *)
(* way, any clocks and any length of the history.                          *)
THEOREM OffsetAccurate == Spec => []OffsetIsAccurate
<1>1. Inv => OffsetIsAccurate
  BY DEF Inv, MeasuresFit, OffsetIsAccurate, Near
<1> QED BY <1>1, InitInv, Inductive, PTL DEF Spec
=============================================================================
