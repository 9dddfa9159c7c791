----------------------------- MODULE PtpClock -----------------------------
(***************************************************************************)
(* The PTP clock: main/network/ptp_clock.c.  The PTP task turns SYNC and   *)
(* FOLLOW_UP messages into measurements of the offset between the master's *)
(* clock and the local one, filters them with a median, and decides when   *)
(* the clock is locked.  The RTSP client task clears the state between     *)
(* sessions, the playback task asks whether the clock is locked, and both  *)
(* write the task's fields without a mutex.                                *)
(*                                                                         *)
(* Offsets are in units of 10 ms, times in seconds.  A time stamp of the   *)
(* code is represented by its age, which stops at the largest age the code *)
(* can tell from a larger one.                                             *)
(***************************************************************************)
EXTENDS Integers, Sequences, SequencesExt

CONSTANTS
  Master,      \* PTP masters
  OffsetOf,    \* offset of each master's clock
  Jitter,      \* errors of a measurement
  SyncSeq,     \* sequence numbers of SYNC messages
  RingSize,    \* SAMPLE_BUFFER_SIZE
  MinSamples,  \* MIN_SAMPLES_FOR_LOCK
  StableTime,  \* LOCK_STABLE_TIME_MS
  Timeout,     \* LOCK_TIMEOUT_MS
  MaxChanges,  \* times the master changes
  MaxClears    \* times a session ends

(* LOCK_THRESHOLD_NS and OUTLIER_THRESHOLD_NS.                             *)
LockThreshold == 4
OutlierThreshold == 5

(* Time between two SYNC messages of a master.                             *)
SyncInterval == 12

Never == -1

Abs(x) == IF x < 0 THEN -x ELSE x

Measured(m) == {OffsetOf[m] + j : j \in Jitter}

Offset == UNION {Measured(m) : m \in Master}

ASSUME PtpClockAssumption ==
  /\ OffsetOf \in [Master -> Int]
  /\ Jitter \subseteq Int /\ Jitter # {} /\ SyncSeq # {}
  /\ RingSize \in Nat /\ MinSamples \in 1..RingSize
  /\ {StableTime, Timeout} \subseteq Nat
  /\ {MaxChanges, MaxClears} \subseteq Nat

(* An outlier is a measurement of another master's clock, and no other.    *)
ASSUME MastersAreApart ==
  \A m, n \in Master : \A x \in Measured(m), y \in Measured(n) :
    Abs(x - y) <= OutlierThreshold <=> m = n

VARIABLES
  samples,   \* the ring, oldest first
  filtered,  \* filtered_offset_ns
  locked,
  stable,    \* age of lock_candidate_start_ms, or Never
  synced,    \* age of last_sync_ms, or Never
  sync,      \* the last SYNC: its sequence number, and awaiting_followup
  update,    \* where update_offset stands, with which measurement
  master,    \* the master that sends
  changes,   \* how often it changed
  clears     \* how often the clock was cleared

clock == <<samples, filtered, locked, stable, synced, sync>>
vars == <<clock, update, master, changes, clears>>

-----------------------------------------------------------------------------
Init ==
  /\ samples = <<>> /\ filtered = 0
  /\ locked = FALSE /\ stable = Never /\ synced = Never
  /\ sync = [seq |-> CHOOSE q \in SyncSeq : TRUE, awaiting |-> FALSE]
  /\ update = [pc |-> "idle", offset |-> 0]
  /\ master \in Master
  /\ changes = 0 /\ clears = 0

-----------------------------------------------------------------------------
(* The PTP task.                                                           *)

(* Variant: no measurement is an outlier.                                  *)
BeginAlways(x) == synced' = 0 /\ update' = [pc |-> "store", offset |-> x]

(* update_offset notes the time and rejects outliers.                      *)
Begin(x) ==
  /\ synced' = 0
  /\ update' = IF samples # <<>> /\ Abs(x - filtered) > OutlierThreshold
               THEN update
               ELSE [pc |-> "store", offset |-> x]

(* A SYNC that carries its time stamp is a measurement; for another one a  *)
(* FOLLOW_UP has to come.                                                  *)
ProcessSync ==
  /\ update.pc = "idle"
  /\ \E q \in SyncSeq :
       \/ /\ sync' = [seq |-> q, awaiting |-> TRUE]
          /\ UNCHANGED <<synced, update>>
       \/ /\ sync' = [seq |-> q, awaiting |-> FALSE]
          /\ \E x \in Measured(master) : Begin(x)
  /\ UNCHANGED <<samples, filtered, locked, stable, master, changes, clears>>

(* What comes out when the FOLLOW_UP of SYNC q is taken for the last one's: *)
(* the SYNC before was an interval earlier.                                *)
Paired(q, x) == IF q = sync.seq THEN x ELSE x - SyncInterval

(* Variant: any FOLLOW_UP is taken for the last SYNC's.                    *)
ProcessAnyFollowUp ==
  /\ update.pc = "idle"
  /\ sync.awaiting
  /\ \E q \in SyncSeq, x \in Measured(master) : Begin(Paired(q, x))
  /\ sync' = [sync EXCEPT !.awaiting = FALSE]
  /\ UNCHANGED <<samples, filtered, locked, stable, master, changes, clears>>

(* A FOLLOW_UP: only that of the last SYNC counts.                         *)
ProcessFollowUp ==
  /\ update.pc = "idle"
  /\ sync.awaiting
  /\ \E q \in SyncSeq, x \in Measured(master) : q = sync.seq /\ Begin(Paired(q, x))
  /\ sync' = [sync EXCEPT !.awaiting = FALSE]
  /\ UNCHANGED <<samples, filtered, locked, stable, master, changes, clears>>

(* Variant: the oldest sample stays in the ring.                           *)
StoreMore ==
  /\ update.pc = "store"
  /\ samples' = Append(samples, update.offset)
  /\ update' = [update EXCEPT !.pc = "filter"]
  /\ UNCHANGED <<filtered, locked, stable, synced, sync, master, changes, clears>>

StoreSample ==
  /\ update.pc = "store"
  /\ samples' = Append(IF Len(samples) = RingSize THEN Tail(samples) ELSE samples,
                       update.offset)
  /\ update' = [update EXCEPT !.pc = "filter"]
  /\ UNCHANGED <<filtered, locked, stable, synced, sync, master, changes, clears>>

Count(s, Test(_)) == Len(SelectSeq(s, Test))

(* The element in the middle of the sorted samples, the upper one of two;  *)
(* the set has one member.                                                 *)
Median(s) ==
  LET k == Len(s) \div 2
  IN  IF s = <<>> THEN {0}
      ELSE {m \in ToSet(s) : /\ Count(s, LAMBDA x : x < m) <= k
                             /\ Count(s, LAMBDA x : x <= m) > k}

FilterOffset ==
  /\ update.pc = "filter"
  /\ filtered' \in Median(samples)
  /\ update' = [update EXCEPT !.pc = "judge"]
  /\ UNCHANGED <<samples, locked, stable, synced, sync, master, changes, clears>>

Deviates(s, by) == \E x \in ToSet(s) : Abs(x - filtered) > by

(* Variant: every sample within the threshold starts the time anew.        *)
JudgeAnew ==
  /\ update.pc = "judge"
  /\ IF Len(samples) < MinSamples THEN UNCHANGED <<locked, stable>>
     ELSE IF Deviates(samples, LockThreshold - 1)
     THEN /\ stable' = Never
          /\ locked' = (locked /\ ~Deviates(samples, 4 * LockThreshold))
     ELSE IF locked THEN UNCHANGED <<locked, stable>>
     ELSE stable' = 0 /\ locked' = (StableTime = 0)
  /\ update' = [update EXCEPT !.pc = "idle"]
  /\ UNCHANGED <<samples, filtered, synced, sync, master, changes, clears>>

(* The clock locks when all samples have been within the threshold for     *)
(* long enough, and unlocks when one is four times as far away.            *)
JudgeLock ==
  /\ update.pc = "judge"
  /\ IF Len(samples) < MinSamples THEN UNCHANGED <<locked, stable>>
     ELSE IF Deviates(samples, LockThreshold - 1)
     THEN /\ stable' = Never
          /\ locked' = (locked /\ ~Deviates(samples, 4 * LockThreshold))
     ELSE IF locked THEN UNCHANGED <<locked, stable>>
     ELSE LET since == IF stable = Never THEN 0 ELSE stable
          IN  /\ locked' = (since >= StableTime)
              /\ stable' = IF since >= StableTime THEN Never ELSE since
  /\ update' = [update EXCEPT !.pc = "idle"]
  /\ UNCHANGED <<samples, filtered, synced, sync, master, changes, clears>>

PtpTask == \/ ProcessSync \/ ProcessFollowUp
           \/ StoreSample \/ FilterOffset \/ JudgeLock

-----------------------------------------------------------------------------
(* The other tasks.                                                        *)

(* ptp_clock_is_locked finds that the last message is too old.             *)
LoseLock ==
  /\ locked /\ synced > Timeout
  /\ locked' = FALSE /\ stable' = Never
  /\ UNCHANGED <<samples, filtered, synced, sync, update, master, changes, clears>>

(* ptp_clock_clear, at the end of a session.                               *)
Clear ==
  /\ clears < MaxClears
  /\ clears' = clears + 1
  /\ samples' = <<>> /\ filtered' = 0
  /\ locked' = FALSE /\ stable' = Never /\ synced' = Never
  /\ sync' = [sync EXCEPT !.awaiting = FALSE]
  /\ UNCHANGED <<update, master, changes>>

(* Another master takes over.                                              *)
ChangeMaster ==
  /\ changes < MaxChanges
  /\ changes' = changes + 1
  /\ master' \in Master
  /\ UNCHANGED <<clock, update, clears>>

Older(age, limit) == IF age = Never \/ age > limit THEN age ELSE age + 1

Tick ==
  /\ synced' = Older(synced, Timeout)
  /\ stable' = Older(stable, StableTime)
  /\ <<synced, stable>>' # <<synced, stable>>
  /\ UNCHANGED <<samples, filtered, locked, sync, update, master, changes, clears>>

-----------------------------------------------------------------------------
Next == PtpTask \/ LoseLock \/ Clear \/ ChangeMaster \/ Tick

Spec == Init /\ [][Next]_vars

(* The master sends on and on, the playback task asks on and on, and time  *)
(* passes.                                                                 *)
Fairness ==
  /\ WF_vars(ProcessSync) /\ SF_vars(ProcessFollowUp)
  /\ WF_vars(StoreSample \/ FilterOffset \/ JudgeLock)
  /\ WF_vars(LoseLock)
  /\ SF_vars(Tick)

FairSpec == Spec /\ Fairness

-----------------------------------------------------------------------------
Near(x, m) == x \in Measured(m)

TypeOK ==
  /\ samples \in Seq(Offset) /\ Len(samples) <= RingSize
  /\ filtered \in Offset \cup {0}
  /\ locked \in BOOLEAN
  /\ stable \in Never..(StableTime + 1)
  /\ synced \in Never..(Timeout + 1)
  /\ sync \in [seq : SyncSeq, awaiting : BOOLEAN]
  /\ update \in [pc : {"idle", "store", "filter", "judge"}, offset : Offset \cup {0}]
  /\ master \in Master

(* Measurements of two masters are never mixed: the clocks of masters are  *)
(* further apart than the outlier threshold, so the samples in the ring    *)
(* are of one of them, however masters and sessions change under the task. *)
OneMasterInRing == \E m \in Master : \A x \in ToSet(samples) : Near(x, m)

(* The clock never jumps: a measurement moves the offset by no more than   *)
(* the outlier threshold, unless it is the first one after a clear.        *)
StepsAreSmall ==
  [][FilterOffset /\ Len(samples) > 1
       => Abs(filtered' - filtered) <= OutlierThreshold]_vars

(* A clock that tracks the master that sends locks on to it.               *)
Tracking == /\ samples # <<>> /\ \A x \in ToSet(samples) : Near(x, master)
            /\ update.pc = "idle"
            /\ changes = MaxChanges /\ clears = MaxClears

TrackingLocks == Tracking ~> locked

(* When the master changes the clock locks on to the new one on its own    *)
(* (the comment in handle_setpeers).                                       *)
FollowsMaster ==
  changes = MaxChanges /\ clears = MaxClears ~> Near(filtered, master)
=============================================================================
