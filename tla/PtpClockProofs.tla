--------------------------- MODULE PtpClockProofs ---------------------------
(***************************************************************************)
(* Proofs about PtpClock, for any masters whose clocks are apart, any size *)
(* of the ring, any number of changes of the master and of sessions.       *)
(*                                                                         *)
(* The inductive invariant names the one master that the ring is of, and   *)
(* says when the filtered offset, and the measurement that is being        *)
(* stored, are of this master too.                                         *)
(***************************************************************************)
EXTENDS PtpClock, TLAPS

(* The filtered offset is of the samples in the ring, but for the one that *)
(* was just stored.                                                        *)
Filtered == \/ Len(samples) > 1
            \/ samples # <<>> /\ update.pc # "filter"

OfMaster(m) ==
  /\ \A x \in ToSet(samples) : x \in Measured(m)
  /\ Filtered => filtered \in Measured(m)
  /\ update.pc = "store" /\ samples # <<>> => update.offset \in Measured(m)

SyncType == [seq : SyncSeq, awaiting : BOOLEAN]
UpdateType == [pc : {"idle", "store", "filter", "judge"}, offset : Offset \cup {0}]

Types ==
  /\ samples \in Seq(Offset) /\ Len(samples) <= RingSize
  /\ filtered \in Offset \cup {0}
  /\ locked \in BOOLEAN
  /\ stable \in Never..(StableTime + 1)
  /\ synced \in Never..(Timeout + 1)
  /\ sync \in SyncType
  /\ update \in UpdateType
  /\ master \in Master
  /\ update.pc = "store" => update.offset \in Offset

Inv == Types /\ \E m \in Master : OfMaster(m)

LEMMA Numbers ==
  /\ Offset \subseteq Int
  /\ \A m \in Master : Measured(m) \subseteq Offset
  /\ RingSize \in Nat /\ RingSize > 0 /\ MinSamples \in Nat
  /\ StableTime \in Nat /\ Timeout \in Nat
<1>1. \A m \in Master : Measured(m) \subseteq Int
  BY PtpClockAssumption DEF Measured
<1> QED BY <1>1, PtpClockAssumption DEF Offset

LEMMA Ages ==
  /\ Never \in Never..(StableTime + 1) /\ 0 \in Never..(StableTime + 1)
  /\ Never \in Never..(Timeout + 1) /\ 0 \in Never..(Timeout + 1)
BY Numbers DEF Never

LEMMA InitInv == Init => Inv
<1> SUFFICES ASSUME Init PROVE Inv
  OBVIOUS
<1>1. sync \in SyncType
  BY PtpClockAssumption DEF Init, SyncType
<1>2. update \in UpdateType /\ update.pc = "idle"
  BY DEF Init, UpdateType
<1>3. samples \in Seq(Offset) /\ Len(samples) <= RingSize /\ ToSet(samples) = {}
      /\ ~(Len(samples) > 1)
  BY Numbers DEF Init, ToSet
<1>4. Types
  BY <1>1, <1>2, <1>3, Ages DEF Init, Types
<1>5. OfMaster(master)
  BY <1>2, <1>3 DEF Init, OfMaster, Filtered
<1> QED BY <1>4, <1>5 DEF Inv, Types

(* ---------------------------- measurements ----------------------------- *)

(* A measurement that is not rejected is of the ring's master.             *)
LEMMA BeginKeeps ==
  ASSUME Inv, update.pc = "idle", NEW x \in Offset, Begin(x),
         UNCHANGED <<samples, filtered, locked, stable, master>>, sync' \in SyncType
  PROVE  Inv'
<1>1. update' = update \/ update' = [pc |-> "store", offset |-> x]
  BY DEF Begin
<1>2. update' \in UpdateType /\ (update'.pc = "store" => update'.offset \in Offset)
  BY <1>1 DEF Inv, Types, UpdateType
<1>3. synced' \in Never..(Timeout + 1)
  BY Ages DEF Begin
<1>4. Types'
  BY <1>2, <1>3 DEF Inv, Types
<1>5. PICK m \in Master : OfMaster(m)
  BY DEF Inv
<1>6. ASSUME update'.pc = "store", samples # <<>>
      PROVE  update'.offset \in Measured(m)
  <2>1. Abs(x - filtered) <= OutlierThreshold /\ update'.offset = x
    <3>1. ~(Abs(x - filtered) > OutlierThreshold)
      BY <1>6 DEF Begin
    <3>2. x \in Int /\ filtered \in Int
      BY Numbers DEF Inv, Types
    <3> QED BY <1>1, <1>6, <3>1, <3>2 DEF Abs, OutlierThreshold
  <2>2. filtered \in Measured(m)
    BY <1>5, <1>6 DEF OfMaster, Filtered
  <2>3. PICK n \in Master : x \in Measured(n)
    BY DEF Offset
  <2> QED BY <2>1, <2>2, <2>3, MastersAreApart
<1>7. Filtered' => Filtered
  BY DEF Filtered
<1>8. OfMaster(m)'
  BY <1>5, <1>6, <1>7 DEF OfMaster
<1> QED BY <1>4, <1>8 DEF Inv

LEMMA MessageKeeps ==
  ASSUME Inv, ProcessSync \/ ProcessFollowUp
  PROVE  Inv'
<1>0. UNCHANGED <<samples, filtered, locked, stable, master>> /\ update.pc = "idle"
      /\ sync \in SyncType
  BY DEF ProcessSync, ProcessFollowUp, Inv, Types
<1>1. Measured(master) \subseteq Offset
  BY Numbers DEF Inv, Types
<1>2. ASSUME NEW q \in SyncSeq, sync' = [seq |-> q, awaiting |-> TRUE],
             UNCHANGED <<synced, update>>
      PROVE  Inv'
  <2>1. sync' \in SyncType
    BY <1>2 DEF SyncType
  <2>2. Types'
    BY <1>0, <1>2, <2>1 DEF Inv, Types
  <2>3. ASSUME NEW m \in Master, OfMaster(m) PROVE OfMaster(m)'
    BY <1>0, <1>2, <2>3 DEF OfMaster, Filtered
  <2> QED BY <1>0, <2>2, <2>3 DEF Inv
<1>3. ASSUME NEW q \in SyncSeq, sync' = [seq |-> q, awaiting |-> FALSE],
             NEW x \in Measured(master), Begin(x)
      PROVE  Inv'
  <2>1. sync' \in SyncType
    BY <1>3 DEF SyncType
  <2> QED BY <1>0, <1>1, <1>3, <2>1, BeginKeeps
<1>4. ASSUME NEW q \in SyncSeq, NEW x \in Measured(master), q = sync.seq, Begin(Paired(q, x)),
             sync' = [sync EXCEPT !.awaiting = FALSE]
      PROVE  Inv'
  <2>1. sync' \in SyncType
    BY <1>0, <1>4 DEF SyncType
  <2>2. Begin(x)
    BY <1>4 DEF Paired
  <2> QED BY <1>0, <1>1, <2>1, <2>2, BeginKeeps
<1>5. CASE ProcessSync
  BY <1>2, <1>3, <1>5 DEF ProcessSync
<1>6. CASE ProcessFollowUp
  BY <1>4, <1>6 DEF ProcessFollowUp
<1> QED BY <1>5, <1>6

(* A sample takes its place in the ring.                                   *)
LEMMA RingTyped ==
  ASSUME NEW s \in Seq(Offset), Len(s) <= RingSize, NEW x \in Offset
  PROVE  LET r == Append(IF Len(s) = RingSize THEN Tail(s) ELSE s, x)
         IN  /\ r \in Seq(Offset) /\ Len(r) <= RingSize /\ r # <<>>
             /\ \A y \in ToSet(r) : y = x \/ y \in ToSet(s)
             /\ Len(r) > 1 => s # <<>>
<1> DEFINE kept == IF Len(s) = RingSize THEN Tail(s) ELSE s
           r == Append(kept, x)
<1>1. /\ kept \in Seq(Offset) /\ Len(kept) < RingSize
      /\ \A i \in 1..Len(kept) : kept[i] \in ToSet(s)
      /\ Len(kept) > 0 => s # <<>>
  <2>1. CASE Len(s) = RingSize
    <3>1. s # <<>>
      BY <2>1, Numbers
    <3>2. kept = Tail(s)
      BY <2>1
    <3>3. Len(kept) = Len(s) - 1 /\ kept \in Seq(Offset)
      BY <3>1, <3>2
    <3>4. \A i \in 1..Len(kept) : kept[i] = s[i + 1] /\ i + 1 \in DOMAIN s
      BY <3>1, <3>2, <3>3
    <3> QED BY <2>1, <3>1, <3>3, <3>4, Numbers DEF ToSet
  <2>2. CASE Len(s) # RingSize
    BY <2>2, Numbers DEF ToSet
  <2> QED BY <2>1, <2>2
<1> HIDE DEF kept
<1>2. /\ r \in Seq(Offset) /\ Len(r) = Len(kept) + 1 /\ DOMAIN r = 1..(Len(kept) + 1)
      /\ \A i \in 1..Len(kept) : r[i] = kept[i]
      /\ r[Len(kept) + 1] = x
  BY <1>1
<1>3. Len(kept) \in Nat /\ RingSize \in Nat
  BY <1>1, Numbers
<1> HIDE DEF r
<1>4. \A y \in ToSet(r) : y = x \/ y \in ToSet(s)
  <2> SUFFICES ASSUME NEW i \in 1..(Len(kept) + 1) PROVE r[i] = x \/ r[i] \in ToSet(s)
    BY <1>2 DEF ToSet
  <2> QED BY <1>1, <1>2, <1>3
<1>5. r # <<>>
  BY <1>2, <1>3
<1> QED BY <1>1, <1>2, <1>3, <1>4, <1>5 DEF r, kept

LEMMA StoreKeeps ==
  ASSUME Inv, StoreSample
  PROVE  Inv'
<1>1. /\ update.pc = "store" /\ update' = [update EXCEPT !.pc = "filter"]
      /\ UNCHANGED <<filtered, locked, stable, synced, sync, master>>
      /\ samples' = Append(IF Len(samples) = RingSize THEN Tail(samples) ELSE samples,
                           update.offset)
  BY DEF StoreSample
<1>2. update.offset \in Offset
  BY <1>1 DEF Inv, Types
<1>3. /\ samples' \in Seq(Offset) /\ Len(samples') <= RingSize
      /\ \A y \in ToSet(samples') : y = update.offset \/ y \in ToSet(samples)
      /\ Len(samples') > 1 => samples # <<>>
  BY <1>1, <1>2, RingTyped DEF Inv, Types
<1>4. update' \in UpdateType /\ update'.pc = "filter"
  BY <1>1 DEF Inv, Types, UpdateType
<1>5. Types'
  BY <1>1, <1>3, <1>4 DEF Inv, Types
<1>6. PICK m \in Master : OfMaster(m)
  BY DEF Inv
<1>7. CASE samples # <<>>
  <2>1. update.offset \in Measured(m) /\ filtered \in Measured(m)
    BY <1>1, <1>6, <1>7 DEF OfMaster, Filtered
  <2>2. OfMaster(m)'
    BY <1>1, <1>3, <1>4, <1>6, <2>1 DEF OfMaster
  <2> QED BY <1>5, <2>2 DEF Inv
<1>8. CASE samples = <<>>
  <2>1. PICK n \in Master : update.offset \in Measured(n)
    BY <1>2 DEF Offset
  <2>2. ToSet(samples) = {}
    BY <1>8 DEF ToSet
  <2>3. ~Filtered'
    BY <1>3, <1>4, <1>8 DEF Filtered
  <2>4. OfMaster(n)'
    BY <1>1, <1>3, <1>4, <2>1, <2>2, <2>3 DEF OfMaster
  <2> QED BY <1>5, <2>4 DEF Inv
<1> QED BY <1>7, <1>8

(* The median is one of the samples.                                       *)
LEMMA MedianIsSample ==
  ASSUME NEW x \in Median(samples)
  PROVE  IF samples = <<>> THEN x = 0 ELSE x \in ToSet(samples)
BY DEF Median

LEMMA FilterKeeps ==
  ASSUME Inv, FilterOffset
  PROVE  Inv'
<1>1. /\ update.pc = "filter" /\ update' = [update EXCEPT !.pc = "judge"]
      /\ UNCHANGED <<samples, locked, stable, synced, sync, master>>
      /\ IF samples = <<>> THEN filtered' = 0 ELSE filtered' \in ToSet(samples)
  BY MedianIsSample DEF FilterOffset
<1>2. \A x \in ToSet(samples) : x \in Offset
  BY DEF Inv, Types, ToSet
<1>3. update' \in UpdateType /\ update'.pc = "judge"
  BY <1>1 DEF Inv, Types, UpdateType
<1>4. Types'
  BY <1>1, <1>2, <1>3 DEF Inv, Types
<1>5. PICK m \in Master : OfMaster(m)
  BY DEF Inv
<1>6. Filtered' => samples # <<>>
  BY <1>1 DEF Filtered
<1>7. OfMaster(m)'
  BY <1>1, <1>3, <1>5, <1>6 DEF OfMaster
<1> QED BY <1>4, <1>7 DEF Inv

(* ---------------------------- all the others --------------------------- *)

LEMMA JudgeKeeps ==
  ASSUME Inv, JudgeLock
  PROVE  Inv'
<1>1. /\ update.pc = "judge" /\ update' = [update EXCEPT !.pc = "idle"]
      /\ UNCHANGED <<samples, filtered, synced, sync, master>>
  BY DEF JudgeLock
<1>2. locked' \in BOOLEAN /\ stable' \in Never..(StableTime + 1)
  <2> DEFINE since == IF stable = Never THEN 0 ELSE stable
             long == since >= StableTime
             far == Deviates(samples, 4 * LockThreshold)
  <2>1. locked' \in {locked, FALSE, TRUE} /\ stable' \in {stable, Never, since}
    <3>1. \/ UNCHANGED <<locked, stable>>
          \/ stable' = Never /\ locked' = (locked /\ ~far)
          \/ locked' = long /\ stable' = IF long THEN Never ELSE since
      BY DEF JudgeLock
    <3>a. long \in BOOLEAN /\ far \in BOOLEAN
      BY DEF Deviates
    <3> HIDE DEF since, long, far
    <3>2. locked \in BOOLEAN
      BY DEF Inv, Types
    <3>3. locked' \in BOOLEAN
      BY <3>1, <3>a, <3>2
    <3> QED BY <3>1, <3>3
  <2>2. since \in Never..(StableTime + 1)
    BY Ages DEF Inv, Types
  <2> HIDE DEF since
  <2> QED BY <2>1, <2>2, Ages DEF Inv, Types
<1>3. update' \in UpdateType /\ update'.pc = "idle"
  BY <1>1 DEF Inv, Types, UpdateType
<1>4. Types'
  BY <1>1, <1>2, <1>3 DEF Inv, Types
<1>5. ASSUME NEW m \in Master, OfMaster(m) PROVE OfMaster(m)'
  BY <1>1, <1>3, <1>5 DEF OfMaster, Filtered
<1> QED BY <1>4, <1>5 DEF Inv

LEMMA ClearKeeps ==
  ASSUME Inv, Clear
  PROVE  Inv'
<1>1. /\ samples' = <<>> /\ filtered' = 0 /\ locked' = FALSE /\ stable' = Never
      /\ synced' = Never /\ sync' = [sync EXCEPT !.awaiting = FALSE]
      /\ UNCHANGED <<update, master>>
  BY DEF Clear
<1>2. sync' \in SyncType
  BY <1>1 DEF Inv, Types, SyncType
<1>3. samples' \in Seq(Offset) /\ Len(samples') <= RingSize /\ ToSet(samples') = {}
      /\ ~(Len(samples') > 1)
  BY <1>1, Numbers DEF ToSet
<1>4. Types'
  BY <1>1, <1>2, <1>3, Ages DEF Inv, Types
<1>5. \A m \in Master : OfMaster(m)'
  BY <1>1, <1>3 DEF OfMaster, Filtered
<1> QED BY <1>4, <1>5 DEF Inv, Types

LEMMA OlderTyped ==
  ASSUME NEW limit \in Nat, NEW age \in Never..(limit + 1)
  PROVE  Older(age, limit) \in Never..(limit + 1)
BY DEF Older, Never

LEMMA OthersKeep ==
  ASSUME Inv, LoseLock \/ ChangeMaster \/ Tick \/ UNCHANGED vars
  PROVE  Inv'
<1>1. UNCHANGED <<samples, filtered, sync, update>>
  BY DEF LoseLock, ChangeMaster, Tick, vars, clock
<1>2. locked' \in BOOLEAN /\ master' \in Master
  BY DEF LoseLock, ChangeMaster, Tick, vars, clock, Inv, Types
<1>3. stable' \in Never..(StableTime + 1) /\ synced' \in Never..(Timeout + 1)
  <2>1. CASE Tick
    BY <2>1, OlderTyped, Numbers DEF Tick, Inv, Types
  <2>2. CASE LoseLock \/ ChangeMaster \/ UNCHANGED vars
    BY <2>2, Ages DEF LoseLock, ChangeMaster, vars, clock, Inv, Types
  <2> QED BY <2>1, <2>2
<1>4. Types'
  BY <1>1, <1>2, <1>3 DEF Inv, Types
<1>5. ASSUME NEW m \in Master, OfMaster(m) PROVE OfMaster(m)'
  BY <1>1, <1>5 DEF OfMaster, Filtered
<1> QED BY <1>4, <1>5 DEF Inv

LEMMA Inductive == Inv /\ [Next]_vars => Inv'
<1> SUFFICES ASSUME Inv, [Next]_vars PROVE Inv'
  OBVIOUS
<1> QED
  BY MessageKeeps, StoreKeeps, FilterKeeps, JudgeKeeps, ClearKeeps, OthersKeep
  DEF Next, PtpTask

(* Every variable keeps its type, the ring its size.                       *)
THEOREM Typed == Spec => []TypeOK
<1>1. Inv => TypeOK
  BY DEF Inv, Types, TypeOK, SyncType, UpdateType
<1> QED BY <1>1, InitInv, Inductive, PTL DEF Spec

(* update_offset keeps the samples of two masters apart, whenever the      *)
(* master changes and sessions end under the task.                         *)
THEOREM OneMaster == Spec => []OneMasterInRing
<1>1. Inv => OneMasterInRing
  BY DEF Inv, OfMaster, OneMasterInRing, Near
<1> QED BY <1>1, InitInv, Inductive, PTL DEF Spec

(* The median moves the offset of the clock by no more than the outlier    *)
(* threshold, whatever the task that clears the clock does in between.     *)
THEOREM SmallSteps == Spec => StepsAreSmall
<1>1. Inv /\ [Next]_vars
        => [FilterOffset /\ Len(samples) > 1
              => Abs(filtered' - filtered) <= OutlierThreshold]_vars
  <2> SUFFICES ASSUME Inv, FilterOffset, Len(samples) > 1
               PROVE  Abs(filtered' - filtered) <= OutlierThreshold
    OBVIOUS
  <2>1. PICK m \in Master : OfMaster(m)
    BY DEF Inv
  <2>2. samples # <<>>
    BY DEF Inv, Types
  <2>3. filtered' \in ToSet(samples)
    BY <2>2, MedianIsSample DEF FilterOffset
  <2>4. filtered' \in Measured(m) /\ filtered \in Measured(m)
    BY <2>1, <2>3 DEF OfMaster, Filtered
  <2> QED BY <2>4, MastersAreApart
<1> QED BY <1>1, InitInv, Inductive, PTL DEF Spec, StepsAreSmall
=============================================================================
