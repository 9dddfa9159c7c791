------------------------- MODULE AudioBufferProofs -------------------------
(***************************************************************************)
(* Proofs about AudioBuffer for any pool, any timestamp range and any set  *)
(* of flushing tasks.                                                      *)
(*                                                                         *)
(* The first part states what each operation does to the pool as data: how *)
(* it moves one slot between the index q, the free stack f and the held    *)
(* slots h.  The second part states the same of the order of the index.    *)
(* The third part is the inductive invariant, the fourth the refinement of *)
(* the jitter queue.                                                       *)
(***************************************************************************)
EXTENDS AudioBuffer, SequenceTheorems, FiniteSetTheorems, WellFoundedInduction, TLAPS

(* ----------------------------- the pool -------------------------------- *)

(* Sizes add up: count + free_top + the held slot is the capacity.         *)
Accounted(q, f, h) == Len(q) + Len(f) + Cardinality(h) = Capacity

(* Dropping the head of the index removes exactly that slot.               *)
LEMMA TailPool ==
  ASSUME NEW q \in Seq(Slot), q # <<>>, NoRepeats(q)
  PROVE  /\ Tail(q) \in Seq(Slot)
         /\ Len(Tail(q)) = Len(q) - 1
         /\ Head(q) \in Slot
         /\ Entries(q) = Entries(Tail(q)) \cup {Head(q)}
         /\ Head(q) \notin Entries(Tail(q))
         /\ NoRepeats(Tail(q))
<1> DEFINE r == Tail(q)
<1>1. /\ r \in Seq(Slot) /\ Len(r) = Len(q) - 1
      /\ \A i \in 1..Len(r) : r[i] = q[i + 1]
      /\ Head(q) = q[1] /\ Head(q) \in Slot /\ Len(q) \in Nat \ {0}
  BY HeadTailProperties, EmptySeq, LenProperties
<1> HIDE DEF r
<1>2. Entries(q) \subseteq Entries(r) \cup {q[1]}
  <2> SUFFICES ASSUME NEW i \in 1..Len(q), i # 1
               PROVE  q[i] \in Entries(r)
    BY DEF Entries
  <2>1. i - 1 \in 1..Len(r) /\ r[i - 1] = q[i]
    BY <1>1
  <2> QED BY <2>1 DEF Entries
<1>3. Entries(r) \cup {q[1]} \subseteq Entries(q)
  <2>1. 1 \in 1..Len(q) /\ \A i \in 1..Len(r) : i + 1 \in 1..Len(q)
    BY <1>1
  <2> QED BY <1>1, <2>1 DEF Entries
<1>4. q[1] \notin Entries(r)
  BY <1>1 DEF Entries, NoRepeats
<1>5. NoRepeats(r)
  BY <1>1 DEF NoRepeats
<1> QED BY <1>1, <1>2, <1>3, <1>4, <1>5 DEF r

(* Pushing a slot that is not there adds exactly that slot.                *)
LEMMA AppendPool ==
  ASSUME NEW f \in Seq(Slot), NEW s \in Slot, NoRepeats(f), s \notin Entries(f)
  PROVE  /\ Append(f, s) \in Seq(Slot)
         /\ Len(Append(f, s)) = Len(f) + 1
         /\ Entries(Append(f, s)) = Entries(f) \cup {s}
         /\ NoRepeats(Append(f, s))
<1> DEFINE g == Append(f, s)
<1>1. /\ g \in Seq(Slot) /\ Len(g) = Len(f) + 1 /\ Len(f) \in Nat
      /\ g[Len(f) + 1] = s /\ \A i \in 1..Len(f) : g[i] = f[i]
  BY AppendProperties, LenProperties
<1> HIDE DEF g
<1>2. Entries(g) = Entries(f) \cup {s}
  BY <1>1 DEF Entries
<1>3. \A i \in 1..Len(f) : f[i] # s
  BY DEF Entries
<1>4. NoRepeats(g)
  BY <1>1, <1>3 DEF NoRepeats
<1> QED BY <1>1, <1>2, <1>4 DEF g

(* audio_buffer_take moves the head of the index to the player.            *)
LEMMA TakePool ==
  ASSUME NEW q \in Seq(Slot), NEW f \in Seq(Slot), q # <<>>,
         Partition(q, f, {}), Accounted(q, f, {})
  PROVE  /\ Tail(q) \in Seq(Slot)
         /\ Head(q) \in Slot
         /\ Partition(Tail(q), f, {Head(q)})
         /\ Accounted(Tail(q), f, {Head(q)})
<1>1. NoRepeats(q)
  BY DEF Partition
<1>2. Partition(Tail(q), f, {Head(q)})
  BY <1>1, TailPool DEF Partition
<1>3. Accounted(Tail(q), f, {Head(q)})
  <2>1. Cardinality({}) = 0 /\ Cardinality({Head(q)}) = 1
    BY FS_EmptySet, FS_Singleton
  <2>2. Len(f) \in Nat /\ Len(q) \in Nat /\ Len(Tail(q)) = Len(q) - 1
    BY <1>1, TailPool, LenProperties
  <2> QED BY <2>1, <2>2 DEF Accounted
<1> QED BY <1>1, <1>2, <1>3, TailPool

(* audio_buffer_return pushes the held slot on the free stack.             *)
LEMMA ReturnPool ==
  ASSUME NEW q \in Seq(Slot), NEW f \in Seq(Slot), NEW s \in Slot,
         Partition(q, f, {s}), Accounted(q, f, {s})
  PROVE  /\ Append(f, s) \in Seq(Slot)
         /\ Partition(q, Append(f, s), {})
         /\ Accounted(q, Append(f, s), {})
<1>1. NoRepeats(f) /\ s \notin Entries(f)
  BY DEF Partition
<1>2. Partition(q, Append(f, s), {})
  BY <1>1, AppendPool DEF Partition
<1>3. Accounted(q, Append(f, s), {})
  <2>1. Cardinality({}) = 0 /\ Cardinality({s}) = 1
    BY FS_EmptySet, FS_Singleton
  <2>2. Len(q) \in Nat /\ Len(f) \in Nat /\ Len(Append(f, s)) = Len(f) + 1
    BY <1>1, AppendPool, LenProperties
  <2> QED BY <2>1, <2>2 DEF Accounted
<1> QED BY <1>1, <1>2, <1>3, AppendPool

(* The overflow branch of queue_chunk moves the head of the index to the   *)
(* free stack.                                                             *)
LEMMA EvictPool ==
  ASSUME NEW q \in Seq(Slot), NEW f \in Seq(Slot), NEW h, q # <<>>,
         Partition(q, f, h), Accounted(q, f, h), Cardinality(h) \in Nat
  PROVE  /\ Tail(q) \in Seq(Slot)
         /\ Append(f, Head(q)) \in Seq(Slot)
         /\ Partition(Tail(q), Append(f, Head(q)), h)
         /\ Accounted(Tail(q), Append(f, Head(q)), h)
<1>1. NoRepeats(q) /\ NoRepeats(f)
  BY DEF Partition
<1>2. Head(q) \in Slot /\ Head(q) \notin Entries(f)
  BY <1>1, TailPool DEF Partition
<1>3. Partition(Tail(q), Append(f, Head(q)), h)
  BY <1>1, <1>2, TailPool, AppendPool DEF Partition
<1>4. Accounted(Tail(q), Append(f, Head(q)), h)
  <2>1. /\ Len(q) \in Nat /\ Len(f) \in Nat
        /\ Len(Tail(q)) = Len(q) - 1
        /\ Len(Append(f, Head(q))) = Len(f) + 1
    BY <1>1, <1>2, TailPool, AppendPool, LenProperties
  <2> QED BY <2>1 DEF Accounted
<1> QED BY <1>1, <1>2, <1>3, <1>4, TailPool, AppendPool

(* audio_buffer_flush appends the whole index to the free stack.           *)
LEMMA FlushPool ==
  ASSUME NEW q \in Seq(Slot), NEW f \in Seq(Slot), NEW h,
         Partition(q, f, h), Accounted(q, f, h), Cardinality(h) \in Nat
  PROVE  /\ f \o q \in Seq(Slot)
         /\ Partition(<<>>, f \o q, h)
         /\ Accounted(<<>>, f \o q, h)
<1> DEFINE g == f \o q
           e == <<>>
<1>1. /\ g \in Seq(Slot) /\ Len(g) = Len(f) + Len(q)
      /\ Len(f) \in Nat /\ Len(q) \in Nat
      /\ \A i \in 1..Len(f) + Len(q) :
           g[i] = IF i <= Len(f) THEN f[i] ELSE q[i - Len(f)]
  BY ConcatProperties, LenProperties
<1>2. Len(e) = 0
  OBVIOUS
<1> HIDE DEF g, e
<1>3. Entries(e) = {} /\ NoRepeats(e)
  BY <1>2 DEF Entries, NoRepeats
<1>4. Entries(g) = Entries(f) \cup Entries(q)
  <2>1. \A i \in 1..Len(q) : q[i] = g[i + Len(f)] /\ i + Len(f) \in 1..Len(g)
    BY <1>1
  <2>2. Entries(q) \subseteq Entries(g)
    BY <2>1 DEF Entries
  <2>3. Entries(f) \subseteq Entries(g)
    BY <1>1 DEF Entries
  <2>4. \A i \in 1..Len(g) : g[i] \in Entries(f) \cup Entries(q)
    <3> TAKE i \in 1..Len(g)
    <3>1. CASE i <= Len(f)
      BY <1>1, <3>1 DEF Entries
    <3>2. CASE i > Len(f)
      <4>1. i - Len(f) \in 1..Len(q) /\ g[i] = q[i - Len(f)]
        BY <1>1, <3>2
      <4> QED BY <4>1 DEF Entries
    <3> QED BY <1>1, <3>1, <3>2
  <2>5. Entries(g) \subseteq Entries(f) \cup Entries(q)
    BY <2>4 DEF Entries
  <2> QED BY <2>2, <2>3, <2>5
<1>5. NoRepeats(g)
  <2> SUFFICES ASSUME NEW i \in 1..Len(g), NEW j \in 1..Len(g), g[i] = g[j]
               PROVE  i = j
    BY DEF NoRepeats
  <2>1. CASE i <= Len(f) /\ j <= Len(f)
    BY <1>1, <2>1 DEF Partition, NoRepeats
  <2>2. CASE i > Len(f) /\ j > Len(f)
    <3>1. /\ i - Len(f) \in 1..Len(q) /\ j - Len(f) \in 1..Len(q)
          /\ q[i - Len(f)] = q[j - Len(f)]
      BY <1>1, <2>2
    <3>2. i - Len(f) = j - Len(f)
      BY <3>1 DEF Partition, NoRepeats
    <3> QED BY <1>1, <3>2
  <2>3. CASE i <= Len(f) /\ j > Len(f)
    <3>1. i \in 1..Len(f) /\ j - Len(f) \in 1..Len(q) /\ f[i] = q[j - Len(f)]
      BY <1>1, <2>3
    <3> QED BY <3>1 DEF Partition, Entries
  <2>4. CASE i > Len(f) /\ j <= Len(f)
    <3>1. j \in 1..Len(f) /\ i - Len(f) \in 1..Len(q) /\ f[j] = q[i - Len(f)]
      BY <1>1, <2>4
    <3> QED BY <3>1 DEF Partition, Entries
  <2> QED BY <1>1, <2>1, <2>2, <2>3, <2>4
<1>6. Partition(e, g, h)
  BY <1>3, <1>4, <1>5 DEF Partition
<1>7. Accounted(e, g, h)
  BY <1>1, <1>2 DEF Accounted
<1> QED BY <1>1, <1>6, <1>7 DEF g, e

(* queue_chunk moves the top of the free stack into the index.             *)
LEMMA InsertPool ==
  ASSUME NEW q \in Seq(Slot), NEW f \in Seq(Slot), NEW h, f # <<>>,
         NEW pos \in 0..Len(q),
         Partition(q, f, h), Accounted(q, f, h), Cardinality(h) \in Nat
  PROVE  LET s == f[Len(f)]
             g == SubSeq(f, 1, Len(f) - 1)
         IN  /\ s \in Slot
             /\ s \notin Entries(q)
             /\ g \in Seq(Slot)
             /\ Insert(q, pos, s) \in Seq(Slot)
             /\ Len(Insert(q, pos, s)) = Len(q) + 1
             /\ Entries(Insert(q, pos, s)) = Entries(q) \cup {s}
             /\ Partition(Insert(q, pos, s), g, h)
             /\ Accounted(Insert(q, pos, s), g, h)
<1> DEFINE s == f[Len(f)]
           g == SubSeq(f, 1, Len(f) - 1)
           r == Insert(q, pos, s)
<1>1. /\ Len(f) \in Nat \ {0} /\ Len(q) \in Nat
      /\ \A i \in 1..Len(f) : f[i] \in Slot
      /\ \A i \in 1..Len(q) : q[i] \in Slot
  BY EmptySeq, ElementOfSeq, LenProperties
<1>2. /\ g \in Seq(Slot) /\ Len(g) = Len(f) - 1
      /\ \A i \in 1..Len(g) : g[i] = f[i]
  <2>1. \A i \in 1..(Len(f) - 1) : f[i] \in Slot
    BY <1>1
  <2> DEFINE n == Len(f) - 1
  <2>2. n \in Nat
    BY <1>1
  <2>3. /\ g \in Seq(Slot)
        /\ Len(g) = IF 1 <= n THEN n - 1 + 1 ELSE 0
        /\ \A i \in 1..(n - 1 + 1) : g[i] = f[1 + i - 1]
    BY <2>1, <2>2, SubSeqProperties
  <2> HIDE DEF n, g
  <2>4. Len(g) = n
    BY <2>2, <2>3
  <2>5. \A i \in 1..n : g[i] = f[i]
    <3> TAKE i \in 1..n
    <3>1. i \in 1..(n - 1 + 1) /\ 1 + i - 1 = i
      BY <2>2
    <3>2. g[i] = f[1 + i - 1]
      BY <2>3, <3>1
    <3> QED BY <3>1, <3>2
  <2> QED BY <2>3, <2>4, <2>5 DEF n
<1>3. s \in Slot /\ s \in Entries(f)
  BY <1>1 DEF Entries
<1>4. s \notin Entries(q)
  BY <1>3 DEF Partition
<1>5. /\ r \in Seq(Slot) /\ Len(r) = Len(q) + 1
      /\ \A i \in 1..Len(r) : r[i] = IF i <= pos THEN q[i]
                                    ELSE IF i = pos + 1 THEN s ELSE q[i - 1]
  <2>1. r \in [1..(Len(q) + 1) -> Slot]
    BY <1>1, <1>3 DEF Insert
  <2>2. Len(q) + 1 \in Nat
    BY <1>1
  <2>3. r \in Seq(Slot) /\ Len(r) = Len(q) + 1
    BY <2>1, <2>2, SeqDef, LenProperties
  <2> QED BY <2>3 DEF Insert
<1> HIDE DEF s, g, r
<1>6. Entries(r) = Entries(q) \cup {s}
  <2>1. \A i \in 1..Len(r) : r[i] \in Entries(q) \cup {s}
    <3> TAKE i \in 1..Len(r)
    <3>1. CASE i <= pos
      BY <1>1, <1>5, <3>1 DEF Entries
    <3>2. CASE i = pos + 1
      BY <1>5, <3>2
    <3>3. CASE i > pos + 1
      <4>1. i - 1 \in 1..Len(q) /\ r[i] = q[i - 1]
        BY <1>1, <1>5, <3>3
      <4> QED BY <4>1 DEF Entries
    <3> QED BY <1>1, <1>5, <3>1, <3>2, <3>3
  <2>2. \A i \in 1..Len(q) : q[i] \in Entries(r)
    <3> TAKE i \in 1..Len(q)
    <3>1. CASE i <= pos
      <4>1. i \in 1..Len(r) /\ r[i] = q[i]
        BY <1>1, <1>5, <3>1
      <4> QED BY <4>1 DEF Entries
    <3>2. CASE i > pos
      <4>1. i + 1 \in 1..Len(r) /\ r[i + 1] = q[i]
        BY <1>1, <1>5, <3>2
      <4> QED BY <4>1 DEF Entries
    <3> QED BY <1>1, <3>1, <3>2
  <2>3. s \in Entries(r)
    <3>1. pos + 1 \in 1..Len(r) /\ r[pos + 1] = s
      BY <1>1, <1>5
    <3> QED BY <3>1 DEF Entries
  <2> QED BY <2>1, <2>2, <2>3 DEF Entries
<1>7. NoRepeats(r)
  <2> SUFFICES ASSUME NEW i \in 1..Len(r), NEW j \in 1..Len(r), r[i] = r[j], i < j
               PROVE  FALSE
    BY <1>1, <1>5 DEF NoRepeats
  <2> DEFINE At(k) == IF k <= pos THEN k ELSE k - 1
  <2>1. \A k \in 1..Len(r) : k # pos + 1 => At(k) \in 1..Len(q) /\ r[k] = q[At(k)]
    BY <1>1, <1>5
  <2>2. CASE i # pos + 1 /\ j # pos + 1
    <3>1. At(i) \in 1..Len(q) /\ At(j) \in 1..Len(q) /\ q[At(i)] = q[At(j)]
      BY <2>1, <2>2
    <3>2. At(i) = At(j)
      BY <3>1 DEF Partition, NoRepeats
    <3> QED BY <1>1, <2>2, <3>2
  <2>3. CASE i = pos + 1
    <3>1. r[i] = s /\ r[j] \in Entries(q)
      BY <1>5, <2>1, <2>3 DEF Entries
    <3> QED BY <1>4, <3>1
  <2>4. CASE j = pos + 1
    <3>1. r[j] = s /\ r[i] \in Entries(q)
      BY <1>5, <2>1, <2>4 DEF Entries
    <3> QED BY <1>4, <3>1
  <2> QED BY <2>2, <2>3, <2>4
<1>8. Entries(f) = Entries(g) \cup {s} /\ s \notin Entries(g) /\ NoRepeats(g)
  <2>1. \A i \in 1..Len(f) : i = Len(f) \/ i \in 1..Len(g)
    BY <1>1, <1>2
  <2>2. \A i \in 1..Len(g) : i \in 1..Len(f) /\ i # Len(f)
    BY <1>1, <1>2
  <2>3. Len(f) \in 1..Len(f)
    BY <1>1
  <2>4. Entries(f) = Entries(g) \cup {s}
    BY <1>2, <2>1, <2>2, <2>3 DEF Entries, s
  <2>5. s \notin Entries(g)
    BY <1>2, <2>2, <2>3 DEF Entries, s, Partition, NoRepeats
  <2>6. NoRepeats(g)
    BY <1>2, <2>2 DEF Partition, NoRepeats
  <2> QED BY <2>4, <2>5, <2>6
<1>9. Partition(r, g, h)
  BY <1>6, <1>7, <1>8 DEF Partition
<1>10. Accounted(r, g, h)
  BY <1>1, <1>2, <1>5 DEF Accounted
<1> QED BY <1>2, <1>3, <1>4, <1>5, <1>6, <1>9, <1>10 DEF s, g, r

LEMMA InsertLength ==
  ASSUME NEW q \in Seq(Slot), NEW s \in Slot, NEW pos \in 0..Len(q)
  PROVE  Len(Insert(q, pos, s)) = Len(q) + 1
<1>1. Len(q) \in Nat /\ \A i \in 1..Len(q) : q[i] \in Slot
  BY ElementOfSeq, LenProperties
<1>2. Insert(q, pos, s) \in [1..(Len(q) + 1) -> Slot]
  BY <1>1 DEF Insert
<1> QED BY <1>1, <1>2, SeqDef, LenProperties

(* ----------------------------- the order ------------------------------- *)

(* Inside a window of at most half the range, the wrapped comparison is    *)
(* the comparison of the offsets from the window's base.                   *)
LEMMA CompareOffsets ==
  ASSUME NEW a \in Timestamp, NEW b \in Timestamp, NEW o \in Timestamp,
         OffsetFrom(o, a) < Half, OffsetFrom(o, b) < Half
  PROVE  TsCmp(a, b) = OffsetFrom(o, a) - OffsetFrom(o, b)
BY HalfAssumption DEF TsCmp, OffsetFrom, Wrap, Timestamp, Modulus

LEMMA OffsetRange ==
  ASSUME NEW a \in Timestamp, NEW o \in Timestamp
  PROVE  OffsetFrom(o, a) \in Timestamp
BY HalfAssumption DEF OffsetFrom, Wrap, Timestamp, Modulus

LEMMA TimestampIsNat == Timestamp \subseteq Nat
BY HalfAssumption DEF Timestamp, Modulus

(* The timestamp some offset after the base has that offset.               *)
LEMMA OffsetOfSum ==
  ASSUME NEW o \in Timestamp, NEW k \in Timestamp
  PROVE  Wrap(o + k) \in Timestamp /\ OffsetFrom(o, Wrap(o + k)) = k
BY HalfAssumption DEF OffsetFrom, Wrap, Timestamp, Modulus

(* One step further from the base, short of a full turn.                   *)
LEMMA OffsetNext ==
  ASSUME NEW o \in Timestamp, NEW a \in Timestamp, OffsetFrom(o, a) + 1 < Modulus
  PROVE  Wrap(a + 1) \in Timestamp
         /\ OffsetFrom(o, Wrap(a + 1)) = OffsetFrom(o, a) + 1
BY HalfAssumption DEF OffsetFrom, Wrap, Timestamp, Modulus

(* Moving the base brings every other timestamp one closer.                *)
LEMMA BaseNext ==
  ASSUME NEW o \in Timestamp, NEW a \in Timestamp, a # o
  PROVE  Wrap(o + 1) \in Timestamp
         /\ OffsetFrom(Wrap(o + 1), a) = OffsetFrom(o, a) - 1
BY HalfAssumption DEF OffsetFrom, Wrap, Timestamp, Modulus

(* All frames of q are in the sender's window.                             *)
Windowed(q, t, o) == \A i \in 1..Len(q) : OffsetFrom(o, t[q[i]]) < Span

LEMMA TailOrder ==
  ASSUME NEW q \in Seq(Slot), q # <<>>, NEW t, NEW o,
         InOrder(q, t), Windowed(q, t, o)
  PROVE  InOrder(Tail(q), t) /\ Windowed(Tail(q), t, o)
<1> DEFINE r == Tail(q)
<1>1. /\ Len(r) = Len(q) - 1 /\ Len(q) \in Nat \ {0}
      /\ \A i \in 1..Len(r) : r[i] = q[i + 1]
  BY HeadTailProperties, EmptySeq, LenProperties
<1> HIDE DEF r
<1>2. \A i \in 1..Len(r) : i + 1 \in 1..Len(q)
  BY <1>1
<1>3. Windowed(r, t, o)
  BY <1>1, <1>2 DEF Windowed
<1>4. InOrder(r, t)
  <2> SUFFICES ASSUME NEW i \in 1..Len(r), NEW j \in 1..Len(r), i < j
               PROVE  TsCmp(t[r[i]], t[r[j]]) <= 0
    BY DEF InOrder
  <2>1. i + 1 \in 1..Len(q) /\ j + 1 \in 1..Len(q) /\ i + 1 < j + 1
    BY <1>2
  <2> QED BY <1>1, <2>1 DEF InOrder
<1> QED BY <1>3, <1>4 DEF r

(* Storing a frame where the binary search says keeps the index in order:  *)
(* in the window, the order is total, so the two neighbours are enough.    *)
LEMMA InsertOrder ==
  ASSUME NEW q \in Seq(Slot), NEW t \in [Slot -> Timestamp],
         NEW o \in Timestamp, NEW s \in Slot, s \notin Entries(q),
         NEW k \in Timestamp, NEW pos \in 0..Len(q),
         InOrder(q, t), Windowed(q, t, o), OffsetFrom(o, k) < Span,
         pos > 0 => TsCmp(t[q[pos]], k) < 0,
         pos < Len(q) => TsCmp(t[q[pos + 1]], k) >= 0
  PROVE  LET u == [t EXCEPT ![s] = k]
         IN  InOrder(Insert(q, pos, s), u) /\ Windowed(Insert(q, pos, s), u, o)
<1> DEFINE u == [t EXCEPT ![s] = k]
           r == Insert(q, pos, s)
           Off(i) == OffsetFrom(o, t[q[i]])
           koff == OffsetFrom(o, k)
<1>1. /\ Len(q) \in Nat
      /\ \A i \in 1..Len(q) : q[i] \in Slot /\ q[i] # s /\ t[q[i]] \in Timestamp
  BY ElementOfSeq, LenProperties DEF Entries
<1>2. Half \in Nat \ {0} /\ Span \in 1..Half
  BY HalfAssumption, AudioBufferAssumption
<1>3. \A i \in 1..Len(q) : Off(i) \in Nat /\ Off(i) < Span /\ Off(i) < Half
  <2> TAKE i \in 1..Len(q)
  <2>1. Off(i) \in Nat
    BY <1>1, OffsetRange, TimestampIsNat
  <2>2. Off(i) < Span
    BY DEF Windowed
  <2> QED BY <1>2, <2>1, <2>2
<1>4. koff \in Nat /\ koff < Span /\ koff < Half
  <2>1. koff \in Nat
    BY OffsetRange, TimestampIsNat
  <2> QED BY <1>2, <2>1
<1>5. \A i, j \in 1..Len(q) : TsCmp(t[q[i]], t[q[j]]) = Off(i) - Off(j)
  <2> TAKE i, j \in 1..Len(q)
  <2>1. Off(i) < Half /\ Off(j) < Half
    BY <1>3
  <2>2. t[q[i]] \in Timestamp /\ t[q[j]] \in Timestamp
    BY <1>1
  <2> QED BY <2>1, <2>2, CompareOffsets
<1>6. \A i \in 1..Len(q) : TsCmp(t[q[i]], k) = Off(i) - koff
                          /\ TsCmp(k, t[q[i]]) = koff - Off(i)
  <2> TAKE i \in 1..Len(q)
  <2>1. Off(i) < Half /\ koff < Half
    BY <1>3, <1>4
  <2>2. t[q[i]] \in Timestamp
    BY <1>1
  <2> QED BY <2>1, <2>2, CompareOffsets
<1> HIDE DEF Off, koff
<1>7. \A i, j \in 1..Len(q) : i < j => Off(i) <= Off(j)
  BY <1>3, <1>5 DEF InOrder
<1>8. \A i \in 1..Len(q) : i <= pos => Off(i) < koff
  <2> SUFFICES ASSUME NEW i \in 1..Len(q), i <= pos
               PROVE  Off(i) < koff
    OBVIOUS
  <2>1. pos \in 1..Len(q) /\ TsCmp(t[q[pos]], k) < 0
    BY <1>1
  <2>2. Off(pos) < koff
    BY <1>3, <1>4, <1>6, <2>1
  <2>3. i = pos \/ i < pos
    BY <1>1, <2>1
  <2> QED BY <1>3, <1>4, <1>7, <2>1, <2>2, <2>3
<1>9. \A i \in 1..Len(q) : i > pos => koff <= Off(i)
  <2> SUFFICES ASSUME NEW i \in 1..Len(q), i > pos
               PROVE  koff <= Off(i)
    OBVIOUS
  <2>1. pos + 1 \in 1..Len(q) /\ TsCmp(t[q[pos + 1]], k) >= 0
    BY <1>1
  <2>2. koff <= Off(pos + 1)
    BY <1>3, <1>4, <1>6, <2>1
  <2>3. i = pos + 1 \/ pos + 1 < i
    BY <1>1, <2>1
  <2> QED BY <1>3, <1>4, <1>7, <2>1, <2>2, <2>3
<1>10. /\ Len(r) = Len(q) + 1
       /\ \A i \in 1..(Len(q) + 1) : r[i] = IF i <= pos THEN q[i]
                                    ELSE IF i = pos + 1 THEN s ELSE q[i - 1]
  <2>1. r \in [1..(Len(q) + 1) -> Slot]
    BY <1>1 DEF Insert
  <2>2. Len(q) + 1 \in Nat
    BY <1>1
  <2>3. Len(r) = Len(q) + 1
    BY <2>1, <2>2, SeqDef, LenProperties
  <2> QED BY <2>3 DEF Insert
<1>11. /\ u[s] = k
       /\ \A i \in 1..Len(q) : u[q[i]] = t[q[i]]
  BY <1>1
<1> HIDE DEF u, r
<1> DEFINE At(i) == IF i <= pos THEN i ELSE i - 1
<1>12. \A i \in 1..(Len(q) + 1) :
         i # pos + 1 => At(i) \in 1..Len(q) /\ u[r[i]] = t[q[At(i)]]
  BY <1>1, <1>10, <1>11
<1>13. pos + 1 \in 1..(Len(q) + 1) /\ u[r[pos + 1]] = k
  BY <1>1, <1>10, <1>11
<1>14. Windowed(r, u, o)
  <2> SUFFICES ASSUME NEW i \in 1..(Len(q) + 1)
               PROVE  OffsetFrom(o, u[r[i]]) < Span
    BY <1>10 DEF Windowed
  <2>1. CASE i = pos + 1
    BY <1>13, <2>1
  <2>2. CASE i # pos + 1
    BY <1>12, <2>2 DEF Windowed
  <2> QED BY <2>1, <2>2
<1>15. InOrder(r, u)
  <2> SUFFICES ASSUME NEW i \in 1..(Len(q) + 1), NEW j \in 1..(Len(q) + 1), i < j
               PROVE  TsCmp(u[r[i]], u[r[j]]) <= 0
    BY <1>10 DEF InOrder
  <2>1. CASE i = pos + 1
    <3>1. At(j) \in 1..Len(q) /\ u[r[j]] = t[q[At(j)]] /\ At(j) > pos
      BY <1>1, <1>12, <2>1
    <3>2. TsCmp(k, t[q[At(j)]]) = koff - Off(At(j)) /\ koff <= Off(At(j))
      BY <1>6, <1>9, <3>1
    <3> QED BY <1>3, <1>4, <1>13, <2>1, <3>1, <3>2
  <2>2. CASE j = pos + 1
    <3>1. At(i) \in 1..Len(q) /\ u[r[i]] = t[q[At(i)]] /\ At(i) <= pos
      BY <1>1, <1>12, <2>2
    <3>2. TsCmp(t[q[At(i)]], k) = Off(At(i)) - koff /\ Off(At(i)) < koff
      BY <1>6, <1>8, <3>1
    <3> QED BY <1>3, <1>4, <1>13, <2>2, <3>1, <3>2
  <2>3. CASE i # pos + 1 /\ j # pos + 1
    <3>1. /\ At(i) \in 1..Len(q) /\ u[r[i]] = t[q[At(i)]]
          /\ At(j) \in 1..Len(q) /\ u[r[j]] = t[q[At(j)]]
          /\ At(i) < At(j)
      BY <1>1, <1>12, <2>3
    <3> QED BY <3>1 DEF InOrder
  <2> QED BY <2>1, <2>2, <2>3
<1> QED BY <1>14, <1>15 DEF u, r

(* ----------------------- the inductive invariant ----------------------- *)

(* The player holds one slot at most, and none while it is inside take or  *)
(* flush.                                                                  *)
PlayerHolds ==
  /\ held = {} \/ \E s \in Slot : held = {s}
  /\ pc[Playback] # "idle" => held = {}

(* What is left of the packet being split is in the sender's window.       *)
PacketInWindow ==
  packet.left > 0 => OffsetFrom(base, packet.ts) + packet.left <= Span

(* SlotConservation alone does not say that the free stack is not empty    *)
(* when the index has room, and Ascending alone does not survive an        *)
(* insertion: the wrapped comparison is no order outside a window.         *)
IInv ==
  /\ TypeOK
  /\ SlotConservation
  /\ Accounted(sorted, freeStack, held)
  /\ Ascending
  /\ Windowed(sorted, ts, base)
  /\ BufferedNeverOverflows
  /\ PlayerHolds
  /\ PacketInWindow

LEMMA CapacityIsPositive == Capacity \in Nat \ {0}
BY AudioBufferAssumption, FS_CardinalityType, FS_EmptySet DEF Capacity

LEMMA HeldSize ==
  ASSUME PlayerHolds
  PROVE  Cardinality(held) \in 0..1
<1>1. CASE held = {}
  BY <1>1, FS_EmptySet
<1>2. ASSUME NEW s \in Slot, held = {s}
      PROVE  Cardinality(held) = 1
  BY <1>2, FS_Singleton
<1> QED BY <1>1, <1>2 DEF PlayerHolds

(* The sizes of the index and of the stack are within the pool.            *)
LEMMA Sizes ==
  ASSUME IInv
  PROVE  /\ Len(sorted) \in Nat /\ Len(freeStack) \in Nat
         /\ Cardinality(held) \in 0..1
         /\ Len(sorted) + Len(freeStack) + Cardinality(held) = Capacity
         /\ Len(sorted) <= Capacity
<1>1. Len(sorted) \in Nat /\ Len(freeStack) \in Nat
  BY LenProperties DEF IInv, TypeOK
<1>2. Cardinality(held) \in 0..1
  BY HeldSize DEF IInv
<1>3. Len(sorted) + Len(freeStack) + Cardinality(held) = Capacity
  BY DEF IInv, Accounted
<1> QED BY <1>1, <1>2, <1>3, CapacityIsPositive

(* An injective stack of all slots is a full pool.                         *)
LEMMA InitInvariant == Init => IInv
<1> SUFFICES ASSUME Init PROVE IInv
  OBVIOUS
<1>1. Capacity \in Nat \ {0}
  BY CapacityIsPositive
<1>2. PICK f \in [1..Capacity -> Slot] : IsInjective(f) /\ freeStack = f
  BY DEF Init
<1>3. f \in Seq(Slot) /\ Len(f) = Capacity
  BY <1>1, <1>2, SeqDef, LenProperties
<1>4. NoRepeats(f)
  BY <1>2, <1>3 DEF NoRepeats, IsInjective
<1>5. Entries(f) = Slot
  <2>1. IsFiniteSet(1..Capacity) /\ Cardinality(1..Capacity) = Capacity
    BY <1>1, FS_Interval
  <2>2. f \in Injection(1..Capacity, Slot)
    BY <1>2, <1>3, <1>4 DEF Injection, NoRepeats
  <2>3. f \in Surjection(1..Capacity, Slot)
    BY <2>1, <2>2, AudioBufferAssumption, FS_Injection DEF Capacity
  <2> QED BY <1>2, <1>3, <2>3 DEF Surjection, Entries
<1>6. sorted = <<>> /\ sorted \in Seq(Slot) /\ Len(sorted) = 0
  BY DEF Init
<1>7. Cardinality(held) = 0 /\ held = {}
  BY FS_EmptySet DEF Init
<1>8. TypeOK
  <2>1. 0 \in Timestamp /\ 0 \in 0..Capacity /\ 0 \in 0..MaxChunks
    BY <1>1, HalfAssumption, AudioBufferAssumption DEF Timestamp, Modulus
  <2>2. packet \in [left : 0..MaxChunks, ts : Timestamp]
    BY <2>1 DEF Init
  <2> QED BY <1>2, <1>3, <1>6, <2>1, <2>2 DEF TypeOK, Init
<1>9. SlotConservation
  BY <1>2, <1>4, <1>5, <1>6, <1>7 DEF SlotConservation, Partition, Entries, NoRepeats
<1>10. Accounted(sorted, freeStack, held)
  BY <1>1, <1>2, <1>3, <1>6, <1>7 DEF Accounted
<1>11. Ascending /\ Windowed(sorted, ts, base)
  BY <1>6 DEF Ascending, InOrder, Windowed
<1>12. BufferedNeverOverflows /\ PlayerHolds /\ PacketInWindow
  BY <1>1, <1>6, <1>7 DEF BufferedNeverOverflows, PlayerHolds, PacketInWindow, Init
<1> QED BY <1>8, <1>9, <1>10, <1>11, <1>12 DEF IInv

(* One lemma per action: the step keeps the invariant.                     *)

LEMMA AdvanceBaseKeeps == IInv /\ AdvanceBase => IInv'
<1> SUFFICES ASSUME IInv, AdvanceBase PROVE IInv'
  OBVIOUS
<1> USE DEF AdvanceBase
<1>1. base \in Timestamp /\ base' \in Timestamp
  <2>1. base \in Timestamp
    BY DEF IInv, TypeOK
  <2> QED BY <2>1, HalfAssumption DEF Wrap, Timestamp, Modulus
<1>2. TypeOK'
  BY <1>1 DEF IInv, TypeOK
<1>3. Windowed(sorted, ts, base)'
  <2> SUFFICES ASSUME NEW i \in 1..Len(sorted)
               PROVE  OffsetFrom(base', ts[sorted[i]]) < Span
    BY DEF Windowed
  <2>1. sorted[i] \in Slot /\ ts[sorted[i]] \in Timestamp
    BY ElementOfSeq DEF IInv, TypeOK
  <2>2. ts[sorted[i]] # base
    BY DEF Filled, Entries
  <2>3. OffsetFrom(base', ts[sorted[i]]) = OffsetFrom(base, ts[sorted[i]]) - 1
    BY <1>1, <2>1, <2>2, BaseNext
  <2>4. OffsetFrom(base, ts[sorted[i]]) \in Nat
    BY <1>1, <2>1, OffsetRange, TimestampIsNat
  <2>5. OffsetFrom(base, ts[sorted[i]]) < Span /\ Span \in Nat
    BY AudioBufferAssumption, HalfAssumption DEF IInv, Windowed
  <2> QED BY <2>3, <2>4, <2>5
<1>4. PacketInWindow'
  <2> SUFFICES ASSUME packet.left > 0
               PROVE  OffsetFrom(base', packet.ts) + packet.left <= Span
    BY DEF PacketInWindow
  <2>1. packet.ts \in Timestamp /\ packet.ts # base /\ packet.left \in Nat
    BY AudioBufferAssumption DEF IInv, TypeOK
  <2>2. OffsetFrom(base', packet.ts) = OffsetFrom(base, packet.ts) - 1
    BY <1>1, <2>1, BaseNext
  <2>3. OffsetFrom(base, packet.ts) \in Nat /\ Span \in Nat
    <3>1. OffsetFrom(base, packet.ts) \in Nat
      BY <1>1, <2>1, OffsetRange, TimestampIsNat
    <3> QED BY <3>1, AudioBufferAssumption, HalfAssumption
  <2>4. OffsetFrom(base, packet.ts) + packet.left <= Span
    BY DEF IInv, PacketInWindow
  <2> QED BY <2>1, <2>2, <2>3, <2>4
<1>5. /\ SlotConservation' /\ Accounted(sorted, freeStack, held)' /\ Ascending'
      /\ BufferedNeverOverflows' /\ PlayerHolds'
  BY DEF IInv, SlotConservation, Accounted, Ascending, InOrder,
         BufferedNeverOverflows, PlayerHolds
<1> QED BY <1>2, <1>3, <1>4, <1>5 DEF IInv

LEMMA ReceivePacketKeeps ==
  ASSUME IInv, NEW offset \in 0..(Span - 1), NEW chunks \in 1..MaxChunks,
         ReceivePacket(offset, chunks)
  PROVE  IInv'
<1> USE DEF ReceivePacket
<1>1. base \in Timestamp /\ offset \in Timestamp /\ offset \in Nat
  BY AudioBufferAssumption, HalfAssumption DEF IInv, TypeOK, Timestamp, Modulus
<1>2. /\ Wrap(base + offset) \in Timestamp
      /\ OffsetFrom(base, Wrap(base + offset)) = offset
  BY <1>1, OffsetOfSum
<1>3. TypeOK'
  <2>1. chunks \in 0..MaxChunks
    BY AudioBufferAssumption
  <2> QED BY <1>2, <2>1 DEF IInv, TypeOK
<1>4. PacketInWindow'
  BY <1>2 DEF PacketInWindow
<1>5. BufferedNeverOverflows'
  <2> SUFFICES ASSUME source = "buffered"
               PROVE  Len(sorted) + Cardinality(held) + chunks <= Capacity
    BY DEF BufferedNeverOverflows
  <2>1. Len(sorted) <= HighWater /\ Len(sorted) \in Nat /\ Cardinality(held) \in 0..1
    BY Sizes
  <2> QED BY <2>1, AudioBufferAssumption, CapacityIsPositive
<1>6. /\ SlotConservation' /\ Accounted(sorted, freeStack, held)' /\ Ascending'
      /\ Windowed(sorted, ts, base)' /\ PlayerHolds'
  BY DEF IInv, SlotConservation, Accounted, Ascending, InOrder, Windowed, PlayerHolds
<1> QED BY <1>3, <1>4, <1>5, <1>6 DEF IInv

(* A step that changes no slot, no packet and no timestamp.                *)
LEMMA TokenStepKeeps ==
  ASSUME IInv, dataReady' \in 0..Capacity,
         pc' \in [Task -> {"idle", "give", "took", "drain"}],
         pc'[Playback] # "idle" => held = {},
         UNCHANGED <<sorted, freeStack, ts, held, packet, source, base>>
  PROVE  IInv'
<1>1. TypeOK'
  BY DEF IInv, TypeOK
<1>2. PlayerHolds'
  BY DEF IInv, PlayerHolds
<1>3. /\ SlotConservation' /\ Accounted(sorted, freeStack, held)' /\ Ascending'
      /\ Windowed(sorted, ts, base)' /\ BufferedNeverOverflows' /\ PacketInWindow'
  BY DEF IInv, SlotConservation, Accounted, Ascending, InOrder, Windowed,
         BufferedNeverOverflows, PacketInWindow
<1> QED BY <1>1, <1>2, <1>3 DEF IInv

LEMMA GiveTokenKeeps == IInv /\ GiveToken => IInv'
<1> SUFFICES ASSUME IInv, GiveToken PROVE IInv'
  OBVIOUS
<1>1. dataReady \in 0..Capacity /\ dataReady' \in 0..Capacity
  <2>1. dataReady \in 0..Capacity
    BY DEF IInv, TypeOK
  <2> QED BY <2>1, CapacityIsPositive DEF GiveToken
<1>2. /\ pc' \in [Task -> {"idle", "give", "took", "drain"}]
      /\ pc'[Playback] # "idle" => held = {}
  BY AudioBufferAssumption DEF GiveToken, IInv, TypeOK, PlayerHolds, Task
<1> QED BY <1>1, <1>2, TokenStepKeeps DEF GiveToken

LEMMA TakeTokenKeeps == IInv /\ TakeToken => IInv'
<1> SUFFICES ASSUME IInv, TakeToken PROVE IInv'
  OBVIOUS
<1>1. dataReady \in 0..Capacity /\ dataReady' \in 0..Capacity
  BY CapacityIsPositive DEF IInv, TypeOK, TakeToken
<1>2. /\ pc' \in [Task -> {"idle", "give", "took", "drain"}]
      /\ pc'[Playback] # "idle" => held = {}
  BY DEF TakeToken, IInv, TypeOK, Task
<1> QED BY <1>1, <1>2, TokenStepKeeps DEF TakeToken

LEMMA DrainTokenKeeps ==
  ASSUME IInv, NEW t \in Flusher \cup {Playback}, DrainToken(t)
  PROVE  IInv'
<1>1. dataReady \in 0..Capacity /\ dataReady' \in 0..Capacity
  BY CapacityIsPositive DEF IInv, TypeOK, DrainToken
<1>2. /\ pc' \in [Task -> {"idle", "give", "took", "drain"}]
      /\ pc'[Playback] # "idle" => held = {}
  BY DEF DrainToken, IInv, TypeOK, PlayerHolds
<1> QED BY <1>1, <1>2, TokenStepKeeps DEF DrainToken

LEMMA DrainDoneKeeps ==
  ASSUME IInv, NEW t \in Flusher \cup {Playback}, DrainDone(t)
  PROVE  IInv'
<1>1. dataReady' \in 0..Capacity
  BY DEF IInv, TypeOK, DrainDone
<1>2. /\ pc' \in [Task -> {"idle", "give", "took", "drain"}]
      /\ pc'[Playback] # "idle" => held = {}
  BY DEF DrainDone, IInv, TypeOK, PlayerHolds, Task
<1> QED BY <1>1, <1>2, TokenStepKeeps DEF DrainDone

LEMMA TakeFrameKeeps == IInv /\ TakeFrame => IInv'
<1> SUFFICES ASSUME IInv, TakeFrame PROVE IInv'
  OBVIOUS
<1>1. held = {} /\ Cardinality({}) = 0
  BY FS_EmptySet DEF IInv, PlayerHolds, TakeFrame
<1>2. /\ pc' \in [Task -> {"idle", "give", "took", "drain"}]
      /\ pc'[Playback] = "idle" /\ Playback \in Task
  BY DEF TakeFrame, IInv, TypeOK, Task
<1>3. CASE sorted = <<>>
  <2>1. UNCHANGED <<sorted, freeStack, ts, held, dataReady, packet, source, base>>
    BY <1>3 DEF TakeFrame
  <2>2. dataReady' \in 0..Capacity
    BY <2>1 DEF IInv, TypeOK
  <2> QED BY <1>2, <2>1, <2>2, TokenStepKeeps
<1>4. CASE sorted # <<>>
  <2>1. /\ sorted' = Tail(sorted) /\ held' = {Head(sorted)}
        /\ UNCHANGED <<freeStack, ts, dataReady, packet, source, base>>
    BY <1>4 DEF TakeFrame
  <2>2. sorted \in Seq(Slot) /\ freeStack \in Seq(Slot)
    BY DEF IInv, TypeOK
  <2>3. Partition(sorted, freeStack, {}) /\ Accounted(sorted, freeStack, {})
    BY <1>1 DEF IInv, SlotConservation
  <2>4. /\ sorted' \in Seq(Slot) /\ Head(sorted) \in Slot
        /\ Partition(sorted', freeStack', held')
        /\ Accounted(sorted', freeStack', held')
    BY <1>4, <2>1, <2>2, <2>3, TakePool
  <2>5. TypeOK'
    BY <1>2, <2>1, <2>4 DEF IInv, TypeOK
  <2>6. Ascending' /\ Windowed(sorted, ts, base)'
    <3>1. InOrder(sorted, ts) /\ Windowed(sorted, ts, base)
      BY DEF IInv, Ascending
    <3>2. InOrder(sorted', ts) /\ Windowed(sorted', ts, base)
      BY <1>4, <2>1, <2>2, <3>1, TailOrder
    <3> QED BY <2>1, <3>2 DEF Ascending
  <2>7. PlayerHolds'
    BY <1>2, <2>1, <2>4 DEF PlayerHolds
  <2>8. BufferedNeverOverflows'
    <3>1. Len(sorted') = Len(sorted) - 1 /\ Len(sorted) \in Nat
      BY <1>4, <2>1, <2>2, HeadTailProperties, LenProperties
    <3>2. Cardinality(held') = 1 /\ Cardinality(held) = 0
      BY <1>1, <2>1, FS_Singleton
    <3>3. packet.left \in Nat
      BY AudioBufferAssumption DEF IInv, TypeOK
    <3> QED BY <2>1, <3>1, <3>2, <3>3 DEF IInv, BufferedNeverOverflows
  <2>9. PacketInWindow'
    BY <2>1 DEF IInv, PacketInWindow
  <2>10. SlotConservation'
    BY <2>4 DEF SlotConservation
  <2> QED BY <2>4, <2>5, <2>6, <2>7, <2>8, <2>9, <2>10 DEF IInv
<1> QED BY <1>3, <1>4

LEMMA ReturnFrameKeeps == IInv /\ ReturnFrame => IInv'
<1> SUFFICES ASSUME IInv, ReturnFrame PROVE IInv'
  OBVIOUS
<1>1. PICK s \in held : freeStack' = Append(freeStack, s)
  BY DEF ReturnFrame
<1>2. held = {s} /\ s \in Slot
  BY <1>1 DEF IInv, PlayerHolds
<1>3. /\ held' = {}
      /\ UNCHANGED <<sorted, ts, dataReady, pc, packet, source, base>>
  BY DEF ReturnFrame
<1>4. sorted \in Seq(Slot) /\ freeStack \in Seq(Slot)
  BY DEF IInv, TypeOK
<1>5. Partition(sorted, freeStack, {s}) /\ Accounted(sorted, freeStack, {s})
  BY <1>2 DEF IInv, SlotConservation
<1>6. /\ freeStack' \in Seq(Slot)
      /\ Partition(sorted', freeStack', held')
      /\ Accounted(sorted', freeStack', held')
  BY <1>1, <1>2, <1>3, <1>4, <1>5, ReturnPool
<1>7. TypeOK'
  BY <1>3, <1>6 DEF IInv, TypeOK
<1>8. PlayerHolds' /\ PacketInWindow' /\ Ascending' /\ Windowed(sorted, ts, base)'
  BY <1>3 DEF IInv, PlayerHolds, PacketInWindow, Ascending, InOrder, Windowed
<1>9. BufferedNeverOverflows'
  <2>1. Cardinality(held') = 0 /\ Cardinality(held) = 1
    BY <1>2, <1>3, FS_EmptySet, FS_Singleton
  <2>2. Len(sorted) \in Nat /\ packet.left \in Nat
    BY Sizes, AudioBufferAssumption DEF IInv, TypeOK
  <2> QED BY <1>3, <2>1, <2>2, CapacityIsPositive DEF IInv, BufferedNeverOverflows
<1>10. SlotConservation'
  BY <1>6 DEF SlotConservation
<1> QED BY <1>6, <1>7, <1>8, <1>9, <1>10 DEF IInv

LEMMA FlushIndexKeeps ==
  ASSUME IInv, NEW t \in Flusher \cup {Playback}, FlushIndex(t)
  PROVE  IInv'
<1>1. /\ sorted' = <<>> /\ freeStack' = freeStack \o sorted
      /\ UNCHANGED <<ts, dataReady, held, packet, source, base>>
  BY DEF FlushIndex
<1>2. /\ sorted \in Seq(Slot) /\ freeStack \in Seq(Slot)
      /\ Partition(sorted, freeStack, held) /\ Accounted(sorted, freeStack, held)
      /\ Cardinality(held) \in Nat
  BY Sizes DEF IInv, TypeOK, SlotConservation
<1>3. /\ freeStack' \in Seq(Slot)
      /\ Partition(sorted', freeStack', held')
      /\ Accounted(sorted', freeStack', held')
  BY <1>1, <1>2, FlushPool
<1>4. sorted' \in Seq(Slot) /\ Len(sorted') = 0
  BY <1>1
<1>5. TypeOK'
  <2>1. pc' \in [Task -> {"idle", "give", "took", "drain"}]
    BY DEF FlushIndex, IInv, TypeOK
  <2> QED BY <1>1, <1>3, <1>4, <2>1 DEF IInv, TypeOK
<1>6. PlayerHolds'
  BY <1>1, AudioBufferAssumption DEF FlushIndex, IInv, TypeOK, PlayerHolds
<1>7. PacketInWindow' /\ Ascending' /\ Windowed(sorted, ts, base)'
  BY <1>1, <1>4 DEF IInv, PacketInWindow, Ascending, InOrder, Windowed
<1>8. BufferedNeverOverflows'
  <2>1. Len(sorted) \in Nat /\ packet.left \in Nat /\ Cardinality(held) \in Nat
    BY Sizes, AudioBufferAssumption DEF IInv, TypeOK
  <2> QED BY <1>1, <1>4, <2>1, CapacityIsPositive DEF IInv, BufferedNeverOverflows
<1>9. SlotConservation'
  BY <1>3 DEF SlotConservation
<1> QED BY <1>3, <1>5, <1>6, <1>7, <1>8, <1>9 DEF IInv

(* The pool and the index queue_chunk works on, after its overflow branch. *)
LEMMA OverflowBranch ==
  ASSUME IInv
  PROVE  LET full == Len(sorted) >= Capacity
             q == IF full THEN Tail(sorted) ELSE sorted
             f == IF full THEN Append(freeStack, Head(sorted)) ELSE freeStack
         IN  /\ q \in Seq(Slot) /\ f \in Seq(Slot)
             /\ Partition(q, f, held) /\ Accounted(q, f, held)
             /\ InOrder(q, ts) /\ Windowed(q, ts, base)
<1> DEFINE full == Len(sorted) >= Capacity
           q == IF full THEN Tail(sorted) ELSE sorted
           f == IF full THEN Append(freeStack, Head(sorted)) ELSE freeStack
<1>1. /\ sorted \in Seq(Slot) /\ freeStack \in Seq(Slot)
      /\ Partition(sorted, freeStack, held) /\ Accounted(sorted, freeStack, held)
      /\ Cardinality(held) \in Nat
      /\ InOrder(sorted, ts) /\ Windowed(sorted, ts, base)
  BY Sizes DEF IInv, TypeOK, SlotConservation, Ascending
<1>2. CASE full
  <2>1. sorted # <<>>
    <3>1. Len(sorted) >= Capacity
      BY <1>2
    <3> QED BY <3>1, CapacityIsPositive
  <2>2. q = Tail(sorted) /\ f = Append(freeStack, Head(sorted))
    BY <1>2
  <2>3. InOrder(q, ts) /\ Windowed(q, ts, base)
    BY <1>1, <2>1, <2>2, TailOrder
  <2>4. /\ q \in Seq(Slot) /\ f \in Seq(Slot)
        /\ Partition(q, f, held) /\ Accounted(q, f, held)
    BY <1>1, <2>1, <2>2, EvictPool
  <2> QED BY <1>2, <2>3, <2>4
<1>3. CASE ~full
  BY <1>1, <1>3
<1> QED BY <1>2, <1>3

LEMMA QueueChunkKeeps == IInv /\ QueueChunk => IInv'
<1> SUFFICES ASSUME IInv, QueueChunk PROVE IInv'
  OBVIOUS
<1> DEFINE full == Len(sorted) >= Capacity
           q == IF full THEN Tail(sorted) ELSE sorted
           f == IF full THEN Append(freeStack, Head(sorted)) ELSE freeStack
           slot == f[Len(f)]
<1>1. /\ pc[Decoder] = "idle" /\ packet.left > 0
      /\ UNCHANGED <<held, source, base>>
  BY DEF QueueChunk
<1>2. \/ /\ f = <<>>
         /\ packet' = [packet EXCEPT !.left = 0]
         /\ UNCHANGED <<sorted, freeStack, ts, dataReady, pc>>
      \/ /\ f # <<>>
         /\ freeStack' = SubSeq(f, 1, Len(f) - 1)
         /\ ts' = [ts EXCEPT ![slot] = packet.ts]
         /\ \E pos \in 0..Len(q) :
              /\ IsInsertPos(q, packet.ts, pos)
              /\ sorted' = Insert(q, pos, slot)
         /\ dataReady' = IF full /\ dataReady > 0 THEN dataReady - 1 ELSE dataReady
         /\ packet' = [left |-> packet.left - 1, ts |-> Wrap(packet.ts + 1)]
         /\ pc' = [pc EXCEPT ![Decoder] = "give"]
  BY DEF QueueChunk
<1>3. /\ q \in Seq(Slot) /\ f \in Seq(Slot)
      /\ Partition(q, f, held) /\ Accounted(q, f, held)
      /\ InOrder(q, ts) /\ Windowed(q, ts, base)
  BY OverflowBranch
<1>4. /\ packet.left \in 0..MaxChunks /\ packet.ts \in Timestamp /\ base \in Timestamp
      /\ packet \in [left : 0..MaxChunks, ts : Timestamp]
      /\ ts \in [Slot -> Timestamp] /\ dataReady \in 0..Capacity
      /\ MaxChunks \in Nat /\ Span \in Nat /\ Span <= Half /\ Half \in Nat \ {0}
  BY AudioBufferAssumption, HalfAssumption DEF IInv, TypeOK
<1>5. OffsetFrom(base, packet.ts) + packet.left <= Span
  BY <1>1 DEF IInv, PacketInWindow
<1>6. OffsetFrom(base, packet.ts) \in Nat
  BY <1>4, OffsetRange, TimestampIsNat
<1>7. /\ Len(sorted) \in Nat /\ Len(freeStack) \in Nat /\ Cardinality(held) \in 0..1
      /\ Len(sorted) + Len(freeStack) + Cardinality(held) = Capacity
  BY Sizes
<1> HIDE DEF full, q, f, slot
<1>8. CASE f = <<>>
  <2>1. /\ packet' = [packet EXCEPT !.left = 0]
        /\ UNCHANGED <<sorted, freeStack, ts, dataReady, pc, held, source, base>>
    BY <1>1, <1>2, <1>8
  <2>2. packet' \in [left : 0..MaxChunks, ts : Timestamp] /\ packet'.left = 0
    BY <1>4, <2>1
  <2>3. TypeOK'
    BY <2>1, <2>2 DEF IInv, TypeOK
  <2>4. BufferedNeverOverflows'
    BY <1>4, <1>7, <2>1, <2>2, CapacityIsPositive DEF IInv, BufferedNeverOverflows
  <2>5. /\ SlotConservation' /\ Accounted(sorted, freeStack, held)' /\ Ascending'
        /\ Windowed(sorted, ts, base)' /\ PlayerHolds' /\ PacketInWindow'
    BY <2>1, <2>2 DEF IInv, SlotConservation, Accounted, Ascending, InOrder,
                      Windowed, PlayerHolds, PacketInWindow
  <2> QED BY <2>3, <2>4, <2>5 DEF IInv
<1>9. CASE f # <<>>
  <2>1. /\ freeStack' = SubSeq(f, 1, Len(f) - 1)
        /\ ts' = [ts EXCEPT ![slot] = packet.ts]
        /\ dataReady' = IF full /\ dataReady > 0 THEN dataReady - 1 ELSE dataReady
        /\ packet' = [left |-> packet.left - 1, ts |-> Wrap(packet.ts + 1)]
        /\ pc' = [pc EXCEPT ![Decoder] = "give"]
    BY <1>2, <1>9
  <2>2. PICK pos \in 0..Len(q) : /\ IsInsertPos(q, packet.ts, pos)
                                /\ sorted' = Insert(q, pos, slot)
    BY <1>2, <1>9
  <2>3. /\ slot \in Slot /\ slot \notin Entries(q)
        /\ freeStack' \in Seq(Slot) /\ sorted' \in Seq(Slot)
        /\ Len(sorted') = Len(q) + 1
        /\ Partition(sorted', freeStack', held)
        /\ Accounted(sorted', freeStack', held)
    <3>1. Cardinality(held) \in Nat
      BY <1>7
    <3> QED BY <1>3, <1>9, <2>1, <2>2, <3>1, InsertPool DEF slot
  <2>4. InOrder(sorted', ts') /\ Windowed(sorted', ts', base)
    <3>1. OffsetFrom(base, packet.ts) < Span
      BY <1>1, <1>4, <1>5, <1>6
    <3>2. /\ pos > 0 => TsCmp(ts[q[pos]], packet.ts) < 0
          /\ pos < Len(q) => TsCmp(ts[q[pos + 1]], packet.ts) >= 0
      BY <2>2 DEF IsInsertPos
    <3> QED BY <1>3, <1>4, <2>1, <2>2, <2>3, <3>1, <3>2, InsertOrder
  <2>5. packet.left - 1 \in 0..MaxChunks
    BY <1>1, <1>4
  <2>6. /\ Wrap(packet.ts + 1) \in Timestamp
        /\ OffsetFrom(base, Wrap(packet.ts + 1)) = OffsetFrom(base, packet.ts) + 1
    <3>1. OffsetFrom(base, packet.ts) + 1 < Modulus
      BY <1>1, <1>4, <1>5, <1>6 DEF Modulus
    <3> QED BY <1>4, <3>1, OffsetNext
  <2>7. packet' \in [left : 0..MaxChunks, ts : Timestamp]
        /\ packet'.left = packet.left - 1 /\ packet'.ts = Wrap(packet.ts + 1)
    BY <2>1, <2>5, <2>6
  <2>8. TypeOK'
    <3>1. dataReady' \in 0..Capacity
      BY <1>4, <2>1, CapacityIsPositive
    <3>2. ts' \in [Slot -> Timestamp]
      BY <1>4, <2>1
    <3>3. pc' \in [Task -> {"idle", "give", "took", "drain"}]
      BY <2>1 DEF IInv, TypeOK
    <3> QED BY <1>1, <2>3, <2>7, <3>1, <3>2, <3>3 DEF IInv, TypeOK
  <2>9. PlayerHolds'
    BY <1>1, <2>1, AudioBufferAssumption DEF IInv, TypeOK, PlayerHolds
  <2>10. PacketInWindow'
    <3> SUFFICES OffsetFrom(base, packet'.ts) + packet'.left <= Span
      BY <1>1 DEF PacketInWindow
    <3> QED BY <1>4, <1>5, <1>6, <2>6, <2>7
  <2>11. BufferedNeverOverflows'
    <3> SUFFICES ASSUME source = "buffered"
                 PROVE  Len(sorted') + Cardinality(held) + packet'.left <= Capacity
      BY <1>1 DEF BufferedNeverOverflows
    <3>1. Len(sorted) + Cardinality(held) + packet.left <= Capacity
      BY DEF IInv, BufferedNeverOverflows
    <3>2. ~full
      BY <1>1, <1>4, <1>7, <3>1, CapacityIsPositive DEF full
    <3>3. Len(sorted') = Len(sorted) + 1
      BY <2>3, <3>2 DEF q
    <3> QED BY <1>4, <1>7, <2>7, <3>1, <3>3, CapacityIsPositive
  <2>12. /\ SlotConservation' /\ Accounted(sorted, freeStack, held)'
         /\ Ascending' /\ Windowed(sorted, ts, base)'
    BY <1>1, <2>3, <2>4 DEF SlotConservation, Ascending
  <2> QED BY <2>8, <2>9, <2>10, <2>11, <2>12 DEF IInv
<1> QED BY <1>8, <1>9

LEMMA NextKeeps == IInv /\ [Next]_vars => IInv'
<1> SUFFICES ASSUME IInv, [Next]_vars PROVE IInv'
  OBVIOUS
<1>1. CASE AdvanceBase
  BY <1>1, AdvanceBaseKeeps
<1>2. ASSUME NEW offset \in 0..(Span - 1), NEW chunks \in 1..MaxChunks,
             ReceivePacket(offset, chunks)
      PROVE  IInv'
  BY <1>2, ReceivePacketKeeps
<1>3. CASE QueueChunk
  BY <1>3, QueueChunkKeeps
<1>4. CASE GiveToken
  BY <1>4, GiveTokenKeeps
<1>5. CASE TakeToken
  BY <1>5, TakeTokenKeeps
<1>6. CASE TakeFrame
  BY <1>6, TakeFrameKeeps
<1>7. CASE ReturnFrame
  BY <1>7, ReturnFrameKeeps
<1>8. ASSUME NEW t \in Flusher \cup {Playback}, FlushIndex(t)
      PROVE  IInv'
  BY <1>8, FlushIndexKeeps
<1>9. ASSUME NEW t \in Flusher \cup {Playback}, DrainToken(t)
      PROVE  IInv'
  BY <1>9, DrainTokenKeeps
<1>10. ASSUME NEW t \in Flusher \cup {Playback}, DrainDone(t)
       PROVE  IInv'
  BY <1>10, DrainDoneKeeps
<1>11. CASE UNCHANGED vars
  BY <1>11 DEF vars, IInv, TypeOK, SlotConservation, Accounted, Ascending, InOrder,
               Windowed, BufferedNeverOverflows, PlayerHolds, PacketInWindow
<1> QED BY <1>1, <1>2, <1>3, <1>4, <1>5, <1>6, <1>7, <1>8, <1>9, <1>10, <1>11
        DEF Next

(* The invariant holds in every reachable state of every interleaving.     *)
THEOREM Invariance == Spec => []IInv
<1>1. Init => IInv
  BY InitInvariant
<1>2. IInv /\ [Next]_vars => IInv'
  BY NextKeeps
<1> QED BY <1>1, <1>2, PTL DEF Spec

(* Every variable keeps its type: in particular the semaphore count never  *)
(* leaves 0..Capacity and timestamps never leave their range.              *)
THEOREM TypeCorrect == Spec => []TypeOK
<1>1. IInv => TypeOK
  BY DEF IInv
<1> QED BY <1>1, Invariance, PTL

(* No slot of audio_buffer.c's pool is ever lost, filled twice, or handed  *)
(* out while the player still reads it, whatever the tasks interleave.     *)
THEOREM SlotsConserved == Spec => []SlotConservation
<1>1. IInv => SlotConservation
  BY DEF IInv
<1> QED BY <1>1, Invariance, PTL

(* sorted[] is always in RTP order: sorted_insert_pos's precondition.      *)
THEOREM IndexAscending == Spec => []Ascending
<1>1. IInv => Ascending
  BY DEF IInv
<1> QED BY <1>1, Invariance, PTL

(* The nearly-full check of the buffered stream leaves room for all the    *)
(* chunks of the packet it lets through.                                   *)
THEOREM BackPressureSuffices == Spec => []BufferedNeverOverflows
<1>1. IInv => BufferedNeverOverflows
  BY DEF IInv
<1> QED BY <1>1, Invariance, PTL

(* --------------------------- the search -------------------------------- *)

Less == {p \in Nat \X Nat : p[1] < p[2]}

LEMMA SmallestOne ==
  ASSUME NEW S \in SUBSET Nat, S # {}
  PROVE  \E x \in S : \A y \in S : ~ (y < x)
<1>1. IsWellFoundedOn(Less, Nat)
  BY NatLessThanWellFounded DEF OpToRel, Less
<1>2. PICK x \in S : \A y \in S : ~ (<<y, x>> \in Less)
  BY <1>1, WFMin
<1>3. \A y \in S : <<y, x>> \in Nat \X Nat
  OBVIOUS
<1> QED BY <1>2, <1>3 DEF Less

(* The intervals of the loop: lo and hi.                                   *)
Windows(q) == (0..Len(q)) \X (0..Len(q))

Middle(w) == w[1] + (w[2] - w[1]) \div 2

(* What the search of w gives if f tells what it gives of smaller ones.    *)
Narrow(q, t, f, w) ==
  IF w[1] >= w[2] THEN w[1]
  ELSE IF TsCmp(ts[q[Middle(w) + 1]], t) < 0
  THEN f[<<Middle(w) + 1, w[2]>>]
  ELSE f[<<w[1], Middle(w)>>]

(* Both halves of an interval lie in it and are smaller.                   *)
LEMMA Halves ==
  ASSUME NEW n \in Nat, NEW w \in (0..n) \X (0..n), w[1] < w[2]
  PROVE  /\ Middle(w) \in 0..n /\ Middle(w) + 1 \in 0..n
         /\ w[1] <= Middle(w) /\ Middle(w) < w[2]
         /\ w[2] - (Middle(w) + 1) < w[2] - w[1]
         /\ Middle(w) - w[1] < w[2] - w[1]
         /\ <<Middle(w) + 1, w[2]>> \in (0..n) \X (0..n)
         /\ <<w[1], Middle(w)>> \in (0..n) \X (0..n)
<1>1. w[1] \in 0..n /\ w[2] \in 0..n
  OBVIOUS
<1>2. /\ Middle(w) \in Int
      /\ w[1] <= Middle(w) /\ Middle(w) < w[2]
  BY <1>1 DEF Middle
<1> QED BY <1>1, <1>2

(* The loop ends: the search is defined, by what it does in one iteration. *)
LEMMA SearchIsDefined ==
  ASSUME NEW q \in Seq(Slot), NEW t
  PROVE  \E f : f = [w \in Windows(q) |-> Narrow(q, t, f, w)]
<1> DEFINE W == Windows(q)
           Good(g, n) == \A w \in W : w[2] - w[1] <= n => g[w] = Narrow(q, t, g, w)
           Bad == {n \in Nat : ~\E g : Good(g, n)}
<1>1. Len(q) \in Nat /\ W = (0..Len(q)) \X (0..Len(q))
  BY LenProperties DEF Windows
<1>2. \A w \in W : w[1] \in 0..Len(q) /\ w[2] \in 0..Len(q)
  BY <1>1
<1> HIDE DEF W
<1>3. \E g : Good(g, 0)
  <2> DEFINE g == [w \in W |-> w[1]]
  <2>1. ASSUME NEW w \in W, w[2] - w[1] <= 0
        PROVE  g[w] = Narrow(q, t, g, w)
    <3>1. w[1] >= w[2]
      BY <1>1, <1>2, <2>1
    <3> QED BY <3>1 DEF Narrow
  <2> HIDE DEF g
  <2> QED BY <2>1
<1>4. ASSUME NEW n \in Nat, NEW g, Good(g, n)
      PROVE  \E h : Good(h, n + 1)
  <2> DEFINE h == [w \in W |-> Narrow(q, t, g, w)]
  <2>1. \A w \in W : h[w] = Narrow(q, t, g, w)
    OBVIOUS
  <2> HIDE DEF h
  <2>2. \A w \in W : w[2] - w[1] <= n => h[w] = g[w]
    BY <1>4, <2>1
  <2>3. ASSUME NEW w \in W, w[2] - w[1] <= n + 1
        PROVE  h[w] = Narrow(q, t, h, w)
    <3>1. CASE w[1] >= w[2]
      BY <2>1, <3>1 DEF Narrow
    <3>2. CASE w[1] < w[2]
      <4> DEFINE a == <<Middle(w) + 1, w[2]>>
                 b == <<w[1], Middle(w)>>
      <4>1. a \in W /\ b \in W /\ a[2] - a[1] <= n /\ b[2] - b[1] <= n
        BY <1>1, <1>2, <2>3, <3>2, Halves
      <4>2. h[a] = g[a] /\ h[b] = g[b]
        BY <2>2, <4>1
      <4> QED BY <2>1, <4>2 DEF Narrow
    <3> QED BY <1>1, <1>2, <3>1, <3>2
  <2> QED BY <2>3
<1>5. Bad = {}
  <2> SUFFICES ASSUME Bad # {} PROVE FALSE
    OBVIOUS
  <2>1. PICK x \in Bad : \A y \in Bad : ~ (y < x)
    BY SmallestOne
  <2>2. x \in Nat \ {0}
    BY <1>3
  <2>3. x - 1 \in Nat /\ x - 1 \notin Bad /\ (x - 1) + 1 = x
    BY <2>1, <2>2
  <2>4. PICK g : Good(g, x - 1)
    BY <2>3
  <2>5. \E h : Good(h, (x - 1) + 1)
    <3> HIDE DEF Good
    <3> QED BY <1>4, <2>3, <2>4
  <2>6. \E h : Good(h, x)
    <3> HIDE DEF Good
    <3> QED BY <2>3, <2>5
  <2> QED BY <2>1, <2>6
<1>6. PICK g : Good(g, Len(q))
  BY <1>1, <1>5
<1>7. \A w \in W : g[w] = Narrow(q, t, g, w)
  BY <1>1, <1>2, <1>6
<1> DEFINE f == [w \in W |-> g[w]]
<1>8. \A w \in W : f[w] = g[w]
  OBVIOUS
<1>9. f = [w \in W |-> f[w]]
  OBVIOUS
<1> HIDE DEF f
<1>10. \A w \in W : f[w] = Narrow(q, t, f, w)
  <2> TAKE w \in W
  <2>1. CASE w[1] >= w[2]
    BY <1>7, <1>8, <2>1 DEF Narrow
  <2>2. CASE w[1] < w[2]
    <3> DEFINE a == <<Middle(w) + 1, w[2]>>
               b == <<w[1], Middle(w)>>
    <3>1. a \in W /\ b \in W
      BY <1>1, <1>2, <2>2, Halves
    <3>2. f[a] = g[a] /\ f[b] = g[b]
      BY <1>8, <3>1
    <3> QED BY <1>7, <1>8, <3>2 DEF Narrow
  <2> QED BY <1>1, <1>2, <2>1, <2>2
<1>11. f = [w \in W |-> Narrow(q, t, f, w)]
  BY <1>9, <1>10
<1> QED BY <1>11 DEF W

(* The model's search is such a function.                                  *)
LEMMA SearchTakesSteps ==
  ASSUME NEW q \in Seq(Slot), NEW t
  PROVE  \E f : /\ \A w \in Windows(q) : f[w] = Narrow(q, t, f, w)
                /\ SortedInsertPos(q, t) = f[<<0, Len(q)>>]
<1> DEFINE search[w \in (0..Len(q)) \X (0..Len(q))] ==
             LET lo  == w[1]
                 hi  == w[2]
                 mid == lo + (hi - lo) \div 2
             IN  IF lo >= hi THEN lo
                 ELSE IF TsCmp(ts[q[mid + 1]], t) < 0
                 THEN search[<<mid + 1, hi>>]
                 ELSE search[<<lo, mid>>]
<1>1. SortedInsertPos(q, t) = search[<<0, Len(q)>>]
  BY DEF SortedInsertPos
<1>2. \E f : f = [w \in Windows(q) |-> Narrow(q, t, f, w)]
  BY SearchIsDefined
<1>3. \E f : f = [w \in (0..Len(q)) \X (0..Len(q)) |->
                    LET lo  == w[1]
                        hi  == w[2]
                        mid == lo + (hi - lo) \div 2
                    IN  IF lo >= hi THEN lo
                        ELSE IF TsCmp(ts[q[mid + 1]], t) < 0
                        THEN f[<<mid + 1, hi>>]
                        ELSE f[<<lo, mid>>]]
  BY <1>2 DEF Windows, Narrow, Middle
<1>4. search = [w \in (0..Len(q)) \X (0..Len(q)) |->
                    LET lo  == w[1]
                        hi  == w[2]
                        mid == lo + (hi - lo) \div 2
                    IN  IF lo >= hi THEN lo
                        ELSE IF TsCmp(ts[q[mid + 1]], t) < 0
                        THEN search[<<mid + 1, hi>>]
                        ELSE search[<<lo, mid>>]]
  BY <1>3 DEF search
<1> HIDE DEF search
<1>5. \A w \in Windows(q) : search[w] = Narrow(q, t, search, w)
  BY <1>4 DEF Windows, Narrow, Middle
<1> QED BY <1>1, <1>5

(* What the loop keeps: the entry before lo is older than t, the entry at  *)
(* hi is not.                                                              *)
Between(q, t, w) ==
  /\ w[1] <= w[2]
  /\ w[1] > 0 => TsCmp(ts[q[w[1]]], t) < 0
  /\ w[2] < Len(q) => TsCmp(ts[q[w[2] + 1]], t) >= 0

(* Whatever the order of the index, the loop leaves a place between an     *)
(* older entry and one that is not.                                        *)
LEMMA SearchFindsAPlace ==
  ASSUME NEW q \in Seq(Slot), NEW t \in Timestamp, ts \in [Slot -> Timestamp]
  PROVE  /\ SortedInsertPos(q, t) \in 0..Len(q)
         /\ IsInsertPos(q, t, SortedInsertPos(q, t))
<1> DEFINE W == Windows(q)
<1>1. PICK f : /\ \A w \in W : f[w] = Narrow(q, t, f, w)
               /\ SortedInsertPos(q, t) = f[<<0, Len(q)>>]
  BY SearchTakesSteps
<1> DEFINE Found(w) == f[w] \in 0..Len(q) /\ IsInsertPos(q, t, f[w])
           Bad == {n \in Nat : \E w \in W : /\ w[2] - w[1] = n
                                             /\ Between(q, t, w)
                                             /\ ~ Found(w)}
<1>2. Len(q) \in Nat /\ W = (0..Len(q)) \X (0..Len(q))
  BY LenProperties DEF Windows
<1>3. \A i \in 1..Len(q) : TsCmp(ts[q[i]], t) \in Int
  <2> TAKE i \in 1..Len(q)
  <2>1. ts[q[i]] \in Timestamp
    BY ElementOfSeq
  <2> QED BY <2>1, HalfAssumption DEF TsCmp, Timestamp, Modulus
<1>4. \A w \in W : w[1] \in 0..Len(q) /\ w[2] \in 0..Len(q)
  BY <1>2
<1> HIDE DEF W
<1>5. Bad = {}
  <2> SUFFICES ASSUME Bad # {} PROVE FALSE
    OBVIOUS
  <2>1. PICK n \in Bad : \A m \in Bad : ~ (m < n)
    BY SmallestOne
  <2>2. PICK w \in W : w[2] - w[1] = n /\ Between(q, t, w) /\ ~ Found(w)
    BY <2>1
  <2>3. \A v \in W : /\ v[1] <= v[2]
                     /\ v[2] - v[1] < n
                     /\ Between(q, t, v)
                     => Found(v)
    <3> SUFFICES ASSUME NEW v \in W, v[1] <= v[2], v[2] - v[1] < n,
                        Between(q, t, v), ~ Found(v)
                 PROVE  FALSE
      OBVIOUS
    <3>1. v[2] - v[1] \in Nat
      BY <1>2, <1>4
    <3>2. v[2] - v[1] \in Bad
      BY <3>1
    <3> QED BY <2>1, <3>2
  <2>6. f[w] = Narrow(q, t, f, w) /\ w[1] \in Int /\ w[2] \in Int
    BY <1>1, <1>4
  <2>4. CASE w[1] = w[2]
    <3>1. f[w] = w[1]
      BY <2>4, <2>6 DEF Narrow
    <3>2. Found(w)
      BY <1>4, <2>2, <2>4, <3>1 DEF Between, IsInsertPos
    <3> QED BY <2>2, <3>2
  <2>5. CASE w[1] < w[2]
    <3> DEFINE mid == Middle(w)
               a == <<mid + 1, w[2]>>
               b == <<w[1], mid>>
    <3>1. /\ mid \in 0..Len(q) /\ mid + 1 \in 1..Len(q)
          /\ a \in W /\ b \in W
          /\ w[1] <= mid /\ mid < w[2]
          /\ w[2] - (mid + 1) < n /\ mid - w[1] < n
      BY <1>2, <1>4, <2>2, <2>5, Halves
    <3> HIDE DEF mid
    <3>2. CASE TsCmp(ts[q[mid + 1]], t) < 0
      <4>1. f[w] = f[a]
        BY <2>5, <2>6, <3>2 DEF Narrow, mid
      <4>2. Between(q, t, a) /\ a[1] <= a[2] /\ a[2] - a[1] < n
        BY <1>4, <2>2, <3>1, <3>2 DEF Between
      <4> QED BY <2>2, <2>3, <3>1, <4>1, <4>2
    <3>3. CASE TsCmp(ts[q[mid + 1]], t) >= 0
      <4>1. f[w] = f[b]
        <5>1. ~ (TsCmp(ts[q[mid + 1]], t) < 0)
          BY <1>3, <3>1, <3>3
        <5> QED BY <2>5, <2>6, <5>1 DEF Narrow, mid
      <4>2. Between(q, t, b) /\ b[1] <= b[2] /\ b[2] - b[1] < n
        BY <1>4, <2>2, <3>1, <3>3 DEF Between
      <4> QED BY <2>2, <2>3, <3>1, <4>1, <4>2
    <3> QED BY <1>3, <3>1, <3>2, <3>3
  <2> QED BY <1>2, <1>4, <2>2, <2>4, <2>5 DEF Between
<1>6. <<0, Len(q)>> \in W /\ Between(q, t, <<0, Len(q)>>)
  BY <1>2 DEF Between
<1>7. Found(<<0, Len(q)>>)
  <2> SUFFICES ASSUME ~ Found(<<0, Len(q)>>) PROVE FALSE
    OBVIOUS
  <2>1. Len(q) \in Bad
    BY <1>2, <1>6
  <2> QED BY <1>5, <2>1
<1> QED BY <1>1, <1>7

(* The search of the index is right in every reachable state, for every    *)
(* timestamp: it stays in the index and stops between an older entry and   *)
(* one that is not.                                                        *)
THEOREM SearchIsRight == Spec => []BinarySearchIsRight
<1>1. ASSUME IInv PROVE BinarySearchIsRight
  <2>1. sorted \in Seq(Slot) /\ ts \in [Slot -> Timestamp]
    BY <1>1 DEF IInv, TypeOK
  <2> QED BY <2>1, SearchFindsAPlace DEF BinarySearchIsRight
<1> QED BY <1>1, Invariance, PTL

(* In an ascending index there is one place for a timestamp.               *)
LEMMA OnePlace ==
  ASSUME NEW q \in Seq(Slot), ts \in [Slot -> Timestamp], NEW o \in Timestamp,
         NEW k \in Timestamp, InOrder(q, ts), Windowed(q, ts, o),
         OffsetFrom(o, k) < Span,
         NEW a \in 0..Len(q), NEW b \in 0..Len(q),
         IsInsertPos(q, k, a), IsInsertPos(q, k, b)
  PROVE  a = b
<1>1. ASSUME NEW x \in 0..Len(q), NEW y \in 0..Len(q), x < y,
             IsInsertPos(q, k, x), IsInsertPos(q, k, y)
      PROVE  FALSE
  <2> DEFINE i == x + 1
             d(n) == OffsetFrom(o, ts[q[n]])
             e == OffsetFrom(o, k)
  <2>1. Len(q) \in Nat /\ i \in 1..Len(q) /\ y \in 1..Len(q) /\ i <= y
    BY <1>1, LenProperties
  <2>2. /\ TsCmp(ts[q[i]], k) >= 0 /\ TsCmp(ts[q[y]], k) < 0
        /\ i < y => TsCmp(ts[q[i]], ts[q[y]]) <= 0
    BY <1>1, <2>1 DEF IsInsertPos, InOrder
  <2>3. /\ ts[q[i]] \in Timestamp /\ ts[q[y]] \in Timestamp
        /\ d(i) \in Nat /\ d(y) \in Nat /\ e \in Nat
        /\ d(i) < Half /\ d(y) < Half /\ e < Half
    <3>1. ts[q[i]] \in Timestamp /\ ts[q[y]] \in Timestamp
      BY <2>1, ElementOfSeq
    <3>2. d(i) \in Nat /\ d(y) \in Nat /\ e \in Nat
      BY <3>1, OffsetRange, TimestampIsNat
    <3>3. d(i) < Span /\ d(y) < Span
      BY <2>1 DEF Windowed
    <3>4. Span \in 1..Half /\ Half \in Nat
      BY HalfAssumption, AudioBufferAssumption
    <3> QED BY <3>1, <3>2, <3>3, <3>4
  <2>4. /\ TsCmp(ts[q[i]], k) = d(i) - e /\ TsCmp(ts[q[y]], k) = d(y) - e
        /\ TsCmp(ts[q[i]], ts[q[y]]) = d(i) - d(y)
    BY <2>3, CompareOffsets
  <2> HIDE DEF d, e
  <2>5. CASE i = y
    BY <2>2, <2>3, <2>4, <2>5
  <2>6. CASE i < y
    BY <2>2, <2>3, <2>4, <2>6
  <2> QED BY <2>1, <2>3, <2>5, <2>6
<1> QED BY <1>1, LenProperties

(* What queue_chunk does with a chunk that finds a slot, in terms of the   *)
(* search itself.                                                          *)
StoresWhereSearched ==
  LET full  == Len(sorted) >= Capacity
      kept  == IF full THEN Tail(sorted) ELSE sorted
      stack == IF full THEN Append(freeStack, Head(sorted)) ELSE freeStack
  IN  QueueChunk /\ stack # <<>>
        => sorted' = Insert(kept, SortedInsertPos(kept, packet.ts), stack[Len(stack)])

(* QueueChunk only says between which entries a frame goes; in the states  *)
(* the buffer reaches that is the one place the binary search finds.       *)
THEOREM SearchDecides == Spec => [][StoresWhereSearched]_vars
<1>1. IInv /\ [Next]_vars => [StoresWhereSearched]_vars
  <2> SUFFICES ASSUME IInv PROVE StoresWhereSearched
    OBVIOUS
  <2> DEFINE full == Len(sorted) >= Capacity
             q == IF full THEN Tail(sorted) ELSE sorted
             f == IF full THEN Append(freeStack, Head(sorted)) ELSE freeStack
             slot == f[Len(f)]
             place == SortedInsertPos(q, packet.ts)
  <2> SUFFICES ASSUME QueueChunk, f # <<>> PROVE sorted' = Insert(q, place, slot)
    BY DEF StoresWhereSearched
  <2>1. \E pos \in 0..Len(q) : IsInsertPos(q, packet.ts, pos) /\ sorted' = Insert(q, pos, slot)
    BY DEF QueueChunk
  <2>2. packet.left > 0 /\ q \in Seq(Slot) /\ InOrder(q, ts) /\ Windowed(q, ts, base)
    BY OverflowBranch DEF QueueChunk
  <2>3. /\ packet.ts \in Timestamp /\ base \in Timestamp /\ ts \in [Slot -> Timestamp]
        /\ packet.left \in Nat /\ Span \in Nat
        /\ OffsetFrom(base, packet.ts) + packet.left <= Span
    BY <2>2, AudioBufferAssumption, HalfAssumption DEF IInv, TypeOK, PacketInWindow
  <2>4. OffsetFrom(base, packet.ts) < Span
    <3>1. OffsetFrom(base, packet.ts) \in Nat
      BY <2>3, OffsetRange, TimestampIsNat
    <3> QED BY <2>2, <2>3, <3>1
  <2>5. place \in 0..Len(q) /\ IsInsertPos(q, packet.ts, place)
    BY <2>2, <2>3, SearchFindsAPlace
  <2> HIDE DEF q, place, slot
  <2> QED BY <2>1, <2>2, <2>3, <2>4, <2>5, OnePlace
<1> QED BY <1>1, Invariance, PTL DEF Spec

(* Only the drain loop of audio_buffer_flush takes a token from a frame    *)
(* that is still queued; queue_chunk, take and return never do.            *)
THEOREM StrandingIsTheDrains == Spec => OnlyDrainStrandsFrames
<1>1. IInv /\ [Next]_vars =>
        [Unreachable' > 0 /\ Unreachable' > Unreachable
           => \E t \in Flusher \cup {Playback} : DrainToken(t)]_vars
  <2> SUFFICES ASSUME IInv, Next,
                      ~ \E t \in Flusher \cup {Playback} : DrainToken(t)
               PROVE  Unreachable' <= 0 \/ Unreachable' <= Unreachable
    <3>1. ASSUME IInv PROVE Unreachable \in Int
      BY <3>1, Sizes, CapacityIsPositive DEF Unreachable, InFlight, IInv, TypeOK
    <3>2. ASSUME IInv' PROVE Unreachable' \in Int
      <4>1. Len(sorted') \in Nat /\ dataReady' \in 0..Capacity
        BY <3>2, LenProperties DEF IInv, TypeOK
      <4> QED BY <4>1, CapacityIsPositive DEF Unreachable, InFlight
    <3> QED BY <3>1, <3>2, NextKeeps
  <2>1. /\ Len(sorted) \in Nat /\ Len(sorted) <= Capacity
        /\ dataReady \in 0..Capacity /\ Capacity \in Nat \ {0}
        /\ sorted \in Seq(Slot) /\ freeStack \in Seq(Slot)
        /\ pc \in [Task -> {"idle", "give", "took", "drain"}]
    BY Sizes, CapacityIsPositive DEF IInv, TypeOK
  <2>2. /\ Decoder \in Task /\ Playback \in Task /\ Decoder # Playback
        /\ \A t \in Flusher \cup {Playback} : t \in Task /\ t # Decoder
        /\ \A t \in Flusher : t # Playback
    BY AudioBufferAssumption DEF Task
  <2>3. CASE AdvanceBase
    BY <2>1, <2>3 DEF AdvanceBase, Unreachable, InFlight
  <2>4. ASSUME NEW offset \in 0..(Span - 1), NEW chunks \in 1..MaxChunks,
               ReceivePacket(offset, chunks)
        PROVE  Unreachable' <= Unreachable
    BY <2>1, <2>4 DEF ReceivePacket, Unreachable, InFlight
  <2>5. CASE QueueChunk
    <3> DEFINE full == Len(sorted) >= Capacity
               q == IF full THEN Tail(sorted) ELSE sorted
               f == IF full THEN Append(freeStack, Head(sorted)) ELSE freeStack
               slot == f[Len(f)]
    <3>1. q \in Seq(Slot) /\ f \in Seq(Slot)
      BY OverflowBranch
    <3>2. \/ UNCHANGED <<sorted, dataReady, pc>>
          \/ /\ f # <<>>
             /\ \E pos \in 0..Len(q) : sorted' = Insert(q, pos, slot)
             /\ dataReady' = IF full /\ dataReady > 0 THEN dataReady - 1 ELSE dataReady
             /\ pc' = [pc EXCEPT ![Decoder] = "give"] /\ pc[Decoder] = "idle"
      BY <2>5 DEF QueueChunk
    <3>3. IF full THEN Len(q) = Len(sorted) - 1 ELSE Len(q) = Len(sorted)
      <4>1. CASE full
        <5>1. sorted # <<>> /\ q = Tail(sorted)
          BY <2>1, <4>1
        <5> QED BY <2>1, <4>1, <5>1, HeadTailProperties
      <4>2. CASE ~full
        BY <4>2
      <4> QED BY <4>1, <4>2
    <3> HIDE DEF q, f, slot
    <3>4. CASE UNCHANGED <<sorted, dataReady, pc>>
      BY <2>1, <3>4 DEF Unreachable, InFlight
    <3>5. CASE f # <<>> /\ ~UNCHANGED <<sorted, dataReady, pc>>
      <4>1. PICK pos \in 0..Len(q) : sorted' = Insert(q, pos, slot)
        BY <3>2, <3>5
      <4>2. slot \in Slot
        BY <3>1, <3>5, EmptySeq, ElementOfSeq, LenProperties DEF slot
      <4>3. Len(sorted') = Len(q) + 1
        BY <3>1, <4>1, <4>2, InsertLength
      <4>4. InFlight' = InFlight + 1
        BY <2>1, <2>2, <3>2, <3>5 DEF InFlight
      <4>5. InFlight \in 0..2
        BY DEF InFlight
      <4> QED BY <2>1, <3>2, <3>3, <3>5, <4>3, <4>4, <4>5 DEF Unreachable
    <3> QED BY <3>2, <3>4, <3>5
  <2>6. CASE GiveToken
    <3>1. InFlight' = InFlight - 1 /\ InFlight \in 1..2
      BY <2>1, <2>2, <2>6 DEF GiveToken, InFlight
    <3>2. /\ sorted' = sorted
          /\ dataReady' = IF dataReady < Capacity THEN dataReady + 1 ELSE dataReady
      BY <2>6 DEF GiveToken
    <3> QED BY <2>1, <3>1, <3>2 DEF Unreachable
  <2>7. CASE TakeToken
    BY <2>1, <2>2, <2>7 DEF TakeToken, Unreachable, InFlight
  <2>8. CASE TakeFrame
    <3>1. CASE sorted = <<>>
      BY <2>1, <2>2, <2>8, <3>1 DEF TakeFrame, Unreachable, InFlight
    <3>2. CASE sorted # <<>>
      <4>1. Len(sorted') = Len(sorted) - 1
        BY <2>1, <2>8, <3>2, HeadTailProperties DEF TakeFrame
      <4> QED BY <2>1, <2>2, <2>8, <4>1 DEF TakeFrame, Unreachable, InFlight
    <3> QED BY <3>1, <3>2
  <2>9. CASE ReturnFrame
    BY <2>1, <2>9 DEF ReturnFrame, Unreachable, InFlight
  <2>10. ASSUME NEW t \in Flusher \cup {Playback}, FlushIndex(t)
         PROVE  Unreachable' <= 0
    <3>1. Len(sorted') = 0 /\ dataReady' = dataReady
      BY <2>10 DEF FlushIndex
    <3> QED BY <2>1, <3>1 DEF Unreachable, InFlight
  <2>11. ASSUME NEW t \in Flusher \cup {Playback}, DrainDone(t)
         PROVE  Unreachable' <= Unreachable
    <3>1. UNCHANGED <<sorted, dataReady>> /\ InFlight' = InFlight /\ InFlight \in 0..2
      BY <2>1, <2>2, <2>11 DEF DrainDone, InFlight
    <3> QED BY <2>1, <3>1 DEF Unreachable
  <2> QED BY <2>3, <2>4, <2>5, <2>6, <2>7, <2>8, <2>9, <2>10, <2>11 DEF Next
<1> QED BY <1>1, Invariance, PTL DEF Spec, OnlyDrainStrandsFrames

-----------------------------------------------------------------------------
(***************************************************************************)
(* The audio buffer implements the jitter queue, for any pool and any      *)
(* interleaving: each step of AudioBuffer is one step of JitterQueue or    *)
(* leaves the queue alone.                                                 *)
(*                                                                         *)
(*   QueueChunk, room in the index      Enqueue                            *)
(*   QueueChunk, index full             Replace                            *)
(*   QueueChunk, the player holds the                                      *)
(*     last free slot                   stutter: the packet is refused     *)
(*   TakeFrame                          TakeOldest, or stutter when empty  *)
(*   ReturnFrame                        Release                            *)
(*   FlushIndex                         Clear                              *)
(*   everything else                    stutter                            *)
(***************************************************************************)

(* The abstract frames stored in a set of slots.                           *)
Frames(S, t) == {<<s, t[s]>> : s \in S}

(* --------------------------- about frames ------------------------------ *)

(* The queue compares timestamps as the buffer does.                       *)
LEMMA SameClock ==
  /\ \A a, b : Queue!TsCmp(a, b) = TsCmp(a, b)
  /\ Queue!Timestamp = Timestamp
  /\ \A S : Queue!Cardinality(S) = Cardinality(S)
BY DEF Queue!TsCmp, TsCmp, Queue!Timestamp, Timestamp, Queue!Modulus, Modulus,
       Queue!Cardinality, Cardinality

(* The queue is as long as the index, although slots may share timestamps. *)
LEMMA FramesSize ==
  ASSUME NEW q \in Seq(Slot), NEW t, NoRepeats(q)
  PROVE  Cardinality(Frames(Entries(q), t)) = Len(q)
<1> DEFINE F == Frames(Entries(q), t)
           g == [i \in 1..Len(q) |-> <<q[i], t[q[i]]>>]
<1>1. /\ Len(q) \in Nat
      /\ IsFiniteSet(1..Len(q)) /\ Cardinality(1..Len(q)) = Len(q)
  <2>1. Len(q) \in Nat
    BY LenProperties
  <2> QED BY <2>1, FS_Interval
<1>2. g \in [1..Len(q) -> F]
  BY DEF Frames, Entries
<1>3. \A f \in F : \E i \in 1..Len(q) : g[i] = f
  BY DEF Frames, Entries
<1>4. g \in Surjection(1..Len(q), F)
  BY <1>2, <1>3 DEF Surjection
<1>5. \A i, j \in 1..Len(q) : g[i] = g[j] => i = j
  BY DEF NoRepeats
<1>6. g \in Injection(1..Len(q), F)
  BY <1>2, <1>5 DEF Injection, IsInjective
<1> HIDE DEF F, g
<1>7. Cardinality(F) = Cardinality(1..Len(q))
  BY <1>1, <1>4, <1>6, FS_Surjection
<1> QED BY <1>1, <1>7 DEF F

(* A slot outside S may be stamped without changing the frames of S.       *)
LEMMA StampOther ==
  ASSUME NEW S, NEW t, NEW u, \A r \in S : u[r] = t[r]
  PROVE  Frames(S, u) = Frames(S, t)
BY DEF Frames

(* The head of an index in order is an oldest frame, and taking it leaves  *)
(* the frames of the tail.  The window is needed: of two timestamps half   *)
(* the range apart, each is before the other.                              *)
LEMMA HeadIsOldest ==
  ASSUME NEW q \in Seq(Slot), NEW t \in [Slot -> Timestamp],
         NEW o \in Timestamp, q # <<>>,
         NoRepeats(q), InOrder(q, t), Windowed(q, t, o)
  PROVE  LET old == <<Head(q), t[Head(q)]>>
         IN  /\ old \in Queue!Oldest(Frames(Entries(q), t))
             /\ Frames(Entries(Tail(q)), t) = Frames(Entries(q), t) \ {old}
<1> DEFINE old == <<Head(q), t[Head(q)]>>
           F == Frames(Entries(q), t)
<1>1. /\ Head(q) = q[1] /\ Len(q) \in Nat \ {0} /\ 1 \in 1..Len(q)
      /\ \A i \in 1..Len(q) : q[i] \in Slot
  BY HeadTailProperties, EmptySeq, LenProperties, ElementOfSeq
<1>2. /\ Entries(q) = Entries(Tail(q)) \cup {Head(q)}
      /\ Head(q) \notin Entries(Tail(q))
  BY TailPool
<1>3. old \in F
  BY <1>2 DEF Frames
<1>4. \A i \in 1..Len(q) : TsCmp(t[q[i]], t[Head(q)]) >= 0
  <2> TAKE i \in 1..Len(q)
  <2> DEFINE di == OffsetFrom(o, t[q[i]])
             d1 == OffsetFrom(o, t[q[1]])
  <2>1. t[q[i]] \in Timestamp /\ t[q[1]] \in Timestamp
    BY <1>1
  <2>2. di \in Nat /\ d1 \in Nat
    BY <2>1, OffsetRange, TimestampIsNat
  <2>3. di < Half /\ d1 < Half
    <3>1. di < Span /\ d1 < Span
      BY <1>1 DEF Windowed
    <3> QED BY <2>2, <3>1, AudioBufferAssumption, HalfAssumption
  <2>4. /\ TsCmp(t[q[1]], t[q[i]]) = d1 - di
        /\ TsCmp(t[q[i]], t[q[1]]) = di - d1
    BY <2>1, <2>3, CompareOffsets
  <2> HIDE DEF di, d1
  <2>5. i = 1 \/ TsCmp(t[q[1]], t[q[i]]) <= 0
    BY <1>1 DEF InOrder
  <2> QED BY <1>1, <2>2, <2>4, <2>5
<1>5. \A g \in F : TsCmp(g[2], old[2]) >= 0
  BY <1>4 DEF Frames, Entries
<1>6. old \in Queue!Oldest(F)
  BY <1>3, <1>5, SameClock DEF Queue!Oldest
<1>7. Frames(Entries(Tail(q)), t) = F \ {old}
  BY <1>2 DEF Frames
<1> QED BY <1>6, <1>7

(* ---------------------------- the steps -------------------------------- *)

(* The refinement mapping, by name.                                        *)
Queued == Frames(Filled, ts)

Playing == Frames(held, ts)

(* A full index leaves no slot to the player.                              *)
LEMMA PoolFacts ==
  ASSUME IInv
  PROVE  /\ sorted \in Seq(Slot) /\ NoRepeats(sorted)
         /\ Filled \in SUBSET Slot /\ held \in SUBSET Slot
         /\ Filled \cap held = {}
         /\ ts \in [Slot -> Timestamp] /\ base \in Timestamp
         /\ Cardinality(Queued) = Len(sorted)
         /\ Len(sorted) >= Capacity => held = {} /\ Len(sorted) = Capacity
<1>1. /\ sorted \in Seq(Slot) /\ NoRepeats(sorted)
      /\ Filled \in SUBSET Slot /\ held \in SUBSET Slot
      /\ Filled \cap held = {}
      /\ ts \in [Slot -> Timestamp] /\ base \in Timestamp
  BY DEF IInv, TypeOK, SlotConservation, Partition, Filled
<1>2. Cardinality(Queued) = Len(sorted)
  BY <1>1, FramesSize DEF Queued, Filled
<1>3. ASSUME Len(sorted) >= Capacity
      PROVE  held = {} /\ Len(sorted) = Capacity
  <2>1. /\ Len(sorted) = Capacity /\ Cardinality(held) = 0
    BY <1>3, Sizes, CapacityIsPositive
  <2>2. ASSUME NEW s \in Slot, held = {s}
        PROVE  FALSE
    <3>1. Cardinality({s}) = 1
      BY FS_Singleton
    <3> QED BY <2>1, <2>2, <3>1
  <2> QED BY <2>1, <2>2 DEF IInv, PlayerHolds
<1> QED BY <1>1, <1>2, <1>3

LEMMA InitRefines == Init => Queue!Init
BY DEF Init, Queue!Init, Filled, Entries

(* A step that moves no slot and stamps none is a stutter of the queue.    *)
LEMMA StutterRefines ==
  ASSUME UNCHANGED <<sorted, ts, held>>
  PROVE  UNCHANGED Queue!queueVars
BY DEF Queue!queueVars, Filled, Entries

LEMMA QueueChunkRefines ==
  ASSUME IInv, QueueChunk
  PROVE  Queue!Next \/ UNCHANGED Queue!queueVars
<1> DEFINE full == Len(sorted) >= Capacity
           q == IF full THEN Tail(sorted) ELSE sorted
           f == IF full THEN Append(freeStack, Head(sorted)) ELSE freeStack
           slot == f[Len(f)]
<1>1. /\ held' = held
      /\ \/ UNCHANGED <<sorted, ts>>
         \/ /\ f # <<>>
            /\ ts' = [ts EXCEPT ![slot] = packet.ts]
            /\ \E pos \in 0..Len(q) : sorted' = Insert(q, pos, slot)
  BY DEF QueueChunk
<1>2. q \in Seq(Slot) /\ f \in Seq(Slot) /\ Partition(q, f, held) /\ Accounted(q, f, held)
  BY OverflowBranch
<1>3. packet.ts \in Timestamp
  BY DEF IInv, TypeOK
<1>4. Cardinality(held) \in Nat
  BY Sizes
<1> HIDE DEF q, f, slot
<1>5. CASE UNCHANGED <<sorted, ts>>
  BY <1>1, <1>5, StutterRefines
<1>6. CASE ~UNCHANGED <<sorted, ts>>
  <2>1. PICK pos \in 0..Len(q) : sorted' = Insert(q, pos, slot)
    BY <1>1, <1>6
  <2>2. f # <<>> /\ ts' = [ts EXCEPT ![slot] = packet.ts]
    BY <1>1, <1>6
  <2>3. /\ slot \in Slot /\ slot \notin Entries(q)
        /\ Filled' = Entries(q) \cup {slot}
    BY <1>2, <1>4, <2>1, <2>2, InsertPool DEF slot, Filled
  <2>4. slot \notin held
    <3>1. slot \in Entries(f)
      BY <1>2, <2>2, EmptySeq, LenProperties DEF Entries, slot
    <3> QED BY <1>2, <3>1 DEF Partition
  <2>5. Entries(q) \in SUBSET Slot /\ held \in SUBSET Slot /\ ts \in [Slot -> Timestamp]
    BY <1>2, PoolFacts DEF Partition
  <2>6. PICK new \in Slot \X Queue!Timestamp : new = <<slot, packet.ts>>
    BY <1>3, <2>3, SameClock
  <2>7. Queued' = Frames(Entries(q), ts) \cup {new}
    <3>1. Queued' = Frames(Entries(q), ts') \cup {<<slot, ts'[slot]>>}
      BY <2>3 DEF Queued, Frames
    <3>2. ts'[slot] = packet.ts /\ \A r \in Entries(q) : ts'[r] = ts[r]
      BY <2>2, <2>3, <2>5
    <3>3. Frames(Entries(q), ts') = Frames(Entries(q), ts)
      BY <3>2, StampOther
    <3> QED BY <2>6, <3>1, <3>2, <3>3
  <2>8. Playing' = Playing
    <3>1. \A r \in held : ts'[r] = ts[r]
      BY <2>2, <2>3, <2>4, <2>5
    <3>2. Frames(held, ts') = Frames(held, ts)
      BY <3>1, StampOther
    <3> QED BY <1>1, <3>2 DEF Playing
  <2>9. \A g \in Frames(Entries(q), ts) \cup Playing : g[1] # new[1]
    BY <2>3, <2>4, <2>6 DEF Frames, Playing
  <2>10. CASE ~full
    <3>1. Queued = Frames(Entries(q), ts)
      BY <2>10 DEF Queued, Filled, q
    <3>2. Cardinality(Queued) < Capacity
      BY <2>10, PoolFacts, Sizes, CapacityIsPositive
    <3>3. Queue!Enqueue(new)
      BY <2>7, <2>8, <2>9, <3>1, <3>2, SameClock
         DEF Queue!Enqueue, Queue!Fresh, Queued, Playing, Frames
    <3> QED BY <3>3 DEF Queue!Next
  <2>11. CASE full
    <3> DEFINE old == <<Head(sorted), ts[Head(sorted)]>>
    <3>1. sorted # <<>> /\ q = Tail(sorted)
      <4>1. Len(sorted) # 0
        BY <2>11, CapacityIsPositive
      <4> QED BY <2>11, <4>1 DEF q
    <3>2. /\ old \in Queue!Oldest(Queued)
          /\ Frames(Entries(q), ts) = Queued \ {old}
      BY <3>1, PoolFacts, HeadIsOldest DEF Queued, Filled, IInv, Ascending
    <3>3. Cardinality(Queued) = Capacity
      BY <2>11, PoolFacts
    <3> HIDE DEF old
    <3>4. \E out \in Queue!Oldest(Queued) :
            /\ \A g \in (Queued \ {out}) \cup Playing : g[1] # new[1]
            /\ Queued' = (Queued \ {out}) \cup {new}
      BY <2>7, <2>9, <3>2
    <3>5. Queue!Replace(new)
      BY <2>8, <3>3, <3>4, SameClock
         DEF Queue!Replace, Queue!Fresh, Queued, Playing, Frames
    <3> QED BY <3>5 DEF Queue!Next
  <2> QED BY <2>10, <2>11
<1> QED BY <1>5, <1>6

LEMMA TakeFrameRefines ==
  ASSUME IInv, TakeFrame
  PROVE  Queue!Next \/ UNCHANGED Queue!queueVars
<1>1. CASE sorted = <<>>
  BY <1>1, StutterRefines DEF TakeFrame
<1>2. CASE sorted # <<>>
  <2> DEFINE old == <<Head(sorted), ts[Head(sorted)]>>
  <2>1. held = {} /\ held' = {Head(sorted)} /\ sorted' = Tail(sorted) /\ ts' = ts
    BY <1>2 DEF TakeFrame, IInv, PlayerHolds
  <2>2. /\ old \in Queue!Oldest(Queued)
        /\ Frames(Entries(Tail(sorted)), ts) = Queued \ {old}
    BY <1>2, PoolFacts, HeadIsOldest DEF Queued, Filled, IInv, Ascending
  <2>3. Playing = {}
    BY <2>1 DEF Playing, Frames
  <2>4. Queued' = Queued \ {old} /\ Playing' = {old}
    BY <2>1, <2>2 DEF Queued, Playing, Filled, Frames
  <2> HIDE DEF old
  <2>5. \E out \in Queue!Oldest(Queued) : Queued' = Queued \ {out} /\ Playing' = {out}
    BY <2>2, <2>4
  <2>6. Queue!TakeOldest
    BY <2>3, <2>5 DEF Queue!TakeOldest, Queued, Playing, Frames
  <2> QED BY <2>6 DEF Queue!Next
<1> QED BY <1>1, <1>2

LEMMA ReturnFrameRefines ==
  ASSUME IInv, ReturnFrame
  PROVE  Queue!Next
<1>1. held # {} /\ held' = {} /\ sorted' = sorted /\ ts' = ts
  BY DEF ReturnFrame
<1>2. Playing # {} /\ Playing' = {} /\ Queued' = Queued
  BY <1>1 DEF Playing, Queued, Filled, Frames, Entries
<1>3. Queue!Release
  BY <1>2 DEF Queue!Release, Queued, Playing, Frames
<1> QED BY <1>3 DEF Queue!Next

LEMMA FlushIndexRefines ==
  ASSUME IInv, NEW t \in Flusher \cup {Playback}, FlushIndex(t)
  PROVE  Queue!Next
<1>1. sorted' = <<>> /\ held' = held /\ ts' = ts
  BY DEF FlushIndex
<1>2. Queued' = {} /\ Playing' = Playing
  BY <1>1 DEF Playing, Queued, Filled, Frames, Entries
<1>3. Queue!Clear
  BY <1>2 DEF Queue!Clear, Queued, Playing, Frames
<1> QED BY <1>3 DEF Queue!Next

LEMMA StepRefines ==
  ASSUME IInv, [Next]_vars
  PROVE  [Queue!Next]_(Queue!queueVars)
<1>1. CASE AdvanceBase
  BY <1>1, StutterRefines DEF AdvanceBase
<1>2. ASSUME NEW offset \in 0..(Span - 1), NEW chunks \in 1..MaxChunks,
             ReceivePacket(offset, chunks)
      PROVE  UNCHANGED Queue!queueVars
  BY <1>2, StutterRefines DEF ReceivePacket
<1>3. CASE QueueChunk
  BY <1>3, QueueChunkRefines
<1>4. CASE GiveToken \/ TakeToken
  BY <1>4, StutterRefines DEF GiveToken, TakeToken
<1>5. CASE TakeFrame
  BY <1>5, TakeFrameRefines
<1>6. CASE ReturnFrame
  BY <1>6, ReturnFrameRefines
<1>7. ASSUME NEW t \in Flusher \cup {Playback}, FlushIndex(t)
      PROVE  Queue!Next
  BY <1>7, FlushIndexRefines
<1>8. ASSUME NEW t \in Flusher \cup {Playback}, DrainToken(t) \/ DrainDone(t)
      PROVE  UNCHANGED Queue!queueVars
  BY <1>8, StutterRefines DEF DrainToken, DrainDone
<1>9. CASE UNCHANGED vars
  BY <1>9, StutterRefines DEF vars
<1> QED BY <1>1, <1>2, <1>3, <1>4, <1>5, <1>6, <1>7, <1>8, <1>9 DEF Next

(* Whatever its tasks interleave, the buffer of audio_buffer.c hands the   *)
(* player an oldest frame, makes room only by dropping an oldest frame,    *)
(* and flushes without touching the frame being played.                    *)
THEOREM BufferIsAJitterQueue == Spec => ImplementsQueue
<1>1. Init => Queue!Init
  BY InitRefines
<1>2. IInv /\ [Next]_vars => [Queue!Next]_(Queue!queueVars)
  BY StepRefines
<1> QED BY <1>1, <1>2, Invariance, PTL DEF Spec, ImplementsQueue, Queue!Spec
=============================================================================
