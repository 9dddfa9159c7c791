---------------------------- MODULE AudioBuffer ----------------------------
(***************************************************************************)
(* The sorted audio buffer of main/audio/audio_buffer.c: a pool of slots,  *)
(* an index of the filled slots in RTP order, a stack of free slots, all   *)
(* three under one spinlock, and a counting semaphore outside that lock.   *)
(*                                                                         *)
(* A critical section is one step.  The semaphore calls made outside it    *)
(* are steps of their own, because other tasks run in between:             *)
(*   - queue_chunk gives its token after it left the lock,                 *)
(*   - take gets its token before it enters the lock,                      *)
(*   - flush drains the tokens, one at a time, after it left the lock.     *)
(*                                                                         *)
(* One task decodes and inserts (audio_stream_realtime.c hands even the    *)
(* retransmitted packets to its receiver task), the playback task takes,   *)
(* returns and flushes, and other tasks flush: the RTSP client task, and   *)
(* the control-port task through audio_receiver_set_anchor_time.           *)
(***************************************************************************)
EXTENDS RtpTime, Sequences, FiniteSets, Functions

CONSTANTS Slot,       \* the pool, MAX_RING_BUFFER_FRAMES slots
          Flusher,    \* the tasks, other than playback, that flush
          Decoder,    \* the task that decodes and inserts
          Playback,   \* the task that takes frames out
          HighWater,  \* back-pressure threshold: capacity * 9 / 10
          MaxChunks,  \* most 352-sample chunks one packet decodes to
          Span        \* timestamps the sender may be spread over

Capacity == Cardinality(Slot)

Task == Flusher \cup {Decoder, Playback}

ASSUME AudioBufferAssumption ==
  /\ IsFiniteSet(Slot)
  /\ Slot # {}
  /\ Decoder # Playback
  /\ {Decoder, Playback} \cap Flusher = {}
  /\ HighWater \in Nat
  /\ MaxChunks \in Nat \ {0}
  /\ HighWater + MaxChunks < Capacity  \* 900 + 12 < 1000
  /\ Span \in 1..Half                  \* frames in flight span under 13 hours

VARIABLES
  sorted,     \* the filled slots, oldest first (sorted[], count)
  freeStack,  \* the free slots, next one last (free_stack[], free_top)
  ts,         \* the RTP timestamp in each slot's header
  dataReady,  \* tokens of the counting semaphore
  held,       \* the slot the playback task took and has not returned
  pc,         \* where each task stands in the operation it runs
  packet,     \* the decoded packet being split: chunks left, next timestamp
  source,     \* the kind of stream the decoder runs: fixed by SETUP
  base        \* oldest timestamp the sender may still send or resend

vars == <<sorted, freeStack, ts, dataReady, held, pc, packet, source, base>>

Entries(q) == {q[i] : i \in 1..Len(q)}

Filled == Entries(sorted)

-----------------------------------------------------------------------------
(* Variant: the search looks at the stored entries only and never returns   *)
(* the position after the last one.                                        *)
SearchStopsEarly(q, t) ==
  LET search[w \in (0..Len(q)) \X (0..Len(q))] ==
        LET lo  == w[1]
            hi  == w[2]
            mid == lo + (hi - lo) \div 2
        IN  IF lo >= hi THEN lo
            ELSE IF TsCmp(ts[q[mid + 1]], t) < 0
            THEN search[<<mid + 1, hi>>]
            ELSE search[<<lo, mid>>]
  IN  IF q = <<>> THEN 0 ELSE search[<<0, Len(q) - 1>>]

(* The binary search of sorted_insert_pos, iteration by iteration: how     *)
(* many entries of q go before a frame stamped t.                          *)
SortedInsertPos(q, t) ==
  LET search[w \in (0..Len(q)) \X (0..Len(q))] ==
        LET lo  == w[1]
            hi  == w[2]
            mid == lo + (hi - lo) \div 2
        IN  IF lo >= hi THEN lo
            ELSE IF TsCmp(ts[q[mid + 1]], t) < 0
            THEN search[<<mid + 1, hi>>]
            ELSE search[<<lo, mid>>]
  IN  search[<<0, Len(q)>>]

(* What the search guarantees even when q is out of order: the entry       *)
(* before the position is older than t, the entry at it is not.            *)
IsInsertPos(q, t, pos) ==
  /\ pos > 0 => TsCmp(ts[q[pos]], t) < 0
  /\ pos < Len(q) => TsCmp(ts[q[pos + 1]], t) >= 0

(* Variant: memmove starts one entry too far.                               *)
InsertOnePast(q, pos, s) ==
  LET p == IF pos < Len(q) THEN pos + 1 ELSE pos
  IN  [i \in 1..(Len(q) + 1) |-> IF i <= p THEN q[i]
                                 ELSE IF i = p + 1 THEN s
                                 ELSE q[i - 1]]

(* memmove and store: slot s becomes entry number pos (from 0) of q.       *)
Insert(q, pos, s) ==
  [i \in 1..(Len(q) + 1) |-> IF i <= pos THEN q[i]
                             ELSE IF i = pos + 1 THEN s
                             ELSE q[i - 1]]

-----------------------------------------------------------------------------
Init == /\ sorted = <<>>
        /\ \E f \in [1..Capacity -> Slot] :
             IsInjective(f) /\ freeStack = f
        /\ ts = [s \in Slot |-> 0]
        /\ dataReady = 0
        /\ held = {}
        /\ pc = [t \in Task |-> "idle"]
        /\ packet = [left |-> 0, ts |-> 0]
        /\ source \in {"realtime", "buffered"}
        /\ base \in Timestamp

(* The sender's clock moves on.  Its distance to what is still queued or   *)
(* being split stays far below half the timestamp range.                   *)
AdvanceBase ==
  /\ \A s \in Filled : ts[s] # base
  /\ packet.left > 0 => packet.ts # base
  /\ base' = Wrap(base + 1)
  /\ UNCHANGED <<sorted, freeStack, ts, dataReady, held, pc, packet, source>>

(* Variant: the reader forgets to wait while the buffer is nearly full.     *)
ReceiveWithoutWaiting(offset, chunks) ==
  /\ pc[Decoder] = "idle"
  /\ packet.left = 0
  /\ offset + chunks <= Span
  /\ packet' = [left |-> chunks, ts |-> Wrap(base + offset)]
  /\ UNCHANGED <<sorted, freeStack, ts, dataReady, held, pc, source, base>>

(* A packet arrives: in order, late or repeated, anywhere in the sender's  *)
(* window.  A buffered stream first waits until the buffer is not nearly   *)
(* full; a realtime stream never waits.                                    *)
ReceivePacket(offset, chunks) ==
  /\ pc[Decoder] = "idle"
  /\ packet.left = 0
  /\ source = "buffered" => Len(sorted) <= HighWater
  /\ offset + chunks <= Span
  /\ packet' = [left |-> chunks, ts |-> Wrap(base + offset)]
  /\ UNCHANGED <<sorted, freeStack, ts, dataReady, held, pc, source, base>>

(* queue_chunk up to portEXIT_CRITICAL, at line 98 or, with no slot free,  *)
(* at line 66.  A full buffer first gives up its oldest frame and one      *)
(* token, if there is one to take.  The eviction loop runs at most once:   *)
(* count never exceeds the capacity.                                       *)
QueueChunk ==
  LET full  == Len(sorted) >= Capacity
      kept  == IF full THEN Tail(sorted) ELSE sorted
      stack == IF full THEN Append(freeStack, Head(sorted)) ELSE freeStack
  IN
  /\ pc[Decoder] = "idle"
  /\ packet.left > 0
  /\ IF stack = <<>>
     THEN /\ packet' = [packet EXCEPT !.left = 0]
          /\ UNCHANGED <<sorted, freeStack, ts, dataReady, pc>>
     ELSE LET slot == stack[Len(stack)]
          IN  /\ freeStack' = SubSeq(stack, 1, Len(stack) - 1)
              /\ ts' = [ts EXCEPT ![slot] = packet.ts]
              /\ \E pos \in 0..Len(kept) :
                   /\ IsInsertPos(kept, packet.ts, pos)
                   /\ sorted' = Insert(kept, pos, slot)
              /\ dataReady' = IF full /\ dataReady > 0
                              THEN dataReady - 1 ELSE dataReady
              /\ packet' = [left |-> packet.left - 1,
                            ts   |-> Wrap(packet.ts + 1)]
              /\ pc' = [pc EXCEPT ![Decoder] = "give"]
  /\ UNCHANGED <<held, source, base>>

(* Variant: the semaphore has no maximum.                                   *)
GiveUnbounded ==
  /\ pc[Decoder] = "give"
  /\ dataReady' = dataReady + 1
  /\ pc' = [pc EXCEPT ![Decoder] = "idle"]
  /\ UNCHANGED <<sorted, freeStack, ts, held, packet, source, base>>

(* Variant: a binary semaphore in place of the counting one.                *)
GiveBinary ==
  /\ pc[Decoder] = "give"
  /\ dataReady' = 1
  /\ pc' = [pc EXCEPT ![Decoder] = "idle"]
  /\ UNCHANGED <<sorted, freeStack, ts, held, packet, source, base>>

(* xSemaphoreGive after the insert.  A semaphore at its maximum stays.     *)
GiveToken ==
  /\ pc[Decoder] = "give"
  /\ dataReady' = IF dataReady < Capacity THEN dataReady + 1 ELSE dataReady
  /\ pc' = [pc EXCEPT ![Decoder] = "idle"]
  /\ UNCHANGED <<sorted, freeStack, ts, held, packet, source, base>>

-----------------------------------------------------------------------------
(* audio_buffer_take: the token first, then the lock.                      *)
TakeToken ==
  /\ pc[Playback] = "idle"
  /\ held = {}
  /\ dataReady > 0
  /\ dataReady' = dataReady - 1
  /\ pc' = [pc EXCEPT ![Playback] = "took"]
  /\ UNCHANGED <<sorted, freeStack, ts, held, packet, source, base>>

(* Variant: the newest frame is taken, the cheap end of the array.          *)
TakeNewest ==
  /\ pc[Playback] = "took"
  /\ IF sorted = <<>>
     THEN UNCHANGED <<sorted, held>>
     ELSE /\ held' = {sorted[Len(sorted)]}
          /\ sorted' = SubSeq(sorted, 1, Len(sorted) - 1)
  /\ pc' = [pc EXCEPT ![Playback] = "idle"]
  /\ UNCHANGED <<freeStack, ts, dataReady, packet, source, base>>

TakeFrame ==
  /\ pc[Playback] = "took"
  /\ IF sorted = <<>>
     THEN UNCHANGED <<sorted, held>>     \* the guard at line 273
     ELSE /\ held' = {Head(sorted)}
          /\ sorted' = Tail(sorted)
  /\ pc' = [pc EXCEPT ![Playback] = "idle"]
  /\ UNCHANGED <<freeStack, ts, dataReady, packet, source, base>>

(* audio_buffer_return.                                                    *)
ReturnFrame ==
  /\ pc[Playback] = "idle"
  /\ \E s \in held : freeStack' = Append(freeStack, s)
  /\ held' = {}
  /\ UNCHANGED <<sorted, ts, dataReady, pc, packet, source, base>>

-----------------------------------------------------------------------------
(* Variant: the slots are freed and count is not reset.                     *)
FlushKeepsIndex(t) ==
  /\ pc[t] = "idle"
  /\ t \in Flusher \/ (t = Playback /\ held = {})
  /\ freeStack' = freeStack \o sorted
  /\ pc' = [pc EXCEPT ![t] = "drain"]
  /\ UNCHANGED <<sorted, ts, dataReady, held, packet, source, base>>

(* audio_buffer_flush: empty the index under the lock, then drain.  The    *)
(* playback task returns its frame before it flushes (audio_timing.c).     *)
FlushIndex(t) ==
  /\ pc[t] = "idle"
  /\ t \in Flusher \/ (t = Playback /\ held = {})
  /\ freeStack' = freeStack \o sorted
  /\ sorted' = <<>>
  /\ pc' = [pc EXCEPT ![t] = "drain"]
  /\ UNCHANGED <<ts, dataReady, held, packet, source, base>>

DrainToken(t) ==
  /\ pc[t] = "drain"
  /\ dataReady > 0
  /\ dataReady' = dataReady - 1
  /\ UNCHANGED <<sorted, freeStack, ts, held, pc, packet, source, base>>

DrainDone(t) ==
  /\ pc[t] = "drain"
  /\ dataReady = 0
  /\ pc' = [pc EXCEPT ![t] = "idle"]
  /\ UNCHANGED <<sorted, freeStack, ts, dataReady, held, packet, source, base>>

-----------------------------------------------------------------------------
Next == \/ AdvanceBase
        \/ \E offset \in 0..(Span - 1), chunks \in 1..MaxChunks :
             ReceivePacket(offset, chunks)
        \/ QueueChunk
        \/ GiveToken
        \/ TakeToken
        \/ TakeFrame
        \/ ReturnFrame
        \/ \E t \in Flusher \cup {Playback} :
             FlushIndex(t) \/ DrainToken(t) \/ DrainDone(t)

Spec == Init /\ [][Next]_vars

-----------------------------------------------------------------------------
TypeOK ==
  /\ sorted \in Seq(Slot)
  /\ freeStack \in Seq(Slot)
  /\ ts \in [Slot -> Timestamp]
  /\ dataReady \in 0..Capacity
  /\ held \in SUBSET Slot
  /\ pc \in [Task -> {"idle", "give", "took", "drain"}]
  /\ packet \in [left : 0..MaxChunks, ts : Timestamp]
  /\ source \in {"realtime", "buffered"}
  /\ base \in Timestamp

(* No slot is lost, stored twice or written while it is read: each slot is *)
(* exactly one of filled, free and held (audio_buffer.c moves slot numbers *)
(* between two arrays and a pointer the player keeps).                     *)
NoRepeats(q) == \A i, j \in 1..Len(q) : q[i] = q[j] => i = j

Partition(q, f, h) ==
  /\ NoRepeats(q)
  /\ NoRepeats(f)
  /\ Entries(q) \cap Entries(f) = {}
  /\ h \cap (Entries(q) \cup Entries(f)) = {}
  /\ Entries(q) \cup Entries(f) \cup h = Slot

SlotConservation == Partition(sorted, freeStack, held)

(* The index is in RTP order whatever order packets came in, across the    *)
(* wrap of the timestamp (sorted_insert_pos assumes it, take relies on it).*)
InOrder(q, t) ==
  \A i, j \in 1..Len(q) : i < j => TsCmp(t[q[i]], t[q[j]]) <= 0

Ascending == InOrder(sorted, ts)

(* Back-pressure works: with a buffered stream, a packet that passed the   *)
(* nearly-full check always finds room for each of its chunks, so that no  *)
(* frame is evicted or refused (audio_stream_buffered.c:102).              *)
BufferedNeverOverflows ==
  source = "buffered" =>
    Len(sorted) + Cardinality(held) + packet.left <= Capacity

(* The loop of sorted_insert_pos returns an insertion position, for every  *)
(* timestamp, even one outside the sender's window.                        *)
BinarySearchIsRight ==
  \A t \in Timestamp :
    /\ SortedInsertPos(sorted, t) \in 0..Len(sorted)
    /\ IsInsertPos(sorted, t, SortedInsertPos(sorted, t))

(* Frames the playback task cannot reach: more filled slots than tokens    *)
(* given, about to be given, or just taken.                                *)
InFlight == (IF pc[Decoder] = "give" THEN 1 ELSE 0)
            + (IF pc[Playback] = "took" THEN 1 ELSE 0)

Unreachable == Len(sorted) - (dataReady + InFlight)

(* Inserting, evicting, taking and returning never strand a frame: in      *)
(* every interleaving only the drain of a flush can take a token away from *)
(* a frame that is still queued.                                           *)
OnlyDrainStrandsFrames ==
  [][Unreachable' > 0 /\ Unreachable' > Unreachable
       => \E t \in Flusher \cup {Playback} : DrainToken(t)]_vars

(* The buffer is a jitter queue.                                           *)
Queue == INSTANCE JitterQueue
           WITH Frame <- Slot,
                queued <- {<<s, ts[s]>> : s \in Filled},
                playing <- {<<s, ts[s]>> : s \in held}

(* The player always gets an oldest frame, a full buffer gives up an       *)
(* oldest frame, and a flush spares the frame being played: the buffer     *)
(* implements the abstract queue, in every interleaving of its tasks.      *)
ImplementsQueue == Queue!Spec
=============================================================================
