--------------------------- MODULE MCAudioBuffer ---------------------------
(* Model-checking instance of AudioBuffer. *)
EXTENDS AudioBuffer, TLC

CONSTANTS s1, s2, s3, s4, rtsp

MCSlot == {s1, s2, s3, s4}
MCFlusher == {rtsp}

(* The pool has no first slot: any renaming of the slots is a symmetry.    *)
SlotSymmetry == Permutations(MCSlot)

(* The code leaves a stale timestamp in a free slot and in a split packet; *)
(* nothing reads it, so states that differ only there are the same state.  *)
LiveView ==
  <<sorted, freeStack, [s \in Filled \cup held |-> ts[s]], dataReady, held, pc,
    packet.left, IF packet.left > 0 THEN packet.ts ELSE 0, source, base>>
=============================================================================
