------------------------------ MODULE RtpTime ------------------------------
(***************************************************************************)
(* RTP timestamps: unsigned integers that wrap around, compared by the     *)
(* sign of their wrapped difference.  The firmware writes the comparison   *)
(* as (int32_t)(a - b) in audio_buffer.c, audio_stream.c, audio_timing.c   *)
(* and audio_receiver.c.                                                   *)
(***************************************************************************)
EXTENDS Integers

CONSTANT Half   \* half of the timestamp range: 2^31 in the firmware

ASSUME HalfAssumption == Half \in Nat \ {0}

Modulus == 2 * Half

Timestamp == 0 .. (Modulus - 1)

(* Brings a value that left 0..Modulus-1 by less than one turn back into   *)
(* it: uint32_t addition and subtraction.                                  *)
Wrap(x) == IF x < 0 THEN x + Modulus
           ELSE IF x >= Modulus THEN x - Modulus
           ELSE x

(* (int32_t)(a - b): negative when a is before b.                          *)
TsCmp(a, b) == LET d == a - b
               IN  IF d >= Half THEN d - Modulus
                   ELSE IF d < -Half THEN d + Modulus
                   ELSE d

(* How far t lies after base, as (uint32_t)(t - base).                     *)
OffsetFrom(base, t) == Wrap(t - base)
=============================================================================
