--------------------------- MODULE RandomSchedule ---------------------------
(***************************************************************************)
(* Tick arithmetic of the provider engine.  A tick is a u32 in the code;   *)
(* MaxTick stands for u32::MAX, so that every checked_add and              *)
(* saturating_add keeps its edge and a small MaxTick lets TLC reach it.    *)
(* NoTick is the None of Option<u32>.                                      *)
(***************************************************************************)
EXTENDS Integers

CONSTANT MaxTick

ASSUME MaxTickAssumption == MaxTick \in Nat

STREAM_COUNT == 3
SEND_LEAD_TICKS == 6
REVEAL_SEND_LEAD_TICKS == 4
REDUNDANT_SEND_LEAD_TICKS == 4
TICK_DATA_PUBLICATION_LEAD_TICKS == 2
STATUS_CONFIRMATIONS_REQUIRED == 3

Ticks == 0 .. MaxTick
NoTick == -1
OptTicks == Ticks \cup {NoTick}
StreamIds == 0 .. STREAM_COUNT - 1

CheckedAdd(t, n) == IF t + n <= MaxTick THEN t + n ELSE NoTick

(* Seeded bug: an addition without its saturation. *)
AddUnsaturated(t, n) == t + n

SaturatingAdd(t, n) == IF t + n <= MaxTick THEN t + n ELSE MaxTick

MaxOf(a, b) == IF a >= b THEN a ELSE b

MinOf(a, b) == IF a <= b THEN a ELSE b

(* The first tick of the stream at or after the given one, None on overflow. *)
NextStreamTick(atOrAfter, stream) ==
    CheckedAdd(atOrAfter,
               (stream + STREAM_COUNT - (atOrAfter % STREAM_COUNT)) % STREAM_COUNT)

=============================================================================
