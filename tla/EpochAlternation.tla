-------------------------- MODULE EpochAlternation --------------------------
(***************************************************************************)
(* The calendar with a memory of the first tick that each epoch showed the *)
(* client, to compare the light node adapter's fallback with.              *)
(***************************************************************************)
EXTENDS EpochCalendar

VARIABLE first    \* history: the first tick seen of each epoch, 0 before

AlternationInit == CalendarInit /\ first = [e \in Epochs |-> 0]

AlternationNext ==
    /\ CalendarNext
    /\ first' = [e \in Epochs |->
                    IF first[e] = 0 /\ seen'.epoch = e THEN seen'.tick ELSE first[e]]

AlternationSpec == AlternationInit /\ [][AlternationNext]_<<calendarVars, first>>

(* Where the node names no initial tick, the client counts the warmup from *)
(* the first tick it observed in that epoch.                               *)
FallbackIsFirstObserved ==
    (kind = "grpc" /\ phase.tag = "Warmup" /\ seen.initialTick # initial[seen.epoch])
        => seen.initialTick = first[seen.epoch]

=============================================================================
