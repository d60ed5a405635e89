---------------------------- MODULE EpochPhases ----------------------------
(***************************************************************************)
(* The epoch phase of the engine and the wall-clock window that ends it.   *)
(* A warmup holds enrolment back after an epoch is first observed; a drain *)
(* begins in the stop window and lasts until another epoch is observed.    *)
(***************************************************************************)
EXTENDS RandomSchedule

CONSTANT ResumeDelay    \* epoch_resume_delay_ticks

ASSUME DelayAssumption == ResumeDelay \in Nat

PhaseTags == {"None", "Warmup", "Active", "Draining"}
NoPhase == [tag |-> "None", epoch |-> NoTick, ready |-> NoTick]

(* `stopWindow' is is_epoch_stop_window at the time of the call. *)
UpdateEpochPhase(ph, i, stopWindow) ==
    LET entered == IF ph.epoch # i.epoch
                   THEN [tag |-> "Warmup", epoch |-> i.epoch,
                         ready |-> SaturatingAdd(i.initialTick, ResumeDelay)]
                   ELSE ph
        warmed == IF entered.tag = "Warmup" /\ i.tick >= entered.ready
                  THEN [tag |-> "Active", epoch |-> i.epoch, ready |-> NoTick]
                  ELSE entered
    IN  IF warmed.tag = "Active" /\ stopWindow THEN [warmed EXCEPT !.tag = "Draining"]
        ELSE warmed

-----------------------------------------------------------------------------
(* is_epoch_stop_window, with a day of any length.  `now' counts the units *)
(* since a Monday 00:00 UTC; the boundary is every Wednesday at noon.      *)

Week(day) == 7 * day
WednesdayNoon(day) == 2 * day + day \div 2

UntilBoundary(now, day) ==
    LET s == now % Week(day)
    IN  IF s <= WednesdayNoon(day) THEN WednesdayNoon(day) - s
        ELSE Week(day) - (s - WednesdayNoon(day))

(* Seeded bug: the window begins one unit late. *)
WindowTooShort(now, lead, day) == UntilBoundary(now, day) < MinOf(lead, Week(day))

StopWindow(now, lead, day) == UntilBoundary(now, day) <= MinOf(lead, Week(day))

=============================================================================
