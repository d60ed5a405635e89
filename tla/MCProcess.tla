----------------------------- MODULE MCProcess -----------------------------
(***************************************************************************)
(* The process and its clocks, in one run: start and end of the process,   *)
(* the epochs of a calendar, the attempts to broadcast one call in time.   *)
(* The three share no state; the initial state says which of them moves,   *)
(* and the others stay where they begin.                                   *)
(***************************************************************************)
EXTENDS Startup

CONSTANTS MaxTick, ResumeDelay, MaxU32, MaxDigests,
          Day, StopLead, Gap, Switch, StaleFor, FirstClocks, LastClock, Kinds,
          Poll, MinAttempt, MaxAttempt, Durations, MaxLead

RootForms == {<<"http:", "", "h">>, <<"h">>, <<"https:", "", "h", "v1", "a">>}
SignalOrder == <<"interrupt", "terminate", "quit", "hangup">>

VARIABLES moving,
          clock, epoch, tick, initial, changed, backend, fallback, phase, seen, seenAt, since,
          duration, lead, now, next, ends, started, outcome

calendar == <<clock, epoch, tick, initial, changed, backend, fallback, phase, seen, seenAt, since>>
attempts == <<duration, lead, now, next, ends, started, outcome>>

Calendar == INSTANCE EpochCalendar WITH kind <- backend
Attempts == INSTANCE SendAttempts

ASSUME ProcessAssumption ==
    Calendar!CalendarParameters /\ Calendar!TimingParameters /\ Attempts!AttemptParameters

ProcessInit ==
    /\ moving \in {"start", "calendar", "attempts"}
    /\ StartInit
    /\ moving # "start" =>
          /\ source = "pipe" /\ secret = "empty" /\ kind = "grpc" /\ root = <<"h">>
          /\ endpoint.suffix = ""
    /\ Calendar!CalendarInit
    /\ moving # "calendar" => tick = 1 /\ backend = "rpc" /\ \A c \in FirstClocks : clock <= c
    /\ Attempts!AttemptInit
    /\ moving # "attempts" => lead = 1 /\ now = 0 /\ \A d \in Durations : duration <= d

ProcessNext ==
    \/ moving = "start" /\ StartNext /\ UNCHANGED <<moving, calendar, attempts>>
    \/ moving = "calendar" /\ Calendar!CalendarNext /\ UNCHANGED <<moving, startVars, attempts>>
    \/ moving = "attempts" /\ Attempts!AttemptNext /\ UNCHANGED <<moving, startVars, calendar>>

(* No fair step of the start is possible while another part moves.         *)
ProcessSpec ==
    /\ ProcessInit /\ [][ProcessNext]_<<moving, startVars, calendar, attempts>>
    /\ StartFairness

-----------------------------------------------------------------------------
(* Startup: no copy of the seed is left, and no live one was ever unlocked. *)
SeedIsKept == SeedIsGone /\ NeverUnlockedBeforeWiped

(* EpochCalendar: the warmup is as long as configured, planning stops at   *)
(* every boundary and is not stopped by the one an epoch begins at.        *)
WarmupNotCutShort == Calendar!WarmupNotCutShort
PlanningStopsAtBoundaries == Calendar!NoPlanningAcrossBoundary /\ Calendar!DrainsOwnEnd

(* SendAttempts: one hanging attempt does not use up the time of a call,   *)
(* and none runs on past its target.                                       *)
HangsLeaveTime == Attempts!HangLeavesAnotherTry /\ Attempts!NoAttemptPastTheTarget

=============================================================================
