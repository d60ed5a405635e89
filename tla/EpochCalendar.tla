--------------------------- MODULE EpochCalendar ---------------------------
(***************************************************************************)
(* Epochs as the client sees them: the network changes its epoch at or     *)
(* some time after the weekly boundary, a node reports it through one of   *)
(* the adapters, perhaps late or without the initial tick, and the engine  *)
(* sets its phase by the report and the wall clock.                        *)
(*                                                                         *)
(* The network is external.  Its tick moves at most once per unit of time. *)
(* For a while after a change some peers of a light node still report the  *)
(* old epoch.                                                              *)
(***************************************************************************)
EXTENDS EpochPhases, NodeAnswers

CONSTANTS
    Day,         \* the units of a day
    StopLead,    \* epoch_stop_lead_time_secs, in units
    Gap,         \* bound: the longest time without a cycle that gets tick metadata
    Switch,      \* bound: how late after the boundary the epoch changes
    StaleFor,    \* bound: how long peers report the old epoch after that
    FirstClocks, \* when the client starts, in the week of the first boundary
    LastClock,   \* bound: the end of the model's time
    Kinds        \* the backends

CalendarParameters ==
    /\ AnswerParameters
    /\ Day \in Nat \ {0} /\ StopLead \in Nat /\ Gap \in Nat /\ Switch \in Nat
    /\ StaleFor \in Nat /\ LastClock \in Nat /\ FirstClocks \subseteq 0 .. LastClock
    /\ MaxU32 = MaxTick

(* What operator and network see to: a cycle gets tick metadata once in    *)
(* every stop window; no epoch changes so late that the next stop window   *)
(* is open already; a warmup takes some time; ticks stay below u32::MAX.   *)
TimingParameters ==
    /\ Gap <= StopLead + 1
    /\ StopLead + Switch + StaleFor < Week(Day)
    /\ FirstClocks \subseteq 0 .. WednesdayNoon(Day) + Switch
    /\ ResumeDelay \in Nat \ {0} /\ LastClock + ResumeDelay + 4 <= MaxTick

Epochs == 1 .. 3

VARIABLES
    clock,      \* the wall clock
    epoch,      \* the epoch of the network
    tick,       \* and its tick
    initial,    \* the initial ticks of the epochs so far
    changed,    \* when the epoch changed last
    kind,       \* the backend
    fallback,   \* tick_fallback of the light node's adapter
    phase,      \* epoch_phase
    seen,       \* the metadata of the last cycle that got any
    seenAt,     \* and when that was
    since       \* history: when the phase became what it is

network == <<clock, epoch, tick, initial, changed>>
client == <<kind, fallback, phase, seen, seenAt, since>>
calendarVars == <<network, client>>

Boundary(e) == WednesdayNoon(Day) + (e - 1) * Week(Day)

CalendarInit ==
    /\ clock \in FirstClocks /\ epoch = 1 /\ tick \in {1, 2}
    /\ initial = [e \in Epochs |-> IF e = 1 THEN 1 ELSE 0] /\ changed = 0
    /\ kind \in Kinds
    /\ fallback = NoFallback /\ phase = NoPhase /\ seen = NoTickInfo
    /\ seenAt = clock /\ since = clock

-----------------------------------------------------------------------------
(* The network *)

(* The change must come within Switch of the boundary, a cycle within Gap  *)
(* of the last one.                                                        *)
Advance ==
    /\ clock < LastClock /\ tick < MaxTick
    /\ clock < Boundary(epoch) + Switch
    /\ clock < seenAt + Gap
    /\ clock' = clock + 1 /\ tick' \in {tick, tick + 1}
    /\ UNCHANGED <<epoch, initial, changed, client>>

ChangeEpoch ==
    /\ clock >= Boundary(epoch) /\ epoch + 1 \in Epochs /\ tick < MaxTick
    /\ epoch' = epoch + 1 /\ tick' = tick + 1
    /\ initial' = [initial EXCEPT ![epoch + 1] = tick + 1]
    /\ changed' = clock
    /\ UNCHANGED <<clock, client>>

CalendarDone == clock = LastClock /\ UNCHANGED calendarVars

-----------------------------------------------------------------------------
(* The answers to tick_info *)

(* A peer of a light node may still be at the last tick of the old epoch.  *)
Stale == IF epoch > 1 /\ clock <= changed + StaleFor THEN {<<epoch - 1, initial[epoch] - 1>>} ELSE {}

(* The initial tick may be missing, and the duration.                      *)
QlnReport(view, first) ==
    [epoch |-> view[1], tick |-> view[2], initialTick |-> first, duration |-> 0]

RpcReport == [epoch |-> epoch, tick |-> tick, initialTick |-> initial[epoch], duration |-> 0]

(* A value as a number or as text, one too large, or none.                 *)
Fields(value) ==
    {[form |-> "number", value |-> value], [form |-> "text", value |-> value],
     [form |-> "number", value |-> MaxU32 + 1], [form |-> "missing", value |-> 0]}

BobReport(e, t, i) ==
    BobTickInfo(JsonRpc("own"), [epoch |-> e, tick |-> t, initialTick |-> i, durations |-> <<>>])

Enter(info) ==
    /\ seen' = info /\ seenAt' = clock
    /\ phase' = UpdateEpochPhase(phase, info, StopWindow(clock, StopLead, Day))
    /\ since' = IF phase'.tag # phase.tag \/ phase'.epoch # phase.epoch THEN clock ELSE since

(* A cycle whose tick_info succeeds; a refused answer ends the cycle.      *)
ObserveQln ==
    /\ kind = "grpc"
    /\ \E view \in {<<epoch, tick>>} \cup Stale, first \in {0, initial[epoch]} :
          LET status == QlnReport(view, first)
          IN  /\ first # 0 => status.epoch = epoch
              /\ Enter(QlnTickInfo(status, fallback))
              /\ fallback' = QlnFallback(status, fallback)

ObserveRpc == kind = "rpc" /\ Enter(RpcTickInfo(RpcReport)) /\ UNCHANGED fallback

ObserveBob ==
    /\ kind = "bob"
    /\ \E e \in Fields(epoch), t \in Fields(tick), i \in Fields(initial[epoch]) :
          BobReport(e, t, i) # NoTickInfo /\ Enter(BobReport(e, t, i))
    /\ UNCHANGED fallback

Observe == (ObserveQln \/ ObserveRpc \/ ObserveBob) /\ UNCHANGED <<network, kind>>

CalendarNext == Advance \/ ChangeEpoch \/ Observe \/ CalendarDone

CalendarSpec == CalendarInit /\ [][CalendarNext]_calendarVars

-----------------------------------------------------------------------------
(* Enrolment never begins before the configured delay after the epoch's    *)
(* true initial tick, whatever epoch the client saw before: a light node   *)
(* may leave the initial tick out or answer through a peer that lags       *)
(* behind, RPC and Bob state the tick itself or fail.                      *)
WarmupNotCutShort ==
    [][\/ phase'.tag \notin {"Active", "Draining"}
       \/ phase.epoch = phase'.epoch /\ phase.tag \in {"Active", "Draining"}
       \/ seen'.tick >= SaturatingAdd(initial[phase'.epoch], ResumeDelay)]_calendarVars

(* A client that gets tick metadata once in every stop window plans in no  *)
(* stretch that reaches across a boundary.                                 *)
NoPlanningAcrossBoundary ==
    phase.tag = "Active" => \A e \in Epochs : ~(since <= Boundary(e) /\ Boundary(e) < clock)

(* A drain belongs to the end of its own epoch: the boundary at which an   *)
(* epoch begins never drains it.                                           *)
DrainsOwnEnd ==
    phase.tag = "Draining" => since \in Boundary(phase.epoch) - StopLead .. Boundary(phase.epoch)

=============================================================================
