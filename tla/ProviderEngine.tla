--------------------------- MODULE ProviderEngine ---------------------------
(***************************************************************************)
(* The engine's run loop over its managed slots: tick metadata, the epoch  *)
(* phase, the single provider-status query, broadcast tasks, planning,     *)
(* sending, and graceful shutdown.                                         *)
(*                                                                         *)
(* One cycle is cut where the code waits or looks at something another     *)
(* task changes: after tick_info returns, before the shutdown token is     *)
(* read, before the shutdown observer is polled, and at the loop head.     *)
(* Network tasks run on their own; a task's outcome matters only when the  *)
(* engine harvests it, so Harvest chooses it there, "pending" included.    *)
(* Wall-clock readings (the 500 ms query spacing, the epoch stop window,   *)
(* the 90 s deadline) are environment choices.                             *)
(***************************************************************************)
EXTENDS StreamSlot, EpochPhases, FiniteSets

CONSTANTS
    Streams,           \* the streams of the instance, in the code 0..2
    TickInfos,         \* tick metadata a backend may report
    StatusTicks,       \* last_update_tick values a status response may report
    TaskResults,       \* how a broadcast task may stand when it is harvested
    StopWindows,       \* the readings is_epoch_stop_window may give
    SignalTicks,       \* the ticks during whose cycles a shutdown signal may come
    MaxJump,           \* bound: how far one tick report may move forward,
    MaxRegress         \* bound: and backward

TickInfoSet == [epoch : Nat, tick : Ticks, initialTick : Ticks]

ASSUME StreamsAssumption == Streams \subseteq StreamIds
ASSUME TickInfosAssumption == TickInfos \subseteq TickInfoSet
ASSUME EnvironmentAssumption ==
    /\ TaskResults \subseteq {"pending", "ok", "err"}
    /\ StopWindows \subseteq BOOLEAN
    /\ SignalTicks \subseteq OptTicks
ASSUME StatusTicksAssumption == StatusTicks \subseteq Ticks
ASSUME BoundsAssumption == MaxJump \in Nat /\ MaxRegress \in Nat

VARIABLES
    slots,     \* slots
    phase,     \* epoch_phase
    query,     \* status_query
    info,      \* the tick metadata of the current cycle
    pc,        \* where the run loop is
    token,     \* the cancellation token
    observer,  \* the shutdown observer task and its result
    stopping,  \* shutting_down, with shutdown_deadline armed
    late,      \* the shutdown deadline has passed
    exit,      \* the result of run
    marks,     \* delivery marks the last step leaves for the counters
    signed     \* history: the targets signed per stream since the last slot reset

loop == <<info, pc>>
shutdown == <<token, observer, stopping, late, exit>>
vars == <<slots, phase, query, info, pc, token, observer, stopping, late, exit, marks, signed>>

NoQuery == [epoch |-> NoTick, requested |-> NoTick]
NoInfo == [epoch |-> NoTick, tick |-> NoTick, initialTick |-> NoTick]
OptEpochs == Nat \cup {NoTick}

Init ==
    /\ slots = [s \in Streams |-> InitSlot]
    /\ phase = NoPhase
    /\ query = NoQuery
    /\ info = NoInfo
    /\ pc = "head"
    /\ token = FALSE /\ observer = "running" /\ stopping = FALSE /\ late = FALSE
    /\ exit = "none"
    /\ marks = {}
    /\ signed = [s \in Streams |-> {}]

TypeOK ==
    /\ slots \in [Streams -> ManagedSlot]
    /\ phase \in [tag : PhaseTags, epoch : OptEpochs, ready : OptTicks]
    /\ query \in [epoch : OptEpochs, requested : OptTicks]
    /\ info \in TickInfos \cup {NoInfo}
    /\ pc \in {"head", "harvest", "plan", "observe", "exited"}
    /\ token \in BOOLEAN /\ stopping \in BOOLEAN /\ late \in BOOLEAN
    /\ observer \in {"running", "finished", "failed", "taken"}
    /\ exit \in {"none", "ok", "err"}
    /\ marks \subseteq Marks
    /\ signed \in [Streams -> SUBSET Ticks]

-----------------------------------------------------------------------------
(* The loop head *)

ShutdownComplete == \A s \in Streams : Tag(slots[s]) = "Drained"
ShutdownFailed == \E s \in Streams : slots[s].state = Drained("Failed")

(* Leaving run drops the engine, which aborts every task it owns. *)
Leave(result) ==
    /\ exit' = result
    /\ pc' = "exited"
    /\ slots' = [s \in Streams |-> [slots[s] EXCEPT !.chain = NoChain]]
    /\ query' = NoQuery
    /\ marks' = {}

ExitDrained ==
    /\ pc = "head" /\ stopping /\ ShutdownComplete
    /\ Leave(IF ShutdownFailed THEN "err" ELSE "ok")
    /\ UNCHANGED <<phase, info, token, observer, stopping, late, signed>>

ExitTimedOut ==
    /\ pc = "head" /\ stopping /\ ~ShutdownComplete /\ late
    /\ Leave("err")
    /\ UNCHANGED <<phase, info, token, observer, stopping, late, signed>>

(* Seeded bug: the deadline is not looked at. *)
KeepsRunningPastDeadline == ~(stopping /\ ShutdownComplete)

(* Otherwise the loop waits for the next poll and calls tick_info. *)
KeepsRunning == ~(stopping /\ (ShutdownComplete \/ late))

-----------------------------------------------------------------------------
(* Tick metadata and the epoch phase *)

MayFollow(i) ==
    info = NoInfo \/ (i.tick <= info.tick + MaxJump /\ i.tick >= info.tick - MaxRegress)

(* Seeded bug: an epoch change leaves the chains in place. *)
TickOkKeepingChains(i, stopWindow) ==
    /\ pc = "head" /\ KeepsRunning
    /\ MayFollow(i)
    /\ phase' = UpdateEpochPhase(phase, i, stopWindow)
    /\ query' = IF phase.epoch # i.epoch THEN NoQuery ELSE query
    /\ signed' = IF phase.epoch # i.epoch THEN [s \in Streams |-> {}] ELSE signed
    /\ info' = i
    /\ pc' = "harvest"
    /\ marks' = {}
    /\ UNCHANGED <<slots, shutdown>>

TickOkKeepingQuery(i, stopWindow) ==
    /\ pc = "head" /\ KeepsRunning
    /\ MayFollow(i)
    /\ phase' = UpdateEpochPhase(phase, i, stopWindow)
    /\ slots' = IF phase.epoch # i.epoch THEN [s \in Streams |-> InitSlot] ELSE slots
    /\ signed' = IF phase.epoch # i.epoch THEN [s \in Streams |-> {}] ELSE signed
    /\ info' = i
    /\ pc' = "harvest"
    /\ marks' = {}
    /\ UNCHANGED <<query, shutdown>>

(* reset_slots: chains, their tasks and the query are aborted. *)
TickOk(i, stopWindow) ==
    /\ pc = "head" /\ KeepsRunning
    /\ MayFollow(i)
    /\ phase' = UpdateEpochPhase(phase, i, stopWindow)
    /\ slots' = IF phase.epoch # i.epoch THEN [s \in Streams |-> InitSlot] ELSE slots
    /\ query' = IF phase.epoch # i.epoch THEN NoQuery ELSE query
    /\ signed' = IF phase.epoch # i.epoch THEN [s \in Streams |-> {}] ELSE signed
    /\ info' = i
    /\ pc' = "harvest"
    /\ marks' = {}
    /\ UNCHANGED shutdown

(* tick_info fails or times out: the cycle returns early with an error. *)
TickFails ==
    /\ pc = "head" /\ KeepsRunning
    /\ pc' = "observe"
    /\ marks' = {}
    /\ UNCHANGED <<slots, phase, query, info, token, observer, stopping, late, exit, signed>>

-----------------------------------------------------------------------------
(* Harvesting finished tasks *)

InFlight == {c.target : c \in UNION {{d \in slots[s].chain.calls : d.inflight} : s \in Streams}}

Harvested(results) == [s \in Streams |-> HarvestBroadcasts(slots[s], results)]

(* harvest_broadcasts on every slot, then the observation on every slot. *)
HarvestNoStatus(results) ==
    LET harvested == Harvested(results)
    IN  /\ slots' = [s \in Streams |-> harvested[s].slot]
        /\ marks' = UNION {harvested[s].marks : s \in Streams}

HarvestStatus(results, seen) ==
    LET harvested == Harvested(results)
        applied == [s \in Streams |-> ApplyStatus(harvested[s].slot, seen[s], query.requested)]
    IN  /\ slots' = [s \in Streams |-> applied[s].slot]
        /\ marks' = UNION {harvested[s].marks \cup applied[s].marks : s \in Streams}

StatusReports == [Streams -> StatusTicks \cup {NoTick}]

(* The query is still running, or there is none. *)
HarvestQueryPending(results) ==
    /\ pc = "harvest"
    /\ HarvestNoStatus(results)
    /\ pc' = "plan"
    /\ UNCHANGED <<phase, query, info, signed, shutdown>>

(* The query failed, timed out or its answer did not decode. *)
HarvestQueryFailed(results) ==
    /\ pc = "harvest" /\ query # NoQuery
    /\ HarvestNoStatus(results)
    /\ query' = NoQuery
    /\ pc' = "plan"
    /\ UNCHANGED <<phase, info, signed, shutdown>>

HarvestQueryOk(results, seen) ==
    /\ pc = "harvest" /\ query # NoQuery
    /\ IF query.epoch = info.epoch THEN HarvestStatus(results, seen)
       ELSE HarvestNoStatus(results)
    /\ query' = NoQuery
    /\ pc' = "plan"
    /\ UNCHANGED <<phase, info, signed, shutdown>>

-----------------------------------------------------------------------------
(* Planning and sending *)

EpochDraining == phase.tag = "Draining" /\ phase.epoch = info.epoch
EpochActive == phase.tag = "Active" /\ phase.epoch = info.epoch

DrainReason == IF token THEN "Shutdown" ELSE "Epoch"

(* The slots are planned in order and the first error ends the cycle:      *)
(* later slots are not reached.                                            *)
Reached(planned, s) == \A m \in Streams : ~planned[m].ok => s <= m
AllOk(planned) == \A s \in Streams : planned[s].ok

PlannedSlots(planned) ==
    [s \in Streams |-> IF Reached(planned, s) THEN planned[s].slot ELSE slots[s]]
PlannedMarks(planned) == UNION {IF Reached(planned, s) THEN planned[s].marks ELSE {} : s \in Streams}

SignedBy(planned) ==
    [s \in Streams |-> signed[s] \cup {c.target : c \in PlannedSlots(planned)[s].chain.calls}]

(* ensure_status_query; `due' is the 500 ms spacing. *)
EnsureStatusQuery(due) ==
    query' = IF query = NoQuery /\ due
             THEN [epoch |-> info.epoch, requested |-> info.tick]
             ELSE query

(* The rest of a cycle once planning succeeded. *)
PlanThenSend(planned, due) ==
    LET sent == [s \in Streams |-> SendSlot(planned[s].slot, info.tick)]
    IN  /\ AllOk(planned)
        /\ slots' = [s \in Streams |-> sent[s].slot]
        /\ marks' = UNION {planned[s].marks \cup sent[s].marks : s \in Streams}
        /\ signed' = SignedBy(planned)
        /\ EnsureStatusQuery(due)

(* The cycle that a planning error cuts short: nothing expires or is sent. *)
PlanFails(planned) ==
    /\ ~AllOk(planned)
    /\ slots' = PlannedSlots(planned)
    /\ marks' = PlannedMarks(planned)
    /\ signed' = SignedBy(planned)
    /\ UNCHANGED query

DrainPlan == [s \in Streams |-> EnterDrain(slots[s], s, DrainReason)]
ActivePlan == [s \in Streams |-> PlanSlot(slots[s], s, info.tick)]
HoldPlan == [s \in Streams |-> Result(slots[s], {})]

CycleDrain(due) ==
    /\ pc = "plan"
    /\ token \/ EpochDraining
    /\ PlanThenSend(DrainPlan, due) \/ PlanFails(DrainPlan)
    /\ pc' = "observe"
    /\ UNCHANGED <<phase, info, shutdown>>

(* Seeded bug: planning goes by the phase alone. *)
CycleActiveIgnoringToken(due) ==
    /\ pc = "plan"
    /\ EpochActive
    /\ PlanThenSend(ActivePlan, due) \/ PlanFails(ActivePlan)
    /\ pc' = "observe"
    /\ UNCHANGED <<phase, info, shutdown>>

CycleActive(due) ==
    /\ pc = "plan"
    /\ ~token /\ EpochActive
    /\ PlanThenSend(ActivePlan, due) \/ PlanFails(ActivePlan)
    /\ pc' = "observe"
    /\ UNCHANGED <<phase, info, shutdown>>

(* Warmup: nothing is planned, what was planned is still served. *)
CycleHold(due) ==
    /\ pc = "plan"
    /\ ~token /\ ~EpochDraining /\ ~EpochActive
    /\ PlanThenSend(HoldPlan, due)
    /\ pc' = "observe"
    /\ UNCHANGED <<phase, info, shutdown>>

-----------------------------------------------------------------------------
(* The shutdown observer, polled after each cycle *)

ShutdownPlan == [s \in Streams |-> EnterDrain(slots[s], s, "Shutdown")]

ObserveNothing ==
    /\ pc = "observe"
    /\ stopping \/ observer = "running"
    /\ pc' = "head"
    /\ marks' = {}
    /\ UNCHANGED <<slots, phase, query, info, token, observer, stopping, late, exit, signed>>

ObserveRequest ==
    /\ pc = "observe" /\ ~stopping /\ observer = "finished"
    /\ AllOk(ShutdownPlan)
    /\ slots' = PlannedSlots(ShutdownPlan)
    /\ signed' = SignedBy(ShutdownPlan)
    /\ stopping' = TRUE
    /\ observer' = "taken"
    /\ pc' = "head"
    /\ marks' = {}
    /\ UNCHANGED <<phase, query, info, token, late, exit>>

(* The observer failed, or a slot cannot be drained: run returns the error. *)
ObserveError ==
    /\ pc = "observe" /\ ~stopping
    /\ observer = "failed" \/ (observer = "finished" /\ ~AllOk(ShutdownPlan))
    /\ Leave("err")
    /\ UNCHANGED <<phase, info, token, observer, stopping, late, signed>>

-----------------------------------------------------------------------------
(* The environment *)

(* The shutdown future resolves: the observer cancels the token ... *)
Signal ==
    /\ pc # "exited" /\ ~token /\ observer = "running"
    /\ info.tick \in SignalTicks
    /\ token' = TRUE
    /\ marks' = {}
    /\ UNCHANGED <<slots, phase, query, info, pc, observer, stopping, late, exit, signed>>

(* ... and ends with the future's result. *)
ObserverEnds(result) ==
    /\ pc # "exited" /\ token /\ observer = "running"
    /\ observer' = result
    /\ marks' = {}
    /\ UNCHANGED <<slots, phase, query, info, pc, token, stopping, late, exit, signed>>

(* The observer can also end without cancelling the token, by a panic. *)
ObserverPanics ==
    /\ pc # "exited" /\ ~token /\ observer = "running"
    /\ info.tick \in SignalTicks
    /\ observer' = "failed"
    /\ marks' = {}
    /\ UNCHANGED <<slots, phase, query, info, pc, token, stopping, late, exit, signed>>

(* The deadline counts from the request, before the loop learns of it. *)
DeadlinePasses ==
    /\ pc # "exited" /\ token /\ ~late
    /\ late' = TRUE
    /\ marks' = {}
    /\ UNCHANGED <<slots, phase, query, info, pc, token, observer, stopping, exit, signed>>

Finished == pc = "exited" /\ UNCHANGED vars

-----------------------------------------------------------------------------

Fetch == (\E i \in TickInfos, stopWindow \in StopWindows : TickOk(i, stopWindow)) \/ TickFails

Harvest ==
    \E results \in [InFlight -> TaskResults] :
        \/ HarvestQueryPending(results)
        \/ HarvestQueryFailed(results)
        \/ \E seen \in StatusReports : HarvestQueryOk(results, seen)

PlanAndSend == \E due \in BOOLEAN : CycleDrain(due) \/ CycleActive(due) \/ CycleHold(due)

Loop == Fetch \/ Harvest \/ PlanAndSend \/ ObserveNothing \/ ObserveRequest
        \/ ObserveError \/ ExitDrained \/ ExitTimedOut

Environment ==
    \/ Signal
    \/ \E result \in {"finished", "failed"} : ObserverEnds(result)
    \/ ObserverPanics
    \/ DeadlinePasses

Next == Loop \/ Environment \/ Finished

Spec == Init /\ [][Next]_vars

(* The runtime keeps polling the loop (every Loop step, and no other, moves *)
(* pc, and one is possible until run returns) and the observer task, and    *)
(* time passes.                                                             *)
LoopKeepsMoving == <>(pc = "exited") \/ []<><<pc' # pc>>_pc

Fairness ==
    /\ LoopKeepsMoving
    /\ WF_vars(\E r \in {"finished", "failed"} : ObserverEnds(r))
    /\ WF_vars(DeadlinePasses)

FairSpec == Spec /\ Fairness
-----------------------------------------------------------------------------
(* Safety *)

Calls(s) == slots[s].chain.calls
WasReset == phase'.epoch # phase.epoch

(* The preimage chain: every signed call is on its stream's ticks and      *)
(* reveals the preimage committed exactly three ticks before, only the     *)
(* first call of a chain reveals nothing, the outstanding preimage is the  *)
(* last one committed, and no two signed calls share a target, so no       *)
(* preimage is ever disclosed by two different transactions.               *)
ChainLinks ==
    \A s \in Streams : HasChain(slots[s]) =>
        LET chain == slots[s].chain
        IN  /\ chain.preimage = chain.last
            /\ \A c \in Calls(s) :
                   /\ c.target % STREAM_COUNT = s
                   /\ c.reveal = IF c.kind = "FirstCommit" THEN NoTick
                                 ELSE c.target - STREAM_COUNT
                   /\ ~Remnant(chain, c) => (c.kind = "FirstCommit" <=> c.target = chain.first)
            /\ \A c, d \in Calls(s) : c.target = d.target => c = d

(* The enum and Option<Chain> fit together: a chain exists exactly in the  *)
(* states that serve one, an active chain was acknowledged at one of its   *)
(* own targets and never at an older chain's, a frozen chain restarts only *)
(* past its tail, and a terminal reveal exists exactly while draining.     *)
SlotShape ==
    \A s \in Streams :
        LET slot == slots[s]
            chain == slot.chain
        IN  pc # "exited" =>
            /\ HasChain(slot) <=> Tag(slot) \in {"Starting", "Active", "Restarting", "Draining"}
            /\ Tag(slot) = "Active" => chain.confirmed # NoTick
            /\ chain.confirmed # NoTick => /\ chain.confirmed \in chain.first .. chain.last
                                           /\ (chain.confirmed - chain.first) % STREAM_COUNT = 0
            /\ Tag(slot) = "Starting" => slot.state.at = chain.first
            /\ Tag(slot) = "Restarting" =>
                   slot.state.at = chain.last /\ slot.restartAt = chain.last + STREAM_COUNT
            /\ \A c \in chain.calls :
                   IF c.kind = "TerminalReveal"
                   THEN Tag(slot) = "Draining" /\ c.target = slot.state.at
                   ELSE c.target <= chain.last

(* No broadcast task is lost track of: a call has a task exactly while it  *)
(* is Broadcasting, or during its one redundant attempt, so dispatch never *)
(* overwrites a running task; and a shutdown drain never retries.          *)
TaskDiscipline ==
    \A s \in Streams : \A c \in Calls(s) :
        /\ c.inflight => \/ c.state = "Broadcasting"
                         \/ c.state = "Accepted" /\ c.redundant
        /\ c.state = "Broadcasting" => c.inflight /\ ~c.redundant
        /\ ~GivesUp(slots[s], c)

(* Nothing crosses an epoch change: an outstanding status query belongs to *)
(* the current epoch, so no older observation is applied, and every queued *)
(* call was signed since the slots were reset.                             *)
NothingCrossesEpochs ==
    /\ query # NoQuery => query.epoch = phase.epoch
    /\ \A s \in Streams : \A c \in Calls(s) : c.target \in signed[s]

(* After a full cycle no broadcast task is running at or past its target,  *)
(* redundant attempts included.  (Where a stream has no tick of its own    *)
(* left below MaxTick, a planning error ends the cycle before anything     *)
(* expires, on the other streams too; the premise leaves that edge out.)   *)
NoTaskPastTarget ==
    (/\ pc \in {"observe", "head"}
     /\ info.tick + SEND_LEAD_TICKS + STREAM_COUNT <= MaxTick
     /\ \A s \in Streams : slots[s].chain.last + STREAM_COUNT <= MaxTick) =>
        \A s \in Streams : \A c \in Calls(s) : c.inflight => info.tick < c.target

(* Each target is signed at most once between slot resets: a queued call   *)
(* keeps its bytes, and a new one is above every target signed before it,  *)
(* whatever ticks are skipped, repeated or reported backwards.             *)
SignedOnce ==
    [][\A s \in Streams : \A c \in slots'[s].chain.calls :
          \/ \E d \in Calls(s) : SameBytes(c, d)
          \/ \A t \in signed[s] : c.target > t]_vars

(* A signed call is given up only when its target arrived, its chain ended *)
(* or the epoch changed: a replacement keeps the frozen tail.              *)
NoCallForgotten ==
    [][\A s \in Streams : \A c \in Calls(s) :
          \/ \E d \in slots'[s].chain.calls : SameBytes(c, d)
          \/ c.target <= info.tick
          \/ ~HasChain(slots'[s])]_vars

(* Disclosure: a call goes to the network only before its target, and a    *)
(* preimage only after the commit set it belongs to was selected, two      *)
(* ticks before the tick that committed it.                                *)
DisclosureGate ==
    [][\A s \in Streams : \A c \in slots'[s].chain.calls :
          (c.inflight /\ ~\E d \in Calls(s) : SameBytes(c, d) /\ d.inflight) =>
              /\ info.tick < c.target
              /\ c.reveal # NoTick => info.tick > c.reveal - 2]_vars

(* A running chain is thrown away only for a target of its own: one that   *)
(* arrived unaccepted or was never planned in time.  Expiry of an older    *)
(* chain's call cannot end its replacement.                                *)
LossHasOwnCause ==
    [][\A s \in Streams :
          (IsPlanned(slots[s]) /\ Tag(slots'[s]) = "Waiting" /\ ~WasReset) =>
              \/ \E c \in Calls(s) : Overdue(c, info.tick) /\ c.target >= slots[s].chain.first
              \/ slots[s].chain.last + STREAM_COUNT <= info.tick]_vars

TerminalFailed(slot) ==
    \E c \in slot.chain.calls : c.kind = "TerminalReveal" /\ c.state = "Failed"

(* One collateral, one financial failure: a failure is recorded only       *)
(* against a chain that had none, and it ends that chain, so the calls of  *)
(* its frozen or drained tail never count again; and the tick that ends it *)
(* counts once, however many of its calls it skipped.                      *)
OneFailurePerChain ==
    [][\A m \in marks', s \in Streams :
          (m.mark = "Failed" /\ m.target % STREAM_COUNT = s) =>
              /\ IsPlanned(slots[s]) \/ Tag(slots[s]) = "Draining"
              /\ ~TerminalFailed(slots[s])
              /\ ~IsPlanned(slots'[s])
              /\ Tag(slots'[s]) = "Draining" => TerminalFailed(slots'[s])
              /\ \A n \in marks' :
                    (n.mark = "Failed" /\ n.target % STREAM_COUNT = s) => n.target = m.target]_vars

(* Once a stop was requested before the planning decision, or the epoch    *)
(* drains, nothing but terminal reveals is signed, one per stream; and a   *)
(* stream that drained stays so until the epoch changes.                   *)
DrainIsFinal ==
    [][\A s \in Streams :
          /\ (token \/ EpochDraining \/ Tag(slots[s]) \in {"Draining", "Drained"}) =>
                 \A c \in slots'[s].chain.calls :
                     \/ \E d \in Calls(s) : SameBytes(c, d)
                     \/ c.kind = "TerminalReveal" /\ IsPlanned(slots[s])
          /\ (Tag(slots[s]) = "Drained" /\ ~WasReset) => slots'[s] = slots[s]]_vars

-----------------------------------------------------------------------------
(* Liveness *)

(* A requested shutdown always ends the run, however the backend behaves.  *)
ShutdownEnds == token ~> exit # "none"

=============================================================================
