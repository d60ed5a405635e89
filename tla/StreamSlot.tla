----------------------------- MODULE StreamSlot -----------------------------
(***************************************************************************)
(* One managed slot of the engine: the state of a stream, its chain of     *)
(* signed calls, and every handler that changes it, as an operator from    *)
(* slots to results.  A result carries the next slot, the marks the        *)
(* handler leaves for the delivery counters, and ok = FALSE for an early   *)
(* return with an error.                                                   *)
(*                                                                         *)
(* The call queue is a set: targets are pushed in increasing order         *)
(* (ProviderEngineProofs), so the queue order is the target order.         *)
(* A preimage is named by the target of the call that commits to it; the   *)
(* call that reveals it must be three ticks later.                         *)
(***************************************************************************)
EXTENDS StatusEvidence

CallKinds == {"FirstCommit", "RevealAndCommit", "TerminalReveal"}
BroadcastStates == {"Ready", "Broadcasting", "Retry", "Accepted", "Failed"}
SlotTags == {"Waiting", "Starting", "Active", "Restarting", "Draining", "Drained"}
DrainReasons == {"Epoch", "Shutdown"}
DrainOutcomes == {"NothingToDrain", "Accepted", "Failed"}

(* inflight is broadcast.is_some(); redundant is redundant_attempted. *)
PlannedCall == [target : Ticks, kind : CallKinds, reveal : OptTicks,
                state : BroadcastStates, inflight : BOOLEAN, redundant : BOOLEAN]

NewCall(target, kind, reveal) ==
    [target |-> target, kind |-> kind, reveal |-> reveal,
     state |-> "Ready", inflight |-> FALSE, redundant |-> FALSE]

(* The signed bytes of a call; the rest is delivery bookkeeping. *)
SameBytes(c, d) == c.target = d.target /\ c.kind = d.kind /\ c.reveal = d.reveal

Chain == [first : OptTicks, last : OptTicks, confirmed : OptTicks,
          suspicion : Suspicion, preimage : OptTicks, calls : SUBSET PlannedCall]

NoChain == [first |-> NoTick, last |-> NoTick, confirmed |-> NoTick,
            suspicion |-> NoSuspicion, preimage |-> NoTick, calls |-> {}]

(* The variants of SlotState share one record; `at' is first_target,       *)
(* frozen_tail or terminal_target, and unused fields keep a fixed value.   *)
SlotState == [tag : SlotTags, at : OptTicks, absenceAfter : Ticks,
              absenceObserved : BOOLEAN, reason : DrainReasons \cup {"None"},
              outcome : DrainOutcomes \cup {"None"}]

Waiting(after, observed) ==
    [tag |-> "Waiting", at |-> NoTick, absenceAfter |-> after,
     absenceObserved |-> observed, reason |-> "None", outcome |-> "None"]
Starting(first) == [Waiting(0, FALSE) EXCEPT !.tag = "Starting", !.at = first]
Active == [Waiting(0, FALSE) EXCEPT !.tag = "Active"]
Restarting(tail, after, observed, reason) ==
    [Waiting(after, observed) EXCEPT !.tag = "Restarting", !.at = tail, !.reason = reason]
Draining(reason, terminal) ==
    [Waiting(0, FALSE) EXCEPT !.tag = "Draining", !.at = terminal, !.reason = reason]
Drained(outcome) == [Waiting(0, FALSE) EXCEPT !.tag = "Drained", !.outcome = outcome]

ManagedSlot == [state : SlotState, chain : Chain, restartAt : Ticks]

InitSlot == [state |-> Waiting(0, FALSE), chain |-> NoChain, restartAt |-> 0]

Tag(slot) == slot.state.tag
HasChain(slot) == slot.chain.first # NoTick
IsPlanned(slot) == Tag(slot) \in {"Starting", "Active"}

(***************************************************************************)
(* Marks: "Ok" and "Failed" are the delivery outcomes of a target that the *)
(* handler records, "Digest" the signed bytes it keeps for the tick check. *)
(***************************************************************************)
Marks == [target : Ticks, mark : {"Ok", "Failed", "Digest"}]
MarkAll(targets, mark) == {[target |-> t, mark |-> mark] : t \in targets}

Result(slot, marks) == [slot |-> slot, marks |-> marks, ok |-> TRUE]
Error(slot) == [slot |-> slot, marks |-> {}, ok |-> FALSE]

Remnant(chain, call) == call.target < chain.first

OwnsTarget(chain, target) ==
    /\ target >= chain.first
    /\ target <= chain.last
    /\ (target - chain.first) % STREAM_COUNT = 0

(* Seeded bug: the tick of the request itself is expected, too. *)
LatestTargetAt(chain, tick) ==
    LET upper == MinOf(tick, chain.last)
    IN  IF upper < chain.first THEN NoTick
        ELSE chain.first + ((upper - chain.first) \div STREAM_COUNT) * STREAM_COUNT

(* The latest signed target that a query requested at `tick' should see. *)
LatestTargetBefore(chain, tick) ==
    LET upper == MinOf(tick - 1, chain.last)
    IN  IF tick = 0 \/ upper < chain.first THEN NoTick
        ELSE chain.first + ((upper - chain.first) \div STREAM_COUNT) * STREAM_COUNT

-----------------------------------------------------------------------------
(* Losing trust in a chain *)

(* The slot that has no tick left to restart at in this epoch. *)
ExhaustedSlot == [state |-> Drained("Failed"), chain |-> NoChain, restartAt |-> MaxTick]

(* Seeded bug: the replacement may start on the frozen tail itself. *)
RestartOnTail(slot, after, observed) ==
    [slot EXCEPT !.restartAt = slot.chain.last,
                 !.state = Restarting(slot.chain.last, after, observed, "None")]

BeginStatusRestart(slot, after, observed) ==
    LET tail == slot.chain.last
    IN  IF ~HasChain(slot) THEN slot
        ELSE IF CheckedAdd(tail, STREAM_COUNT) = NoTick THEN ExhaustedSlot
        ELSE [slot EXCEPT !.restartAt = tail + STREAM_COUNT,
                          !.state = Restarting(tail, after, observed, "None")]

LoseChain(slot, after, observed) ==
    LET tail == IF HasChain(slot) THEN slot.chain.last ELSE slot.restartAt
    IN  IF CheckedAdd(tail, STREAM_COUNT) = NoTick THEN ExhaustedSlot
        ELSE [state |-> Waiting(after, observed), chain |-> NoChain,
              restartAt |-> tail + STREAM_COUNT]

(* Seeded bug: a chain that is given up is charged all its normal targets. *)
FailureOfEachTarget(chain, evidence) ==
    {t \in Ticks : t > chain.first /\ t <= chain.last /\ (t - chain.first) % STREAM_COUNT = 0}

(* The first unconfirmed normal target, if the evidence names one. *)
FinancialFailureTargets(chain, evidence) ==
    LET target ==
            CASE evidence.kind = "Absent" /\ chain.confirmed # NoTick ->
                     CheckedAdd(chain.confirmed, STREAM_COUNT)
              [] evidence.kind = "Lag" -> evidence.tick
              [] OTHER -> NoTick
    IN  {t \in {target} : t > chain.first /\ t <= chain.last}

-----------------------------------------------------------------------------
(* Applying a provider-status observation *)

ObserveStatusEvidence(slot, evidence, requested) ==
    LET current == slot.chain.suspicion
        next == ObserveEvidence(current, evidence, requested)
        suspected == [slot EXCEPT !.chain.suspicion = next]
        absent == evidence.kind = "Absent"
    IN  IF ~HasChain(slot) \/ Outdated(current, requested) THEN Result(slot, {})
        ELSE IF ~IsConfirmed(next) THEN Result(suspected, {})
        ELSE Result(BeginStatusRestart(suspected,
                        IF absent THEN requested ELSE SaturatingAdd(requested, 1), absent),
                    MarkAll(FinancialFailureTargets(slot.chain, evidence), "Failed"))

(* Seeded bug: an old answer may clear the suspicion. *)
NeverRepeated(chain, confirmed, requested) == FALSE

(* An acknowledgement that is known, in an answer older than the suspicion. *)
Repeated(chain, confirmed, requested) ==
    chain.confirmed = confirmed /\ Outdated(chain.suspicion, requested)

ApplyConfirmationWatermark(slot, confirmed, requested) ==
    LET old == slot.chain
        advanced == old.confirmed # confirmed
        chain == IF advanced
                 THEN [old EXCEPT !.confirmed = confirmed, !.suspicion = NoSuspicion]
                 ELSE old
        unsuspected == [slot EXCEPT !.chain = [chain EXCEPT !.suspicion = NoSuspicion]]
        moved == [slot EXCEPT !.chain = chain]
    IN  IF ~HasChain(slot) \/ confirmed < old.confirmed THEN Result(slot, {})
        ELSE IF Repeated(old, confirmed, requested) THEN Result(slot, {})
        ELSE IF confirmed >= LatestTargetBefore(chain, requested) THEN Result(unsuspected, {})
        ELSE IF CheckedAdd(confirmed, STREAM_COUNT) = NoTick THEN Result(moved, {})
        ELSE ObserveStatusEvidence(moved, Lag(confirmed + STREAM_COUNT), requested)

(* Seeded bug: the test of the watermark is inverted, only old answers count. *)
ObserveOldAbsence(state, seen, requested) ==
    IF seen # NoTick
    THEN [state EXCEPT !.absenceAfter = MaxOf(@, SaturatingAdd(requested, 1)),
                       !.absenceObserved = FALSE]
    ELSE IF requested < state.absenceAfter THEN [state EXCEPT !.absenceObserved = TRUE]
    ELSE state

(* Waiting and Restarting look for an absence requested late enough. *)
ObserveAbsence(state, seen, requested) ==
    IF seen # NoTick
    THEN [state EXCEPT !.absenceAfter = MaxOf(@, SaturatingAdd(requested, 1)),
                       !.absenceObserved = FALSE]
    ELSE IF requested >= state.absenceAfter THEN [state EXCEPT !.absenceObserved = TRUE]
    ELSE state

(* `seen' is the last_update_tick the response reports for this slot, or   *)
(* NoTick when it does not report the slot.                                *)
ApplyStatus(slot, seen, requested) ==
    LET owned == HasChain(slot) /\ seen # NoTick /\ OwnsTarget(slot.chain, seen)
        evidence == IF seen = NoTick THEN Absent ELSE Foreign(seen)
        activated == [slot EXCEPT !.state = Active]
    IN  CASE Tag(slot) \in {"Draining", "Drained"} -> Result(slot, {})
          [] Tag(slot) \in {"Waiting", "Restarting"} ->
                 Result([slot EXCEPT !.state = ObserveAbsence(@, seen, requested)], {})
          [] IsPlanned(slot) /\ owned ->
                 ApplyConfirmationWatermark(activated, seen, requested)
          [] Tag(slot) = "Starting" /\ ~owned /\ requested <= slot.state.at -> Result(slot, {})
          [] OTHER -> ObserveStatusEvidence(slot, evidence, requested)

-----------------------------------------------------------------------------
(* Missed targets *)

(* Calls whose target has arrived without acceptance; those of the current *)
(* chain end it, those of an older one do not.                             *)
Overdue(call, tick) == tick >= call.target /\ call.state \notin {"Accepted", "Failed"}

(* Seeded bug: the calls of an older chain count. *)
OverdueAny(chain, tick) == {c \in chain.calls : Overdue(c, tick)}

OverdueOwn(chain, tick) == {c \in chain.calls : Overdue(c, tick) /\ ~Remnant(chain, c)}

(* Seeded bug: the task of an expired call is not aborted. *)
ExpireCallKeepingTask(call, tick) ==
    IF Overdue(call, tick) THEN [call EXCEPT !.state = "Failed"] ELSE call

ExpireCall(call, tick) ==
    IF tick < call.target THEN call
    ELSE [call EXCEPT !.inflight = FALSE,
                      !.state = IF Overdue(call, tick) THEN "Failed" ELSE @]

(* Seeded bugs: expiries count in every state, frozen tails included; and  *)
(* a tick that skips several calls of a chain charges each of them.        *)
ExpiryFailuresAnyState(slot, tick) ==
    {c.target : c \in {d \in OverdueOwn(slot.chain, tick) : d.kind = "RevealAndCommit"}}
ExpiryFailuresOfEach(slot, tick) ==
    IF IsPlanned(slot) THEN ExpiryFailuresAnyState(slot, tick) ELSE {}

(* At most one financial failure: the earliest normal call, and for a      *)
(* drain otherwise its terminal if that was ever attempted.                *)
ExpiryFailures(slot, tick) ==
    LET overdue == OverdueOwn(slot.chain, tick)
        normal == {c \in overdue : c.kind = "RevealAndCommit"}
        attempted == {c \in overdue : /\ c.kind = "TerminalReveal"
                                      /\ c.state \in {"Broadcasting", "Retry"}}
        counted == CASE IsPlanned(slot) -> normal
                     [] Tag(slot) = "Draining" -> IF normal # {} THEN normal ELSE attempted
                     [] OTHER -> {}
    IN  {c.target : c \in {d \in counted : \A e \in counted : d.target <= e.target}}

CompleteDrain(slot, outcome) == [slot EXCEPT !.chain = NoChain, !.state = Drained(outcome)]

ExpireCalls(slot, tick) ==
    LET expired == [slot EXCEPT !.chain.calls = {ExpireCall(c, tick) : c \in @}]
        next == IF OverdueOwn(slot.chain, tick) = {} THEN expired
                ELSE CASE IsPlanned(slot) ->
                              LoseChain(expired, SaturatingAdd(tick, 1), FALSE)
                       [] Tag(slot) = "Draining" -> CompleteDrain(expired, "Failed")
                       [] OTHER -> expired
    IN  Result(next, MarkAll(ExpiryFailures(slot, tick), "Failed"))

-----------------------------------------------------------------------------
(* Planning *)

(* build_transaction refuses a target outside the stream. *)
Signs(target, stream) == target % STREAM_COUNT = stream

MayStart(slot) ==
    /\ slot.state.absenceObserved
    /\ \/ Tag(slot) = "Waiting"
       \/ Tag(slot) = "Restarting" /\ slot.state.reason = "None"

(* Seeded bug: the replacement drops the frozen tail. *)
StartDroppingTail(slot, stream, tick) ==
    LET target == NextStreamTick(MaxOf(tick + SEND_LEAD_TICKS, slot.restartAt), stream)
    IN  IF ~MayStart(slot) THEN Result(slot, {})
        ELSE IF CheckedAdd(tick, SEND_LEAD_TICKS) = NoTick \/ target = NoTick THEN Error(slot)
        ELSE Result([slot EXCEPT
                        !.chain = [NoChain EXCEPT
                            !.first = target, !.last = target, !.preimage = target,
                            !.calls = {NewCall(target, "FirstCommit", NoTick)}],
                        !.state = Starting(target)], {})

StartIfReady(slot, stream, tick) ==
    LET earliest == MaxOf(tick + SEND_LEAD_TICKS, slot.restartAt)
        target == NextStreamTick(earliest, stream)
    IN  IF ~MayStart(slot) THEN Result(slot, {})
        ELSE IF \/ CheckedAdd(tick, SEND_LEAD_TICKS) = NoTick
                \/ target = NoTick
                \/ ~Signs(target, stream)
        THEN Error(slot)
        ELSE Result([slot EXCEPT
                        !.chain = [NoChain EXCEPT
                            !.first = target, !.last = target, !.preimage = target,
                            !.calls = slot.chain.calls \cup
                                          {NewCall(target, "FirstCommit", NoTick)}],
                        !.state = Starting(target)], {})

(* One round of the planning loop: the loop condition and its body. *)
PlansNext(chain, horizon) ==
    /\ chain.first # NoTick
    /\ CheckedAdd(chain.last, STREAM_COUNT) # NoTick
    /\ chain.last + STREAM_COUNT <= horizon

(* Seeded bug: the outstanding preimage is not replaced. *)
PlanNextStalePreimage(chain, horizon) ==
    LET target == chain.last + STREAM_COUNT
    IN  IF ~PlansNext(chain, horizon) THEN chain
        ELSE [chain EXCEPT
                 !.calls = @ \cup {NewCall(target, "RevealAndCommit", chain.preimage)},
                 !.last = target]

PlanNext(chain, horizon) ==
    LET target == chain.last + STREAM_COUNT
    IN  IF ~PlansNext(chain, horizon) THEN chain
        ELSE [chain EXCEPT
                 !.calls = @ \cup {NewCall(target, "RevealAndCommit", chain.preimage)},
                 !.last = target, !.preimage = target]

(* Two rounds exhaust the loop (LoopEndsAfterTwoRounds, a theorem):        *)
(* the next target is above the tick and the horizon six ticks ahead.      *)
ExtendChain(slot, stream, tick) ==
    LET next == CheckedAdd(slot.chain.last, STREAM_COUNT)
        missed == HasChain(slot) /\ next # NoTick /\ next <= tick
        expired == ExpireCalls(slot, tick)
        horizon == tick + SEND_LEAD_TICKS
    IN  IF ~IsPlanned(slot) THEN Result(slot, {})
        ELSE IF missed /\ ~IsPlanned(expired.slot) THEN expired
        ELSE IF missed
        THEN Result(LoseChain(expired.slot, SaturatingAdd(tick, 1), FALSE),
                    expired.marks \cup MarkAll({next}, "Failed"))
        ELSE IF CheckedAdd(tick, SEND_LEAD_TICKS) = NoTick THEN Error(slot)
        ELSE IF PlansNext(slot.chain, horizon) /\ ~Signs(next, stream) THEN Error(slot)
        ELSE Result([slot EXCEPT !.chain = PlanNext(PlanNext(@, horizon), horizon)], {})

(* start_if_ready, then extend_chain, each returning early on an error. *)
PlanSlot(slot, stream, tick) ==
    LET started == StartIfReady(slot, stream, tick)
    IN  IF started.ok THEN ExtendChain(started.slot, stream, tick) ELSE started

EnterDrain(slot, stream, reason) ==
    LET terminal == CheckedAdd(slot.chain.last, STREAM_COUNT)
        latched == IF slot.state.reason = "Shutdown" THEN "Shutdown" ELSE reason
    IN  CASE Tag(slot) \in {"Draining", "Drained"} -> Result(slot, {})
          [] Tag(slot) = "Waiting" ->
                 Result([slot EXCEPT !.state = Drained("NothingToDrain")], {})
          [] Tag(slot) = "Restarting" -> Result([slot EXCEPT !.state.reason = latched], {})
          [] OTHER ->
                 IF ~HasChain(slot) \/ terminal = NoTick \/ ~Signs(terminal, stream)
                 THEN Error(slot)
                 ELSE Result([slot EXCEPT
                          !.chain.calls = @ \cup
                              {NewCall(terminal, "TerminalReveal", slot.chain.preimage)},
                          !.state = Draining(reason, terminal)], {})

-----------------------------------------------------------------------------
(* Sending *)

(* Seeded bugs: reveals go out as early as first commits, or so late that  *)
(* the transaction set of their tick is already chosen.                    *)
SendLeadUniform(call) == SEND_LEAD_TICKS
SendLeadLate(call) ==
    IF call.kind = "FirstCommit" THEN SEND_LEAD_TICKS ELSE TICK_DATA_PUBLICATION_LEAD_TICKS

SendLead(call) ==
    IF call.kind = "FirstCommit" THEN SEND_LEAD_TICKS ELSE REVEAL_SEND_LEAD_TICKS

InSendWindow(call, tick) ==
    tick < call.target /\ call.target <= SaturatingAdd(tick, SendLead(call))

(* Every prerequisite of the terminal reveal has backend acceptance. *)
TerminalReady(slot) ==
    Tag(slot) = "Draining" =>
        \A c \in slot.chain.calls :
            \/ Remnant(slot.chain, c)
            \/ c.kind = "TerminalReveal"
            \/ c.target > slot.state.at
            \/ c.state = "Accepted"

RedundantLead(call) ==
    CASE call.kind = "FirstCommit" -> REDUNDANT_SEND_LEAD_TICKS
      [] call.kind = "RevealAndCommit" -> 3
      [] OTHER -> 0

RedundantNow(slot, call, tick) ==
    /\ IsPlanned(slot)
    /\ ~Remnant(slot.chain, call)
    /\ call.state = "Accepted"
    /\ call.kind # "TerminalReveal"
    /\ ~call.redundant
    /\ call.target - tick > TICK_DATA_PUBLICATION_LEAD_TICKS
    /\ call.target - tick <= RedundantLead(call)

Sendable(slot, call, tick) ==
    /\ InSendWindow(call, tick)
    /\ call.kind = "TerminalReveal" => TerminalReady(slot)
    /\ RedundantNow(slot, call, tick) \/ call.state \in {"Ready", "Retry"}

(* A shutdown makes one terminal attempt: a retry is given up instead. *)
GivesUp(slot, call) ==
    /\ call.kind = "TerminalReveal"
    /\ Tag(slot) = "Draining" /\ slot.state.reason = "Shutdown"
    /\ call.state = "Retry"

DispatchCall(slot, call, tick) ==
    CASE ~Sendable(slot, call, tick) -> call
      [] Sendable(slot, call, tick) /\ RedundantNow(slot, call, tick) ->
             [call EXCEPT !.inflight = TRUE, !.redundant = TRUE]
      [] Sendable(slot, call, tick) /\ GivesUp(slot, call) -> [call EXCEPT !.state = "Failed"]
      [] OTHER -> [call EXCEPT !.inflight = TRUE, !.state = "Broadcasting"]

DispatchCalls(slot, tick) ==
    LET sendable == {c \in slot.chain.calls : Sendable(slot, c, tick)}
        givenUp == {c.target : c \in {d \in sendable : GivesUp(slot, d)}}
        revealed == {c.target : c \in {d \in sendable : d.kind # "FirstCommit"}} \ givenUp
    IN  Result([slot EXCEPT !.chain.calls = {DispatchCall(slot, c, tick) : c \in @}],
               MarkAll(revealed, "Digest") \cup MarkAll(givenUp, "Failed"))

(* Seeded bug: the shutdown terminal is retried like any other call. *)
HarvestCallRetrying(slot, call, result) ==
    LET r == IF call.inflight THEN result[call.target] ELSE "pending"
    IN  IF r = "pending" THEN call
        ELSE [call EXCEPT !.inflight = FALSE,
                          !.state = IF @ = "Accepted" \/ r = "ok" THEN "Accepted" ELSE "Retry"]

(* `result' says, per target, how its task stands when it is harvested. *)
HarvestCall(slot, call, result) ==
    LET r == IF call.inflight THEN result[call.target] ELSE "pending"
        oneShot == /\ Tag(slot) = "Draining" /\ slot.state.reason = "Shutdown"
                   /\ call.kind = "TerminalReveal"
    IN  IF r = "pending" THEN call
        ELSE [call EXCEPT !.inflight = FALSE,
                          !.state = CASE @ = "Accepted" -> "Accepted"
                                      [] @ # "Accepted" /\ r = "ok" -> "Accepted"
                                      [] OTHER -> IF oneShot THEN "Failed" ELSE "Retry"]

(* Seeded bug: acceptances are counted only while the chain is planned. *)
HarvestCountingPlanned(slot, result) ==
    LET accepted == {c \in slot.chain.calls : /\ c.inflight /\ c.state # "Accepted"
                                              /\ c.kind = "RevealAndCommit"
                                              /\ result[c.target] = "ok"}
    IN  Result([slot EXCEPT !.chain.calls = {HarvestCall(slot, c, result) : c \in @}],
               IF IsPlanned(slot) THEN MarkAll({c.target : c \in accepted}, "Ok") ELSE {})

HarvestBroadcasts(slot, result) ==
    LET finished == {c \in slot.chain.calls : /\ c.inflight
                                              /\ result[c.target] # "pending"
                                              /\ c.state # "Accepted"}
        becomes(state) == {c \in finished : HarvestCall(slot, c, result).state = state}
        accepted == {c.target : c \in {d \in becomes("Accepted") : d.kind = "RevealAndCommit"}}
        failed == {c.target : c \in becomes("Failed")}
    IN  Result([slot EXCEPT !.chain.calls = {HarvestCall(slot, c, result) : c \in @}],
               MarkAll(accepted, "Ok") \cup MarkAll(failed, "Failed"))

-----------------------------------------------------------------------------
(* The end of a cycle *)

(* Seeded bug: a terminal reveal handed to the backend counts as accepted. *)
FinishDrainOnSend(slot) ==
    IF /\ Tag(slot) = "Draining"
       /\ \E c \in slot.chain.calls : c.kind = "TerminalReveal" /\ c.state # "Ready"
    THEN CompleteDrain(slot, "NothingToDrain") ELSE slot

FinishDrain(slot) ==
    LET terminalIs(state) == \E c \in slot.chain.calls :
                                 c.kind = "TerminalReveal" /\ c.state = state
    IN  CASE Tag(slot) = "Draining" /\ terminalIs("Accepted") -> CompleteDrain(slot, "Accepted")
          [] Tag(slot) = "Draining" /\ terminalIs("Failed") -> CompleteDrain(slot, "Failed")
          [] OTHER -> slot

FinishStatusRestart(slot, tick) ==
    IF Tag(slot) # "Restarting" \/ tick < slot.state.at THEN slot
    ELSE [slot EXCEPT !.chain = NoChain,
                      !.state = IF @.reason # "None" THEN Drained("NothingToDrain")
                                ELSE Waiting(@.absenceAfter, @.absenceObserved)]

PruneCalls(slot, tick) ==
    LET keeps(c) == IF Remnant(slot.chain, c) THEN c.target > tick
                    ELSE c.target >= tick \/ c.state # "Accepted"
    IN  IF Tag(slot) = "Draining" THEN slot
        ELSE [slot EXCEPT !.chain.calls = {c \in @ : keeps(c)}]

(* The per-slot tail of a cycle, in the order of the code. *)
SendSlot(slot, tick) ==
    LET expired == ExpireCalls(slot, tick)
        sent == DispatchCalls(expired.slot, tick)
        drained == FinishDrain(sent.slot)
        restarted == FinishStatusRestart(drained, tick)
    IN  Result(PruneCalls(restarted, tick), expired.marks \cup sent.marks)

=============================================================================
