--------------------------- MODULE DeliveryProofs ---------------------------
(***************************************************************************)
(* How the calls of a slot are delivered, for every MaxTick and every      *)
(* sequence of ticks, responses and task results: what each handler does   *)
(* to tasks, to the tail of a chain and to the failures it reports, and    *)
(* the delivery properties of the engine that follow.  Then what the       *)
(* delivered calls add up to: the engine implements the stream ledger, and *)
(* a clean exit of a shutdown has paid what it owes.                       *)
(***************************************************************************)
EXTENDS ProviderEngineProofs, EngineLedger, ShutdownLedger

USE DEF STREAM_COUNT, StreamIds

(* A call has a task while it is Broadcasting or in its redundant attempt, *)
(* and a shutdown terminal never waits for a retry.                        *)
TaskOK(slot, c) ==
    /\ c.inflight => c.state = "Broadcasting" \/ (c.state = "Accepted" /\ c.redundant)
    /\ c.state = "Broadcasting" => c.inflight
    /\ c.redundant => c.state = "Accepted"
    /\ ~GivesUp(slot, c)

(* Once the terminal reveal was attempted, every prerequisite is accepted. *)
TerminalLast(slot) ==
    \A t \in slot.chain.calls : t.kind = "TerminalReveal" /\ t.state # "Ready" =>
        \A c \in slot.chain.calls :
            Remnant(slot.chain, c) \/ c.kind = "TerminalReveal" \/ c.state = "Accepted"

(* A slot that waits restarts on a tick of its stream.                     *)
RestartAligned(slot, s) ==
    Tag(slot) = "Waiting" => slot.restartAt = 0 \/ slot.restartAt % STREAM_COUNT = s

DeliveryOK(slot, s) ==
    /\ \A c \in slot.chain.calls : TaskOK(slot, c)
    /\ TerminalLast(slot)
    /\ RestartAligned(slot, s)

-----------------------------------------------------------------------------
(* What delivery does to one call *)

(* A checked addition is the sum, or None past MaxTick.                    *)
LEMMA CheckedAddCases ==
  ASSUME NEW t \in Nat, NEW n \in Nat
  PROVE  IF t + n > MaxTick THEN CheckedAdd(t, n) = NoTick
         ELSE CheckedAdd(t, n) = t + n /\ t + n \in Ticks /\ t + n # NoTick
  BY MaxTickAssumption DEF CheckedAdd, NoTick, Ticks

(* The calls of a slot are replaced and nothing else.                      *)
LEMMA RecalledFields ==
  ASSUME NEW slot \in ManagedSlot, NEW calls
  PROVE  LET new == [slot EXCEPT !.chain.calls = calls]
         IN  /\ new.state = slot.state /\ new.restartAt = slot.restartAt
             /\ new.chain.first = slot.chain.first /\ new.chain.last = slot.chain.last
             /\ new.chain.calls = calls
             /\ calls = slot.chain.calls => new = slot
  BY DEF ManagedSlot, Chain

(* A finished task ends without a retry of a shutdown terminal, and leaves *)
(* a call that was never sent alone.                                       *)
LEMMA HarvestCallTask ==
  ASSUME NEW slot, NEW c \in PlannedCall, TaskOK(slot, c), NEW result
  PROVE  LET d == HarvestCall(slot, c, result)
         IN  /\ TaskOK(slot, d)
             /\ d.inflight => c.inflight
             /\ c.state = "Accepted" => d.state = "Accepted"
             /\ d.state = "Ready" <=> c.state = "Ready"
             /\ (d.state = "Failed" /\ c.state # "Failed") =>
                    c.kind = "TerminalReveal" /\ Tag(slot) = "Draining"
  BY DEF HarvestCall, PlannedCall, TaskOK, GivesUp, BroadcastStates

(* Expiry aborts the task of every call whose target has arrived.          *)
LEMMA ExpireCallTask ==
  ASSUME NEW slot, NEW c \in PlannedCall, TaskOK(slot, c), NEW tick \in Ticks
  PROVE  LET d == ExpireCall(c, tick)
         IN  /\ TaskOK(slot, d)
             /\ d.inflight => c.inflight /\ tick < c.target
             /\ ~Overdue(c, tick) => d.state = c.state
             /\ c.state = "Accepted" => d.state = "Accepted"
  BY MaxTickAssumption
     DEF ExpireCall, Overdue, PlannedCall, TaskOK, GivesUp, BroadcastStates, Ticks

(* Dispatch sends a call before its target, and a reveal only after the    *)
(* commit set it belongs to was selected.                                  *)
LEMMA DispatchCallTask ==
  ASSUME NEW slot, NEW c \in PlannedCall, TaskOK(slot, c), NEW tick \in Ticks
  PROVE  LET d == DispatchCall(slot, c, tick)
         IN  /\ TaskOK(slot, d)
             /\ (d.inflight /\ ~c.inflight) =>
                    tick < c.target /\ c.target <= SaturatingAdd(tick, SendLead(c))
             /\ c.state = "Accepted" => d.state = "Accepted"
             /\ (d.state # "Ready" /\ c.state = "Ready" /\ c.kind = "TerminalReveal") =>
                    TerminalReady(slot)
             /\ d.state = "Failed" => c.state = "Failed"
  BY DEF DispatchCall, Sendable, RedundantNow, InSendWindow, PlannedCall, TaskOK, GivesUp,
         BroadcastStates

-----------------------------------------------------------------------------
(* What a handler does to tasks, calls and failures *)

(* Every task after the handler ran before it.                             *)
NoNewTask(new, slot) ==
    \A c \in new.chain.calls : c.inflight =>
        \E d \in slot.chain.calls : SameBytes(c, d) /\ d.inflight

(* Every call is still queued.                                             *)
KeepsQueue(new, slot) ==
    \A c \in slot.chain.calls : \E d \in new.chain.calls : SameBytes(c, d)

(* Reports of one target, a tick of this stream.                           *)
OneTarget(reported, s) ==
    \A m \in reported : m.target % STREAM_COUNT = s /\ \A n \in reported : n.target = m.target

(* A reported failure is of this stream, of a served chain that had none,  *)
(* ends it, and is the only one.                                           *)
FailsOnce(reported, new, slot, s) ==
    \A m \in reported : m.mark = "Failed" =>
        /\ m.target % STREAM_COUNT = s
        /\ IsPlanned(slot) \/ Tag(slot) = "Draining"
        /\ ~TerminalFailed(slot)
        /\ ~IsPlanned(new)
        /\ Tag(new) = "Draining" => TerminalFailed(new)
        /\ \A n \in reported : n.mark = "Failed" => n.target = m.target

(* The slot serves the same chain in the same state.                       *)
SameChain(new, slot) ==
    /\ new.state = slot.state /\ new.restartAt = slot.restartAt
    /\ new.chain.first = slot.chain.first /\ new.chain.last = slot.chain.last

(* A chain has at most one terminal reveal.                                *)
LEMMA OneTerminal ==
  ASSUME NEW slot, NEW s, NEW G, SlotOK(slot, s, G),
         NEW c \in slot.chain.calls, NEW d \in slot.chain.calls,
         c.kind = "TerminalReveal", d.kind = "TerminalReveal"
  PROVE  /\ c = d /\ Tag(slot) = "Draining" /\ c.target % STREAM_COUNT = s
         /\ ~Remnant(slot.chain, c)
  <1>1. slot.chain # NoChain
    BY DEF NoChain
  <1>2. Tag(slot) = "Draining" /\ ChainOK(slot.chain, s, G)
    BY <1>1, HasChainTag DEF SlotOK, StateOK, OpenTail, SlotTags
  <1>3. c.target = slot.chain.last + STREAM_COUNT /\ d.target = c.target
    BY <1>2 DEF SlotOK, StateOK
  <1>4. ~Remnant(slot.chain, c)
    BY <1>2, <1>3, TicksType DEF Remnant, ChainOK, Ticks
  <1> QED BY <1>2, <1>3, <1>4 DEF ChainOK, CallOK, DistinctTargets

(* harvest_broadcasts: a failure is the one attempt of a shutdown terminal. *)
LEMMA HarvestServes ==
  ASSUME NEW slot, NEW s \in StreamIds, NEW G, SlotOK(slot, s, G), DeliveryOK(slot, s),
         NEW result
  PROVE  LET r == HarvestBroadcasts(slot, result)
         IN  /\ DeliveryOK(r.slot, s) /\ SameChain(r.slot, slot)
             /\ NoNewTask(r.slot, slot) /\ KeepsQueue(r.slot, slot)
             /\ FailsOnce(r.marks, r.slot, slot, s)
             /\ slot.chain.calls = {} => r.slot = slot /\ r.marks = {}
  <1> DEFINE after(c) == HarvestCall(slot, c, result)
             calls == {after(c) : c \in slot.chain.calls}
             r == HarvestBroadcasts(slot, result)
             new == r.slot
  <1>1. /\ SameChain(new, slot) /\ new.chain.calls = calls
        /\ slot.chain.calls = {} => new = slot /\ r.marks = {}
    <2>1. new = [slot EXCEPT !.chain.calls = calls]
      BY DEF HarvestBroadcasts, Result
    <2>2. slot \in ManagedSlot
      BY DEF SlotOK
    <2>3. slot.chain.calls = {} => calls = slot.chain.calls /\ r.marks = {}
      BY DEF HarvestBroadcasts, Result, MarkAll
    <2> HIDE DEF calls, r
    <2>4. /\ SameChain(new, slot) /\ new.chain.calls = calls
          /\ calls = slot.chain.calls => new = slot
      BY <2>1, <2>2, RecalledFields DEF SameChain
    <2> QED BY <2>3, <2>4
  <1>2. \A c \in slot.chain.calls :
            /\ c \in PlannedCall /\ TaskOK(slot, c)
            /\ SameBytes(after(c), c) /\ TaskOK(slot, after(c))
            /\ after(c).inflight => c.inflight
            /\ c.state = "Accepted" => after(c).state = "Accepted"
            /\ after(c).state = "Ready" <=> c.state = "Ready"
            /\ (after(c).state = "Failed" /\ c.state # "Failed") =>
                   c.kind = "TerminalReveal" /\ Tag(slot) = "Draining"
    BY CallsDistinct, HarvestCallBytes, HarvestCallTask DEF DeliveryOK
  <1>3. \A m \in r.marks : m.mark = "Failed" =>
            \E c \in slot.chain.calls : /\ c.inflight /\ c.state # "Accepted"
                                        /\ after(c).state = "Failed" /\ m.target = c.target
    BY DEF HarvestBroadcasts, Result, MarkAll
  <1>4. \A c \in calls : \E d \in slot.chain.calls : c = after(d)
    OBVIOUS
  <1>5. \A d \in slot.chain.calls : after(d) \in calls
    OBVIOUS
  <1> HIDE DEF after, calls, r
  <1>6. DeliveryOK(new, s)
    <2>1. \A c \in new.chain.calls : TaskOK(new, c)
      BY <1>1, <1>2, <1>4 DEF TaskOK, GivesUp, SameChain, Tag
    <2>2. TerminalLast(new)
      BY <1>1, <1>2, <1>4 DEF DeliveryOK, TerminalLast, SameBytes, Remnant, SameChain
    <2> QED BY <1>1, <2>1, <2>2 DEF DeliveryOK, RestartAligned, SameChain, Tag
  <1>7. NoNewTask(new, slot) /\ KeepsQueue(new, slot)
    BY <1>1, <1>2, <1>4, <1>5 DEF NoNewTask, KeepsQueue, SameBytes
  <1>8. FailsOnce(r.marks, new, slot, s)
    <2> SUFFICES ASSUME NEW m \in r.marks, m.mark = "Failed"
                 PROVE  /\ m.target % STREAM_COUNT = s
                        /\ Tag(slot) = "Draining" /\ Tag(new) = Tag(slot)
                        /\ ~TerminalFailed(slot) /\ TerminalFailed(new)
                        /\ \A n \in r.marks : n.mark = "Failed" => n.target = m.target
      BY DEF FailsOnce, IsPlanned
    <2>1. PICK c \in slot.chain.calls : /\ c.inflight /\ c.state # "Accepted"
                                        /\ after(c).state = "Failed" /\ m.target = c.target
      BY <1>3
    <2>2. c.state = "Broadcasting" /\ c.kind = "TerminalReveal" /\ Tag(slot) = "Draining"
      BY <1>2, <2>1 DEF TaskOK
    <2>3. ~TerminalFailed(slot) /\ m.target % STREAM_COUNT = s
      BY <2>1, <2>2, OneTerminal DEF TerminalFailed
    <2>4. TerminalFailed(new)
      BY <1>1, <1>2, <1>5, <2>1, <2>2 DEF TerminalFailed, SameBytes
    <2>5. ASSUME NEW n \in r.marks, n.mark = "Failed" PROVE n.target = m.target
      <3>1. PICK d \in slot.chain.calls : /\ d.inflight /\ d.state # "Accepted"
                                          /\ after(d).state = "Failed" /\ n.target = d.target
        BY <1>3, <2>5
      <3>2. d.kind = "TerminalReveal"
        BY <1>2, <3>1 DEF TaskOK
      <3> QED BY <2>1, <2>2, <3>1, <3>2, OneTerminal
    <2> QED BY <1>1, <2>2, <2>3, <2>4, <2>5 DEF SameChain, Tag
  <1> QED BY <1>1, <1>6, <1>7, <1>8 DEF r

-----------------------------------------------------------------------------
(* Applying a provider-status observation *)

(* A planned chain is kept, frozen as it is, or ends where no restart fits. *)
StatusShape(new, slot) ==
    \/ /\ IsPlanned(slot) /\ Tag(new) \in {"Starting", "Active", "Restarting"}
       /\ new.chain.first = slot.chain.first /\ new.chain.last = slot.chain.last
       /\ new.chain.calls = slot.chain.calls
    \/ /\ IsPlanned(slot) /\ new = ExhaustedSlot
       /\ slot.chain.last + STREAM_COUNT > MaxTick
    \/ /\ Tag(slot) \in {"Waiting", "Restarting"} /\ Tag(new) = Tag(slot)
       /\ new.chain = slot.chain /\ new.restartAt = slot.restartAt
    \/ Tag(slot) \in {"Draining", "Drained"} /\ new = slot

(* A failure is reported only with the chain's end, at one tick of the stream. *)
StatusMarks(reported, new, slot, s) ==
    /\ reported # {} => IsPlanned(slot) /\ ~IsPlanned(new)
    /\ OneTarget(reported, s)

(* A planned chain's calls are on its stream and hold no terminal reveal.  *)
LEMMA PlannedChain ==
  ASSUME NEW slot, NEW s, NEW G, SlotOK(slot, s, G), IsPlanned(slot)
  PROVE  /\ slot.chain.first \in Ticks /\ slot.chain.last \in Ticks
         /\ slot.chain.first <= slot.chain.last
         /\ slot.chain.first % STREAM_COUNT = s /\ slot.chain.last % STREAM_COUNT = s
         /\ slot.chain.confirmed # NoTick =>
                /\ slot.chain.confirmed \in Ticks
                /\ (slot.chain.confirmed - slot.chain.first) % STREAM_COUNT = 0
         /\ HasChain(slot) /\ ChainOK(slot.chain, s, G) /\ ~TerminalFailed(slot)
         /\ \A c \in slot.chain.calls : c.kind # "TerminalReveal"
  <1>1. ChainOK(slot.chain, s, G) /\ OpenTail(slot.chain, G)
    BY DEF SlotOK, StateOK, IsPlanned
  <1> QED BY <1>1, HasChainTag, MaxTickAssumption
          DEF ChainOK, OpenTail, HasChain, TerminalFailed, IsPlanned, Ticks, NoTick

(* The failure of a suspected chain is a tick of its stream.               *)
LEMMA FinancialTargetAligned ==
  ASSUME NEW slot, NEW s \in StreamIds, NEW G, SlotOK(slot, s, G), IsPlanned(slot),
         NEW evidence \in Evidence, evidence.kind = "Lag" => evidence.tick % STREAM_COUNT = s
  PROVE  \A t \in FinancialFailureTargets(slot.chain, evidence) : t % STREAM_COUNT = s
  <1> DEFINE chain == slot.chain
  <1>1. /\ chain.first \in Ticks /\ chain.first % STREAM_COUNT = s
        /\ chain.confirmed # NoTick =>
               /\ chain.confirmed \in Ticks /\ (chain.confirmed - chain.first) % STREAM_COUNT = 0
    BY PlannedChain
  <1>2. SUFFICES ASSUME NEW t \in FinancialFailureTargets(chain, evidence)
                 PROVE  t % STREAM_COUNT = s
    OBVIOUS
  <1>3. CASE evidence.kind = "Absent" /\ chain.confirmed # NoTick
    <2>1. t = CheckedAdd(chain.confirmed, STREAM_COUNT) /\ t > chain.first
      BY <1>2, <1>3 DEF FinancialFailureTargets
    <2>2. t = chain.confirmed + STREAM_COUNT
      BY <1>1, <2>1, MaxTickAssumption DEF CheckedAdd, Ticks, NoTick
    <2> QED BY <1>1, <1>3, <2>2, MaxTickAssumption DEF Ticks
  <1>4. CASE evidence.kind = "Lag"
    BY <1>2, <1>4 DEF FinancialFailureTargets
  <1>5. CASE ~(evidence.kind = "Absent" /\ chain.confirmed # NoTick) /\ evidence.kind # "Lag"
    BY <1>1, <1>2, <1>5, MaxTickAssumption DEF FinancialFailureTargets, NoTick, Ticks
  <1> QED BY <1>3, <1>4, <1>5

(* begin_status_restart freezes a planned chain with all its calls.        *)
LEMMA BeginRestartShape ==
  ASSUME NEW slot, NEW s \in StreamIds, NEW G, SlotOK(slot, s, G), IsPlanned(slot),
         NEW after \in Ticks, NEW observed \in BOOLEAN
  PROVE  LET new == BeginStatusRestart(slot, after, observed)
         IN  StatusShape(new, slot) /\ ~IsPlanned(new)
  <1> DEFINE last == slot.chain.last
             new == BeginStatusRestart(slot, after, observed)
             frozen == [slot EXCEPT !.restartAt = last + STREAM_COUNT,
                                    !.state = Restarting(last, after, observed, "None")]
  <1>1. last \in Nat /\ HasChain(slot) /\ slot \in ManagedSlot
    BY PlannedChain, TicksType DEF SlotOK
  <1>2. CASE last + STREAM_COUNT > MaxTick
    <2>1. CheckedAdd(last, STREAM_COUNT) = NoTick
      BY <1>1, <1>2, CheckedAddCases
    <2>2. new = ExhaustedSlot
      BY <1>1, <2>1 DEF BeginStatusRestart
    <2> QED BY <1>2, <2>2, ExhaustedShape DEF StatusShape
  <1>3. CASE ~(last + STREAM_COUNT > MaxTick)
    <2>1. CheckedAdd(last, STREAM_COUNT) # NoTick
      BY <1>1, <1>3, CheckedAddCases
    <2>3. new = frozen
      BY <1>1, <2>1 DEF BeginStatusRestart
    <2>2. Tag(frozen) = "Restarting" /\ frozen.chain = slot.chain
      BY <1>1 DEF Tag, Restarting, Waiting, ManagedSlot
    <2> QED BY <2>2, <2>3 DEF StatusShape, IsPlanned
  <1> QED BY <1>2, <1>3

(* observe_status_evidence reports a failure only as it ends a chain.      *)
LEMMA ObserveEvidenceShape ==
  ASSUME NEW slot, NEW s \in StreamIds, NEW G, SlotOK(slot, s, G), IsPlanned(slot),
         NEW evidence \in Evidence, evidence.kind = "Lag" => evidence.tick % STREAM_COUNT = s,
         NEW requested \in Ticks
  PROVE  LET r == ObserveStatusEvidence(slot, evidence, requested)
         IN  StatusShape(r.slot, slot) /\ StatusMarks(r.marks, r.slot, slot, s)
  <1> DEFINE next == ObserveEvidence(slot.chain.suspicion, evidence, requested)
             suspected == [slot EXCEPT !.chain.suspicion = next]
             absent == evidence.kind = "Absent"
             after == IF absent THEN requested ELSE SaturatingAdd(requested, 1)
             restarted == BeginStatusRestart(suspected, after, absent)
             failed == MarkAll(FinancialFailureTargets(slot.chain, evidence), "Failed")
             r == ObserveStatusEvidence(slot, evidence, requested)
  <1>1. \/ r = Result(slot, {})
        \/ r = Result(suspected, {})
        \/ r = Result(restarted, failed)
    BY DEF ObserveStatusEvidence, Outdated
  <1>2. next \in Suspicion /\ after \in Ticks /\ absent \in BOOLEAN
    BY ObserveEvidenceType, SaturatingAddType DEF SlotOK, ManagedSlot, Chain
  <1>3. OneTarget(failed, s)
    <2>1. \A t \in FinancialFailureTargets(slot.chain, evidence) :
              /\ t % STREAM_COUNT = s
              /\ \A u \in FinancialFailureTargets(slot.chain, evidence) : u = t
      BY FinancialTargetAligned DEF FinancialFailureTargets
    <2> QED BY <2>1 DEF MarkAll, OneTarget
  <1>4. /\ SlotOK(suspected, s, G) /\ suspected.state = slot.state
        /\ suspected.chain.calls = slot.chain.calls
        /\ suspected.chain.first = slot.chain.first /\ suspected.chain.last = slot.chain.last
    BY <1>2, ReplaceSuspicion DEF SlotOK, ManagedSlot, Chain
  <1> HIDE DEF next, suspected, absent, after, failed, r
  <1>5. IsPlanned(suspected) /\ StatusShape(suspected, slot)
    BY <1>4 DEF IsPlanned, StatusShape, Tag
  <1>6. StatusShape(restarted, suspected) /\ ~IsPlanned(restarted)
    BY <1>2, <1>4, <1>5, BeginRestartShape
  <1> HIDE DEF restarted
  <1>7. StatusShape(restarted, slot)
    BY <1>4, <1>5, <1>6 DEF StatusShape, IsPlanned
  <1>8. StatusShape(slot, slot)
    BY DEF StatusShape, IsPlanned
  <1> QED BY <1>1, <1>3, <1>5, <1>6, <1>7, <1>8 DEF Result, StatusMarks, OneTarget, r

(* A slot acknowledged at a target of its own chain serves that chain.     *)
LEMMA AcknowledgedShape ==
  ASSUME NEW slot, NEW s \in StreamIds, NEW G, SlotOK(slot, s, G), IsPlanned(slot),
         NEW seen \in Ticks, OwnsTarget(slot.chain, seen), NEW chain \in Chain,
         chain.first = slot.chain.first, chain.last = slot.chain.last,
         chain.preimage = slot.chain.preimage, chain.calls = slot.chain.calls,
         chain.confirmed = seen
  PROVE  LET new == [[slot EXCEPT !.state = Active] EXCEPT !.chain = chain]
         IN  SlotOK(new, s, G) /\ IsPlanned(new) /\ StatusShape(new, slot) /\ new.chain = chain
  <1> DEFINE new == [[slot EXCEPT !.state = Active] EXCEPT !.chain = chain]
  <1>1. new \in ManagedSlot /\ new.state = Active /\ new.chain = chain
    BY ActiveType DEF SlotOK, ManagedSlot
  <1> HIDE DEF new
  <1>2. seen \in slot.chain.first .. slot.chain.last /\ (seen - slot.chain.first) % STREAM_COUNT = 0
    BY PlannedChain, TicksType DEF OwnsTarget, Ticks
  <1>3. SlotOK(new, s, G) /\ IsPlanned(new)
    BY <1>1, <1>2, AcknowledgedOK
  <1>4. StatusShape(new, slot)
    BY <1>1 DEF StatusShape, Tag, Active, Waiting
  <1> QED BY <1>1, <1>3, <1>4 DEF new

(* apply_confirmation_watermark serves the chain on, or freezes it.        *)
LEMMA WatermarkShape ==
  ASSUME NEW slot, NEW s \in StreamIds, NEW G, SlotOK(slot, s, G), IsPlanned(slot),
         NEW seen \in Ticks, OwnsTarget(slot.chain, seen), NEW requested \in Ticks
  PROVE  LET r == ApplyConfirmationWatermark([slot EXCEPT !.state = Active], seen, requested)
         IN  StatusShape(r.slot, slot) /\ StatusMarks(r.marks, r.slot, slot, s)
  <1> DEFINE activated == [slot EXCEPT !.state = Active]
             old == activated.chain
             chain == IF old.confirmed # seen
                      THEN [old EXCEPT !.confirmed = seen, !.suspicion = NoSuspicion]
                      ELSE old
             calm == [chain EXCEPT !.suspicion = NoSuspicion]
             unsuspected == [activated EXCEPT !.chain = calm]
             moved == [activated EXCEPT !.chain = chain]
             r == ApplyConfirmationWatermark(activated, seen, requested)
             observed == ObserveStatusEvidence(moved, Lag(seen + STREAM_COUNT), requested)
  <1>1. /\ slot \in ManagedSlot /\ slot.chain \in Chain
        /\ seen \in Nat /\ slot.chain.first \in Nat
    BY PlannedChain, TicksType DEF SlotOK, ManagedSlot
  <1>2. /\ Tag(activated) = "Active" /\ activated.chain = slot.chain
    BY <1>1 DEF Tag, Active, Waiting, ManagedSlot
  <1> DEFINE Seen(x) == /\ x \in Chain
                        /\ x.first = slot.chain.first /\ x.last = slot.chain.last
                        /\ x.preimage = slot.chain.preimage /\ x.calls = slot.chain.calls
                        /\ x.confirmed = seen
  <1>3. Seen(chain) /\ Seen(calm)
    <2>1. old = slot.chain /\ seen \in OptTicks
      BY <1>2 DEF OptTicks
    <2> HIDE DEF activated
    <2>2. Seen(chain)
      BY <1>1, <2>1, NoSuspicionType DEF Chain
    <2> HIDE DEF chain
    <2>3. Seen(calm)
      BY <2>2, NoSuspicionType DEF Chain
    <2> QED BY <2>2, <2>3
  <1>4. \/ r = Result(activated, {})
        \/ r = Result(unsuspected, {})
        \/ r = Result(moved, {})
        \/ r = observed /\ CheckedAdd(seen, STREAM_COUNT) # NoTick
    BY DEF ApplyConfirmationWatermark, Repeated
  <1> HIDE DEF chain, calm, r
  <1>5. /\ SlotOK(moved, s, G) /\ IsPlanned(moved) /\ StatusShape(moved, slot)
        /\ moved.chain = chain
    BY <1>3, AcknowledgedShape
  <1>6. StatusShape(unsuspected, slot)
    BY <1>3, AcknowledgedShape
  <1>7. StatusShape(activated, slot)
    BY <1>2 DEF StatusShape
  <1> HIDE DEF activated, unsuspected, moved
  <1>8. ASSUME CheckedAdd(seen, STREAM_COUNT) # NoTick
        PROVE  StatusShape(observed.slot, slot) /\ StatusMarks(observed.marks, observed.slot, slot, s)
    <2>1. seen + STREAM_COUNT \in Ticks /\ (seen + STREAM_COUNT) % STREAM_COUNT = s
      <3>1. slot.chain.first % STREAM_COUNT = s /\ (seen - slot.chain.first) % STREAM_COUNT = 0
        BY PlannedChain DEF OwnsTarget
      <3>2. (seen + STREAM_COUNT) % STREAM_COUNT = s
        BY <1>1, <3>1
      <3> QED BY <1>1, <1>8, <3>2, CheckedAddCases
    <2>2. /\ Lag(seen + STREAM_COUNT) \in Evidence
          /\ Lag(seen + STREAM_COUNT).tick % STREAM_COUNT = s
      BY <2>1 DEF Lag, Evidence, OptTicks
    <2>3. StatusShape(observed.slot, moved) /\ StatusMarks(observed.marks, observed.slot, moved, s)
      BY <1>5, <2>2, ObserveEvidenceShape
    <2> HIDE DEF observed
    <2> QED BY <1>3, <1>5, <2>3 DEF StatusShape, StatusMarks, IsPlanned
  <1> QED BY <1>4, <1>5, <1>6, <1>7, <1>8 DEF Result, StatusMarks, OneTarget, r, activated

(* apply_status leaves draining and drained slots alone, and never makes   *)
(* a waiting or frozen slot serve.                                         *)
LEMMA ApplyStatusShape ==
  ASSUME NEW slot, NEW s \in StreamIds, NEW G, SlotOK(slot, s, G),
         NEW seen \in OptTicks, NEW requested \in Ticks
  PROVE  LET r == ApplyStatus(slot, seen, requested)
         IN  StatusShape(r.slot, slot) /\ StatusMarks(r.marks, r.slot, slot, s)
  <1> DEFINE owned == HasChain(slot) /\ seen # NoTick /\ OwnsTarget(slot.chain, seen)
             evidence == IF seen = NoTick THEN Absent ELSE Foreign(seen)
             r == ApplyStatus(slot, seen, requested)
  <1>1. Tag(slot) \in SlotTags /\ slot \in ManagedSlot
    BY HasChainTag DEF SlotOK
  <1>2. CASE Tag(slot) \in {"Draining", "Drained"}
    <2>1. r = Result(slot, {})
      BY <1>2 DEF ApplyStatus, IsPlanned
    <2>2. r.slot = slot /\ r.marks = {}
      BY <2>1 DEF Result
    <2> QED BY <1>2, <2>2 DEF StatusShape, StatusMarks, OneTarget
  <1>3. CASE Tag(slot) \in {"Waiting", "Restarting"}
    <2> DEFINE new == [slot EXCEPT !.state = ObserveAbsence(@, seen, requested)]
    <2>1. r = Result(new, {})
      BY <1>3 DEF ApplyStatus, IsPlanned
    <2>2. new.chain = slot.chain /\ new.restartAt = slot.restartAt /\ Tag(new) = Tag(slot)
      BY <1>1 DEF ObserveAbsence, ManagedSlot, SlotState, Tag
    <2> HIDE DEF new
    <2> QED BY <1>3, <2>1, <2>2 DEF Result, StatusShape, StatusMarks, OneTarget
  <1>4. CASE IsPlanned(slot) /\ owned
    <2>1. r = ApplyConfirmationWatermark([slot EXCEPT !.state = Active], seen, requested)
      BY <1>4 DEF ApplyStatus, IsPlanned
    <2> QED BY <1>4, <2>1, WatermarkShape DEF OptTicks
  <1>5. CASE IsPlanned(slot) /\ ~owned
    <2>1. r = Result(slot, {}) \/ r = ObserveStatusEvidence(slot, evidence, requested)
      BY <1>5 DEF ApplyStatus, IsPlanned
    <2>2. evidence \in Evidence /\ evidence.kind # "Lag"
      BY DEF Absent, Foreign, Evidence, OptTicks
    <2>3. StatusShape(slot, slot)
      BY <1>5 DEF StatusShape, IsPlanned
    <2> HIDE DEF evidence
    <2> QED BY <1>5, <2>1, <2>2, <2>3, ObserveEvidenceShape DEF Result, StatusMarks, OneTarget
  <1> QED BY <1>1, <1>2, <1>3, <1>4, <1>5 DEF SlotTags, IsPlanned

(* apply_status starts no task, and reports a failure as it ends a chain.  *)
LEMMA ApplyStatusServes ==
  ASSUME NEW slot, NEW s \in StreamIds, NEW G, SlotOK(slot, s, G), DeliveryOK(slot, s),
         NEW seen \in OptTicks, NEW requested \in Ticks
  PROVE  LET r == ApplyStatus(slot, seen, requested)
         IN  /\ DeliveryOK(r.slot, s) /\ NoNewTask(r.slot, slot)
             /\ KeepsQueue(r.slot, slot) \/ r.slot.chain = NoChain
             /\ FailsOnce(r.marks, r.slot, slot, s)
  <1> DEFINE r == ApplyStatus(slot, seen, requested)
             new == r.slot
  <1>1. StatusShape(new, slot) /\ StatusMarks(r.marks, new, slot, s)
    BY ApplyStatusShape
  <1> HIDE DEF r
  <1>2. /\ \A c \in slot.chain.calls : SameBytes(c, c)
        /\ \A c \in new.chain.calls : SameBytes(c, c)
    BY DEF SameBytes
  <1>3. CASE /\ IsPlanned(slot) /\ Tag(new) \in {"Starting", "Active", "Restarting"}
             /\ new.chain.first = slot.chain.first /\ new.chain.last = slot.chain.last
             /\ new.chain.calls = slot.chain.calls
    <2>1. \A c \in slot.chain.calls : c.kind # "TerminalReveal"
      BY <1>3, PlannedChain
    <2>2. DeliveryOK(new, s)
      BY <1>3, <2>1 DEF DeliveryOK, TaskOK, GivesUp, TerminalLast, RestartAligned
    <2>3. NoNewTask(new, slot) /\ KeepsQueue(new, slot)
      BY <1>2, <1>3 DEF NoNewTask, KeepsQueue
    <2> QED BY <1>1, <1>3, <2>2, <2>3, PlannedChain DEF FailsOnce, StatusMarks, OneTarget, r
  <1>4. CASE IsPlanned(slot) /\ new = ExhaustedSlot
    <2>1. new.chain = NoChain /\ Tag(new) = "Drained"
      BY <1>4, ExhaustedShape
    <2>2. new.chain.calls = {}
      BY <2>1 DEF NoChain
    <2>3. DeliveryOK(new, s) /\ NoNewTask(new, slot)
      BY <2>1, <2>2 DEF DeliveryOK, TerminalLast, RestartAligned, NoNewTask
    <2> QED BY <1>1, <1>4, <2>1, <2>3, PlannedChain DEF FailsOnce, StatusMarks, OneTarget, r
  <1>5. CASE /\ Tag(slot) \in {"Waiting", "Restarting"} /\ Tag(new) = Tag(slot)
             /\ new.chain = slot.chain /\ new.restartAt = slot.restartAt
    <2>1. DeliveryOK(new, s)
      BY <1>5 DEF DeliveryOK, TaskOK, GivesUp, TerminalLast, RestartAligned
    <2>2. NoNewTask(new, slot) /\ KeepsQueue(new, slot)
      BY <1>2, <1>5 DEF NoNewTask, KeepsQueue
    <2> QED BY <1>1, <1>5, <2>1, <2>2 DEF FailsOnce, StatusMarks, OneTarget, IsPlanned, r
  <1>6. CASE Tag(slot) \in {"Draining", "Drained"} /\ new = slot
    <2>1. NoNewTask(new, slot) /\ KeepsQueue(new, slot)
      BY <1>2, <1>6 DEF NoNewTask, KeepsQueue
    <2> QED BY <1>1, <1>6, <2>1 DEF FailsOnce, StatusMarks, OneTarget, IsPlanned, r
  <1> QED BY <1>1, <1>3, <1>4, <1>5, <1>6 DEF StatusShape, r

-----------------------------------------------------------------------------
(* Missed targets *)

(* What is left of a planned slot that lost its chain.                     *)
LostChain(new, slot) ==
    /\ new.chain = NoChain
    /\ \/ Tag(new) = "Waiting" /\ new.restartAt = slot.chain.last + STREAM_COUNT
       \/ new = ExhaustedSlot /\ slot.chain.last + STREAM_COUNT > MaxTick

(* lose_chain leaves a slot that restarts three ticks past the tail.       *)
LEMMA LoseChainShape ==
  ASSUME NEW slot, NEW s \in StreamIds, NEW G, SlotOK(slot, s, G), IsPlanned(slot),
         NEW after, NEW observed
  PROVE  LostChain(LoseChain(slot, after, observed), slot)
  <1> DEFINE last == slot.chain.last
             new == LoseChain(slot, after, observed)
  <1>1. last \in Nat /\ HasChain(slot)
    BY PlannedChain, TicksType
  <1>2. CASE last + STREAM_COUNT > MaxTick
    <2>1. CheckedAdd(last, STREAM_COUNT) = NoTick
      BY <1>1, <1>2, CheckedAddCases
    <2>2. new = ExhaustedSlot
      BY <1>1, <2>1 DEF LoseChain
    <2> QED BY <1>2, <2>2, ExhaustedShape DEF LostChain
  <1>3. CASE ~(last + STREAM_COUNT > MaxTick)
    <2>1. CheckedAdd(last, STREAM_COUNT) # NoTick
      BY <1>1, <1>3, CheckedAddCases
    <2>2. new = [state |-> Waiting(after, observed), chain |-> NoChain,
                 restartAt |-> last + STREAM_COUNT]
      BY <1>1, <2>1 DEF LoseChain
    <2> QED BY <2>2 DEF LostChain, Tag, Waiting
  <1> QED BY <1>2, <1>3

(* A slot that lost its chain serves nothing until it starts on its stream. *)
LEMMA LostChainServes ==
  ASSUME NEW slot, NEW s \in StreamIds, NEW G, SlotOK(slot, s, G), IsPlanned(slot),
         NEW new, LostChain(new, slot)
  PROVE  /\ DeliveryOK(new, s) /\ NoNewTask(new, slot) /\ new.chain.calls = {}
         /\ Tag(new) \in {"Waiting", "Drained"} /\ ~IsPlanned(new)
  <1>1. new.chain.calls = {}
    BY DEF LostChain, NoChain
  <1>2. slot.chain.last \in Nat /\ slot.chain.last % STREAM_COUNT = s
    BY PlannedChain, TicksType
  <1>3. RestartAligned(new, s)
    BY <1>2, ExhaustedShape DEF LostChain, RestartAligned
  <1>4. Tag(new) \in {"Waiting", "Drained"} /\ ~IsPlanned(new)
    BY ExhaustedShape DEF LostChain, IsPlanned
  <1> QED BY <1>1, <1>3, <1>4 DEF DeliveryOK, TerminalLast, NoNewTask

(* How expiry leaves a slot: the same chain when none of its own calls is  *)
(* overdue or nothing is served, otherwise the end of it.                  *)
ExpiryShape(new, slot, tick) ==
    \/ /\ SameChain(new, slot)
       /\ OverdueOwn(slot.chain, tick) = {} \/ ~(IsPlanned(slot) \/ Tag(slot) = "Draining")
    \/ /\ OverdueOwn(slot.chain, tick) # {} /\ IsPlanned(slot)
       /\ LostChain(new, slot)
    \/ /\ OverdueOwn(slot.chain, tick) # {} /\ Tag(slot) = "Draining"
       /\ new.state = Drained("Failed") /\ new.chain = NoChain /\ new.restartAt = slot.restartAt

Expired(calls, tick) == {ExpireCall(c, tick) : c \in calls}

(* expire_calls rewrites the calls, or ends the chain they belong to.      *)
LEMMA ExpireCallsShape ==
  ASSUME NEW slot, NEW s \in StreamIds, NEW G, SlotOK(slot, s, G), NEW tick \in Ticks
  PROVE  LET new == ExpireCalls(slot, tick).slot
         IN  /\ ExpiryShape(new, slot, tick)
             /\ \/ /\ SameChain(new, slot)
                   /\ new.chain.calls = Expired(slot.chain.calls, tick)
                   /\ slot.chain.calls = {} => new = slot
                \/ new.chain = NoChain
  <1> DEFINE calls == {ExpireCall(c, tick) : c \in slot.chain.calls}
             expired == [slot EXCEPT !.chain.calls = {ExpireCall(c, tick) : c \in @}]
             lost == LoseChain(expired, SaturatingAdd(tick, 1), FALSE)
             drained == CompleteDrain(expired, "Failed")
             overdue == OverdueOwn(slot.chain, tick)
             new == ExpireCalls(slot, tick).slot
  <1>1. CallsFrom(calls, slot.chain.calls) /\ expired = [slot EXCEPT !.chain.calls = calls]
    BY ExpireCallsFrom
  <1>2. slot.chain.calls = {} => calls = slot.chain.calls
    OBVIOUS
  <1> HIDE DEF calls, expired
  <1>3. SlotOK(expired, s, G)
    BY <1>1, ReplaceCalls
  <1>4. SameChain(expired, slot) /\ expired.chain.calls = calls
        /\ (slot.chain.calls = {} => expired = slot)
    BY <1>1, <1>2, RecalledFields DEF SlotOK, SameChain
  <1>5. \/ new = expired /\ (overdue = {} \/ ~(IsPlanned(slot) \/ Tag(slot) = "Draining"))
        \/ new = lost /\ overdue # {} /\ IsPlanned(slot)
        \/ new = drained /\ overdue # {} /\ Tag(slot) = "Draining"
    BY DEF ExpireCalls, Result, IsPlanned, expired
  <1> HIDE DEF overdue
  <1>6. CASE new = expired /\ (overdue = {} \/ ~(IsPlanned(slot) \/ Tag(slot) = "Draining"))
    BY <1>4, <1>6 DEF ExpiryShape, overdue, calls, Expired
  <1>7. CASE new = lost /\ overdue # {} /\ IsPlanned(slot)
    <2>1. IsPlanned(expired) /\ expired.chain.last = slot.chain.last
      BY <1>4, <1>7 DEF IsPlanned, Tag, SameChain
    <2>2. LostChain(lost, expired)
      BY <1>3, <2>1, LoseChainShape
    <2>3. LostChain(lost, slot)
      BY <2>1, <2>2 DEF LostChain
    <2> HIDE DEF lost, new
    <2>4. ExpiryShape(new, slot, tick) /\ new.chain = NoChain
      BY <1>7, <2>3 DEF ExpiryShape, overdue, LostChain
    <2> QED BY <2>4 DEF new
  <1>8. CASE new = drained /\ overdue # {} /\ Tag(slot) = "Draining"
    <2>1. /\ drained.state = Drained("Failed") /\ drained.chain = NoChain
          /\ drained.restartAt = slot.restartAt
      BY <1>3, <1>4 DEF CompleteDrain, SlotOK, ManagedSlot, SameChain
    <2> HIDE DEF drained, new
    <2>2. ExpiryShape(new, slot, tick) /\ new.chain = NoChain
      BY <1>8, <2>1 DEF ExpiryShape, overdue
    <2> QED BY <2>2 DEF new
  <1> QED BY <1>5, <1>6, <1>7, <1>8

(* A call of a slot in order is on the slot's stream.                      *)
LEMMA CallAligned ==
  ASSUME NEW slot, NEW s, NEW G, SlotOK(slot, s, G), NEW c \in slot.chain.calls
  PROVE  c.target % STREAM_COUNT = s /\ c.target \in G /\ c.target \in Ticks
  <1>1. slot.chain # NoChain
    BY DEF NoChain
  <1>2. ChainOK(slot.chain, s, G)
    BY <1>1, HasChainTag DEF SlotOK, StateOK
  <1> QED BY <1>2 DEF ChainOK, CallOK, SlotOK

(* What an expiry counts: an own overdue call of a planned chain, or of a  *)
(* drain a normal call or the attempted terminal.                          *)
LEMMA ExpiryMarks ==
  ASSUME NEW slot, NEW tick, NEW m \in ExpireCalls(slot, tick).marks
  PROVE  \E c \in OverdueOwn(slot.chain, tick) :
             /\ m.target = c.target /\ m.mark = "Failed"
             /\ \/ IsPlanned(slot)
                \/ /\ Tag(slot) = "Draining"
                   /\ \/ c.kind = "RevealAndCommit"
                      \/ c.kind = "TerminalReveal" /\ c.state \in {"Broadcasting", "Retry"}
  <1>1. m \in MarkAll(ExpiryFailures(slot, tick), "Failed")
    BY DEF ExpireCalls, Result
  <1>2. PICK t \in ExpiryFailures(slot, tick) : m.target = t /\ m.mark = "Failed"
    BY <1>1 DEF MarkAll
  <1> QED BY <1>2 DEF ExpiryFailures, IsPlanned

(* An expiry counts one call of a slot: the earliest.                      *)
LEMMA ExpiryCountsOne ==
  ASSUME NEW slot, NEW s, NEW G, SlotOK(slot, s, G), NEW tick
  PROVE  OneTarget(ExpireCalls(slot, tick).marks, s)
  <1> DEFINE reported == MarkAll(ExpiryFailures(slot, tick), "Failed")
  <1>1. ExpireCalls(slot, tick).marks = reported
    BY DEF ExpireCalls, Result
  <1>2. \A t \in ExpiryFailures(slot, tick) : \E c \in slot.chain.calls : c.target = t
    BY DEF ExpiryFailures, OverdueOwn
  <1>3. \A t \in ExpiryFailures(slot, tick) : t \in Nat /\ t % STREAM_COUNT = s
    BY <1>2, CallAligned, TicksType
  <1>4. \A t, u \in ExpiryFailures(slot, tick) : t <= u
    BY DEF ExpiryFailures
  <1>5. \A t, u \in ExpiryFailures(slot, tick) : t = u
    BY <1>3, <1>4
  <1>6. OneTarget(reported, s)
    BY <1>3, <1>5 DEF OneTarget, MarkAll
  <1> QED BY <1>1, <1>6

(* expire_calls leaves no task at or past its target, and reports a        *)
(* failure only as it ends the chain.                                      *)
LEMMA ExpireServes ==
  ASSUME NEW slot, NEW s \in StreamIds, NEW G, SlotOK(slot, s, G), DeliveryOK(slot, s),
         NEW tick \in Ticks
  PROVE  LET r == ExpireCalls(slot, tick)
         IN  /\ DeliveryOK(r.slot, s) /\ NoNewTask(r.slot, slot)
             /\ \A c \in r.slot.chain.calls : c.inflight => tick < c.target
             /\ KeepsQueue(r.slot, slot) \/ r.slot.chain = NoChain
             /\ FailsOnce(r.marks, r.slot, slot, s)
             /\ r.marks # {} => r.slot.chain = NoChain
  <1> DEFINE after(c) == ExpireCall(c, tick)
             r == ExpireCalls(slot, tick)
             new == r.slot
             Served == /\ DeliveryOK(new, s) /\ NoNewTask(new, slot)
                       /\ \A c \in new.chain.calls : c.inflight => tick < c.target
                       /\ KeepsQueue(new, slot) \/ new.chain = NoChain
  <1>1. /\ ExpiryShape(new, slot, tick)
        /\ \/ SameChain(new, slot) /\ new.chain.calls = Expired(slot.chain.calls, tick)
           \/ new.chain = NoChain
    BY ExpireCallsShape
  <1>2. \A c \in slot.chain.calls :
            /\ c \in PlannedCall
            /\ SameBytes(after(c), c) /\ TaskOK(slot, after(c))
            /\ after(c).inflight => c.inflight /\ tick < c.target
            /\ ~Overdue(c, tick) => after(c).state = c.state
            /\ c.state = "Accepted" => after(c).state = "Accepted"
    BY CallsDistinct, ExpireCallBytes, ExpireCallTask DEF DeliveryOK
  <1>3. \A m \in r.marks : \E c \in OverdueOwn(slot.chain, tick) :
            /\ m.target = c.target /\ m.mark = "Failed"
            /\ \/ IsPlanned(slot)
               \/ /\ Tag(slot) = "Draining"
                  /\ \/ c.kind = "RevealAndCommit"
                     \/ c.kind = "TerminalReveal" /\ c.state \in {"Broadcasting", "Retry"}
    BY ExpiryMarks
  <1> HIDE DEF r, after
  <1>4. ASSUME SameChain(new, slot), new.chain.calls = Expired(slot.chain.calls, tick)
        PROVE  Served
    <2>1. \A c \in new.chain.calls : \E d \in slot.chain.calls : c = after(d)
      BY <1>4 DEF Expired, after
    <2>2. \A d \in slot.chain.calls : after(d) \in new.chain.calls
      BY <1>4 DEF Expired, after
    <2>3. \A c \in new.chain.calls : TaskOK(new, c) /\ (c.inflight => tick < c.target)
      BY <1>2, <1>4, <2>1 DEF TaskOK, GivesUp, SameChain, Tag, SameBytes
    <2>4. TerminalLast(new)
      <3> SUFFICES ASSUME NEW t \in slot.chain.calls, t.kind = "TerminalReveal",
                          after(t).state # "Ready",
                          NEW c \in slot.chain.calls
                   PROVE  \/ Remnant(slot.chain, c) \/ c.kind = "TerminalReveal"
                          \/ c.state = "Accepted"
        BY <1>2, <1>4, <2>1 DEF TerminalLast, SameBytes, Remnant, SameChain
      <3>1. Tag(slot) = "Draining" /\ ~Remnant(slot.chain, t)
        BY OneTerminal
      <3>2. Tag(new) = "Draining"
        BY <1>4, <3>1 DEF SameChain, Tag
      <3>3. OverdueOwn(slot.chain, tick) = {}
        BY <1>1, <3>1, <3>2, ExhaustedShape
           DEF ExpiryShape, LostChain, IsPlanned, Drained, Waiting, Tag
      <3>4. ~Overdue(t, tick)
        BY <3>1, <3>3 DEF OverdueOwn
      <3> QED BY <1>2, <3>4 DEF DeliveryOK, TerminalLast
    <2>5. DeliveryOK(new, s)
      BY <1>4, <2>3, <2>4 DEF DeliveryOK, RestartAligned, SameChain, Tag
    <2>6. NoNewTask(new, slot) /\ KeepsQueue(new, slot)
      BY <1>2, <2>1, <2>2 DEF NoNewTask, KeepsQueue, SameBytes
    <2> QED BY <2>3, <2>5, <2>6
  <1>5. ASSUME new.chain = NoChain PROVE Served
    <2>1. new.chain.calls = {}
      BY <1>5 DEF NoChain
    <2>2. RestartAligned(new, s)
      <3>1. CASE SameChain(new, slot)
        BY <3>1 DEF DeliveryOK, RestartAligned, SameChain, Tag
      <3>2. CASE IsPlanned(slot) /\ LostChain(new, slot)
        BY <3>2, LostChainServes DEF DeliveryOK
      <3>3. CASE new.state = Drained("Failed")
        BY <3>3 DEF RestartAligned, Tag, Drained, Waiting
      <3> QED BY <1>1, <3>1, <3>2, <3>3 DEF ExpiryShape
    <2> QED BY <1>5, <2>1, <2>2 DEF DeliveryOK, TerminalLast, NoNewTask
  <1>6. FailsOnce(r.marks, new, slot, s) /\ (r.marks # {} => new.chain = NoChain)
    <2> SUFFICES ASSUME NEW m \in r.marks
                 PROVE  /\ m.target % STREAM_COUNT = s
                        /\ IsPlanned(slot) \/ Tag(slot) = "Draining"
                        /\ ~TerminalFailed(slot)
                        /\ ~IsPlanned(new) /\ Tag(new) # "Draining"
                        /\ new.chain = NoChain
      BY ExpiryCountsOne DEF FailsOnce, OneTarget, r
    <2>1. PICK c \in OverdueOwn(slot.chain, tick) :
              /\ m.target = c.target /\ m.mark = "Failed"
              /\ \/ IsPlanned(slot)
                 \/ /\ Tag(slot) = "Draining"
                    /\ \/ c.kind = "RevealAndCommit"
                       \/ c.kind = "TerminalReveal" /\ c.state \in {"Broadcasting", "Retry"}
      BY <1>3
    <2>2. /\ c \in slot.chain.calls /\ ~Remnant(slot.chain, c)
          /\ c.state \notin {"Accepted", "Failed"}
      BY DEF OverdueOwn, Overdue
    <2>3. m.target % STREAM_COUNT = s
      BY <2>1, <2>2, CallAligned
    <2>4. ~TerminalFailed(slot)
      <3>1. CASE IsPlanned(slot)
        BY <3>1, PlannedChain
      <3>2. CASE ~IsPlanned(slot)
        <4> SUFFICES ASSUME NEW t \in slot.chain.calls, t.kind = "TerminalReveal",
                            t.state = "Failed"
                     PROVE  FALSE
          BY DEF TerminalFailed
        <4>1. c.kind # "TerminalReveal"
          BY <2>2, OneTerminal
        <4> QED BY <2>1, <2>2, <3>2, <4>1 DEF DeliveryOK, TerminalLast
      <3> QED BY <3>1, <3>2
    <2>5. ~IsPlanned(new) /\ Tag(new) # "Draining" /\ new.chain = NoChain
      <3>1. CASE IsPlanned(slot) /\ LostChain(new, slot)
        BY <3>1, LostChainServes DEF LostChain
      <3>2. CASE new.state = Drained("Failed") /\ new.chain = NoChain
        BY <3>2 DEF IsPlanned, Tag, Drained, Waiting
      <3> QED BY <1>1, <2>1, <3>1, <3>2 DEF ExpiryShape
    <2> QED BY <2>1, <2>3, <2>4, <2>5
  <1> QED BY <1>1, <1>4, <1>5, <1>6 DEF r

-----------------------------------------------------------------------------
(* Planning *)

(* A call that was signed and not sent yet.                                *)
Unsent(c) == c.state = "Ready" /\ ~c.inflight /\ ~c.redundant

(* A new call is unsent.                                                   *)
LEMMA NewCallUnsent ==
  ASSUME NEW t, NEW k, NEW r
  PROVE  Unsent(NewCall(t, k, r)) /\ NewCall(t, k, r).target = t /\ NewCall(t, k, r).kind = k
  BY DEF NewCall, Unsent

(* The new chain is the old one with calls of its stream added past it.    *)
Extends(new, old) ==
    /\ new.first = old.first
    /\ new.last \in {old.last, old.last + STREAM_COUNT, old.last + 2 * STREAM_COUNT}
    /\ new.last \in Ticks
    /\ old.calls \subseteq new.calls
    /\ \A c \in new.calls : \/ c \in old.calls
                            \/ /\ Unsent(c) /\ c.kind = "RevealAndCommit"
                               /\ c.target \in {old.last + STREAM_COUNT, old.last + 2 * STREAM_COUNT}
    /\ new.last = old.last \/ \E c \in new.calls : c.target = new.last

(* One round of the planning loop adds one call, or none.                  *)
LEMMA PlanNextAdds ==
  ASSUME NEW chain \in Chain, chain.last \in Ticks, NEW horizon
  PROVE  LET next == PlanNext(chain, horizon)
         IN  /\ next \in Chain /\ next.first = chain.first /\ next.last \in Ticks
             /\ \/ next = chain
                \/ /\ next.last = chain.last + STREAM_COUNT
                   /\ \E c : /\ next.calls = chain.calls \cup {c}
                             /\ Unsent(c) /\ c.kind = "RevealAndCommit"
                             /\ c.target = chain.last + STREAM_COUNT
  <1> DEFINE target == chain.last + STREAM_COUNT
             call == NewCall(target, "RevealAndCommit", chain.preimage)
             next == PlanNext(chain, horizon)
  <1>1. CASE ~PlansNext(chain, horizon)
    BY <1>1 DEF PlanNext
  <1>2. CASE PlansNext(chain, horizon)
    <2>1. target \in Ticks
      BY <1>2, CheckedAddCases, TicksType DEF PlansNext
    <2>2. next = [chain EXCEPT !.calls = @ \cup {call}, !.last = target, !.preimage = target]
      BY <1>2 DEF PlanNext
    <2>3. call \in PlannedCall
      BY <2>1, NewCallType DEF CallKinds, Chain
    <2>4. Unsent(call) /\ call.kind = "RevealAndCommit" /\ call.target = target
      BY NewCallUnsent
    <2> DEFINE calls == chain.calls \cup {call}
    <2>5. calls \in SUBSET PlannedCall
      BY <2>3 DEF Chain
    <2>6. next = [chain EXCEPT !.calls = calls, !.last = target, !.preimage = target]
      BY <2>2
    <2> HIDE DEF call, target, calls, next
    <2>7. /\ next \in Chain /\ next.first = chain.first /\ next.last = target
          /\ next.calls = calls
      BY <2>1, <2>5, <2>6 DEF Chain, OptTicks
    <2> QED BY <2>1, <2>4, <2>7 DEF target, calls, next
  <1> QED BY <1>1, <1>2

(* Two rounds of the planning loop.                                        *)
LEMMA PlanTwoRounds ==
  ASSUME NEW chain \in Chain, chain.last \in Ticks, NEW horizon
  PROVE  Extends(PlanNext(PlanNext(chain, horizon), horizon), chain)
  <1> DEFINE one == PlanNext(chain, horizon)
             two == PlanNext(one, horizon)
  <1>1. /\ one \in Chain /\ one.first = chain.first /\ one.last \in Ticks
        /\ \/ one = chain
           \/ /\ one.last = chain.last + STREAM_COUNT
              /\ \E c : /\ one.calls = chain.calls \cup {c}
                        /\ Unsent(c) /\ c.kind = "RevealAndCommit"
                        /\ c.target = chain.last + STREAM_COUNT
    BY PlanNextAdds
  <1> HIDE DEF one
  <1>2. /\ two.first = one.first /\ two.last \in Ticks
        /\ \/ two = one
           \/ /\ two.last = one.last + STREAM_COUNT
              /\ \E c : /\ two.calls = one.calls \cup {c}
                        /\ Unsent(c) /\ c.kind = "RevealAndCommit"
                        /\ c.target = one.last + STREAM_COUNT
    BY <1>1, PlanNextAdds
  <1> HIDE DEF two
  <1>3. chain.last \in Nat /\ one.last \in Nat
    BY <1>1, TicksType
  <1>4. Extends(two, chain)
    BY <1>1, <1>2, <1>3 DEF Extends
  <1> QED BY <1>4 DEF one, two

(* A started slot serves a chain of one unsent call, six ticks ahead and   *)
(* past the restart tick, next to the frozen tail.                         *)
Started(new, slot, tick) ==
    /\ MayStart(slot) /\ Tag(new) = "Starting"
    /\ new.chain.first = new.chain.last /\ new.chain.last \in Ticks
    /\ new.chain.last >= tick + SEND_LEAD_TICKS /\ new.chain.last >= slot.restartAt
    /\ \E call : /\ new.chain.calls = slot.chain.calls \cup {call}
                 /\ Unsent(call) /\ call.kind = "FirstCommit" /\ call.target = new.chain.last

(* start_if_ready fails only where the last ticks leave no room to start.  *)
LEMMA StartIfReadyShape ==
  ASSUME NEW slot, NEW s \in StreamIds, NEW G, SlotOK(slot, s, G), RestartAligned(slot, s),
         NEW tick \in Ticks
  PROVE  LET r == StartIfReady(slot, s, tick)
         IN  /\ r.marks = {} /\ r.ok \in BOOLEAN
             /\ r.slot = slot \/ (r.ok /\ Started(r.slot, slot, tick))
             /\ ~r.ok => tick + SEND_LEAD_TICKS + STREAM_COUNT > MaxTick
  <1> DEFINE earliest == MaxOf(tick + SEND_LEAD_TICKS, slot.restartAt)
             target == NextStreamTick(earliest, s)
             call == NewCall(target, "FirstCommit", NoTick)
             calls == slot.chain.calls \cup {call}
             chain == [NoChain EXCEPT !.first = target, !.last = target, !.preimage = target,
                                      !.calls = calls]
             new == [slot EXCEPT !.chain = chain, !.state = Starting(target)]
             r == StartIfReady(slot, s, tick)
  <1>1. slot \in ManagedSlot /\ slot.restartAt \in Ticks /\ slot.restartAt \in Nat /\ tick \in Nat
    BY TicksType DEF SlotOK, ManagedSlot
  <1>2. \/ r = Result(slot, {})
        \/ r = Error(slot) /\ MayStart(slot)
           /\ (CheckedAdd(tick, SEND_LEAD_TICKS) = NoTick \/ target = NoTick \/ ~Signs(target, s))
        \/ r = Result(new, {}) /\ MayStart(slot) /\ target # NoTick
    BY DEF StartIfReady
  <1>3. earliest \in Nat /\ earliest >= slot.restartAt /\ earliest >= tick + SEND_LEAD_TICKS
        /\ (earliest = tick + SEND_LEAD_TICKS \/ earliest = slot.restartAt)
    BY <1>1 DEF MaxOf, SEND_LEAD_TICKS
  <1> HIDE DEF earliest
  <1>4. target # NoTick => target \in Ticks /\ target >= earliest /\ Signs(target, s)
    BY <1>3, NextStreamTickOK DEF Signs
  <1>5. ASSUME r = Error(slot), MayStart(slot),
               \/ CheckedAdd(tick, SEND_LEAD_TICKS) = NoTick
               \/ target = NoTick
               \/ ~Signs(target, s)
        PROVE  tick + SEND_LEAD_TICKS + STREAM_COUNT > MaxTick
    <2>1. CASE CheckedAdd(tick, SEND_LEAD_TICKS) = NoTick
      BY <1>1, <2>1, MaxTickAssumption DEF CheckedAdd, NoTick, SEND_LEAD_TICKS
    <2>2. CASE target = NoTick /\ earliest = tick + SEND_LEAD_TICKS
      BY <1>1, <2>2, MaxTickAssumption DEF NextStreamTick, CheckedAdd, NoTick, SEND_LEAD_TICKS
    <2>3. CASE target = NoTick /\ earliest = slot.restartAt /\ slot.restartAt # 0
      <3>1. slot.restartAt % STREAM_COUNT = s
        <4>1. CASE Tag(slot) = "Waiting"
          BY <2>3, <4>1 DEF RestartAligned
        <4>2. CASE Tag(slot) = "Restarting"
          <5>1. /\ slot.chain.last \in Nat /\ slot.chain.last % STREAM_COUNT = s
                /\ slot.restartAt = slot.chain.last + STREAM_COUNT
            BY <4>2, TicksType DEF SlotOK, StateOK, ChainOK
          <5> QED BY <5>1
        <4> QED BY <1>5, <4>1, <4>2 DEF MayStart
      <3>2. target = slot.restartAt
        BY <1>1, <2>3, <3>1 DEF NextStreamTick, CheckedAdd, Ticks
      <3> QED BY <1>1, <2>3, <3>2, TicksType
    <2>4. CASE target = NoTick /\ earliest = slot.restartAt /\ slot.restartAt = 0
      BY <1>1, <1>3, <2>4 DEF SEND_LEAD_TICKS
    <2> QED BY <1>3, <1>4, <1>5, <2>1, <2>2, <2>3, <2>4
  <1>6. ASSUME r = Result(new, {}), MayStart(slot), target # NoTick
        PROVE  Started(new, slot, tick)
    <2>1. target \in Ticks /\ target >= tick + SEND_LEAD_TICKS /\ target >= slot.restartAt
      BY <1>1, <1>3, <1>4, <1>6, TicksType DEF SEND_LEAD_TICKS
    <2>2. Unsent(call) /\ call.kind = "FirstCommit" /\ call.target = target
      BY NewCallUnsent
    <2> HIDE DEF target, call, calls
    <2>3. chain.first = target /\ chain.last = target /\ chain.calls = calls
      BY DEF NoChain
    <2> HIDE DEF chain
    <2>4. new.chain = chain /\ Tag(new) = "Starting"
      BY <1>1 DEF ManagedSlot, Tag, Starting, Waiting
    <2> HIDE DEF new
    <2>5. new.chain.calls = slot.chain.calls \cup {call}
      BY <2>3, <2>4 DEF calls
    <2> QED BY <1>6, <2>1, <2>2, <2>3, <2>4, <2>5 DEF Started
  <1> HIDE DEF new, target, r
  <1>7. /\ r.marks = {} /\ r.ok \in BOOLEAN
        /\ r.slot = slot \/ (r.ok /\ Started(r.slot, slot, tick))
        /\ ~r.ok => tick + SEND_LEAD_TICKS + STREAM_COUNT > MaxTick
    <2>1. CASE r = Result(slot, {})
      BY <2>1 DEF Result
    <2>2. CASE r = Error(slot)
      BY <1>2, <1>5, <2>2 DEF Result, Error
    <2>3. CASE r = Result(new, {}) /\ MayStart(slot) /\ target # NoTick
      BY <1>6, <2>3 DEF Result
    <2> QED BY <1>2, <2>1, <2>2, <2>3
  <1> QED BY <1>7 DEF r

(* What extending a planned chain leaves: the chain with calls added past  *)
(* its tail, or, when its next target was missed, no chain.                *)
Extended(new, slot, tick) ==
    /\ IsPlanned(slot) /\ tick < slot.chain.last + STREAM_COUNT
    /\ new.state = slot.state /\ new.restartAt = slot.restartAt
    /\ Extends(new.chain, slot.chain)

Missed(new, slot, tick) ==
    /\ IsPlanned(slot) /\ slot.chain.last + STREAM_COUNT <= tick
    /\ LostChain(new, slot)

(* extend_chain gives a chain up only where its next target was missed.    *)
LEMMA MissedShape ==
  ASSUME NEW slot, NEW s \in StreamIds, NEW G, SlotOK(slot, s, G), IsPlanned(slot),
         NEW tick \in Ticks, slot.chain.last + STREAM_COUNT <= tick
  PROVE  LET r == ExtendChain(slot, s, tick)
         IN  /\ r.ok /\ Missed(r.slot, slot, tick)
             /\ OneTarget(r.marks, s)
  <1> DEFINE next == slot.chain.last + STREAM_COUNT
             expired == ExpireCalls(slot, tick)
             lost == LoseChain(expired.slot, SaturatingAdd(tick, 1), FALSE)
             both == Result(lost, expired.marks \cup MarkAll({next}, "Failed"))
             r == ExtendChain(slot, s, tick)
  <1>1. slot.chain.last \in Nat /\ slot.chain.last % STREAM_COUNT = s /\ HasChain(slot)
    BY PlannedChain, TicksType
  <1>2. CheckedAdd(slot.chain.last, STREAM_COUNT) = next /\ next # NoTick
    BY <1>1, TicksType, MaxTickAssumption DEF CheckedAdd, Ticks, NoTick
  <1>3. \/ r = expired /\ ~IsPlanned(expired.slot)
        \/ r = both /\ IsPlanned(expired.slot)
    BY <1>1, <1>2 DEF ExtendChain
  <1>4. ExpiryShape(expired.slot, slot, tick) /\ expired.ok
    BY ExpireCallsShape DEF ExpireCalls, Result
  <1>5. OneTarget(expired.marks, s) /\ (expired.marks # {} => OverdueOwn(slot.chain, tick) # {})
    BY ExpiryCountsOne, ExpiryMarks
  <1>6. SlotOK(expired.slot, s, G)
    BY ExpireCallsOK
  <1> HIDE DEF expired, r
  <1>7. CASE r = expired /\ ~IsPlanned(expired.slot)
    <2>1. LostChain(expired.slot, slot)
      BY <1>4, <1>7 DEF ExpiryShape, SameChain, IsPlanned, Tag
    <2> QED BY <1>4, <1>5, <1>7, <2>1 DEF Missed, r
  <1>8. CASE r = both /\ IsPlanned(expired.slot)
    <2>1. expired.slot.chain.last = slot.chain.last
      BY <1>4, <1>8, ExhaustedShape
         DEF ExpiryShape, SameChain, LostChain, IsPlanned, Tag, Drained, Waiting
    <2>5. expired.marks = {}
      BY <1>4, <1>5, <1>8, ExhaustedShape
         DEF ExpiryShape, LostChain, IsPlanned, Tag, Drained, Waiting
    <2>2. LostChain(lost, slot)
      <3>1. LostChain(lost, expired.slot)
        BY <1>6, <1>8, LoseChainShape
      <3> HIDE DEF lost
      <3> QED BY <2>1, <3>1 DEF LostChain
    <2>3. next % STREAM_COUNT = s
      BY <1>1
    <2> HIDE DEF lost
    <2>4. r.ok /\ r.slot = lost /\ OneTarget(r.marks, s)
      BY <1>8, <2>3, <2>5 DEF Result, MarkAll, OneTarget
    <2> QED BY <2>2, <2>4 DEF Missed, r
  <1> QED BY <1>3, <1>7, <1>8

(* Otherwise it adds the calls that fit the send lead, or fails where the  *)
(* tick arithmetic ends.                                                   *)
LEMMA ExtendedShape ==
  ASSUME NEW slot, NEW s \in StreamIds, NEW G, SlotOK(slot, s, G), IsPlanned(slot),
         NEW tick \in Ticks, tick < slot.chain.last + STREAM_COUNT
  PROVE  LET r == ExtendChain(slot, s, tick)
         IN  /\ r.marks = {}
             /\ \/ r.ok /\ Extended(r.slot, slot, tick)
                \/ ~r.ok /\ r.slot = slot /\ tick + SEND_LEAD_TICKS > MaxTick
  <1> DEFINE next == CheckedAdd(slot.chain.last, STREAM_COUNT)
             horizon == tick + SEND_LEAD_TICKS
             chain == PlanNext(PlanNext(slot.chain, horizon), horizon)
             new == [slot EXCEPT !.chain = chain]
             r == ExtendChain(slot, s, tick)
  <1>1. /\ slot \in ManagedSlot /\ slot.chain \in Chain /\ tick \in Nat
        /\ slot.chain.last \in Ticks /\ slot.chain.last \in Nat
        /\ slot.chain.last % STREAM_COUNT = s /\ HasChain(slot)
    BY PlannedChain, TicksType DEF SlotOK, ManagedSlot
  <1>2. ~(next # NoTick /\ next <= tick)
    BY <1>1 DEF CheckedAdd
  <1>3. PlansNext(slot.chain, horizon) => Signs(next, s)
    <2>1. next # NoTick => next = slot.chain.last + STREAM_COUNT
      BY DEF CheckedAdd
    <2> QED BY <1>1, <2>1 DEF PlansNext, Signs
  <1>4. \/ r = Error(slot) /\ CheckedAdd(tick, SEND_LEAD_TICKS) = NoTick
        \/ r = Result(new, {})
    BY <1>1, <1>2, <1>3 DEF ExtendChain
  <1>5. CheckedAdd(tick, SEND_LEAD_TICKS) = NoTick => tick + SEND_LEAD_TICKS > MaxTick
    BY <1>1, MaxTickAssumption DEF CheckedAdd, NoTick, SEND_LEAD_TICKS
  <1>6. Extends(chain, slot.chain)
    BY <1>1, PlanTwoRounds
  <1> HIDE DEF chain, r
  <1>7. new.state = slot.state /\ new.restartAt = slot.restartAt /\ new.chain = chain
    BY <1>1 DEF ManagedSlot
  <1>8. Extended(new, slot, tick)
    BY <1>6, <1>7 DEF Extended
  <1> HIDE DEF new
  <1>9. CASE r = Error(slot) /\ CheckedAdd(tick, SEND_LEAD_TICKS) = NoTick
    BY <1>5, <1>9 DEF Error, r
  <1>10. CASE r = Result(new, {})
    BY <1>8, <1>10 DEF Result, r
  <1> QED BY <1>4, <1>9, <1>10

(* Calls are only added: unsent ones, no terminal reveal among them.       *)
Grows(new, slot, from) ==
    /\ slot.chain.calls \subseteq new.chain.calls
    /\ \A c \in new.chain.calls :
           c \in slot.chain.calls \/ (Unsent(c) /\ c.kind # "TerminalReveal" /\ c.target >= from)

(* A slot that may start serves a chain far enough ahead of the tick.      *)
Replaced(new, slot, tick) ==
    /\ MayStart(slot) /\ Tag(new) = "Starting"
    /\ new.chain.first \in Ticks /\ new.chain.last \in Ticks
    /\ new.chain.first >= tick + SEND_LEAD_TICKS /\ new.chain.first >= slot.restartAt
    /\ new.chain.last \in {new.chain.first, new.chain.first + STREAM_COUNT,
                           new.chain.first + 2 * STREAM_COUNT}
    /\ Grows(new, slot, new.chain.first)
    /\ \E c \in new.chain.calls : c.target = new.chain.last

(* Starting and then extending a chain replaces the old one.               *)
LEMMA StartThenExtend ==
  ASSUME NEW slot, NEW mid, NEW new, NEW tick \in Ticks,
         Started(mid, slot, tick), Extended(new, mid, tick)
  PROVE  Replaced(new, slot, tick)
  <1>1. PICK call : /\ mid.chain.calls = slot.chain.calls \cup {call}
                    /\ Unsent(call) /\ call.kind = "FirstCommit" /\ call.target = mid.chain.last
    BY DEF Started
  <1>2. /\ mid.chain.first = mid.chain.last /\ mid.chain.last \in Ticks /\ mid.chain.last \in Nat
        /\ mid.chain.last >= tick + SEND_LEAD_TICKS /\ mid.chain.last >= slot.restartAt
        /\ MayStart(slot) /\ Tag(mid) = "Starting"
    BY TicksType DEF Started
  <1>3. /\ new.chain.first = mid.chain.last /\ Tag(new) = "Starting"
        /\ new.chain.last \in {mid.chain.last, mid.chain.last + STREAM_COUNT,
                               mid.chain.last + 2 * STREAM_COUNT}
        /\ new.chain.last \in Ticks
        /\ mid.chain.calls \subseteq new.chain.calls
        /\ \A c \in new.chain.calls : \/ c \in mid.chain.calls
                                      \/ /\ Unsent(c) /\ c.kind = "RevealAndCommit"
                                         /\ c.target \in {mid.chain.last + STREAM_COUNT,
                                                         mid.chain.last + 2 * STREAM_COUNT}
        /\ new.chain.last = mid.chain.last \/ \E c \in new.chain.calls : c.target = new.chain.last
    BY <1>2 DEF Extended, Extends, Tag
  <1>4. Grows(new, slot, new.chain.first)
    <2> SUFFICES ASSUME NEW c \in new.chain.calls, c \notin slot.chain.calls
                 PROVE  Unsent(c) /\ c.kind # "TerminalReveal" /\ c.target >= mid.chain.last
      BY <1>1, <1>3 DEF Grows
    <2>1. CASE c = call
      BY <1>1, <1>2, <2>1
    <2>2. CASE /\ Unsent(c) /\ c.kind = "RevealAndCommit"
               /\ c.target \in {mid.chain.last + STREAM_COUNT, mid.chain.last + 2 * STREAM_COUNT}
      BY <1>2, <2>2
    <2> QED BY <1>1, <1>3, <2>1, <2>2
  <1>5. \E c \in new.chain.calls : c.target = new.chain.last
    BY <1>1, <1>3
  <1> QED BY <1>2, <1>3, <1>4, <1>5 DEF Replaced

(* start_if_ready and extend_chain on a slot: what the planning of an      *)
(* active cycle leaves.                                                    *)
LEMMA PlanSlotShape ==
  ASSUME NEW slot, NEW s \in StreamIds, NEW G, SlotOK(slot, s, G), RestartAligned(slot, s),
         NEW tick \in Ticks
  PROVE  LET r == PlanSlot(slot, s, tick)
         IN  /\ \/ r.slot = slot /\ r.marks = {}
                \/ r.ok /\ r.marks = {} /\ Replaced(r.slot, slot, tick)
                \/ r.ok /\ r.marks = {} /\ Extended(r.slot, slot, tick)
                \/ r.ok /\ Missed(r.slot, slot, tick) /\ OneTarget(r.marks, s)
             /\ ~r.ok => tick + SEND_LEAD_TICKS + STREAM_COUNT > MaxTick
  <1> DEFINE started == StartIfReady(slot, s, tick)
             extended == ExtendChain(started.slot, s, tick)
             r == PlanSlot(slot, s, tick)
  <1>1. /\ started.marks = {} /\ started.ok \in BOOLEAN
        /\ started.slot = slot \/ (started.ok /\ Started(started.slot, slot, tick))
        /\ ~started.ok => tick + SEND_LEAD_TICKS + STREAM_COUNT > MaxTick
    BY StartIfReadyShape
  <1>2. PICK H : SlotOK(started.slot, s, H)
    BY StartIfReadyOK DEF PlanOK
  <1>3. r = IF started.ok THEN extended ELSE started
    BY DEF PlanSlot
  <1>4. tick \in Nat /\ (tick + SEND_LEAD_TICKS > MaxTick =>
                             tick + SEND_LEAD_TICKS + STREAM_COUNT > MaxTick)
    BY TicksType, MaxTickAssumption DEF SEND_LEAD_TICKS
  <1> HIDE DEF started, r
  <1>5. CASE ~started.ok
    BY <1>1, <1>3, <1>5 DEF r
  <1>6. CASE started.ok /\ ~IsPlanned(started.slot)
    <2>1. extended = Result(started.slot, {})
      BY <1>6 DEF ExtendChain
    <2>2. started.slot = slot
      BY <1>1, <1>6 DEF Started, IsPlanned
    <2> HIDE DEF extended
    <2> QED BY <1>3, <1>6, <2>1, <2>2 DEF Result, r
  <1>7. CASE started.ok /\ IsPlanned(started.slot) /\ started.slot.chain.last + STREAM_COUNT <= tick
    <2>1. /\ extended.ok /\ Missed(extended.slot, started.slot, tick)
          /\ OneTarget(extended.marks, s)
      BY <1>2, <1>7, MissedShape
    <2>2. ~Started(started.slot, slot, tick)
      <3>1. started.slot.chain.last \in Nat /\ tick \in Nat
        BY <1>2, <1>4, <1>7, PlannedChain, TicksType
      <3> QED BY <1>7, <3>1 DEF Started, SEND_LEAD_TICKS
    <2> HIDE DEF extended
    <2> QED BY <1>1, <1>3, <1>7, <2>1, <2>2 DEF r
  <1>8. CASE started.ok /\ IsPlanned(started.slot) /\ tick < started.slot.chain.last + STREAM_COUNT
    <2>1. /\ extended.marks = {}
          /\ \/ extended.ok /\ Extended(extended.slot, started.slot, tick)
             \/ /\ ~extended.ok /\ extended.slot = started.slot
                /\ tick + SEND_LEAD_TICKS > MaxTick
      BY <1>2, <1>8, ExtendedShape
    <2> HIDE DEF extended
    <2>2. CASE started.slot = slot
      BY <1>3, <1>4, <1>8, <2>1, <2>2 DEF r
    <2>3. CASE Started(started.slot, slot, tick)
      <3>1. ~(tick + SEND_LEAD_TICKS > MaxTick)
        BY <1>4, <2>3, MaxTickAssumption DEF Started, SEND_LEAD_TICKS, Ticks
      <3>2. Replaced(extended.slot, slot, tick) /\ extended.ok /\ extended.marks = {}
        BY <2>1, <2>3, <3>1, StartThenExtend
      <3> QED BY <1>3, <1>8, <3>2 DEF r
    <2> QED BY <1>1, <2>2, <2>3
  <1>9. IsPlanned(started.slot) => started.slot.chain.last \in Nat
    BY <1>2, PlannedChain, TicksType
  <1> QED BY <1>1, <1>4, <1>5, <1>6, <1>7, <1>8, <1>9

(* A planned chain got its terminal reveal, three ticks past its tail.     *)
Closed(new, slot) ==
    /\ IsPlanned(slot) /\ Tag(new) = "Draining" /\ new.restartAt = slot.restartAt
    /\ new.chain.first = slot.chain.first /\ new.chain.last = slot.chain.last
    /\ \E call : /\ new.chain.calls = slot.chain.calls \cup {call}
                 /\ Unsent(call) /\ call.kind = "TerminalReveal"
                 /\ call.target = slot.chain.last + STREAM_COUNT

(* A waiting slot drains at once; a frozen one remembers why it will.      *)
Latched(new, slot) ==
    /\ new.chain = slot.chain /\ new.restartAt = slot.restartAt
    /\ \/ Tag(slot) = "Waiting" /\ new.state = Drained("NothingToDrain")
       \/ Tag(slot) = "Restarting" /\ Tag(new) = "Restarting"

(* enter_drain fails only where no tick is left for the terminal reveal.   *)
LEMMA EnterDrainShape ==
  ASSUME NEW slot, NEW s \in StreamIds, NEW G, SlotOK(slot, s, G), NEW reason \in DrainReasons
  PROVE  LET r == EnterDrain(slot, s, reason)
         IN  /\ r.marks = {}
             /\ r.slot = slot \/ Latched(r.slot, slot) \/ Closed(r.slot, slot)
             /\ r.ok /\ IsPlanned(slot) => Closed(r.slot, slot)
             /\ ~r.ok => r.slot = slot /\ slot.chain.last + STREAM_COUNT > MaxTick
  <1> DEFINE terminal == slot.chain.last + STREAM_COUNT
             latched == IF slot.state.reason = "Shutdown" THEN "Shutdown" ELSE reason
             nothing == [slot EXCEPT !.state = Drained("NothingToDrain")]
             restarting == [slot EXCEPT !.state.reason = latched]
             call == NewCall(terminal, "TerminalReveal", slot.chain.preimage)
             calls == slot.chain.calls \cup {call}
             draining == [slot EXCEPT !.chain.calls = calls, !.state = Draining(reason, terminal)]
             r == EnterDrain(slot, s, reason)
  <1>1. slot \in ManagedSlot /\ Tag(slot) \in SlotTags
        /\ (HasChain(slot) <=> Tag(slot) \notin {"Waiting", "Drained"})
    BY HasChainTag DEF SlotOK
  <1>2. CASE Tag(slot) \in {"Draining", "Drained"}
    <2>1. r = Result(slot, {})
      BY <1>2 DEF EnterDrain
    <2> HIDE DEF r
    <2> QED BY <1>2, <2>1 DEF Result, IsPlanned, r
  <1>3. CASE Tag(slot) = "Waiting"
    <2>1. r = Result(nothing, {})
      BY <1>3 DEF EnterDrain
    <2>2. Latched(nothing, slot)
      BY <1>1, <1>3 DEF Latched, ManagedSlot
    <2> HIDE DEF r, nothing
    <2> QED BY <1>3, <2>1, <2>2 DEF Result, IsPlanned, r
  <1>4. CASE Tag(slot) = "Restarting"
    <2>1. r = Result(restarting, {})
      BY <1>4 DEF EnterDrain
    <2> HIDE DEF latched
    <2>2. Latched(restarting, slot)
      BY <1>1, <1>4 DEF Latched, ManagedSlot, SlotState, Tag
    <2> HIDE DEF r, restarting
    <2> QED BY <1>4, <2>1, <2>2 DEF Result, IsPlanned, r
  <1>5. CASE IsPlanned(slot)
    <2>1. slot.chain.last \in Nat /\ slot.chain.last % STREAM_COUNT = s /\ HasChain(slot)
      BY <1>5, PlannedChain, TicksType
    <2>2. CASE terminal > MaxTick
      <3>1. CheckedAdd(slot.chain.last, STREAM_COUNT) = NoTick
        BY <2>1, <2>2, CheckedAddCases
      <3>2. r = Error(slot)
        BY <1>5, <3>1 DEF EnterDrain, IsPlanned
      <3> HIDE DEF r
      <3> QED BY <2>2, <3>2 DEF Error, r
    <2>3. CASE ~(terminal > MaxTick)
      <3>1. CheckedAdd(slot.chain.last, STREAM_COUNT) = terminal /\ terminal # NoTick
        BY <2>1, <2>3, CheckedAddCases
      <3>2. Signs(terminal, s)
        BY <2>1 DEF Signs
      <3>3. r = Result(draining, {})
        BY <1>5, <2>1, <3>1, <3>2 DEF EnterDrain, IsPlanned
      <3>4. Unsent(call) /\ call.kind = "TerminalReveal" /\ call.target = terminal
        BY NewCallUnsent
      <3> HIDE DEF call, calls
      <3>5. /\ Tag(draining) = "Draining" /\ draining.restartAt = slot.restartAt
            /\ draining.chain.first = slot.chain.first /\ draining.chain.last = slot.chain.last
            /\ draining.chain.calls = calls
        BY <1>1 DEF ManagedSlot, Chain, Tag, Draining, Waiting
      <3> HIDE DEF draining
      <3>6. Closed(draining, slot)
        BY <1>5, <3>4, <3>5 DEF Closed, calls
      <3> HIDE DEF r
      <3> QED BY <3>3, <3>6 DEF Result, r
    <2> QED BY <2>2, <2>3
  <1> QED BY <1>1, <1>2, <1>3, <1>4, <1>5 DEF SlotTags, IsPlanned

(* What the planning of a cycle may do to a slot.                          *)
PlanShape(new, slot, tick) ==
    \/ new = slot
    \/ Replaced(new, slot, tick)
    \/ Extended(new, slot, tick)
    \/ Missed(new, slot, tick)
    \/ Closed(new, slot)
    \/ Latched(new, slot)

(* An unsent call of any kind has no task to lose.                         *)
LEMMA UnsentTaskOK ==
  ASSUME NEW slot, NEW c, Unsent(c)
  PROVE  TaskOK(slot, c)
  BY DEF Unsent, TaskOK, GivesUp

(* Planning leaves the tasks alone.                                        *)
LEMMA PlanServes ==
  ASSUME NEW slot, NEW s \in StreamIds, NEW G, SlotOK(slot, s, G), DeliveryOK(slot, s),
         NEW tick \in Ticks, NEW new, PlanShape(new, slot, tick)
  PROVE  /\ DeliveryOK(new, s) /\ NoNewTask(new, slot)
         /\ KeepsQueue(new, slot) \/ new.chain = NoChain
  <1>1. /\ \A c \in slot.chain.calls : SameBytes(c, c)
        /\ \A c \in new.chain.calls : SameBytes(c, c)
    BY DEF SameBytes
  <1>2. CASE new = slot
    BY <1>1, <1>2 DEF NoNewTask, KeepsQueue
  <1>3. CASE Replaced(new, slot, tick) \/ Extended(new, slot, tick)
    <2>1. /\ slot.chain.calls \subseteq new.chain.calls
          /\ \A c \in new.chain.calls :
                 c \in slot.chain.calls \/ (Unsent(c) /\ c.kind # "TerminalReveal")
          /\ Tag(new) \in {"Starting", "Active"}
      BY <1>3 DEF Replaced, Grows, Extended, Extends, IsPlanned, Tag
    <2>2. \A c \in slot.chain.calls : c.kind # "TerminalReveal"
      <3>1. Tag(slot) # "Draining"
        BY <1>3 DEF Replaced, MayStart, Extended, IsPlanned
      <3> QED BY <3>1, OneTerminal
    <2>3. \A c \in new.chain.calls : TaskOK(new, c)
      BY <2>1, <2>2, UnsentTaskOK DEF DeliveryOK, TaskOK, GivesUp
    <2>4. TerminalLast(new) /\ RestartAligned(new, s)
      BY <2>1, <2>2 DEF TerminalLast, RestartAligned
    <2>5. NoNewTask(new, slot) /\ KeepsQueue(new, slot)
      BY <1>1, <2>1 DEF NoNewTask, KeepsQueue, Unsent
    <2> QED BY <2>3, <2>4, <2>5 DEF DeliveryOK
  <1>4. CASE Missed(new, slot, tick)
    BY <1>4, LostChainServes DEF Missed, LostChain
  <1>5. CASE Closed(new, slot)
    <2>1. PICK call : /\ new.chain.calls = slot.chain.calls \cup {call}
                      /\ Unsent(call) /\ call.kind = "TerminalReveal"
      BY <1>5 DEF Closed
    <2>2. \A c \in slot.chain.calls : c.kind # "TerminalReveal"
      BY <1>5, PlannedChain DEF Closed
    <2>3. \A c \in new.chain.calls : TaskOK(new, c)
      BY <2>1, <2>2, UnsentTaskOK DEF DeliveryOK, TaskOK, GivesUp
    <2>4. TerminalLast(new) /\ RestartAligned(new, s)
      BY <1>5, <2>1, <2>2 DEF TerminalLast, RestartAligned, Closed, Unsent
    <2>5. NoNewTask(new, slot) /\ KeepsQueue(new, slot)
      BY <1>1, <2>1 DEF NoNewTask, KeepsQueue, Unsent
    <2> QED BY <2>3, <2>4, <2>5 DEF DeliveryOK
  <1>6. CASE Latched(new, slot)
    <2>1. \A c \in new.chain.calls : c.kind # "TerminalReveal" /\ c \in slot.chain.calls
      BY <1>6, OneTerminal DEF Latched
    <2>2. DeliveryOK(new, s)
      BY <1>6, <2>1
         DEF DeliveryOK, TaskOK, GivesUp, TerminalLast, RestartAligned, Latched, Tag, Drained, Waiting
    <2>3. NoNewTask(new, slot) /\ KeepsQueue(new, slot)
      BY <1>1, <1>6 DEF NoNewTask, KeepsQueue, Latched
    <2> QED BY <2>2, <2>3
  <1> QED BY <1>2, <1>3, <1>4, <1>5, <1>6 DEF PlanShape

-----------------------------------------------------------------------------
(* Sending *)

(* A call is on the network only from its send window on.                  *)
InWindow(new, slot, tick) ==
    \A c \in new.chain.calls : c.inflight =>
        \/ \E d \in slot.chain.calls : SameBytes(c, d) /\ d.inflight
        \/ InSendWindow(c, tick)

BeforeTarget(slot, tick) == \A c \in slot.chain.calls : c.inflight => tick < c.target

(* dispatch_calls starts tasks inside the send window, the terminal's only *)
(* after every prerequisite was accepted, and gives nothing up.            *)
LEMMA DispatchServes ==
  ASSUME NEW slot, NEW s \in StreamIds, NEW G, SlotOK(slot, s, G), DeliveryOK(slot, s),
         NEW tick \in Ticks, BeforeTarget(slot, tick)
  PROVE  LET r == DispatchCalls(slot, tick)
         IN  /\ DeliveryOK(r.slot, s) /\ SameChain(r.slot, slot)
             /\ BeforeTarget(r.slot, tick) /\ InWindow(r.slot, slot, tick)
             /\ KeepsQueue(r.slot, slot)
             /\ \A m \in r.marks : m.mark # "Failed"
             /\ slot.chain.calls = {} => r.slot = slot /\ r.marks = {}
  <1> DEFINE after(c) == DispatchCall(slot, c, tick)
             calls == {after(c) : c \in slot.chain.calls}
             r == DispatchCalls(slot, tick)
             new == r.slot
  <1>1. /\ SameChain(new, slot) /\ new.chain.calls = calls
        /\ slot.chain.calls = {} => new = slot /\ r.marks = {}
    <2>1. new = [slot EXCEPT !.chain.calls = calls]
      BY DEF DispatchCalls, Result
    <2>2. slot \in ManagedSlot
      BY DEF SlotOK
    <2>3. slot.chain.calls = {} => calls = slot.chain.calls /\ r.marks = {}
      BY DEF DispatchCalls, Result, MarkAll
    <2> HIDE DEF calls, r
    <2>4. /\ SameChain(new, slot) /\ new.chain.calls = calls
          /\ calls = slot.chain.calls => new = slot
      BY <2>1, <2>2, RecalledFields DEF SameChain
    <2> QED BY <2>3, <2>4
  <1>2. \A c \in slot.chain.calls :
            /\ c \in PlannedCall /\ TaskOK(slot, c)
            /\ after(c) \in PlannedCall /\ SameBytes(after(c), c) /\ TaskOK(slot, after(c))
            /\ (after(c).inflight /\ ~c.inflight) => InSendWindow(c, tick)
            /\ c.state = "Accepted" => after(c).state = "Accepted"
            /\ (after(c).state # "Ready" /\ c.state = "Ready" /\ c.kind = "TerminalReveal") =>
                   TerminalReady(slot)
    BY CallsDistinct, DispatchCallBytes, DispatchCallTask DEF DeliveryOK, InSendWindow
  <1>3. \A m \in r.marks : m.mark # "Failed"
    BY <1>2 DEF DispatchCalls, Result, MarkAll, TaskOK
  <1>4. \A c \in calls : \E d \in slot.chain.calls : c = after(d)
    OBVIOUS
  <1>5. \A d \in slot.chain.calls : after(d) \in calls
    OBVIOUS
  <1> HIDE DEF after, calls, r
  <1>6. \A c \in new.chain.calls : TaskOK(new, c)
    BY <1>1, <1>2, <1>4 DEF TaskOK, GivesUp, SameChain, Tag
  <1>7. TerminalLast(new)
    <2> SUFFICES ASSUME NEW t \in slot.chain.calls, t.kind = "TerminalReveal",
                        after(t).state # "Ready",
                        NEW c \in slot.chain.calls
                 PROVE  \/ Remnant(slot.chain, c) \/ c.kind = "TerminalReveal"
                        \/ c.state = "Accepted"
      BY <1>1, <1>2, <1>4 DEF TerminalLast, SameBytes, Remnant, SameChain
    <2>1. CASE t.state # "Ready"
      BY <2>1 DEF DeliveryOK, TerminalLast
    <2>2. CASE t.state = "Ready"
      <3>1. Tag(slot) = "Draining" /\ TerminalReady(slot)
        BY <1>2, <2>2, OneTerminal
      <3>2. /\ slot.state.at = slot.chain.last + STREAM_COUNT
            /\ c.kind # "TerminalReveal" => c.target <= slot.chain.last
            /\ c.target \in Nat /\ slot.chain.last \in Nat
        BY <3>1, CallAligned, TicksType DEF SlotOK, StateOK, ChainOK
      <3>3. c.kind # "TerminalReveal" => ~(c.target > slot.state.at)
        BY <3>2
      <3> QED BY <3>1, <3>3 DEF TerminalReady
    <2> QED BY <2>1, <2>2
  <1>8. DeliveryOK(new, s)
    BY <1>1, <1>6, <1>7 DEF DeliveryOK, RestartAligned, SameChain, Tag
  <1>9. BeforeTarget(new, tick) /\ InWindow(new, slot, tick) /\ KeepsQueue(new, slot)
    <2>1. \A d \in slot.chain.calls :
              /\ SameBytes(after(d), d)
              /\ after(d).inflight => d.inflight \/ InSendWindow(after(d), tick)
              /\ after(d).inflight => tick < after(d).target
      BY <1>2 DEF BeforeTarget, SameBytes, InSendWindow, SendLead
    <2> QED BY <1>1, <1>4, <1>5, <2>1 DEF BeforeTarget, InWindow, KeepsQueue, SameBytes
  <1> QED BY <1>1, <1>3, <1>8, <1>9 DEF r

-----------------------------------------------------------------------------
(* The end of a cycle *)

(* What a cycle's sending may do to a slot: serve the same chain, lose it  *)
(* to an overdue call of its own, end its drain, or end its frozen tail.   *)
SendShape(new, slot, tick) ==
    \/ SameChain(new, slot)
    \/ IsPlanned(slot) /\ OverdueOwn(slot.chain, tick) # {} /\ LostChain(new, slot)
    \/ /\ Tag(slot) = "Draining"
       /\ new.chain = NoChain /\ new.state \in {Drained("Accepted"), Drained("Failed")}
    \/ /\ Tag(slot) = "Restarting"
       /\ new.chain = NoChain /\ new.restartAt = slot.restartAt
       /\ Tag(new) = "Waiting" \/ new.state = Drained("NothingToDrain")

(* Every call is queued until its target arrives or its chain ends.        *)
KeepsUntil(new, slot, tick) ==
    \/ new.chain = NoChain
    \/ \A c \in slot.chain.calls : \/ c.target <= tick
                                   \/ \E d \in new.chain.calls : SameBytes(c, d)

(* finish_drain, finish_status_restart and prune_calls start no task and   *)
(* drop no call of a chain that lives on before its target.                *)
CloseCycle(slot, tick) == PruneCalls(FinishStatusRestart(FinishDrain(slot), tick), tick)

(* finish_drain ends a drain by its terminal.                              *)
LEMMA FinishDrainShape ==
  ASSUME NEW slot, NEW s, NEW G, SlotOK(slot, s, G)
  PROVE  LET new == FinishDrain(slot)
         IN  \/ new = slot
             \/ /\ Tag(slot) = "Draining"
                /\ new.chain = NoChain /\ new.state \in {Drained("Accepted"), Drained("Failed")}
  BY DEF FinishDrain, CompleteDrain, SlotOK, ManagedSlot

(* finish_status_restart ends a frozen tail.                               *)
LEMMA FinishRestartShape ==
  ASSUME NEW slot, NEW s, NEW G, SlotOK(slot, s, G), NEW tick
  PROVE  LET new == FinishStatusRestart(slot, tick)
         IN  \/ new = slot
             \/ /\ Tag(slot) = "Restarting"
                /\ new.chain = NoChain /\ new.restartAt = slot.restartAt
                /\ Tag(new) = "Waiting" \/ new.state = Drained("NothingToDrain")
  BY DEF FinishStatusRestart, SlotOK, ManagedSlot, Tag, Waiting

(* prune_calls drops calls whose target has arrived.                       *)
LEMMA PruneShape ==
  ASSUME NEW slot, NEW s, NEW G, SlotOK(slot, s, G), NEW tick \in Ticks
  PROVE  LET new == PruneCalls(slot, tick)
         IN  /\ SameChain(new, slot) /\ new.chain.calls \subseteq slot.chain.calls
             /\ \A c \in slot.chain.calls : c.target > tick => c \in new.chain.calls
             /\ Tag(slot) = "Draining" \/ slot.chain.calls = {} => new = slot
  <1> DEFINE keeps(c) == IF Remnant(slot.chain, c) THEN c.target > tick
                         ELSE c.target >= tick \/ c.state # "Accepted"
             kept == {c \in slot.chain.calls : keeps(c)}
             new == PruneCalls(slot, tick)
  <1>1. CASE Tag(slot) = "Draining"
    BY <1>1 DEF PruneCalls, SameChain
  <1>2. CASE Tag(slot) # "Draining"
    <2>1. new = [slot EXCEPT !.chain.calls = kept]
      BY <1>2 DEF PruneCalls
    <2>2. \A c \in slot.chain.calls : c.target > tick => c \in kept
      <3> SUFFICES ASSUME NEW c \in slot.chain.calls, c.target > tick PROVE keeps(c)
        OBVIOUS
      <3>1. c.target \in Nat /\ tick \in Nat
        BY CallAligned, TicksType
      <3> QED BY <3>1
    <2>3. kept \subseteq slot.chain.calls
      OBVIOUS
    <2> HIDE DEF kept
    <2>4. SameChain(new, slot) /\ new.chain.calls = kept
          /\ (kept = slot.chain.calls => new = slot)
      BY <2>1, RecalledFields DEF SlotOK, SameChain
    <2> QED BY <1>2, <2>2, <2>3, <2>4
  <1> QED BY <1>1, <1>2

(* A slot without a chain has no calls.                                    *)
LEMMA NoChainNoCalls ==
  ASSUME NEW slot, NEW s, NEW G, SlotOK(slot, s, G), slot.chain = NoChain
  PROVE  slot.chain.calls = {} /\ Tag(slot) \in {"Waiting", "Drained"}
  <1>1. ~HasChain(slot)
    BY DEF HasChain, NoChain
  <1> QED BY <1>1, HasChainTag DEF NoChain, SlotTags

(* What the end of a cycle does to a slot whose tasks are in order.        *)
LEMMA CloseCycleServes ==
  ASSUME NEW slot, NEW s \in StreamIds, NEW G, SlotOK(slot, s, G), DeliveryOK(slot, s),
         NEW tick \in Ticks, BeforeTarget(slot, tick)
  PROVE  LET new == CloseCycle(slot, tick)
         IN  /\ DeliveryOK(new, s) /\ BeforeTarget(new, tick) /\ NoNewTask(new, slot)
             /\ KeepsUntil(new, slot, tick)
             /\ \/ SameChain(new, slot)
                \/ /\ Tag(slot) = "Draining"
                   /\ new.chain = NoChain /\ new.state \in {Drained("Accepted"), Drained("Failed")}
                \/ /\ Tag(slot) = "Restarting"
                   /\ new.chain = NoChain /\ new.restartAt = slot.restartAt
                   /\ Tag(new) = "Waiting" \/ new.state = Drained("NothingToDrain")
             /\ slot.chain = NoChain => new = slot
  <1> DEFINE drained == FinishDrain(slot)
             restarted == FinishStatusRestart(drained, tick)
             new == PruneCalls(restarted, tick)
             DrainEnded(x) == /\ Tag(slot) = "Draining" /\ x.chain = NoChain
                              /\ x.state \in {Drained("Accepted"), Drained("Failed")}
             TailEnded(x) == /\ Tag(slot) = "Restarting"
                             /\ x.chain = NoChain /\ x.restartAt = slot.restartAt
                             /\ Tag(x) = "Waiting" \/ x.state = Drained("NothingToDrain")
  <1>1. SlotOK(drained, s, G) /\ (drained = slot \/ DrainEnded(drained))
    BY FinishDrainOK, FinishDrainShape DEF KeepsOK
  <1> HIDE DEF drained
  <1>2. SlotOK(restarted, s, G)
    BY <1>1, FinishStatusRestartOK DEF KeepsOK
  <1>3. restarted = slot \/ DrainEnded(restarted) \/ TailEnded(restarted)
    <2>1. DrainEnded(drained) => Tag(drained) = "Drained"
      BY DEF Tag, Drained, Waiting
    <2> QED BY <1>1, <2>1, FinishRestartShape
  <1> HIDE DEF restarted
  <1>4. /\ SameChain(new, restarted) /\ new.chain.calls \subseteq restarted.chain.calls
        /\ \A c \in restarted.chain.calls : c.target > tick => c \in new.chain.calls
        /\ restarted.chain.calls = {} => new = restarted
    BY <1>2, PruneShape
  <1> HIDE DEF new
  <1>5. CASE restarted = slot
    <2>1. DeliveryOK(new, s) /\ BeforeTarget(new, tick)
      BY <1>4, <1>5
         DEF DeliveryOK, TaskOK, GivesUp, TerminalLast, RestartAligned, BeforeTarget, SameChain,
             Tag, Remnant
    <2>2. NoNewTask(new, slot) /\ SameChain(new, slot)
      BY <1>4, <1>5 DEF NoNewTask, SameBytes
    <2>3. KeepsUntil(new, slot, tick)
      <3> SUFFICES ASSUME NEW c \in slot.chain.calls, ~(c.target <= tick)
                   PROVE  c \in new.chain.calls
        BY DEF KeepsUntil, SameBytes
      <3>1. c.target \in Nat /\ tick \in Nat
        BY CallAligned, TicksType
      <3> QED BY <1>4, <1>5, <3>1
    <2>4. slot.chain = NoChain => new = slot
      BY <1>4, <1>5 DEF NoChain
    <2> QED BY <2>1, <2>2, <2>3, <2>4 DEF CloseCycle, new, restarted, drained
  <1>6. CASE DrainEnded(restarted) \/ TailEnded(restarted)
    <2>1. restarted.chain.calls = {} /\ restarted.chain = NoChain
      BY <1>6 DEF NoChain
    <2>2. new = restarted
      BY <1>4, <2>1
    <2>3. RestartAligned(new, s)
      <3>1. CASE DrainEnded(new)
        BY <3>1 DEF RestartAligned, Tag, Drained, Waiting
      <3>2. CASE TailEnded(new)
        <4>1. /\ slot.chain.last \in Nat /\ slot.chain.last % STREAM_COUNT = s
              /\ new.restartAt = slot.chain.last + STREAM_COUNT
          BY <3>2, TicksType DEF SlotOK, StateOK, ChainOK
        <4> QED BY <4>1 DEF RestartAligned
      <3> QED BY <1>6, <2>2, <3>1, <3>2
    <2>4. DeliveryOK(new, s) /\ BeforeTarget(new, tick) /\ NoNewTask(new, slot)
      BY <2>1, <2>2, <2>3 DEF DeliveryOK, TerminalLast, BeforeTarget, NoNewTask
    <2>5. slot.chain # NoChain
      BY <1>6, NoChainNoCalls
    <2>6. KeepsUntil(new, slot, tick)
      BY <2>1, <2>2 DEF KeepsUntil
    <2> QED BY <1>6, <2>2, <2>4, <2>5, <2>6 DEF CloseCycle, new, restarted, drained
  <1> QED BY <1>3, <1>5, <1>6

(* The per-slot tail of a cycle: no task outlives its target, no task      *)
(* starts outside its window, no call is dropped before its target while   *)
(* its chain lives, and a failure ends the chain it is reported of.        *)
LEMMA SendServes ==
  ASSUME NEW slot, NEW s \in StreamIds, NEW G, SlotOK(slot, s, G), DeliveryOK(slot, s),
         NEW tick \in Ticks
  PROVE  LET r == SendSlot(slot, tick)
         IN  /\ DeliveryOK(r.slot, s) /\ BeforeTarget(r.slot, tick)
             /\ InWindow(r.slot, slot, tick) /\ KeepsUntil(r.slot, slot, tick)
             /\ SendShape(r.slot, slot, tick)
             /\ FailsOnce(r.marks, r.slot, slot, s)
             /\ \A m \in r.marks : m.mark = "Failed" => OverdueOwn(slot.chain, tick) # {}
             /\ slot.chain = NoChain => r.slot = slot /\ r.marks = {}
  <1> DEFINE expired == ExpireCalls(slot, tick)
             sent == DispatchCalls(expired.slot, tick)
             new == CloseCycle(sent.slot, tick)
             r == SendSlot(slot, tick)
             Goal == /\ DeliveryOK(new, s) /\ BeforeTarget(new, tick)
                     /\ InWindow(new, slot, tick) /\ KeepsUntil(new, slot, tick)
                     /\ SendShape(new, slot, tick)
                     /\ FailsOnce(expired.marks \cup sent.marks, new, slot, s)
                     /\ \A m \in expired.marks \cup sent.marks :
                            m.mark = "Failed" => OverdueOwn(slot.chain, tick) # {}
                     /\ slot.chain = NoChain => new = slot /\ expired.marks \cup sent.marks = {}
  <1>1. r.slot = new /\ r.marks = expired.marks \cup sent.marks
    BY DEF SendSlot, CloseCycle, Result
  <1>2. /\ SlotOK(expired.slot, s, G) /\ DeliveryOK(expired.slot, s)
        /\ NoNewTask(expired.slot, slot) /\ BeforeTarget(expired.slot, tick)
        /\ KeepsQueue(expired.slot, slot) \/ expired.slot.chain = NoChain
        /\ FailsOnce(expired.marks, expired.slot, slot, s)
        /\ expired.marks # {} => expired.slot.chain = NoChain
        /\ ExpiryShape(expired.slot, slot, tick)
    BY ExpireCallsOK, ExpireServes, ExpireCallsShape DEF BeforeTarget
  <1>3. \A m \in expired.marks : OverdueOwn(slot.chain, tick) # {}
    BY ExpiryMarks
  <1> HIDE DEF expired
  <1>4. /\ SlotOK(sent.slot, s, G) /\ DeliveryOK(sent.slot, s) /\ SameChain(sent.slot, expired.slot)
        /\ BeforeTarget(sent.slot, tick) /\ InWindow(sent.slot, expired.slot, tick)
        /\ KeepsQueue(sent.slot, expired.slot)
        /\ \A m \in sent.marks : m.mark # "Failed"
        /\ expired.slot.chain.calls = {} => sent.slot = expired.slot /\ sent.marks = {}
    BY <1>2, DispatchCallsOK, DispatchServes
  <1> HIDE DEF sent
  <1>5. /\ DeliveryOK(new, s) /\ BeforeTarget(new, tick) /\ NoNewTask(new, sent.slot)
        /\ KeepsUntil(new, sent.slot, tick)
        /\ \/ SameChain(new, sent.slot)
           \/ /\ Tag(sent.slot) = "Draining"
              /\ new.chain = NoChain /\ new.state \in {Drained("Accepted"), Drained("Failed")}
           \/ /\ Tag(sent.slot) = "Restarting"
              /\ new.chain = NoChain /\ new.restartAt = sent.slot.restartAt
              /\ Tag(new) = "Waiting" \/ new.state = Drained("NothingToDrain")
        /\ sent.slot.chain = NoChain => new = sent.slot
    BY <1>4, CloseCycleServes
  <1> HIDE DEF new
  <1>6. expired.slot.chain = NoChain => new = expired.slot /\ sent.marks = {}
    BY <1>4, <1>5 DEF NoChain
  <1>7. InWindow(new, slot, tick)
    BY <1>2, <1>4, <1>5 DEF InWindow, NoNewTask, SameBytes, InSendWindow, SendLead
  <1>8. KeepsUntil(new, slot, tick)
    BY <1>2, <1>4, <1>5, <1>6 DEF KeepsUntil, KeepsQueue, SameBytes
  <1>9. SendShape(new, slot, tick)
    <2>1. CASE SameChain(expired.slot, slot)
      BY <1>4, <1>5, <2>1 DEF SendShape, SameChain, Tag
    <2>2. CASE IsPlanned(slot) /\ OverdueOwn(slot.chain, tick) # {} /\ LostChain(expired.slot, slot)
      BY <1>6, <2>2 DEF SendShape, LostChain
    <2>3. CASE /\ Tag(slot) = "Draining"
               /\ expired.slot.state = Drained("Failed") /\ expired.slot.chain = NoChain
      BY <1>6, <2>3 DEF SendShape
    <2> QED BY <1>2, <2>1, <2>2, <2>3 DEF ExpiryShape
  <1>10. FailsOnce(expired.marks \cup sent.marks, new, slot, s)
    BY <1>2, <1>4, <1>6 DEF FailsOnce
  <1>11. ASSUME slot.chain = NoChain
         PROVE  new = slot /\ expired.marks \cup sent.marks = {}
    <2>1. slot.chain.calls = {} /\ Tag(slot) \in {"Waiting", "Drained"}
      BY <1>11, NoChainNoCalls
    <2>2. OverdueOwn(slot.chain, tick) = {}
      BY <2>1 DEF OverdueOwn
    <2>3. SameChain(expired.slot, slot) /\ expired.marks = {}
      BY <1>2, <1>3, <2>2 DEF ExpiryShape
    <2>4. expired.slot.chain = NoChain
      BY <1>2, <2>1, <2>3 DEF SameChain, Tag, SlotOK, StateOK
    <2>5. expired.slot = slot
      BY <1>2, <1>11, <2>3, <2>4 DEF SameChain, SlotOK, ManagedSlot
    <2> QED BY <1>6, <2>3, <2>4, <2>5
  <1>12. Goal
    BY <1>3, <1>4, <1>5, <1>7, <1>8, <1>9, <1>10, <1>11
  <1> HIDE DEF r
  <1> QED BY <1>1, <1>12 DEF r

-----------------------------------------------------------------------------
(* A whole cycle of a slot *)

(* Why a planned chain may be thrown away: a target of its own arrived     *)
(* unaccepted, or was never planned in time.                               *)
LossCause(slot, tick) ==
    \/ \E c \in slot.chain.calls : Overdue(c, tick) /\ c.target >= slot.chain.first
    \/ slot.chain.last + STREAM_COUNT <= tick

(* Nothing is signed but the terminal reveal of a planned chain.           *)
SignsTerminalOnly(new, slot) ==
    \A c \in new.chain.calls : \/ \E d \in slot.chain.calls : SameBytes(c, d)
                               \/ c.kind = "TerminalReveal" /\ IsPlanned(slot)

(* A chain that was just started has no overdue call of its own.           *)
LEMMA ReplacedOnTime ==
  ASSUME NEW slot, NEW s, NEW H, NEW new, SlotOK(new, s, H), NEW tick \in Ticks,
         Replaced(new, slot, tick)
  PROVE  OverdueOwn(new.chain, tick) = {} /\ ~IsPlanned(slot)
  <1> SUFFICES ASSUME NEW c \in OverdueOwn(new.chain, tick) PROVE FALSE
    BY DEF Replaced, MayStart, IsPlanned
  <1>1. c \in new.chain.calls /\ Overdue(c, tick) /\ ~Remnant(new.chain, c)
    BY DEF OverdueOwn
  <1>2. /\ c.target \in Nat /\ tick \in Nat /\ new.chain.first \in Nat
        /\ new.chain.first >= tick + SEND_LEAD_TICKS
    BY <1>1, CallAligned, TicksType DEF Replaced
  <1> QED BY <1>1, <1>2 DEF Overdue, Remnant, SEND_LEAD_TICKS

(* A planned slot is back to waiting only with a cause.                    *)
LEMMA LossIsCaused ==
  ASSUME NEW slot, NEW s \in StreamIds, NEW G, SlotOK(slot, s, G), IsPlanned(slot),
         NEW tick \in Ticks, NEW mid, NEW H, SlotOK(mid, s, H), PlanShape(mid, slot, tick),
         NEW new, SendShape(new, mid, tick), Tag(new) = "Waiting"
  PROVE  LossCause(slot, tick)
  <1>1. CASE Missed(mid, slot, tick)
    BY <1>1 DEF Missed, LossCause
  <1>2. CASE mid = slot \/ Extended(mid, slot, tick) \/ Closed(mid, slot)
    <2>1. Tag(mid) \in {"Starting", "Active", "Draining"}
      BY <1>2 DEF IsPlanned, Extended, Closed, Tag
    <2>2. OverdueOwn(mid.chain, tick) # {} /\ IsPlanned(mid)
      BY <2>1 DEF SendShape, SameChain, Tag, Drained, Waiting
    <2>3. PICK c \in mid.chain.calls : Overdue(c, tick) /\ ~Remnant(mid.chain, c)
      BY <2>2 DEF OverdueOwn
    <2>4. /\ c.target \in Nat /\ tick \in Nat
          /\ slot.chain.first \in Nat /\ slot.chain.last \in Nat
      BY CallAligned, PlannedChain, TicksType
    <2>5. mid.chain.first = slot.chain.first
      BY <1>2, <2>2 DEF Extended, Extends, Closed
    <2>6. CASE c \in slot.chain.calls
      BY <2>3, <2>4, <2>5, <2>6 DEF LossCause, Remnant
    <2>7. CASE c \notin slot.chain.calls
      <3>1. /\ tick < slot.chain.last + STREAM_COUNT
            /\ c.target \in {slot.chain.last + STREAM_COUNT, slot.chain.last + 2 * STREAM_COUNT}
        BY <1>2, <2>2, <2>7 DEF Extended, Extends, Closed, IsPlanned
      <3> QED BY <2>3, <2>4, <3>1 DEF Overdue
    <2> QED BY <2>6, <2>7
  <1>3. ~Replaced(mid, slot, tick) /\ ~Latched(mid, slot)
    BY DEF Replaced, MayStart, Latched, IsPlanned
  <1> QED BY <1>1, <1>2, <1>3 DEF PlanShape

(* What planning and then sending does to a slot.                          *)
LEMMA CycleServes ==
  ASSUME NEW slot, NEW s \in StreamIds, NEW G, SlotOK(slot, s, G), DeliveryOK(slot, s),
         NEW tick \in Ticks, NEW mid, NEW H, SlotOK(mid, s, H), PlanShape(mid, slot, tick),
         NEW reported, reported # {} => Missed(mid, slot, tick),
         OneTarget(reported, s)
  PROVE  LET r == SendSlot(mid, tick)
         IN  /\ DeliveryOK(r.slot, s) /\ BeforeTarget(r.slot, tick)
             /\ InWindow(r.slot, slot, tick) /\ KeepsUntil(r.slot, slot, tick)
             /\ IsPlanned(slot) /\ Tag(r.slot) = "Waiting" => LossCause(slot, tick)
             /\ FailsOnce(reported \cup r.marks, r.slot, slot, s)
             /\ Tag(slot) = "Drained" => r.slot = slot
             /\ ~Replaced(mid, slot, tick) /\ ~Extended(mid, slot, tick) =>
                    SignsTerminalOnly(r.slot, slot)
  <1> DEFINE r == SendSlot(mid, tick)
             new == r.slot
  <1>1. /\ DeliveryOK(mid, s) /\ NoNewTask(mid, slot)
        /\ KeepsQueue(mid, slot) \/ mid.chain = NoChain
    BY PlanServes
  <1>2. /\ DeliveryOK(new, s) /\ BeforeTarget(new, tick)
        /\ InWindow(new, mid, tick) /\ KeepsUntil(new, mid, tick)
        /\ SendShape(new, mid, tick)
        /\ FailsOnce(r.marks, new, mid, s)
        /\ \A m \in r.marks : m.mark = "Failed" => OverdueOwn(mid.chain, tick) # {}
        /\ mid.chain = NoChain => new = mid /\ r.marks = {}
    BY <1>1, SendServes
  <1>3. \A c \in new.chain.calls : \E d \in mid.chain.calls : SameBytes(c, d)
    BY SendSlotOK DEF KeepsOK
  <1> HIDE DEF r
  <1>4. InWindow(new, slot, tick)
    BY <1>1, <1>2 DEF InWindow, NoNewTask, SameBytes
  <1>5. KeepsUntil(new, slot, tick)
    BY <1>1, <1>2 DEF KeepsUntil, KeepsQueue, SameBytes
  <1>6. IsPlanned(slot) /\ Tag(new) = "Waiting" => LossCause(slot, tick)
    BY <1>2, LossIsCaused
  <1>7. FailsOnce(reported \cup r.marks, new, slot, s)
    <2>1. CASE Missed(mid, slot, tick)
      <3>1. /\ IsPlanned(slot) /\ ~TerminalFailed(slot)
            /\ ~IsPlanned(mid) /\ Tag(mid) # "Draining" /\ mid.chain = NoChain
        BY <2>1, PlannedChain, LostChainServes DEF Missed, LostChain
      <3>2. r.marks = {}
        BY <1>2, <3>1
      <3> QED BY <3>1, <3>2, <1>2 DEF FailsOnce, OneTarget, SendShape, SameChain, Tag
    <2>2. CASE ~Missed(mid, slot, tick) /\ \E m \in r.marks : m.mark = "Failed"
      <3>1. ~Replaced(mid, slot, tick)
        BY <1>2, <2>2, ReplacedOnTime
      <3>2. IsPlanned(mid) \/ Tag(mid) = "Draining"
        BY <1>2, <2>2 DEF FailsOnce
      <3>3. mid = slot \/ (IsPlanned(slot) /\ ~TerminalFailed(slot))
        <4>1. ~Latched(mid, slot)
          BY <3>2 DEF Latched, IsPlanned, Tag, Drained, Waiting
        <4> QED BY <2>2, <3>1, <4>1, PlannedChain DEF PlanShape, Extended, Closed
      <3>4. reported = {}
        BY <2>2
      <3> QED BY <1>2, <2>2, <3>3, <3>4 DEF FailsOnce
    <2>3. CASE ~Missed(mid, slot, tick) /\ ~\E m \in r.marks : m.mark = "Failed"
      BY <2>3 DEF FailsOnce
    <2> QED BY <2>1, <2>2, <2>3
  <1>8. ASSUME Tag(slot) = "Drained" PROVE new = slot
    <2>1. mid = slot
      BY <1>8 DEF PlanShape, Replaced, MayStart, Extended, Missed, Closed, Latched, IsPlanned
    <2>2. slot.chain = NoChain
      BY <1>8 DEF SlotOK, StateOK
    <2> QED BY <1>2, <2>1, <2>2
  <1>9. ASSUME ~Replaced(mid, slot, tick), ~Extended(mid, slot, tick)
        PROVE  SignsTerminalOnly(new, slot)
    <2>1. \A c \in mid.chain.calls : \/ c \in slot.chain.calls
                                     \/ c.kind = "TerminalReveal" /\ IsPlanned(slot)
      <3>1. CASE Missed(mid, slot, tick)
        BY <3>1 DEF Missed, LostChain, NoChain
      <3>2. CASE Closed(mid, slot)
        BY <3>2 DEF Closed
      <3> QED BY <1>9, <3>1, <3>2 DEF PlanShape, Latched
    <2> QED BY <1>3, <2>1 DEF SignsTerminalOnly, SameBytes
  <1> QED BY <1>2, <1>4, <1>5, <1>6, <1>7, <1>8, <1>9 DEF r

-----------------------------------------------------------------------------
(* The engine *)

(* What the tasks of every slot keep while run goes on.                    *)
SlotsServe == pc # "exited" => \A s \in Streams : DeliveryOK(slots[s], s)

DInv == IInv /\ SlotsServe /\ NoTaskPastTarget

(* What a step does to the tasks, the queue, the chain and the failures of *)
(* one stream.                                                             *)
StreamStep(s) ==
    /\ InWindow(slots'[s], slots[s], info.tick)
    /\ KeepsUntil(slots'[s], slots[s], info.tick)
    /\ IsPlanned(slots[s]) /\ Tag(slots'[s]) = "Waiting" /\ ~WasReset =>
           LossCause(slots[s], info.tick)
    /\ \A m \in marks' : m.mark = "Failed" /\ m.target % STREAM_COUNT = s =>
           /\ IsPlanned(slots[s]) \/ Tag(slots[s]) = "Draining"
           /\ ~TerminalFailed(slots[s])
           /\ ~IsPlanned(slots'[s])
           /\ Tag(slots'[s]) = "Draining" => TerminalFailed(slots'[s])
           /\ \A n \in marks' :
                  n.mark = "Failed" /\ n.target % STREAM_COUNT = s => n.target = m.target
    /\ token \/ EpochDraining \/ Tag(slots[s]) \in {"Draining", "Drained"} =>
           SignsTerminalOnly(slots'[s], slots[s])
    /\ Tag(slots[s]) = "Drained" /\ ~WasReset => slots'[s] = slots[s]

DeliveryStep == \A s \in Streams : StreamStep(s)

(* A step that leaves the slots alone and reports nothing.                 *)
LEMMA QuietStep ==
  ASSUME DInv, slots' = slots, marks' = {}, pc # "exited",
         pc' \in {"observe", "head"} => pc \in {"observe", "head"} /\ info' = info
  PROVE  SlotsServe' /\ NoTaskPastTarget' /\ DeliveryStep
  <1>1. SlotsServe' /\ NoTaskPastTarget'
    BY DEF DInv, SlotsServe, NoTaskPastTarget, Calls
  <1>2. \A s \in Streams : \A c \in slots[s].chain.calls : SameBytes(c, c)
    BY DEF SameBytes
  <1>3. \A s \in Streams : ~(IsPlanned(slots[s]) /\ Tag(slots[s]) = "Waiting")
    BY DEF IsPlanned
  <1>4. DeliveryStep
    BY <1>2, <1>3 DEF DeliveryStep, StreamStep, InWindow, KeepsUntil, SignsTerminalOnly
  <1> QED BY <1>1, <1>4

(* Failures reported stream by stream are each of their own stream.        *)
LEMMA OwnFailures ==
  ASSUME NEW g, marks' = UNION {g[s] : s \in Streams},
         \A s \in Streams : FailsOnce(g[s], slots'[s], slots[s], s),
         NEW t \in Streams, NEW m \in marks', m.mark = "Failed", m.target % STREAM_COUNT = t
  PROVE  /\ IsPlanned(slots[t]) \/ Tag(slots[t]) = "Draining"
         /\ ~TerminalFailed(slots[t])
         /\ ~IsPlanned(slots'[t])
         /\ Tag(slots'[t]) = "Draining" => TerminalFailed(slots'[t])
         /\ \A n \in marks' :
                n.mark = "Failed" /\ n.target % STREAM_COUNT = t => n.target = m.target
  <1>1. PICK s \in Streams : m \in g[s]
    OBVIOUS
  <1>2. s = t
    BY <1>1 DEF FailsOnce
  <1>3. ASSUME NEW n \in marks', n.mark = "Failed", n.target % STREAM_COUNT = t
        PROVE  n \in g[t]
    BY <1>3 DEF FailsOnce
  <1> QED BY <1>1, <1>2, <1>3 DEF FailsOnce

(* reset_slots and the other starts of a cycle.                            *)
LEMMA TickOkServes ==
  ASSUME DInv, NEW i \in TickInfos, NEW w \in StopWindows, TickOk(i, w)
  PROVE  SlotsServe' /\ NoTaskPastTarget' /\ DeliveryStep
  <1>1. CASE phase.epoch # i.epoch
    <2>1. /\ slots' = [s \in Streams |-> InitSlot] /\ marks' = {} /\ pc' = "harvest"
          /\ phase'.epoch = i.epoch
      BY <1>1, UpdateEpochPhaseOK DEF TickOk, DInv
    <2>2. WasReset
      BY <1>1, <2>1 DEF WasReset
    <2>3. InitSlot.chain = NoChain /\ InitSlot.chain.calls = {} /\ InitSlot.restartAt = 0
      BY DEF InitSlot, NoChain
    <2>4. SlotsServe' /\ NoTaskPastTarget'
      BY <2>1, <2>3 DEF SlotsServe, DeliveryOK, TerminalLast, RestartAligned, NoTaskPastTarget
    <2>5. DeliveryStep
      BY <2>1, <2>2, <2>3 DEF DeliveryStep, StreamStep, InWindow, KeepsUntil, SignsTerminalOnly
    <2> QED BY <2>4, <2>5
  <1>2. CASE phase.epoch = i.epoch
    BY <1>2, QuietStep DEF TickOk
  <1> QED BY <1>1, <1>2

(* Leaving run aborts every task.                                          *)
LEMMA LeaveServes ==
  ASSUME DInv, NEW result, Leave(result), pc # "exited", UNCHANGED phase
  PROVE  SlotsServe' /\ NoTaskPastTarget' /\ DeliveryStep
  <1>1. /\ pc' = "exited" /\ marks' = {}
        /\ slots' = [s \in Streams |-> [slots[s] EXCEPT !.chain = NoChain]]
    BY DEF Leave
  <1>2. SlotsServe' /\ NoTaskPastTarget'
    BY <1>1 DEF SlotsServe, NoTaskPastTarget
  <1>3. ASSUME NEW s \in Streams PROVE StreamStep(s)
    <2>1. SlotOK(slots[s], s, signed[s]) /\ slots[s] \in ManagedSlot
      BY DEF DInv, IInv, SlotsOK, SlotOK
    <2>2. /\ slots'[s].chain = NoChain /\ slots'[s].chain.calls = {}
          /\ Tag(slots'[s]) = Tag(slots[s])
          /\ slots[s].chain = NoChain => slots'[s] = slots[s]
      BY <1>1, <2>1 DEF ManagedSlot, Tag, NoChain
    <2>3. Tag(slots[s]) = "Drained" => slots[s].chain = NoChain
      BY <2>1 DEF SlotOK, StateOK
    <2> QED BY <1>1, <2>2, <2>3
            DEF StreamStep, InWindow, KeepsUntil, SignsTerminalOnly, IsPlanned
  <1> QED BY <1>2, <1>3 DEF DeliveryStep

-----------------------------------------------------------------------------
(* Harvesting *)

(* The finished tasks of one stream of the engine.                         *)
LEMMA HarvestedServes ==
  ASSUME DInv, pc # "exited", NEW s \in Streams, NEW results
  PROVE  LET r == HarvestBroadcasts(slots[s], results)
             slot == slots[s]
         IN  /\ SlotOK(r.slot, s, signed[s]) /\ DeliveryOK(r.slot, s) /\ SameChain(r.slot, slot)
             /\ NoNewTask(r.slot, slot) /\ KeepsQueue(r.slot, slot)
             /\ FailsOnce(r.marks, r.slot, slot, s)
             /\ Tag(slot) = "Drained" => r.slot = slot
  <1> DEFINE slot == slots[s]
             r == HarvestBroadcasts(slot, results)
  <1>1. SlotOK(slot, s, signed[s]) /\ DeliveryOK(slot, s) /\ s \in StreamIds
    BY StreamsType DEF DInv, IInv, SlotsOK, SlotsServe
  <1>2. Tag(slot) = "Drained" => slot.chain.calls = {}
    BY <1>1 DEF SlotOK, StateOK, NoChain
  <1>3. SlotOK(r.slot, s, signed[s])
    BY <1>1, HarvestBroadcastsOK
  <1>4. /\ DeliveryOK(r.slot, s) /\ SameChain(r.slot, slot)
        /\ NoNewTask(r.slot, slot) /\ KeepsQueue(r.slot, slot)
        /\ FailsOnce(r.marks, r.slot, slot, s)
        /\ slot.chain.calls = {} => r.slot = slot
    BY <1>1, HarvestServes
  <1> HIDE DEF slot, r
  <1>5. Tag(slot) = "Drained" => r.slot = slot
    BY <1>2, <1>4
  <1> QED BY <1>3, <1>4, <1>5 DEF slot, r

(* What harvesting does to a slot, with a response or without.             *)
HarvestEffect(new, slot, s) ==
    /\ DeliveryOK(new, s) /\ NoNewTask(new, slot)
    /\ KeepsQueue(new, slot) \/ new.chain = NoChain
    /\ IsPlanned(slot) => Tag(new) # "Waiting"
    /\ Tag(slot) = "Drained" => new = slot

(* The response applied to a harvested slot.                               *)
LEMMA ResponseServes ==
  ASSUME NEW slot, NEW s \in StreamIds, NEW G, SlotOK(slot, s, G),
         NEW mid, SlotOK(mid, s, G), DeliveryOK(mid, s),
         SameChain(mid, slot), NoNewTask(mid, slot), KeepsQueue(mid, slot),
         NEW reported, FailsOnce(reported, mid, slot, s),
         Tag(slot) = "Drained" => mid = slot,
         NEW seen \in OptTicks, NEW requested \in Ticks
  PROVE  LET r == ApplyStatus(mid, seen, requested)
         IN  HarvestEffect(r.slot, slot, s) /\ FailsOnce(reported \cup r.marks, r.slot, slot, s)
  <1> DEFINE r == ApplyStatus(mid, seen, requested)
             new == r.slot
  <1>1. /\ StatusShape(new, mid) /\ StatusMarks(r.marks, new, mid, s)
        /\ DeliveryOK(new, s) /\ NoNewTask(new, mid)
        /\ KeepsQueue(new, mid) \/ new.chain = NoChain
        /\ FailsOnce(r.marks, new, mid, s)
    BY ApplyStatusShape, ApplyStatusServes
  <1> HIDE DEF r
  <1>2. Tag(mid) = Tag(slot)
    BY DEF SameChain, Tag
  <1>3. HarvestEffect(new, slot, s)
    <2>1. NoNewTask(new, slot) /\ (KeepsQueue(new, slot) \/ new.chain = NoChain)
      BY <1>1 DEF NoNewTask, KeepsQueue, SameBytes
    <2>2. IsPlanned(slot) => Tag(new) # "Waiting"
      BY <1>1, <1>2, ExhaustedShape DEF StatusShape, IsPlanned
    <2>3. Tag(slot) = "Drained" => new = slot
      BY <1>1, <1>2 DEF StatusShape, IsPlanned
    <2> QED BY <1>1, <2>1, <2>2, <2>3 DEF HarvestEffect
  <1>4. FailsOnce(reported \cup r.marks, new, slot, s)
    <2>1. Tag(slot) = "Draining" => new = mid
      BY <1>1, <1>2 DEF StatusShape, IsPlanned
    <2>2. \A m \in reported : m.mark = "Failed" => Tag(slot) = "Draining"
      BY <1>2 DEF FailsOnce, IsPlanned
    <2>3. r.marks # {} => IsPlanned(slot) /\ ~TerminalFailed(slot)
      BY <1>1, <1>2, PlannedChain DEF StatusMarks, IsPlanned
    <2> QED BY <1>1, <1>2, <2>1, <2>2, <2>3 DEF FailsOnce, IsPlanned
  <1> QED BY <1>3, <1>4 DEF r

(* What a harvest leaves is what the engine promises of every step.        *)
LEMMA HarvestEffects ==
  ASSUME DInv, Harvest, NEW g, marks' = UNION {g[s] : s \in Streams},
         \A s \in Streams : /\ HarvestEffect(slots'[s], slots[s], s)
                            /\ FailsOnce(g[s], slots'[s], slots[s], s)
  PROVE  SlotsServe' /\ NoTaskPastTarget' /\ DeliveryStep
  <1>1. pc = "harvest" /\ pc' = "plan"
    BY DEF Harvest, HarvestQueryPending, HarvestQueryFailed, HarvestQueryOk
  <1>2. SlotsServe' /\ NoTaskPastTarget'
    BY <1>1 DEF SlotsServe, NoTaskPastTarget, HarvestEffect
  <1>3. \A s \in Streams : \A c \in slots'[s].chain.calls : \E d \in slots[s].chain.calls : SameBytes(c, d)
    <2>1. SlotsOK /\ pc # "exited"
      BY <1>1 DEF DInv, IInv
    <2>2. signed' = signed /\ SlotsOK' /\ SignedStep
      BY HarvestStep DEF DInv, IInv, Harvest, HarvestQueryPending, HarvestQueryFailed, HarvestQueryOk
    <2>3. \A s \in Streams : \A c \in slots'[s].chain.calls : c.target \in signed[s] /\ c.target \in Nat
      BY <1>1, <2>2, CallAligned, TicksType DEF SlotsOK
    <2> QED BY <2>2, <2>3 DEF SignedStep, SignsAbove
  <1>4. ASSUME NEW s \in Streams PROVE StreamStep(s)
    <2>1. /\ \A m \in marks' : m.mark = "Failed" /\ m.target % STREAM_COUNT = s =>
               /\ IsPlanned(slots[s]) \/ Tag(slots[s]) = "Draining"
               /\ ~TerminalFailed(slots[s])
               /\ ~IsPlanned(slots'[s])
               /\ Tag(slots'[s]) = "Draining" => TerminalFailed(slots'[s])
               /\ \A n \in marks' :
                      n.mark = "Failed" /\ n.target % STREAM_COUNT = s => n.target = m.target
      BY OwnFailures
    <2>2. InWindow(slots'[s], slots[s], info.tick) /\ KeepsUntil(slots'[s], slots[s], info.tick)
      BY DEF HarvestEffect, InWindow, NoNewTask, KeepsUntil, KeepsQueue
    <2>3. SignsTerminalOnly(slots'[s], slots[s])
      BY <1>3 DEF SignsTerminalOnly
    <2> QED BY <2>1, <2>2, <2>3 DEF StreamStep, HarvestEffect
  <1> QED BY <1>2, <1>4 DEF DeliveryStep

(* Every harvest serves every slot.                                        *)
LEMMA HarvestStepServes ==
  ASSUME DInv, Harvest
  PROVE  SlotsServe' /\ NoTaskPastTarget' /\ DeliveryStep
  <1>1. pc = "harvest"
    BY DEF Harvest, HarvestQueryPending, HarvestQueryFailed, HarvestQueryOk
  <1>2. PICK results \in [InFlight -> TaskResults] :
            \/ HarvestNoStatus(results)
            \/ query # NoQuery /\ \E seen \in StatusReports : HarvestStatus(results, seen)
    BY DEF Harvest, HarvestQueryPending, HarvestQueryFailed, HarvestQueryOk
  <1> DEFINE harvested == [s \in Streams |-> HarvestBroadcasts(slots[s], results)]
  <1>3. \A s \in Streams :
            /\ SlotOK(slots[s], s, signed[s]) /\ s \in StreamIds
            /\ SlotOK(harvested[s].slot, s, signed[s]) /\ DeliveryOK(harvested[s].slot, s)
            /\ SameChain(harvested[s].slot, slots[s])
            /\ NoNewTask(harvested[s].slot, slots[s]) /\ KeepsQueue(harvested[s].slot, slots[s])
            /\ FailsOnce(harvested[s].marks, harvested[s].slot, slots[s], s)
            /\ Tag(slots[s]) = "Drained" => harvested[s].slot = slots[s]
    BY <1>1, HarvestedServes, StreamsType DEF DInv, IInv, SlotsOK
  <1>4. CASE HarvestNoStatus(results)
    <2> DEFINE g == [s \in Streams |-> harvested[s].marks]
    <2>1. /\ slots' = [s \in Streams |-> harvested[s].slot]
          /\ marks' = UNION {harvested[s].marks : s \in Streams}
      BY <1>4 DEF HarvestNoStatus, Harvested
    <2> HIDE DEF harvested
    <2>2. marks' = UNION {g[s] : s \in Streams} /\ \A s \in Streams : g[s] = harvested[s].marks
      BY <2>1
    <2> HIDE DEF g
    <2>3. \A s \in Streams : /\ HarvestEffect(slots'[s], slots[s], s)
                             /\ FailsOnce(g[s], slots'[s], slots[s], s)
      BY <1>3, <2>1, <2>2 DEF HarvestEffect, SameChain, IsPlanned, Tag
    <2> QED BY <2>2, <2>3, HarvestEffects
  <1>5. CASE query # NoQuery /\ \E seen \in StatusReports : HarvestStatus(results, seen)
    <2>1. PICK seen \in StatusReports : HarvestStatus(results, seen)
      BY <1>5
    <2> DEFINE applied == [s \in Streams |->
                              ApplyStatus(harvested[s].slot, seen[s], query.requested)]
               g == [s \in Streams |-> harvested[s].marks \cup applied[s].marks]
    <2>2. /\ slots' = [s \in Streams |-> applied[s].slot]
          /\ marks' = UNION {harvested[s].marks \cup applied[s].marks : s \in Streams}
      BY <2>1 DEF HarvestStatus, Harvested
    <2>3. /\ query.requested \in Ticks
          /\ \A s \in Streams : seen[s] \in OptTicks
      BY <1>5, StatusTicksAssumption DEF DInv, IInv, QueryOK, StatusReports, OptTicks
    <2> HIDE DEF harvested
    <2>4. \A s \in Streams :
              applied[s] = ApplyStatus(harvested[s].slot, seen[s], query.requested)
      OBVIOUS
    <2> HIDE DEF applied
    <2>5. marks' = UNION {g[s] : s \in Streams}
          /\ \A s \in Streams : g[s] = harvested[s].marks \cup applied[s].marks
      BY <2>2
    <2> HIDE DEF g
    <2>6. ASSUME NEW s \in Streams
          PROVE  /\ HarvestEffect(slots'[s], slots[s], s)
                 /\ FailsOnce(g[s], slots'[s], slots[s], s)
      <3>1. /\ HarvestEffect(applied[s].slot, slots[s], s)
            /\ FailsOnce(harvested[s].marks \cup applied[s].marks, applied[s].slot, slots[s], s)
        <4> DEFINE mid == harvested[s].slot
                   reported == harvested[s].marks
        <4>1. /\ SlotOK(slots[s], s, signed[s]) /\ s \in StreamIds
              /\ SlotOK(mid, s, signed[s]) /\ DeliveryOK(mid, s)
              /\ SameChain(mid, slots[s])
              /\ NoNewTask(mid, slots[s]) /\ KeepsQueue(mid, slots[s])
              /\ FailsOnce(reported, mid, slots[s], s)
              /\ Tag(slots[s]) = "Drained" => mid = slots[s]
          BY <1>3
        <4>2. applied[s] = ApplyStatus(mid, seen[s], query.requested)
          BY <2>4
        <4>3. seen[s] \in OptTicks /\ query.requested \in Ticks
          BY <2>3
        <4> HIDE DEF mid, reported
        <4>4. LET r == ApplyStatus(mid, seen[s], query.requested)
              IN  HarvestEffect(r.slot, slots[s], s)
                  /\ FailsOnce(reported \cup r.marks, r.slot, slots[s], s)
          BY <4>1, <4>3, ResponseServes
        <4>5. /\ HarvestEffect(applied[s].slot, slots[s], s)
              /\ FailsOnce(reported \cup applied[s].marks, applied[s].slot, slots[s], s)
          BY <4>2, <4>4
        <4> QED BY <4>5 DEF reported
      <3> QED BY <2>2, <2>5, <3>1
    <2> QED BY <2>5, <2>6, HarvestEffects
  <1> QED BY <1>2, <1>4, <1>5

-----------------------------------------------------------------------------
(* Planning and sending *)

(* What a cycle, complete or cut short, does to a slot.                    *)
CycleEffect(new, slot, s, tick, reported) ==
    /\ DeliveryOK(new, s) /\ InWindow(new, slot, tick) /\ KeepsUntil(new, slot, tick)
    /\ IsPlanned(slot) /\ Tag(new) = "Waiting" => LossCause(slot, tick)
    /\ FailsOnce(reported, new, slot, s)
    /\ Tag(slot) = "Drained" => new = slot

(* What planning alone does to a slot, in the cycle an error cuts short.   *)
LEMMA PlannedServes ==
  ASSUME NEW slot, NEW s \in StreamIds, NEW G, SlotOK(slot, s, G), DeliveryOK(slot, s),
         NEW tick \in Ticks, NEW new, NEW H, SlotOK(new, s, H), PlanShape(new, slot, tick),
         NEW reported, reported # {} => Missed(new, slot, tick),
         OneTarget(reported, s)
  PROVE  /\ CycleEffect(new, slot, s, tick, reported)
         /\ ~Replaced(new, slot, tick) /\ ~Extended(new, slot, tick) => SignsTerminalOnly(new, slot)
  <1>1. /\ DeliveryOK(new, s) /\ NoNewTask(new, slot)
        /\ KeepsQueue(new, slot) \/ new.chain = NoChain
    BY PlanServes
  <1>2. InWindow(new, slot, tick) /\ KeepsUntil(new, slot, tick)
    BY <1>1 DEF InWindow, NoNewTask, KeepsUntil, KeepsQueue
  <1>3. IsPlanned(slot) /\ Tag(new) = "Waiting" => LossCause(slot, tick)
    <2>1. SendShape(new, new, tick)
      BY DEF SendShape, SameChain
    <2> QED BY <2>1, LossIsCaused
  <1>4. FailsOnce(reported, new, slot, s)
    <2>1. CASE Missed(new, slot, tick)
      <3>1. /\ IsPlanned(slot) /\ ~TerminalFailed(slot)
            /\ ~IsPlanned(new) /\ Tag(new) # "Draining"
        BY <2>1, PlannedChain, LostChainServes DEF Missed, LostChain
      <3> QED BY <3>1 DEF FailsOnce, OneTarget
    <2> QED BY <2>1 DEF FailsOnce
  <1>5. Tag(slot) = "Drained" => new = slot
    BY DEF PlanShape, Replaced, MayStart, Extended, Missed, Closed, Latched, IsPlanned
  <1>6. ASSUME ~Replaced(new, slot, tick), ~Extended(new, slot, tick)
        PROVE  SignsTerminalOnly(new, slot)
    <2>1. \A c \in new.chain.calls : \/ c \in slot.chain.calls
                                     \/ c.kind = "TerminalReveal" /\ IsPlanned(slot)
      <3>1. CASE Missed(new, slot, tick)
        BY <3>1 DEF Missed, LostChain, NoChain
      <3>2. CASE Closed(new, slot)
        BY <3>2 DEF Closed
      <3> QED BY <1>6, <3>1, <3>2 DEF PlanShape, Latched
    <2> QED BY <2>1 DEF SignsTerminalOnly, SameBytes
  <1> QED BY <1>1, <1>2, <1>3, <1>4, <1>5, <1>6 DEF CycleEffect

(* What the planning of a cycle may give a stream.                         *)
PlansSlot(r, s) ==
    /\ PlanOK(r.slot, slots[s], s, signed[s]) /\ PlanShape(r.slot, slots[s], info.tick)
    /\ r.marks # {} => Missed(r.slot, slots[s], info.tick)
    /\ OneTarget(r.marks, s)
    /\ r.ok /\ (token \/ EpochDraining) =>
           ~Replaced(r.slot, slots[s], info.tick) /\ ~Extended(r.slot, slots[s], info.tick)
    /\ ~r.ok => /\ r.slot = slots[s]
                /\ \/ info.tick + SEND_LEAD_TICKS + STREAM_COUNT > MaxTick
                   \/ slots[s].chain.last + STREAM_COUNT > MaxTick

(* Cycles keep what the engine promises of every step.                     *)
LEMMA CycleEffects ==
  ASSUME NEW g, marks' = UNION {g[s] : s \in Streams},
         \A s \in Streams :
             /\ CycleEffect(slots'[s], slots[s], s, info.tick, g[s])
             /\ token \/ EpochDraining \/ Tag(slots[s]) \in {"Draining", "Drained"} =>
                    SignsTerminalOnly(slots'[s], slots[s])
  PROVE  SlotsServe' /\ DeliveryStep
  <1>1. SlotsServe'
    BY DEF SlotsServe, CycleEffect
  <1>2. ASSUME NEW s \in Streams PROVE StreamStep(s)
    <2>1. \A t \in Streams : FailsOnce(g[t], slots'[t], slots[t], t)
      BY DEF CycleEffect
    <2>2. \A m \in marks' : m.mark = "Failed" /\ m.target % STREAM_COUNT = s =>
               /\ IsPlanned(slots[s]) \/ Tag(slots[s]) = "Draining"
               /\ ~TerminalFailed(slots[s])
               /\ ~IsPlanned(slots'[s])
               /\ Tag(slots'[s]) = "Draining" => TerminalFailed(slots'[s])
               /\ \A n \in marks' :
                      n.mark = "Failed" /\ n.target % STREAM_COUNT = s => n.target = m.target
      BY <2>1, OwnFailures
    <2> QED BY <2>2 DEF StreamStep, CycleEffect
  <1> QED BY <1>1, <1>2 DEF DeliveryStep

(* Serving slots that are draining or drained signs terminal reveals only. *)
LEMMA DrainingSigns ==
  ASSUME NEW new, NEW slot, NEW tick, Tag(slot) \in {"Draining", "Drained"}
  PROVE  ~Replaced(new, slot, tick) /\ ~Extended(new, slot, tick)
  BY DEF Replaced, MayStart, Extended, IsPlanned

(* A cycle whose planning succeeds: it sends, and afterwards no task runs  *)
(* at or past its target.                                                  *)
LEMMA PlanThenSendServes ==
  ASSUME DInv, pc # "exited", info' = info, info.tick \in Ticks, NEW planned,
         \A s \in Streams : PlansSlot(planned[s], s), NEW due, PlanThenSend(planned, due)
  PROVE  SlotsServe' /\ NoTaskPastTarget' /\ DeliveryStep
  <1> DEFINE sent == [s \in Streams |-> SendSlot(planned[s].slot, info.tick)]
             g == [s \in Streams |-> planned[s].marks \cup sent[s].marks]
  <1>1. /\ slots' = [s \in Streams |-> sent[s].slot]
        /\ marks' = UNION {planned[s].marks \cup sent[s].marks : s \in Streams}
        /\ \A s \in Streams : planned[s].ok
    BY DEF PlanThenSend, AllOk
  <1>2. \A s \in Streams : sent[s] = SendSlot(planned[s].slot, info.tick)
    OBVIOUS
  <1> HIDE DEF sent
  <1>3. /\ marks' = UNION {g[s] : s \in Streams}
        /\ \A s \in Streams : g[s] = planned[s].marks \cup sent[s].marks
    BY <1>1
  <1> HIDE DEF g
  <1>4. ASSUME NEW s \in Streams
        PROVE  /\ CycleEffect(slots'[s], slots[s], s, info.tick, g[s])
               /\ BeforeTarget(slots'[s], info.tick)
               /\ token \/ EpochDraining \/ Tag(slots[s]) \in {"Draining", "Drained"} =>
                      SignsTerminalOnly(slots'[s], slots[s])
    <2> DEFINE slot == slots[s]
               mid == planned[s].slot
               reported == planned[s].marks
               H == signed[s] \cup Targets(mid.chain.calls)
    <2>1. /\ SlotOK(slot, s, signed[s]) /\ DeliveryOK(slot, s) /\ s \in StreamIds
          /\ PlanShape(mid, slot, info.tick) /\ SlotOK(mid, s, H)
          /\ reported # {} => Missed(mid, slot, info.tick)
          /\ OneTarget(reported, s)
          /\ token \/ EpochDraining =>
                 ~Replaced(mid, slot, info.tick) /\ ~Extended(mid, slot, info.tick)
      BY <1>1, StreamsType DEF DInv, IInv, SlotsOK, SlotsServe, PlansSlot, PlanOK
    <2>2. sent[s] = SendSlot(mid, info.tick)
      BY <1>2
    <2>3. slots'[s] = sent[s].slot /\ g[s] = reported \cup sent[s].marks
      BY <1>1, <1>3
    <2>4. Tag(slot) \in {"Draining", "Drained"} =>
              ~Replaced(mid, slot, info.tick) /\ ~Extended(mid, slot, info.tick)
      BY DrainingSigns
    <2> HIDE DEF slot, mid, reported, H
    <2>5. LET r == SendSlot(mid, info.tick)
          IN  /\ DeliveryOK(r.slot, s) /\ BeforeTarget(r.slot, info.tick)
              /\ InWindow(r.slot, slot, info.tick) /\ KeepsUntil(r.slot, slot, info.tick)
              /\ IsPlanned(slot) /\ Tag(r.slot) = "Waiting" => LossCause(slot, info.tick)
              /\ FailsOnce(reported \cup r.marks, r.slot, slot, s)
              /\ Tag(slot) = "Drained" => r.slot = slot
              /\ ~Replaced(mid, slot, info.tick) /\ ~Extended(mid, slot, info.tick) =>
                     SignsTerminalOnly(r.slot, slot)
      BY <2>1, CycleServes
    <2>6. /\ CycleEffect(slots'[s], slot, s, info.tick, g[s])
          /\ BeforeTarget(slots'[s], info.tick)
          /\ ~Replaced(mid, slot, info.tick) /\ ~Extended(mid, slot, info.tick) =>
                 SignsTerminalOnly(slots'[s], slot)
      BY <2>2, <2>3, <2>5 DEF CycleEffect
    <2> QED BY <2>1, <2>4, <2>6 DEF slot
  <1>5. SlotsServe' /\ DeliveryStep
    BY <1>3, <1>4, CycleEffects
  <1>6. NoTaskPastTarget'
    BY <1>4 DEF NoTaskPastTarget, Calls, BeforeTarget
  <1> QED BY <1>5, <1>6

(* A cycle that a planning error cuts short: only where a stream has no    *)
(* tick left may a task outlive its target.                                *)
LEMMA PlanFailsServes ==
  ASSUME DInv, pc # "exited", info' = info, info.tick \in Ticks, NEW planned,
         \A s \in Streams : PlansSlot(planned[s], s), PlanFails(planned)
  PROVE  SlotsServe' /\ NoTaskPastTarget' /\ DeliveryStep
  <1> DEFINE g == [s \in Streams |-> IF Reached(planned, s) THEN planned[s].marks ELSE {}]
  <1>1. /\ marks' = UNION {g[s] : s \in Streams}
        /\ \A s \in Streams : g[s] = IF Reached(planned, s) THEN planned[s].marks ELSE {}
    BY DEF PlanFails, PlannedMarks
  <1> HIDE DEF g
  <1>2. \A s \in Streams : slots'[s] = IF Reached(planned, s) THEN planned[s].slot ELSE slots[s]
    BY DEF PlanFails, PlannedSlots
  <1>3. ASSUME NEW s \in Streams
        PROVE  /\ CycleEffect(slots'[s], slots[s], s, info.tick, g[s])
               /\ token \/ EpochDraining \/ Tag(slots[s]) \in {"Draining", "Drained"} =>
                      SignsTerminalOnly(slots'[s], slots[s])
    <2>1. /\ SlotOK(slots[s], s, signed[s]) /\ DeliveryOK(slots[s], s) /\ s \in StreamIds
      BY StreamsType DEF DInv, IInv, SlotsOK, SlotsServe
    <2>2. PICK H : SlotOK(slots'[s], s, H)
      BY <1>2, <2>1 DEF PlansSlot, PlanOK
    <2>3. /\ PlanShape(slots'[s], slots[s], info.tick)
          /\ g[s] # {} => Missed(slots'[s], slots[s], info.tick)
          /\ OneTarget(g[s], s)
      BY <1>1, <1>2 DEF PlansSlot, OneTarget, PlanShape
    <2>4. /\ CycleEffect(slots'[s], slots[s], s, info.tick, g[s])
          /\ ~Replaced(slots'[s], slots[s], info.tick) /\ ~Extended(slots'[s], slots[s], info.tick) =>
                 SignsTerminalOnly(slots'[s], slots[s])
      BY <2>1, <2>2, <2>3, PlannedServes
    <2>5. slots'[s] = slots[s] => SignsTerminalOnly(slots'[s], slots[s])
      BY DEF SignsTerminalOnly, SameBytes
    <2>6. slots'[s] # slots[s] /\ (token \/ EpochDraining) =>
              ~Replaced(slots'[s], slots[s], info.tick) /\ ~Extended(slots'[s], slots[s], info.tick)
      BY <1>2 DEF PlansSlot
    <2> QED BY <2>4, <2>5, <2>6, DrainingSigns
  <1>4. SlotsServe' /\ DeliveryStep
    BY <1>1, <1>3, CycleEffects
  <1>5. NoTaskPastTarget'
    <2>1. PICK s \in Streams : ~planned[s].ok
      BY DEF PlanFails, AllOk
    <2>2. slots'[s] = slots[s]
      BY <1>2, <2>1 DEF PlansSlot
    <2>3. \/ info.tick + SEND_LEAD_TICKS + STREAM_COUNT > MaxTick
          \/ slots'[s].chain.last + STREAM_COUNT > MaxTick
      BY <2>1, <2>2 DEF PlansSlot
    <2>4. slots[s].chain.last \in OptTicks
      BY DEF DInv, IInv, TypeOK, ManagedSlot, Chain
    <2>5. info.tick \in Int /\ slots'[s].chain.last \in Int /\ MaxTick \in Int
      <3>1. info.tick \in Nat /\ MaxTick \in Nat
        BY TicksType
      <3>2. slots[s].chain.last \in Nat \cup {-1}
        BY <2>4, TicksType DEF OptTicks, NoTick
      <3> QED BY <2>2, <3>1, <3>2
    <2>6. ~(info.tick + SEND_LEAD_TICKS + STREAM_COUNT <= MaxTick
            /\ slots'[s].chain.last + STREAM_COUNT <= MaxTick)
      BY <2>3, <2>5 DEF SEND_LEAD_TICKS
    <2> QED BY <2>6 DEF NoTaskPastTarget
  <1> QED BY <1>4, <1>5

(* Drain, active and hold planning are plans of the shape above.           *)
LEMMA CyclePlans ==
  ASSUME DInv, PlanAndSend
  PROVE  /\ pc = "plan" /\ info' = info /\ info.tick \in Ticks
         /\ \E planned \in {DrainPlan, ActivePlan, HoldPlan} :
                /\ \A s \in Streams : PlansSlot(planned[s], s)
                /\ (\E due : PlanThenSend(planned, due)) \/ PlanFails(planned)
  <1>1. pc = "plan" /\ info' = info
    BY DEF PlanAndSend, CycleDrain, CycleActive, CycleHold
  <1>2. /\ info.tick \in Ticks
        /\ \A s \in Streams : /\ SlotOK(slots[s], s, signed[s]) /\ s \in StreamIds
                              /\ RestartAligned(slots[s], s)
    BY <1>1, InfoType, StreamsType DEF DInv, IInv, InfoOK, SlotsOK, SlotsServe, DeliveryOK
  <1>3. ASSUME NEW s \in Streams PROVE PlansSlot(DrainPlan[s], s)
    <2> DEFINE r == EnterDrain(slots[s], s, DrainReason)
    <2>1. DrainPlan[s] = r
      BY DEF DrainPlan
    <2>2. DrainReason \in DrainReasons
      BY DEF DrainReason, DrainReasons
    <2>3. PlanOK(r.slot, slots[s], s, signed[s])
      BY <1>2, <2>2, EnterDrainOK
    <2>4. /\ r.marks = {}
          /\ r.slot = slots[s] \/ Latched(r.slot, slots[s]) \/ Closed(r.slot, slots[s])
          /\ r.ok /\ IsPlanned(slots[s]) => Closed(r.slot, slots[s])
          /\ ~r.ok => r.slot = slots[s] /\ slots[s].chain.last + STREAM_COUNT > MaxTick
      BY <1>2, <2>2, EnterDrainShape
    <2> HIDE DEF r
    <2>5. r.ok => /\ ~Replaced(r.slot, slots[s], info.tick)
                  /\ ~Extended(r.slot, slots[s], info.tick)
      <3>1. CASE IsPlanned(slots[s])
        BY <2>4, <3>1 DEF Replaced, MayStart, Extended, Closed, IsPlanned, Tag
      <3>2. CASE ~IsPlanned(slots[s])
        BY <2>4, <3>2 DEF Replaced, MayStart, Extended, Closed, Latched, Tag, Drained, Waiting
      <3> QED BY <3>1, <3>2
    <2>6. PlanShape(r.slot, slots[s], info.tick)
      BY <2>4 DEF PlanShape
    <2> QED BY <2>1, <2>3, <2>4, <2>5, <2>6 DEF PlansSlot, OneTarget
  <1>4. ASSUME ~token, ~EpochDraining, NEW s \in Streams PROVE PlansSlot(ActivePlan[s], s)
    <2> DEFINE r == PlanSlot(slots[s], s, info.tick)
    <2>1. ActivePlan[s] = r
      BY DEF ActivePlan
    <2>2. PlanOK(r.slot, slots[s], s, signed[s])
      BY <1>2, PlanSlotOK
    <2>3. /\ \/ r.slot = slots[s] /\ r.marks = {}
             \/ r.ok /\ r.marks = {} /\ Replaced(r.slot, slots[s], info.tick)
             \/ r.ok /\ r.marks = {} /\ Extended(r.slot, slots[s], info.tick)
             \/ /\ r.ok /\ Missed(r.slot, slots[s], info.tick)
                /\ OneTarget(r.marks, s)
          /\ ~r.ok => info.tick + SEND_LEAD_TICKS + STREAM_COUNT > MaxTick
      BY <1>2, PlanSlotShape
    <2> HIDE DEF r
    <2> QED BY <1>4, <2>1, <2>2, <2>3 DEF PlansSlot, OneTarget, PlanShape
  <1>5. ASSUME ~token, ~EpochDraining, NEW s \in Streams PROVE PlansSlot(HoldPlan[s], s)
    <2>1. HoldPlan[s].slot = slots[s] /\ HoldPlan[s].marks = {} /\ HoldPlan[s].ok
      BY DEF HoldPlan, Result
    <2>2. PlanOK(slots[s], slots[s], s, signed[s])
      BY <1>2, SignsNothing
    <2> QED BY <1>5, <2>1, <2>2 DEF PlansSlot, OneTarget, PlanShape
  <1>6. \E due : \/ PlanThenSend(DrainPlan, due) \/ PlanFails(DrainPlan)
                 \/ /\ ~token /\ ~EpochDraining
                    /\ \/ PlanThenSend(ActivePlan, due) \/ PlanFails(ActivePlan)
                       \/ PlanThenSend(HoldPlan, due)
    BY DEF PlanAndSend, CycleDrain, CycleActive, CycleHold, EpochActive, EpochDraining
  <1>7. PICK due : \/ PlanThenSend(DrainPlan, due) \/ PlanFails(DrainPlan)
                   \/ /\ ~token /\ ~EpochDraining
                      /\ \/ PlanThenSend(ActivePlan, due) \/ PlanFails(ActivePlan)
                         \/ PlanThenSend(HoldPlan, due)
    BY <1>6
  <1>8. CASE PlanThenSend(DrainPlan, due) \/ PlanFails(DrainPlan)
    BY <1>1, <1>2, <1>3, <1>8
  <1>9. CASE /\ ~token /\ ~EpochDraining
             /\ \/ PlanThenSend(ActivePlan, due) \/ PlanFails(ActivePlan)
                \/ PlanThenSend(HoldPlan, due)
    <2>1. PlanThenSend(ActivePlan, due) \/ PlanFails(ActivePlan) \/ PlanThenSend(HoldPlan, due)
      BY <1>9
    <2>2. \A s \in Streams : PlansSlot(ActivePlan[s], s) /\ PlansSlot(HoldPlan[s], s)
      BY <1>4, <1>5, <1>9
    <2> QED BY <1>1, <1>2, <2>1, <2>2
  <1> QED BY <1>7, <1>8, <1>9

(* Every cycle serves every slot.                                          *)
LEMMA PlanAndSendServes ==
  ASSUME DInv, PlanAndSend
  PROVE  SlotsServe' /\ NoTaskPastTarget' /\ DeliveryStep
  BY CyclePlans, PlanThenSendServes, PlanFailsServes

-----------------------------------------------------------------------------
(* The shutdown observer *)

(* Entering the shutdown drain starts no task and moves no tail.           *)
LEMMA ObserveRequestServes ==
  ASSUME DInv, ObserveRequest
  PROVE  SlotsServe' /\ NoTaskPastTarget' /\ DeliveryStep
  <1>1. /\ pc = "observe" /\ pc' = "head" /\ marks' = {} /\ info' = info
        /\ \A s \in Streams : ShutdownPlan[s].ok /\ slots'[s] = ShutdownPlan[s].slot
    BY DEF ObserveRequest, AllOk, PlannedSlots, Reached
  <1>2. \A s \in Streams : /\ SlotOK(slots[s], s, signed[s]) /\ s \in StreamIds
                           /\ DeliveryOK(slots[s], s)
    BY <1>1, StreamsType DEF DInv, IInv, SlotsOK, SlotsServe
  <1>3. ASSUME NEW s \in Streams
        PROVE  slots'[s] = slots[s] \/ Latched(slots'[s], slots[s]) \/ Closed(slots'[s], slots[s])
    <2> DEFINE r == EnterDrain(slots[s], s, "Shutdown")
    <2>1. ShutdownPlan[s] = r
      BY DEF ShutdownPlan
    <2>2. r.slot = slots[s] \/ Latched(r.slot, slots[s]) \/ Closed(r.slot, slots[s])
      <3>1. "Shutdown" \in DrainReasons
        BY DEF DrainReasons
      <3> QED BY <1>2, <3>1, EnterDrainShape
    <2> HIDE DEF r
    <2> QED BY <1>1, <2>1, <2>2
  <1>4. ASSUME NEW s \in Streams
        PROVE  /\ DeliveryOK(slots'[s], s) /\ NoNewTask(slots'[s], slots[s])
               /\ KeepsQueue(slots'[s], slots[s]) \/ slots'[s].chain = NoChain
    <2>1. PlanShape(slots'[s], slots[s], 0) /\ 0 \in Ticks
      BY <1>3, TicksType DEF PlanShape
    <2> QED BY <1>2, <2>1, PlanServes
  <1>5. ASSUME NEW s \in Streams PROVE slots'[s].chain.last = slots[s].chain.last
    BY <1>3 DEF Latched, Closed
  <1>6. NoTaskPastTarget'
    <2>1. ASSUME info.tick + SEND_LEAD_TICKS + STREAM_COUNT <= MaxTick,
                 \A s \in Streams : slots'[s].chain.last + STREAM_COUNT <= MaxTick,
                 NEW s \in Streams, NEW c \in slots'[s].chain.calls, c.inflight
          PROVE  info.tick < c.target
      <3>1. PICK d \in slots[s].chain.calls : SameBytes(c, d) /\ d.inflight
        BY <1>4, <2>1 DEF NoNewTask
      <3>2. \A t \in Streams : slots[t].chain.last + STREAM_COUNT <= MaxTick
        BY <1>5, <2>1
      <3>3. info.tick < d.target
        BY <1>1, <2>1, <3>1, <3>2 DEF DInv, NoTaskPastTarget, Calls
      <3> QED BY <3>1, <3>3 DEF SameBytes
    <2> QED BY <1>1, <2>1 DEF NoTaskPastTarget, Calls
  <1>7. ASSUME NEW s \in Streams PROVE StreamStep(s)
    <2>1. InWindow(slots'[s], slots[s], info.tick) /\ KeepsUntil(slots'[s], slots[s], info.tick)
      BY <1>4 DEF InWindow, NoNewTask, KeepsUntil, KeepsQueue
    <2>2. ~(IsPlanned(slots[s]) /\ Tag(slots'[s]) = "Waiting")
      BY <1>3 DEF Latched, Closed, IsPlanned
    <2>3. SignsTerminalOnly(slots'[s], slots[s])
      <3>1. \A c \in slots'[s].chain.calls : \/ c \in slots[s].chain.calls
                                             \/ c.kind = "TerminalReveal" /\ IsPlanned(slots[s])
        BY <1>3 DEF Latched, Closed
      <3> QED BY <3>1 DEF SignsTerminalOnly, SameBytes
    <2>4. Tag(slots[s]) = "Drained" => slots'[s] = slots[s]
      BY <1>3 DEF Latched, Closed, IsPlanned
    <2> QED BY <1>1, <2>1, <2>2, <2>3, <2>4 DEF StreamStep
  <1> QED BY <1>4, <1>6, <1>7 DEF SlotsServe, DeliveryStep

-----------------------------------------------------------------------------
(* Every step *)

(* The engine starts with nothing signed.                                  *)
LEMMA InitServes == Init => DInv
  <1> SUFFICES ASSUME Init PROVE DInv
    OBVIOUS
  <1>1. InitSlot.chain = NoChain /\ InitSlot.chain.calls = {} /\ InitSlot.restartAt = 0
    BY DEF InitSlot, NoChain
  <1>2. \A s \in Streams : slots[s] = InitSlot
    BY DEF Init
  <1>3. SlotsServe
    BY <1>1, <1>2 DEF SlotsServe, DeliveryOK, TerminalLast, RestartAligned
  <1>4. NoTaskPastTarget
    BY <1>1, <1>2 DEF NoTaskPastTarget, Calls
  <1> QED BY <1>3, <1>4, InitOK DEF DInv

(* Every step keeps the tasks in order and does to each stream what a step *)
(* may do.                                                                 *)
LEMMA StepServes ==
  ASSUME DInv, [Next]_vars
  PROVE  DInv' /\ [DeliveryStep]_vars
  <1>1. IInv'
    BY StepOK DEF DInv
  <1>2. CASE Next /\ ~UNCHANGED vars
    <2> SUFFICES SlotsServe' /\ NoTaskPastTarget' /\ DeliveryStep
      BY <1>1 DEF DInv
    <2>1. CASE \E i \in TickInfos, w \in StopWindows : TickOk(i, w)
      BY <2>1, TickOkServes
    <2>2. CASE TickFails
      BY <2>2, QuietStep DEF TickFails
    <2>3. CASE Harvest
      BY <2>3, HarvestStepServes
    <2>4. CASE PlanAndSend
      BY <2>4, PlanAndSendServes
    <2>5. CASE ObserveNothing
      BY <2>5, QuietStep DEF ObserveNothing
    <2>6. CASE ObserveRequest
      BY <2>6, ObserveRequestServes
    <2>7. CASE ObserveError \/ ExitDrained \/ ExitTimedOut
      BY <2>7, LeaveServes DEF ObserveError, ExitDrained, ExitTimedOut
    <2>8. CASE Environment
      BY <2>8, QuietStep DEF Environment, Signal, ObserverEnds, ObserverPanics, DeadlinePasses
    <2> QED BY <1>2, <2>1, <2>2, <2>3, <2>4, <2>5, <2>6, <2>7, <2>8
            DEF Next, Loop, Fetch, Finished
  <1>3. CASE UNCHANGED vars
    BY <1>1, <1>3 DEF DInv, SlotsServe, NoTaskPastTarget, Calls, vars
  <1> QED BY <1>2, <1>3

-----------------------------------------------------------------------------
(* The theorems *)

(* The inductive invariant of delivery holds of every behaviour.           *)
THEOREM DeliveryInvariant == Spec => []DInv
  <1>1. DInv /\ [Next]_vars => DInv'
    BY StepServes
  <1> QED BY InitServes, <1>1, PTL DEF Spec

(* What a step may do to a stream holds of every step of the engine.       *)
THEOREM StepsServe == Spec => [][DeliveryStep]_vars
  <1>1. DInv /\ [Next]_vars => [DeliveryStep]_vars
    BY StepServes
  <1> QED BY DeliveryInvariant, <1>1, PTL DEF Spec

(* dispatch_calls and spawn_broadcast never overwrite a running task, and  *)
(* a shutdown drain never retries its terminal reveal.                     *)
THEOREM TasksDisciplined == Spec => []TaskDiscipline
  <1>1. DInv => TaskDiscipline
    <2> SUFFICES ASSUME DInv, NEW s \in Streams, NEW c \in slots[s].chain.calls
                 PROVE  TaskOK(slots[s], c)
      BY DEF TaskDiscipline, TaskOK, Calls
    <2>1. pc # "exited"
      BY DEF DInv, IInv, ExitedEmpty, NoChain
    <2> QED BY <2>1 DEF DInv, SlotsServe, DeliveryOK
  <1> QED BY DeliveryInvariant, <1>1, PTL

(* expire_calls aborts every task whose target has arrived, redundant      *)
(* attempts included, wherever every stream has a tick left to plan.       *)
THEOREM TasksEndByTarget == Spec => []NoTaskPastTarget
  <1>1. DInv => NoTaskPastTarget
    BY DEF DInv
  <1> QED BY DeliveryInvariant, <1>1, PTL

(* prune_calls, the frozen tail of a replaced chain and the loss of one    *)
(* drop no signed call that could still be delivered.                      *)
THEOREM CallsAreKept == Spec => NoCallForgotten
  <1> DEFINE A == \A s \in Streams : \A c \in Calls(s) :
                      \/ \E d \in slots'[s].chain.calls : SameBytes(c, d)
                      \/ c.target <= info.tick
                      \/ ~HasChain(slots'[s])
  <1>1. [DeliveryStep]_vars => [A]_vars
    BY DEF DeliveryStep, StreamStep, KeepsUntil, Calls, HasChain, NoChain
  <1> HIDE DEF A
  <1>2. Spec => [][A]_vars
    BY StepsServe, <1>1, PTL
  <1> QED BY <1>2 DEF NoCallForgotten, A

(* A preimage goes to the network only once the transaction set of the     *)
(* tick that commits to it was selected, and never at or past its target,  *)
(* whatever ticks the backend reports.                                     *)
THEOREM DisclosureGated == Spec => DisclosureGate
  <1> DEFINE A == \A s \in Streams : \A c \in slots'[s].chain.calls :
                      (c.inflight /\ ~\E d \in Calls(s) : SameBytes(c, d) /\ d.inflight) =>
                          /\ info.tick < c.target
                          /\ c.reveal # NoTick => info.tick > c.reveal - 2
  <1>1. ASSUME DInv, DInv', DeliveryStep, NEW s \in Streams, NEW c \in slots'[s].chain.calls,
               c.inflight, ~\E d \in Calls(s) : SameBytes(c, d) /\ d.inflight
        PROVE  /\ info.tick < c.target
               /\ c.reveal # NoTick => info.tick > c.reveal - 2
    <2>1. InSendWindow(c, info.tick)
      BY <1>1 DEF DeliveryStep, StreamStep, InWindow, Calls
    <2>2. pc' # "exited"
      BY <1>1 DEF DInv, IInv, ExitedEmpty, NoChain
    <2>3. SlotOK(slots'[s], s, signed'[s])
      BY <1>1, <2>2 DEF DInv, IInv, SlotsOK
    <2>4. /\ c.reveal = IF c.kind = "FirstCommit" THEN NoTick ELSE c.target - STREAM_COUNT
          /\ c.target \in Nat
      <3>1. c.target \in Nat
        BY <2>3, CallAligned, TicksType
      <3>2. CallOK(c, slots'[s].chain, s, signed'[s])
        BY <2>3 DEF SlotOK, StateOK, ChainOK, NoChain
      <3> QED BY <3>1, <3>2 DEF CallOK
    <2>5. info.tick \in Int /\ MaxTick \in Nat
      <3>1. info \in TickInfos \cup {NoInfo}
        BY <1>1 DEF DInv, IInv, TypeOK
      <3>2. info \in TickInfos => info.tick \in Nat
        BY InfoType, TicksType
      <3>3. info = NoInfo => info.tick = -1
        BY DEF NoInfo, NoTick
      <3>4. MaxTick \in Nat
        BY TicksType
      <3> QED BY <3>1, <3>2, <3>3, <3>4
    <2>6. c.kind # "FirstCommit" => c.target <= info.tick + REVEAL_SEND_LEAD_TICKS
      BY <2>1, <2>4, <2>5
         DEF InSendWindow, SendLead, SaturatingAdd, MinOf, REVEAL_SEND_LEAD_TICKS
    <2> QED BY <2>1, <2>4, <2>5, <2>6 DEF InSendWindow, REVEAL_SEND_LEAD_TICKS
  <1>2. DInv /\ DInv' /\ [DeliveryStep]_vars => [A]_vars
    BY <1>1
  <1> HIDE DEF A
  <1>3. Spec => [][A]_vars
    BY DeliveryInvariant, StepsServe, <1>2, PTL
  <1> QED BY <1>3 DEF DisclosureGate, A

(* lose_chain ends a planned chain only for a target of its own: expiry of *)
(* a replaced chain's call never ends its replacement.                     *)
THEOREM LossesAreOwn == Spec => LossHasOwnCause
  <1> DEFINE A == \A s \in Streams :
                      (IsPlanned(slots[s]) /\ Tag(slots'[s]) = "Waiting" /\ ~WasReset) =>
                          \/ \E c \in Calls(s) : Overdue(c, info.tick)
                                                 /\ c.target >= slots[s].chain.first
                          \/ slots[s].chain.last + STREAM_COUNT <= info.tick
  <1>1. [DeliveryStep]_vars => [A]_vars
    BY DEF DeliveryStep, StreamStep, LossCause, Calls
  <1> HIDE DEF A
  <1>2. Spec => [][A]_vars
    BY StepsServe, <1>1, PTL
  <1> QED BY <1>2 DEF LossHasOwnCause, A

(* record_delivery is charged one failure per chain: the failure ends the  *)
(* chain it is charged to, and no step charges two targets of a stream.    *)
THEOREM FailuresAreSingle == Spec => OneFailurePerChain
  <1> DEFINE A == \A m \in marks', s \in Streams :
                      (m.mark = "Failed" /\ m.target % STREAM_COUNT = s) =>
                          /\ IsPlanned(slots[s]) \/ Tag(slots[s]) = "Draining"
                          /\ ~TerminalFailed(slots[s])
                          /\ ~IsPlanned(slots'[s])
                          /\ Tag(slots'[s]) = "Draining" => TerminalFailed(slots'[s])
                          /\ \A n \in marks' :
                                (n.mark = "Failed" /\ n.target % STREAM_COUNT = s) =>
                                    n.target = m.target
  <1>1. [DeliveryStep]_vars => [A]_vars
    BY DEF DeliveryStep, StreamStep
  <1> HIDE DEF A
  <1>2. Spec => [][A]_vars
    BY StepsServe, <1>1, PTL
  <1> QED BY <1>2 DEF OneFailurePerChain, A

(* Once a stop was requested or the epoch drains, enter_drain's terminal   *)
(* reveals are all that is signed, and a drained stream stays drained.     *)
THEOREM DrainsAreFinal == Spec => DrainIsFinal
  <1> DEFINE A == \A s \in Streams :
                  /\ (token \/ EpochDraining \/ Tag(slots[s]) \in {"Draining", "Drained"}) =>
                         \A c \in slots'[s].chain.calls :
                             \/ \E d \in Calls(s) : SameBytes(c, d)
                             \/ c.kind = "TerminalReveal" /\ IsPlanned(slots[s])
                  /\ (Tag(slots[s]) = "Drained" /\ ~WasReset) => slots'[s] = slots[s]
  <1>1. [DeliveryStep]_vars => [A]_vars
    BY DEF DeliveryStep, StreamStep, SignsTerminalOnly, Calls
  <1> HIDE DEF A
  <1>2. Spec => [][A]_vars
    BY StepsServe, <1>1, PTL
  <1> QED BY <1>2 DEF DrainIsFinal, A

-----------------------------------------------------------------------------
(* The ledger *)

(* The mode of a slot's ledger while run goes on. *)
SlotMode(slot) ==
    CASE Tag(slot) = "Waiting" -> "idle"
      [] IsPlanned(slot) -> "running"
      [] Tag(slot) = "Restarting" -> "frozen"
      [] Tag(slot) = "Draining" -> "closing"
      [] OTHER -> "closed"

(* The targets signed since the reset have a last one, and while a chain   *)
(* runs or is frozen it is the chain's.                                    *)
HasEnd(G) == G = {} \/ \E t \in G : \A u \in G : u <= t

EndsOK(slot, s, G) ==
    /\ \A t \in G : t % STREAM_COUNT = s
    /\ HasEnd(G)
    /\ Tag(slot) \in {"Starting", "Active", "Restarting"} => slot.chain.last \in G

(* The ledger's modes are those of its slots. *)
LEMMA ModeOf ==
  ASSUME NEW slot
  PROVE  /\ pc # "exited" => LedgerMode(slot) = SlotMode(slot)
         /\ pc = "exited" => LedgerMode(slot) = "closed"
  BY DEF LedgerMode, SlotMode

(* The same after a step. *)
LEMMA ModeAfter ==
  ASSUME NEW s \in Streams
  PROVE  /\ pc' # "exited" => LedgerMode(slots[s])' = SlotMode(slots'[s])
         /\ pc' = "exited" => LedgerMode(slots[s])' = "closed"
  BY DEF LedgerMode, SlotMode, Tag, IsPlanned

(* What a mode says of the slot. *)
LEMMA SlotModes ==
  ASSUME NEW slot, Tag(slot) \in SlotTags
  PROVE  /\ SlotMode(slot) = "idle" <=> Tag(slot) = "Waiting"
         /\ SlotMode(slot) = "running" <=> IsPlanned(slot)
         /\ SlotMode(slot) = "frozen" <=> Tag(slot) = "Restarting"
         /\ SlotMode(slot) = "closing" <=> Tag(slot) = "Draining"
         /\ SlotMode(slot) = "closed" <=> Tag(slot) = "Drained"
  BY DEF SlotMode, SlotTags, IsPlanned

(* The ledger ends at the greatest target. *)
LEMMA EndOf ==
  ASSUME NEW G \in SUBSET Ticks, NEW t \in G, \A u \in G : u <= t
  PROVE  LedgerEnd(G) = t
  <1>1. G # {} /\ G \subseteq Nat
    BY TicksType
  <1>2. \A v \in G : (\A u \in G : u <= v) => v = t
    BY <1>1
  <1> QED BY <1>1, <1>2 DEF LedgerEnd

(* The end of a ledger is one of its targets, or none. *)
LEMMA EndType ==
  ASSUME NEW G \in SUBSET Ticks, HasEnd(G)
  PROVE  /\ LedgerEnd(G) \in OptTicks
         /\ LedgerEnd(G) # NoTick => LedgerEnd(G) \in G
         /\ LedgerEnd(G) = NoTick <=> G = {}
  <1>1. CASE G = {}
    BY <1>1 DEF LedgerEnd, OptTicks
  <1>2. CASE G # {}
    <2>1. PICK t \in G : \A u \in G : u <= t
      BY <1>2 DEF HasEnd
    <2>2. LedgerEnd(G) = t
      BY <2>1, EndOf
    <2>3. t # NoTick /\ t \in OptTicks
      BY TicksType DEF OptTicks
    <2> QED BY <1>2, <2>2, <2>3
  <1> QED BY <1>1, <1>2

-----------------------------------------------------------------------------
(* One stream *)

(* The moves of one stream's ledger: to mode n and end f from m and e.     *)
Grown(from, to) == to \in Ticks /\ to \in {from, from + STREAM_COUNT, from + 2 * STREAM_COUNT}

LedgerMove(m, e, n, f, s) ==
    \/ /\ m = "running" /\ Grown(e, f)
       /\ \/ n \in {"running", "frozen", "idle"}
          \/ n = "closed" /\ f + STREAM_COUNT > MaxTick
    \/ /\ m \in {"idle", "frozen"}
       /\ \E first \in Ticks : /\ first % STREAM_COUNT = s
                               /\ e # NoTick => first >= e + STREAM_COUNT
                               /\ Grown(first, f)
       /\ \/ n \in {"running", "idle"}
          \/ n = "closed" /\ f + STREAM_COUNT > MaxTick
    \/ m = "frozen" /\ n = "idle" /\ f = e
    \/ m = "running" /\ f = e + STREAM_COUNT /\ n \in {"closing", "closed"}
    \/ m # "running" /\ n = "closed" /\ f = e
    \/ n = m /\ f = e

SlotMove(new, H, slot, G, s) ==
    LedgerMove(SlotMode(slot), LedgerEnd(G), SlotMode(new), LedgerEnd(H), s)

(* The ledger of a served chain ends at the chain's tail.                  *)
LEMMA ServedEnd ==
  ASSUME NEW slot, NEW s, NEW G, SlotOK(slot, s, G), EndsOK(slot, s, G),
         Tag(slot) \in {"Starting", "Active", "Restarting"}
  PROVE  LedgerEnd(G) = slot.chain.last
  BY EndOf DEF SlotOK, StateOK, OpenTail, EndsOK

(* Queued calls are in the ledger already.                                 *)
LEMMA QueueInLedger ==
  ASSUME NEW slot, NEW s, NEW G, SlotOK(slot, s, G)
  PROVE  Targets(slot.chain.calls) \subseteq G
  BY CallAligned DEF Targets

(* A slot whose queue adds nothing keeps the ledger's end.                 *)
LEMMA SameLedger ==
  ASSUME NEW slot, NEW s, NEW G, SlotOK(slot, s, G), NEW mid,
         mid.chain = slot.chain \/ mid.chain = NoChain
  PROVE  G \cup Targets(mid.chain.calls) = G
  BY QueueInLedger DEF Targets, NoChain

(* A chain that was planned to its tail ends the ledger there.             *)
LEMMA GrownLedger ==
  ASSUME NEW mid, NEW s, NEW G, IsPlanned(mid),
         SlotOK(mid, s, G \cup Targets(mid.chain.calls)),
         \A t \in G : t % STREAM_COUNT = s,
         mid.chain.last \in G \/ \E c \in mid.chain.calls : c.target = mid.chain.last
  PROVE  LET H == G \cup Targets(mid.chain.calls)
         IN  EndsOK(mid, s, H) /\ LedgerEnd(H) = mid.chain.last
  <1> DEFINE H == G \cup Targets(mid.chain.calls)
  <1>1. mid.chain.last \in H
    BY DEF Targets
  <1>2. \A t \in H : t % STREAM_COUNT = s
    BY CallAligned DEF Targets
  <1>3. \A t \in H : t <= mid.chain.last
    BY DEF SlotOK, StateOK, OpenTail, IsPlanned
  <1> HIDE DEF H
  <1>4. EndsOK(mid, s, H)
    BY <1>1, <1>2, <1>3 DEF EndsOK, HasEnd
  <1>5. LedgerEnd(H) = mid.chain.last
    BY <1>1, <1>4, ServedEnd DEF IsPlanned, H
  <1> QED BY <1>4, <1>5 DEF H

(* Slots of the other modes have nothing more to say of their ends.        *)
LEMMA EndsKept ==
  ASSUME NEW new, NEW slot, NEW s, NEW G, EndsOK(slot, s, G),
         \/ Tag(new) \notin {"Starting", "Active", "Restarting"}
         \/ /\ Tag(slot) \in {"Starting", "Active", "Restarting"}
            /\ new.chain.last = slot.chain.last
  PROVE  EndsOK(new, s, G)
  BY DEF EndsOK

(* The modes of a slot that lost its chain.                                *)
LEMMA LostModes ==
  ASSUME NEW new, NEW slot, LostChain(new, slot)
  PROVE  /\ Tag(new) \in {"Waiting", "Drained"}
         /\ \/ SlotMode(new) = "idle"
            \/ SlotMode(new) = "closed" /\ slot.chain.last + STREAM_COUNT > MaxTick
  BY ExhaustedShape DEF LostChain, SlotMode, IsPlanned

(* The terminal reveal ends the ledger three ticks past the chain.         *)
LEMMA ClosedLedger ==
  ASSUME NEW slot, NEW s, NEW G, SlotOK(slot, s, G), EndsOK(slot, s, G),
         NEW mid, SlotOK(mid, s, G \cup Targets(mid.chain.calls)), Closed(mid, slot)
  PROVE  LET H == G \cup Targets(mid.chain.calls)
         IN  EndsOK(mid, s, H) /\ LedgerEnd(H) = LedgerEnd(G) + STREAM_COUNT
  <1> DEFINE H == G \cup Targets(mid.chain.calls)
             last == slot.chain.last
  <1>1. /\ LedgerEnd(G) = last /\ last \in Nat
        /\ \A t \in G : t <= last /\ t \in Nat
    <2>1. IsPlanned(slot)
      BY DEF Closed
    <2>2. Tag(slot) \in {"Starting", "Active", "Restarting"}
      BY <2>1 DEF IsPlanned
    <2>3. LedgerEnd(G) = last
      BY <2>2, ServedEnd
    <2>4. last \in Nat
      BY <2>1, PlannedChain, TicksType
    <2>5. \A t \in G : t <= last
      BY <2>2 DEF SlotOK, StateOK, OpenTail
    <2>6. \A t \in G : t \in Nat
      BY TicksType DEF SlotOK
    <2> QED BY <2>3, <2>4, <2>5, <2>6
  <1>2. PICK call : /\ mid.chain.calls = slot.chain.calls \cup {call}
                    /\ call.target = last + STREAM_COUNT
    BY DEF Closed
  <1>3. Targets(slot.chain.calls) \subseteq G
    BY QueueInLedger
  <1>4. H = G \cup {last + STREAM_COUNT}
    BY <1>2, <1>3 DEF Targets
  <1>5. H \in SUBSET Ticks /\ \A t \in H : t % STREAM_COUNT = s
    BY CallAligned DEF Targets, SlotOK, EndsOK
  <1>6. \A t \in H : t <= last + STREAM_COUNT
    BY <1>1, <1>4
  <1> HIDE DEF H, last
  <1>7. LedgerEnd(H) = last + STREAM_COUNT
    BY <1>4, <1>5, <1>6, EndOf
  <1>8. EndsOK(mid, s, H)
    BY <1>4, <1>5, <1>6 DEF EndsOK, HasEnd, Closed
  <1> QED BY <1>1, <1>7, <1>8 DEF H

(* A planned chain that is served or lost after planning.                  *)
LEMMA ServedOrLost ==
  ASSUME NEW mid, NEW s, NEW H, IsPlanned(mid), EndsOK(mid, s, H),
         NEW tick, NEW new, SendShape(new, mid, tick)
  PROVE  /\ EndsOK(new, s, H)
         /\ \/ SlotMode(new) \in {"running", "idle"}
            \/ SlotMode(new) = "closed" /\ mid.chain.last + STREAM_COUNT > MaxTick
  <1>1. CASE SameChain(new, mid)
    BY <1>1 DEF SameChain, EndsOK, SlotMode, IsPlanned, Tag
  <1>2. CASE LostChain(new, mid)
    BY <1>2, LostModes, EndsKept
  <1> QED BY <1>1, <1>2 DEF SendShape, IsPlanned

(* A chain that was extended.                                              *)
LEMMA ExtendMove ==
  ASSUME NEW slot, NEW s \in StreamIds, NEW G, SlotOK(slot, s, G), EndsOK(slot, s, G),
         NEW mid, SlotOK(mid, s, G \cup Targets(mid.chain.calls)),
         NEW tick, Extended(mid, slot, tick), NEW new, SendShape(new, mid, tick)
  PROVE  LET H == G \cup Targets(mid.chain.calls)
         IN  SlotMove(new, H, slot, G, s) /\ EndsOK(new, s, H)
  <1> DEFINE H == G \cup Targets(mid.chain.calls)
  <1>1. /\ IsPlanned(slot) /\ IsPlanned(mid) /\ Extends(mid.chain, slot.chain)
        /\ Tag(slot) \in {"Starting", "Active", "Restarting"}
    BY DEF Extended, IsPlanned, Tag
  <1>2. slot.chain.last \in G /\ LedgerEnd(G) = slot.chain.last
    BY <1>1, ServedEnd DEF EndsOK
  <1>3. mid.chain.last \in G \/ \E c \in mid.chain.calls : c.target = mid.chain.last
    BY <1>1, <1>2 DEF Extends
  <1>4. EndsOK(mid, s, H) /\ LedgerEnd(H) = mid.chain.last
    BY <1>1, <1>3, GrownLedger DEF EndsOK
  <1>5. Grown(LedgerEnd(G), LedgerEnd(H))
    BY <1>1, <1>2, <1>4 DEF Grown, Extends
  <1> HIDE DEF H
  <1>6. /\ EndsOK(new, s, H)
        /\ \/ SlotMode(new) \in {"running", "idle"}
           \/ SlotMode(new) = "closed" /\ LedgerEnd(H) + STREAM_COUNT > MaxTick
    BY <1>1, <1>4, ServedOrLost
  <1>7. SlotMode(slot) = "running"
    BY <1>1, HasChainTag DEF SlotMode, IsPlanned
  <1> QED BY <1>5, <1>6, <1>7 DEF SlotMove, LedgerMove, H

(* A chain that was started, past everything signed before.                *)
LEMMA StartMove ==
  ASSUME NEW slot, NEW s \in StreamIds, NEW G, SlotOK(slot, s, G), EndsOK(slot, s, G),
         NEW mid, SlotOK(mid, s, G \cup Targets(mid.chain.calls)),
         NEW tick, Replaced(mid, slot, tick), NEW new, SendShape(new, mid, tick)
  PROVE  LET H == G \cup Targets(mid.chain.calls)
         IN  SlotMove(new, H, slot, G, s) /\ EndsOK(new, s, H)
  <1> DEFINE H == G \cup Targets(mid.chain.calls)
             first == mid.chain.first
  <1>1. /\ Tag(slot) \in {"Waiting", "Restarting"} /\ IsPlanned(mid)
        /\ \E c \in mid.chain.calls : c.target = mid.chain.last
        /\ first >= slot.restartAt
    BY DEF Replaced, MayStart, IsPlanned
  <1>2. EndsOK(mid, s, H) /\ LedgerEnd(H) = mid.chain.last
    BY <1>1, GrownLedger DEF EndsOK
  <1>3. first \in Ticks /\ first % STREAM_COUNT = s /\ mid.chain.last \in Ticks
    BY <1>1, PlannedChain
  <1>4. Grown(first, LedgerEnd(H))
    BY <1>2, <1>3 DEF Grown, Replaced
  <1>5. LedgerEnd(G) # NoTick => first >= LedgerEnd(G) + STREAM_COUNT
    <2> SUFFICES ASSUME LedgerEnd(G) # NoTick PROVE first >= LedgerEnd(G) + STREAM_COUNT
      OBVIOUS
    <2> DEFINE e == LedgerEnd(G)
    <2>1. e \in G /\ e \in Nat /\ e % STREAM_COUNT = s
      BY EndType, TicksType DEF EndsOK, SlotOK
    <2>2. slot.restartAt \in Nat /\ first \in Nat
      BY <1>3, TicksType DEF SlotOK, ManagedSlot
    <2>3. e < slot.restartAt
      <3>1. CASE Tag(slot) = "Waiting"
        BY <2>1, <3>1 DEF SlotOK, StateOK
      <3>2. CASE Tag(slot) = "Restarting"
        <4>1. e <= slot.chain.last /\ slot.restartAt = slot.chain.last + STREAM_COUNT
          BY <2>1, <3>2 DEF SlotOK, StateOK, OpenTail
        <4>2. slot.chain.last \in Nat
          BY <3>2, TicksType DEF SlotOK, StateOK, ChainOK
        <4> QED BY <2>1, <4>1, <4>2
      <3> QED BY <1>1, <3>1, <3>2
    <2> HIDE DEF e, first
    <2>4. s \in 0 .. 2 /\ e < first /\ first % 3 = e % 3
      BY <1>1, <1>3, <2>1, <2>2, <2>3 DEF first
    <2>5. first >= e + 3
      BY <2>1, <2>2, <2>4
    <2> QED BY <2>5 DEF e
  <1> HIDE DEF H, first
  <1>6. /\ EndsOK(new, s, H)
        /\ \/ SlotMode(new) \in {"running", "idle"}
           \/ SlotMode(new) = "closed" /\ LedgerEnd(H) + STREAM_COUNT > MaxTick
    BY <1>1, <1>2, ServedOrLost
  <1>7. SlotMode(slot) \in {"idle", "frozen"}
    BY <1>1 DEF SlotMode, IsPlanned
  <1>8. \E x \in Ticks : /\ x % STREAM_COUNT = s
                         /\ LedgerEnd(G) # NoTick => x >= LedgerEnd(G) + STREAM_COUNT
                         /\ Grown(x, LedgerEnd(H))
    BY <1>3, <1>4, <1>5
  <1> QED BY <1>6, <1>7, <1>8 DEF SlotMove, LedgerMove, H

(* A cycle's planning and sending is one move of the stream's ledger.      *)
LEMMA CycleMove ==
  ASSUME NEW slot, NEW s \in StreamIds, NEW G, SlotOK(slot, s, G), EndsOK(slot, s, G),
         NEW mid, SlotOK(mid, s, G \cup Targets(mid.chain.calls)),
         NEW tick, PlanShape(mid, slot, tick), NEW new, SendShape(new, mid, tick)
  PROVE  LET H == G \cup Targets(mid.chain.calls)
         IN  SlotMove(new, H, slot, G, s) /\ EndsOK(new, s, H)
  <1> DEFINE H == G \cup Targets(mid.chain.calls)
  <1>1. CASE Replaced(mid, slot, tick)
    BY <1>1, StartMove
  <1>2. CASE Extended(mid, slot, tick)
    BY <1>2, ExtendMove
  <1>3. CASE Missed(mid, slot, tick)
    <2>1. /\ IsPlanned(slot) /\ LostChain(mid, slot) /\ mid.chain = NoChain
          /\ Tag(slot) \in {"Starting", "Active", "Restarting"}
      BY <1>3 DEF Missed, LostChain, IsPlanned
    <2>2. H = G
      BY <2>1, SameLedger
    <2>3. LedgerEnd(G) = slot.chain.last /\ slot.chain.last \in Ticks
      BY <2>1, ServedEnd, PlannedChain
    <2>4. SameChain(new, mid)
      BY <2>1, LostModes DEF SendShape, IsPlanned
    <2>5. Tag(new) = Tag(mid) /\ SlotMode(new) = SlotMode(mid)
      BY <2>4 DEF SameChain, SlotMode, IsPlanned, Tag
    <2>6. /\ EndsOK(new, s, G)
          /\ \/ SlotMode(new) = "idle"
             \/ SlotMode(new) = "closed" /\ slot.chain.last + STREAM_COUNT > MaxTick
      BY <2>1, <2>5, LostModes, EndsKept
    <2>7. SlotMode(slot) = "running"
      BY <2>1 DEF SlotMode, IsPlanned
    <2> HIDE DEF H
    <2> QED BY <2>2, <2>3, <2>6, <2>7 DEF SlotMove, LedgerMove, Grown, H
  <1>4. CASE Closed(mid, slot)
    <2>1. EndsOK(mid, s, H) /\ LedgerEnd(H) = LedgerEnd(G) + STREAM_COUNT
      BY <1>4, ClosedLedger
    <2>2. Tag(mid) = "Draining" /\ IsPlanned(slot)
      BY <1>4 DEF Closed
    <2>3. \/ Tag(new) = "Draining"
          \/ new.state \in {Drained("Accepted"), Drained("Failed")}
      BY <2>2 DEF SendShape, SameChain, IsPlanned, Tag
    <2>4. Tag(new) \in {"Draining", "Drained"}
      BY <2>3 DEF Tag, Drained, Waiting
    <2>5. SlotMode(new) \in {"closing", "closed"} /\ SlotMode(slot) = "running"
      BY <2>2, <2>4 DEF SlotMode, IsPlanned
    <2> HIDE DEF H
    <2>6. EndsOK(new, s, H)
      BY <2>1, <2>4, EndsKept
    <2> QED BY <2>1, <2>5, <2>6 DEF SlotMove, LedgerMove, H
  <1>5. CASE Latched(mid, slot) \/ (mid = slot /\ ~IsPlanned(slot))
    <2>1. /\ mid.chain = slot.chain /\ H = G
      BY <1>5, SameLedger DEF Latched
    <2>2. /\ Tag(slot) = "Waiting" => Tag(new) \in {"Waiting", "Drained"}
          /\ Tag(slot) = "Restarting" => /\ Tag(new) \in {"Restarting", "Waiting", "Drained"}
                                         /\ Tag(new) = "Restarting" =>
                                                new.chain.last = slot.chain.last
          /\ Tag(slot) = "Draining" => Tag(new) \in {"Draining", "Drained"}
          /\ Tag(slot) = "Drained" => Tag(new) = "Drained"
          /\ Tag(slot) \in SlotTags /\ ~IsPlanned(slot)
      BY <1>5, HasChainTag DEF Latched, SendShape, SameChain, IsPlanned, Tag, Drained, Waiting
    <2>3. /\ \/ SlotMode(new) = SlotMode(slot)
             \/ SlotMode(slot) = "frozen" /\ SlotMode(new) = "idle"
             \/ SlotMode(slot) # "running" /\ SlotMode(new) = "closed"
      BY <2>2 DEF SlotMode, SlotTags, IsPlanned
    <2>4. EndsOK(new, s, G)
      <3>1. \/ Tag(new) \notin {"Starting", "Active", "Restarting"}
            \/ Tag(slot) = "Restarting" /\ new.chain.last = slot.chain.last
        BY <2>2 DEF SlotTags, IsPlanned
      <3> QED BY <3>1, EndsKept
    <2> HIDE DEF H
    <2> QED BY <2>1, <2>3, <2>4 DEF SlotMove, LedgerMove, H
  <1>6. CASE mid = slot /\ IsPlanned(slot)
    <2>1. H = G /\ Tag(slot) \in {"Starting", "Active", "Restarting"}
      BY <1>6, SameLedger DEF IsPlanned
    <2>2. LedgerEnd(G) = slot.chain.last /\ slot.chain.last \in Ticks
      BY <1>6, <2>1, ServedEnd, PlannedChain
    <2>3. /\ EndsOK(new, s, G)
          /\ \/ SlotMode(new) \in {"running", "idle"}
             \/ SlotMode(new) = "closed" /\ slot.chain.last + STREAM_COUNT > MaxTick
      BY <1>6, ServedOrLost
    <2>4. SlotMode(slot) = "running"
      BY <1>6 DEF SlotMode, IsPlanned
    <2> HIDE DEF H
    <2> QED BY <2>1, <2>2, <2>3, <2>4 DEF SlotMove, LedgerMove, Grown, H
  <1> QED BY <1>1, <1>2, <1>3, <1>4, <1>5, <1>6 DEF PlanShape

(* The same of the set the stream signed.                                  *)
LEMMA StreamMove ==
  ASSUME NEW slot, NEW s \in StreamIds, NEW G, SlotOK(slot, s, G), EndsOK(slot, s, G),
         NEW mid, NEW H, H = G \cup Targets(mid.chain.calls), SlotOK(mid, s, H),
         NEW tick, PlanShape(mid, slot, tick), NEW new, SendShape(new, mid, tick)
  PROVE  SlotMove(new, H, slot, G, s) /\ EndsOK(new, s, H)
  <1>1. LET K == G \cup Targets(mid.chain.calls)
        IN  SlotMove(new, K, slot, G, s) /\ EndsOK(new, s, K)
    BY CycleMove
  <1> QED BY <1>1

(* What a harvest does to the chain of a slot.                             *)
HarvestShape(new, slot) ==
    \/ Tag(new) = Tag(slot) /\ new.chain.last = slot.chain.last
    \/ /\ IsPlanned(slot) /\ Tag(new) \in {"Starting", "Active", "Restarting"}
       /\ new.chain.last = slot.chain.last
    \/ /\ IsPlanned(slot) /\ Tag(new) = "Drained"
       /\ slot.chain.last + STREAM_COUNT > MaxTick

(* A harvest freezes a running ledger at most.                             *)
LEMMA HarvestMove ==
  ASSUME NEW slot, NEW s \in StreamIds, NEW G, SlotOK(slot, s, G), EndsOK(slot, s, G),
         NEW new, HarvestShape(new, slot)
  PROVE  SlotMove(new, G, slot, G, s) /\ EndsOK(new, s, G)
  <1>1. CASE Tag(new) = Tag(slot) /\ new.chain.last = slot.chain.last
    BY <1>1 DEF SlotMove, LedgerMove, SlotMode, IsPlanned, EndsOK
  <1>2. CASE /\ IsPlanned(slot)
             /\ \/ /\ Tag(new) \in {"Starting", "Active", "Restarting"}
                   /\ new.chain.last = slot.chain.last
                \/ Tag(new) = "Drained" /\ slot.chain.last + STREAM_COUNT > MaxTick
    <2>1. Tag(slot) \in {"Starting", "Active", "Restarting"} /\ SlotMode(slot) = "running"
      BY <1>2 DEF IsPlanned, SlotMode
    <2>2. LedgerEnd(G) = slot.chain.last /\ slot.chain.last \in Ticks
      BY <1>2, <2>1, ServedEnd, PlannedChain
    <2>3. \/ SlotMode(new) \in {"running", "frozen"}
          \/ SlotMode(new) = "closed" /\ slot.chain.last + STREAM_COUNT > MaxTick
      BY <1>2 DEF SlotMode, IsPlanned
    <2>4. EndsOK(new, s, G)
      BY <1>2, <2>1, EndsKept
    <2> QED BY <2>1, <2>2, <2>3, <2>4 DEF SlotMove, LedgerMove, Grown
  <1> QED BY <1>1, <1>2 DEF HarvestShape

-----------------------------------------------------------------------------
(* The engine's ledger *)

EndsKnown == pc # "exited" => \A s \in Streams : EndsOK(slots[s], s, signed[s])

(* Every stream makes a move of its ledger. *)
LedgersMove ==
    \A s \in Streams : /\ SlotMove(slots'[s], signed'[s], slots[s], signed[s], s)
                       /\ EndsOK(slots'[s], s, signed'[s])

(* A cycle moves every ledger once.                                        *)
LEMMA CyclesMove ==
  ASSUME DInv, EndsKnown, PlanAndSend
  PROVE  LedgersMove
  <1>1. /\ pc = "plan" /\ info' = info /\ info.tick \in Ticks
        /\ \E planned : /\ \A s \in Streams : PlansSlot(planned[s], s)
                        /\ (\E due : PlanThenSend(planned, due)) \/ PlanFails(planned)
    BY CyclePlans
  <1>2. PICK planned : /\ \A s \in Streams : PlansSlot(planned[s], s)
                       /\ (\E due : PlanThenSend(planned, due)) \/ PlanFails(planned)
    BY <1>1
  <1>3. ASSUME NEW s \in Streams
        PROVE  /\ SlotOK(slots[s], s, signed[s]) /\ DeliveryOK(slots[s], s)
               /\ EndsOK(slots[s], s, signed[s]) /\ s \in StreamIds
    BY <1>1, StreamsType DEF DInv, IInv, SlotsOK, SlotsServe, EndsKnown
  <1>4. \A s \in Streams :
            signed'[s] = signed[s] \cup Targets(PlannedSlots(planned)[s].chain.calls)
    BY <1>2 DEF PlanThenSend, PlanFails, SignedBy, Targets
  <1>5. CASE \E due : PlanThenSend(planned, due)
    <2>1. ASSUME NEW s \in Streams
          PROVE  LET mid == planned[s].slot
                 IN  /\ signed'[s] = signed[s] \cup Targets(mid.chain.calls)
                     /\ slots'[s] = SendSlot(mid, info.tick).slot
                     /\ PlanShape(mid, slots[s], info.tick)
                     /\ SlotOK(mid, s, signed[s] \cup Targets(mid.chain.calls))
      BY <1>2, <1>4, <1>5 DEF PlanThenSend, AllOk, PlannedSlots, Reached, PlansSlot, PlanOK
    <2>2. ASSUME NEW s \in Streams
          PROVE  /\ SlotMove(slots'[s], signed'[s], slots[s], signed[s], s)
                 /\ EndsOK(slots'[s], s, signed'[s])
      <3> DEFINE mid == planned[s].slot
                 H == signed[s] \cup Targets(mid.chain.calls)
      <3>1. /\ signed'[s] = H /\ slots'[s] = SendSlot(mid, info.tick).slot
            /\ PlanShape(mid, slots[s], info.tick) /\ SlotOK(mid, s, H)
        BY <2>1
      <3>2. /\ SlotOK(slots[s], s, signed[s]) /\ DeliveryOK(slots[s], s)
            /\ EndsOK(slots[s], s, signed[s]) /\ s \in StreamIds
        BY <1>3
      <3> HIDE DEF mid
      <3>3. DeliveryOK(mid, s)
        BY <1>1, <3>1, <3>2, PlanServes
      <3>4. SendShape(SendSlot(mid, info.tick).slot, mid, info.tick)
        BY <1>1, <3>1, <3>2, <3>3, SendServes
      <3>5. signed'[s] = signed[s] \cup Targets(mid.chain.calls) /\ SlotOK(mid, s, signed'[s])
        BY <3>1
      <3>6. SendShape(slots'[s], mid, info.tick)
        BY <3>1, <3>4
      <3> HIDE DEF H
      <3> QED BY <3>1, <3>2, <3>5, <3>6, StreamMove
    <2> QED BY <2>2 DEF LedgersMove
  <1>6. CASE PlanFails(planned)
    <2>1. ASSUME NEW s \in Streams
          PROVE  /\ PlanShape(slots'[s], slots[s], info.tick)
                 /\ signed'[s] = signed[s] \cup Targets(slots'[s].chain.calls)
                 /\ SlotOK(slots'[s], s, signed[s] \cup Targets(slots'[s].chain.calls))
      <3>1. slots'[s] \in {planned[s].slot, slots[s]}
            /\ signed'[s] = signed[s] \cup Targets(slots'[s].chain.calls)
        BY <1>4, <1>6 DEF PlanFails, PlannedSlots
      <3>2. CASE slots'[s] = planned[s].slot
        BY <1>2, <3>1, <3>2 DEF PlansSlot, PlanOK
      <3>3. CASE slots'[s] = slots[s]
        <4>1. signed[s] \cup Targets(slots[s].chain.calls) = signed[s]
          BY <1>3, SameLedger
        <4> QED BY <1>3, <3>1, <3>3, <4>1 DEF PlanShape
      <3> QED BY <3>1, <3>2, <3>3
    <2>2. \A s \in Streams : SendShape(slots'[s], slots'[s], info.tick)
      BY DEF SendShape, SameChain
    <2>3. ASSUME NEW s \in Streams
          PROVE  /\ SlotMove(slots'[s], signed'[s], slots[s], signed[s], s)
                 /\ EndsOK(slots'[s], s, signed'[s])
      <3>1. SlotOK(slots'[s], s, signed'[s])
        BY <2>1
      <3> QED BY <1>3, <2>1, <2>2, <3>1, StreamMove
    <2> QED BY <2>3 DEF LedgersMove
  <1> QED BY <1>2, <1>5, <1>6

(* Entering the shutdown drain closes every running ledger.                *)
LEMMA RequestMoves ==
  ASSUME DInv, EndsKnown, ObserveRequest
  PROVE  LedgersMove
  <1>1. /\ pc # "exited"
        /\ \A s \in Streams : /\ ShutdownPlan[s].ok /\ slots'[s] = ShutdownPlan[s].slot
                              /\ signed'[s] = signed[s] \cup Targets(slots'[s].chain.calls)
    BY DEF ObserveRequest, AllOk, PlannedSlots, Reached, SignedBy, Targets
  <1>2. ASSUME NEW s \in Streams
        PROVE  /\ SlotMove(slots'[s], signed'[s], slots[s], signed[s], s)
               /\ EndsOK(slots'[s], s, signed'[s])
    <2> DEFINE r == EnterDrain(slots[s], s, "Shutdown")
    <2>1. ShutdownPlan[s] = r /\ "Shutdown" \in DrainReasons
      BY DEF ShutdownPlan, DrainReasons
    <2>2. /\ SlotOK(slots[s], s, signed[s])
          /\ EndsOK(slots[s], s, signed[s]) /\ s \in StreamIds
      BY <1>1, StreamsType DEF DInv, IInv, SlotsOK, EndsKnown
    <2>3. r.slot = slots[s] \/ Latched(r.slot, slots[s]) \/ Closed(r.slot, slots[s])
      BY <2>1, <2>2, EnterDrainShape
    <2>4. PlanOK(r.slot, slots[s], s, signed[s])
      BY <2>1, <2>2, EnterDrainOK
    <2> HIDE DEF r
    <2>5. /\ slots'[s] = r.slot
          /\ signed'[s] = signed[s] \cup Targets(slots'[s].chain.calls)
      BY <1>1, <2>1
    <2>6. /\ PlanShape(slots'[s], slots[s], 0) /\ SendShape(slots'[s], slots'[s], 0)
          /\ SlotOK(slots'[s], s, signed'[s])
      BY <2>3, <2>4, <2>5 DEF PlanShape, SendShape, SameChain, PlanOK
    <2> QED BY <2>2, <2>5, <2>6, StreamMove
  <1> QED BY <1>2 DEF LedgersMove

(* What a status response does after the harvest, or no response.          *)
LEMMA HarvestShapes ==
  ASSUME DInv, Harvest, NEW s \in Streams
  PROVE  HarvestShape(slots'[s], slots[s])
  <1>1. pc = "harvest"
    BY DEF Harvest, HarvestQueryPending, HarvestQueryFailed, HarvestQueryOk
  <1>2. PICK results \in [InFlight -> TaskResults] :
            \/ HarvestNoStatus(results)
            \/ query # NoQuery /\ \E seen \in StatusReports : HarvestStatus(results, seen)
    BY DEF Harvest, HarvestQueryPending, HarvestQueryFailed, HarvestQueryOk
  <1> DEFINE mid == HarvestBroadcasts(slots[s], results).slot
  <1>3. SlotOK(mid, s, signed[s]) /\ SameChain(mid, slots[s]) /\ s \in StreamIds
    BY <1>1, HarvestedServes, StreamsType
  <1>4. CASE HarvestNoStatus(results)
    <2>1. slots'[s] = mid
      BY <1>4 DEF HarvestNoStatus, Harvested
    <2> HIDE DEF mid
    <2> QED BY <1>3, <2>1 DEF SameChain, HarvestShape, Tag
  <1>5. CASE query # NoQuery /\ \E seen \in StatusReports : HarvestStatus(results, seen)
    <2>1. PICK seen \in StatusReports : HarvestStatus(results, seen)
      BY <1>5
    <2>2. slots'[s] = ApplyStatus(mid, seen[s], query.requested).slot
      BY <2>1 DEF HarvestStatus, Harvested
    <2>3. query.requested \in Ticks /\ seen[s] \in OptTicks
      BY <1>5, StatusTicksAssumption DEF DInv, IInv, QueryOK, StatusReports, OptTicks
    <2> HIDE DEF mid
    <2>4. StatusShape(ApplyStatus(mid, seen[s], query.requested).slot, mid)
      BY <1>3, <2>3, ApplyStatusShape
    <2>5. StatusShape(slots'[s], mid)
      BY <2>2, <2>4
    <2>6. /\ Tag(mid) = Tag(slots[s]) /\ mid.chain.last = slots[s].chain.last
          /\ IsPlanned(mid) <=> IsPlanned(slots[s])
      BY <1>3 DEF SameChain, Tag, IsPlanned
    <2> QED BY <2>5, <2>6, ExhaustedShape DEF StatusShape, HarvestShape
  <1> QED BY <1>2, <1>4, <1>5

(* A harvest freezes running ledgers at most.                              *)
LEMMA HarvestsMove ==
  ASSUME DInv, EndsKnown, Harvest
  PROVE  LedgersMove
  <1>1. pc # "exited" /\ signed' = signed
    BY DEF Harvest, HarvestQueryPending, HarvestQueryFailed, HarvestQueryOk
  <1>2. ASSUME NEW s \in Streams
        PROVE  /\ SlotMove(slots'[s], signed'[s], slots[s], signed[s], s)
               /\ EndsOK(slots'[s], s, signed'[s])
    <2>1. /\ SlotOK(slots[s], s, signed[s]) /\ EndsOK(slots[s], s, signed[s]) /\ s \in StreamIds
      BY <1>1, StreamsType DEF DInv, IInv, SlotsOK, EndsKnown
    <2>2. HarvestShape(slots'[s], slots[s])
      BY HarvestShapes
    <2>3. SlotMove(slots'[s], signed[s], slots[s], signed[s], s) /\ EndsOK(slots'[s], s, signed[s])
      BY <2>1, <2>2, HarvestMove
    <2> QED BY <1>1, <2>3
  <1> QED BY <1>2 DEF LedgersMove

-----------------------------------------------------------------------------
(* The refinement *)

(* Moves of every stream are a step of the ledger.                         *)
LEMMA MovesServe ==
  ASSUME LedgersMove, DInv', pc # "exited", pc' # "exited"
  PROVE  Ledger!Serve
  <1> DEFINE mode == [s \in Streams |-> LedgerMode(slots[s])]
             last == [s \in Streams |-> LedgerEnd(signed[s])]
  <1>1. ASSUME NEW s \in Streams
        PROVE  /\ mode[s] = SlotMode(slots[s]) /\ mode'[s] = SlotMode(slots'[s])
               /\ last[s] = LedgerEnd(signed[s]) /\ last'[s] = LedgerEnd(signed'[s])
    BY ModeOf, ModeAfter
  <1>2. mode' \in [Streams -> Ledger!Modes]
    BY <1>1 DEF Ledger!Modes, SlotMode
  <1>3. last' \in [Streams -> Ledger!OptTicks]
    <2>1. ASSUME NEW s \in Streams PROVE LedgerEnd(signed'[s]) \in OptTicks
      <3>1. signed'[s] \in SUBSET Ticks /\ HasEnd(signed'[s])
        BY DEF DInv, IInv, TypeOK, LedgersMove, EndsOK
      <3> QED BY <3>1, EndType
    <2> QED BY <1>1, <2>1 DEF Ledger!OptTicks, Ledger!Ticks, Ledger!NoTick, OptTicks, Ticks, NoTick
  <1>4. ASSUME NEW s \in Streams
        PROVE  \/ Ledger!Extend(s) \/ Ledger!Start(s) \/ Ledger!Thaw(s)
               \/ Ledger!Close(s) \/ Ledger!Finish(s) \/ Ledger!Stay(s)
    <2> DEFINE m == mode[s]
               e == last[s]
               n == mode'[s]
               f == last'[s]
    <2>1. LedgerMove(m, e, n, f, s)
      BY <1>1 DEF LedgersMove, SlotMove
    <2> USE DEF Ledger!STREAM_COUNT, Ledger!Ticks, Ledger!NoTick, Ticks, NoTick
    <2>2. CASE /\ m = "running" /\ Grown(e, f)
               /\ \/ n \in {"running", "frozen", "idle"}
                  \/ n = "closed" /\ f + STREAM_COUNT > MaxTick
      BY <2>2 DEF Grown, Ledger!Extend, Ledger!Extends, Ledger!Exhausted
    <2>3. CASE /\ m \in {"idle", "frozen"}
               /\ \E first \in Ticks : /\ first % STREAM_COUNT = s
                                       /\ e # NoTick => first >= e + STREAM_COUNT
                                       /\ Grown(first, f)
               /\ \/ n \in {"running", "idle"}
                  \/ n = "closed" /\ f + STREAM_COUNT > MaxTick
      BY <2>3 DEF Grown, Ledger!Start, Ledger!Extends, Ledger!Exhausted
    <2>4. CASE m = "frozen" /\ n = "idle" /\ f = e
      BY <2>4 DEF Ledger!Thaw
    <2>5. CASE m = "running" /\ f = e + STREAM_COUNT /\ n \in {"closing", "closed"}
      BY <2>5 DEF Ledger!Close
    <2>6. CASE m # "running" /\ n = "closed" /\ f = e
      BY <2>6 DEF Ledger!Finish
    <2>7. CASE n = m /\ f = e
      BY <2>7 DEF Ledger!Stay
    <2> QED BY <2>1, <2>2, <2>3, <2>4, <2>5, <2>6, <2>7 DEF LedgerMove
  <1> QED BY <1>2, <1>3, <1>4 DEF Ledger!Serve

(* The engine's ledger starts empty and every step is one of the ledger.   *)
LInv == DInv /\ EndsKnown

(* Nothing is signed at the start. *)
LEMMA InitLedger == Init => LInv /\ Ledger!LedgerInit
  <1> SUFFICES ASSUME Init PROVE LInv /\ Ledger!LedgerInit
    OBVIOUS
  <1>1. \A s \in Streams : slots[s] = InitSlot /\ signed[s] = {} /\ pc = "head"
    BY DEF Init
  <1>2. Tag(InitSlot) = "Waiting" /\ SlotMode(InitSlot) = "idle"
    BY DEF InitSlot, Tag, Waiting, SlotMode, IsPlanned
  <1>3. EndsKnown
    BY <1>1, <1>2 DEF EndsKnown, EndsOK, HasEnd
  <1>4. \A s \in Streams : LedgerMode(slots[s]) = "idle" /\ LedgerEnd(signed[s]) = NoTick
    BY <1>1, <1>2, ModeOf DEF LedgerEnd
  <1>5. Ledger!LedgerInit
    BY <1>4 DEF Ledger!LedgerInit, Ledger!NoTick, NoTick
  <1> QED BY <1>3, <1>5, InitServes DEF LInv

(* A step that keeps the slots leaves the ledger alone.                    *)
LEMMA QuietLedger ==
  ASSUME EndsKnown, slots' = slots, signed' = signed, pc # "exited", pc' # "exited"
  PROVE  EndsKnown' /\ UNCHANGED Ledger!ledgerVars
  <1>1. \A s \in Streams : /\ LedgerMode(slots[s])' = LedgerMode(slots[s])
                           /\ LedgerEnd(signed[s])' = LedgerEnd(signed[s])
    BY DEF LedgerMode, LedgerEnd, Tag, IsPlanned
  <1> QED BY <1>1 DEF EndsKnown, Ledger!ledgerVars

(* A new epoch starts a new ledger.                                        *)
LEMMA TickOkLedger ==
  ASSUME LInv, NEW i \in TickInfos, NEW w \in StopWindows, TickOk(i, w)
  PROVE  EndsKnown' /\ [Ledger!LedgerNext]_(Ledger!ledgerVars)
  <1>1. pc # "exited" /\ pc' # "exited"
    BY DEF TickOk
  <1>2. CASE phase.epoch # i.epoch
    <2>1. \A s \in Streams : slots'[s] = InitSlot /\ signed'[s] = {}
      BY <1>2 DEF TickOk
    <2>2. Tag(InitSlot) = "Waiting" /\ SlotMode(InitSlot) = "idle"
      BY DEF InitSlot, Tag, Waiting, SlotMode, IsPlanned
    <2>3. EndsKnown'
      BY <2>1, <2>2 DEF EndsKnown, EndsOK, HasEnd
    <2>4. \A s \in Streams : LedgerMode(slots[s])' = "idle" /\ LedgerEnd(signed[s])' = NoTick
      BY <1>1, <2>1, <2>2, ModeAfter DEF LedgerEnd
    <2>5. Ledger!Reset
      BY <2>4 DEF Ledger!Reset, Ledger!NoTick, NoTick
    <2> QED BY <2>3, <2>5 DEF Ledger!LedgerNext
  <1>3. CASE phase.epoch = i.epoch
    BY <1>1, <1>3, QuietLedger DEF TickOk, LInv
  <1> QED BY <1>2, <1>3

(* Leaving run stops the ledger.                                           *)
LEMMA LeaveLedger ==
  ASSUME NEW result, Leave(result), UNCHANGED signed
  PROVE  EndsKnown' /\ Ledger!LedgerNext
  <1>1. pc' = "exited" /\ \A s \in Streams : LedgerMode(slots[s])' = "closed"
    BY ModeAfter DEF Leave
  <1>2. \A s \in Streams : LedgerEnd(signed[s])' = LedgerEnd(signed[s])
    BY DEF LedgerEnd
  <1>3. Ledger!Stop
    BY <1>1, <1>2 DEF Ledger!Stop
  <1> QED BY <1>1, <1>3 DEF EndsKnown, Ledger!LedgerNext

(* Every step of the engine is a step of the ledger or leaves it alone.    *)
LEMMA StepRefines ==
  ASSUME LInv, DInv', [Next]_vars
  PROVE  EndsKnown' /\ [Ledger!LedgerNext]_(Ledger!ledgerVars)
  <1>1. CASE \E i \in TickInfos, w \in StopWindows : TickOk(i, w)
    BY <1>1, TickOkLedger
  <1>2. CASE Harvest \/ PlanAndSend \/ ObserveRequest
    <2>1. pc # "exited" /\ pc' # "exited"
      BY <1>2 DEF Harvest, HarvestQueryPending, HarvestQueryFailed, HarvestQueryOk,
                  PlanAndSend, CycleDrain, CycleActive, CycleHold, ObserveRequest
    <2>2. LedgersMove
      BY <1>2, HarvestsMove, CyclesMove, RequestMoves DEF LInv
    <2>3. Ledger!Serve
      BY <2>1, <2>2, MovesServe
    <2>4. EndsKnown'
      BY <2>2 DEF LedgersMove, EndsKnown
    <2> QED BY <2>3, <2>4 DEF Ledger!LedgerNext
  <1>3. CASE ObserveError \/ ExitDrained \/ ExitTimedOut
    BY <1>3, LeaveLedger DEF ObserveError, ExitDrained, ExitTimedOut
  <1>4. CASE TickFails \/ ObserveNothing \/ Environment
    BY <1>4, QuietLedger DEF LInv, TickFails, ObserveNothing, Environment, Signal, ObserverEnds,
                             ObserverPanics, DeadlinePasses
  <1>5. CASE UNCHANGED vars
    <2>1. \A s \in Streams : /\ LedgerMode(slots[s])' = LedgerMode(slots[s])
                             /\ LedgerEnd(signed[s])' = LedgerEnd(signed[s])
      BY <1>5 DEF vars, LedgerMode, LedgerEnd, Tag, IsPlanned
    <2>2. EndsKnown'
      BY <1>5 DEF LInv, EndsKnown, vars
    <2> QED BY <2>1, <2>2 DEF Ledger!ledgerVars
  <1> QED BY <1>1, <1>2, <1>3, <1>4, <1>5 DEF Next, Loop, Fetch, Finished

(* The engine implements the stream ledger: no stream signs on a frozen,   *)
(* closing or closed ledger, a chain grows by its own ticks only, and a    *)
(* replacement starts past the tail it replaces.                           *)
THEOREM EngineImplementsLedger == Spec => ImplementsLedger
  <1>1. LInv /\ DInv' /\ [Next]_vars => LInv' /\ [Ledger!LedgerNext]_(Ledger!ledgerVars)
    BY StepRefines DEF LInv
  <1>2. Init => LInv /\ Ledger!LedgerInit
    BY InitLedger
  <1> QED BY <1>1, <1>2, DeliveryInvariant, PTL DEF Spec, ImplementsLedger, Ledger!LedgerSpec

-----------------------------------------------------------------------------
(* What a clean exit has paid *)

(* A terminal reveal that is owed is still being drained, or has failed;   *)
(* and a clean exit leaves every slot drained and nothing owed.            *)
Accounted(s) == Tag(slots[s]) = "Draining" \/ slots[s].state = Drained("Failed")

OwedOK ==
    /\ owed \subseteq Streams
    /\ pc # "exited" => exit = "none" /\ \A s \in owed : Accounted(s)
    /\ exit = "ok" => owed = {} /\ ShutdownComplete

(* A drain ends accepted or failed, and nothing else ends it but a reset.  *)
LEMMA DrainEnds ==
  ASSUME DInv, [Next]_vars, ~WasReset, pc' # "exited", NEW s \in Streams,
         Tag(slots[s]) = "Draining"
  PROVE  slots'[s].state \in {slots[s].state, Drained("Accepted"), Drained("Failed")}
  <1>1. CASE \E i \in TickInfos, w \in StopWindows : TickOk(i, w)
    <2>1. PICK i \in TickInfos, w \in StopWindows : TickOk(i, w)
      BY <1>1
    <2>2. phase'.epoch = i.epoch
      BY <2>1, UpdateEpochPhaseOK DEF TickOk, DInv
    <2> QED BY <2>1, <2>2 DEF TickOk, WasReset
  <1>2. CASE Harvest
    <2>1. pc = "harvest"
      BY <1>2 DEF Harvest, HarvestQueryPending, HarvestQueryFailed, HarvestQueryOk
    <2>2. PICK results \in [InFlight -> TaskResults] :
              \/ HarvestNoStatus(results)
              \/ query # NoQuery /\ \E seen \in StatusReports : HarvestStatus(results, seen)
      BY <1>2 DEF Harvest, HarvestQueryPending, HarvestQueryFailed, HarvestQueryOk
    <2> DEFINE mid == HarvestBroadcasts(slots[s], results).slot
    <2>3. mid.state = slots[s].state /\ Tag(mid) = "Draining"
      BY <2>1, HarvestedServes DEF SameChain, Tag
    <2>4. slots'[s] = mid \/ \E seen \in StatusReports :
                                 slots'[s] = ApplyStatus(mid, seen[s], query.requested).slot
      BY <2>2 DEF HarvestNoStatus, HarvestStatus, Harvested
    <2> HIDE DEF mid
    <2>5. \A seen : ApplyStatus(mid, seen[s], query.requested).slot = mid
      BY <2>3 DEF ApplyStatus, Result, IsPlanned
    <2> QED BY <2>3, <2>4, <2>5
  <1>3. CASE PlanAndSend
    <2>1. /\ pc = "plan" /\ info' = info /\ info.tick \in Ticks
          /\ \E planned : /\ \A t \in Streams : PlansSlot(planned[t], t)
                          /\ (\E due : PlanThenSend(planned, due)) \/ PlanFails(planned)
      BY <1>3, CyclePlans
    <2>2. PICK planned : /\ \A t \in Streams : PlansSlot(planned[t], t)
                         /\ (\E due : PlanThenSend(planned, due)) \/ PlanFails(planned)
      BY <2>1
    <2> DEFINE mid == planned[s].slot
    <2>3. mid = slots[s]
      BY <2>2 DEF PlansSlot, PlanShape, Replaced, MayStart, Extended, Missed, Closed, Latched,
                  IsPlanned
    <2>4. slots'[s] = SendSlot(mid, info.tick).slot \/ slots'[s] = slots[s]
      BY <2>2, <2>3 DEF PlanThenSend, PlanFails, PlannedSlots
    <2>5. /\ SlotOK(slots[s], s, signed[s]) /\ DeliveryOK(slots[s], s) /\ s \in StreamIds
      BY <2>1, StreamsType DEF DInv, IInv, SlotsOK, SlotsServe
    <2> HIDE DEF mid
    <2>6. SendShape(SendSlot(slots[s], info.tick).slot, slots[s], info.tick)
      BY <2>1, <2>5, SendServes
    <2> QED BY <2>3, <2>4, <2>6 DEF SendShape, SameChain, IsPlanned
  <1>4. CASE ObserveRequest
    <2>1. slots'[s] \in {EnterDrain(slots[s], s, "Shutdown").slot, slots[s]}
      BY <1>4 DEF ObserveRequest, PlannedSlots, ShutdownPlan
    <2> QED BY <2>1 DEF EnterDrain, Result
  <1>5. CASE ObserveError \/ ExitDrained \/ ExitTimedOut
    BY <1>5 DEF ObserveError, ExitDrained, ExitTimedOut, Leave
  <1>6. CASE TickFails \/ ObserveNothing \/ Environment \/ UNCHANGED vars
    BY <1>6 DEF TickFails, ObserveNothing, Environment, Signal, ObserverEnds,
                ObserverPanics, DeadlinePasses, vars
  <1> QED BY <1>1, <1>2, <1>3, <1>4, <1>5, <1>6 DEF Next, Loop, Fetch, Finished

(* What is owed stays accounted for while run goes on.                     *)
LEMMA OwedStays ==
  ASSUME DInv, OwedOK, Next, Record, pc' # "exited"
  PROVE  OwedOK'
  <1>1. pc # "exited" /\ exit' = exit
    BY DEF Next, Loop, Fetch, Harvest, PlanAndSend, Environment, Finished, vars, shutdown, TickOk,
           TickFails, HarvestQueryPending, HarvestQueryFailed, HarvestQueryOk, CycleDrain,
           CycleActive, CycleHold, ObserveNothing, ObserveRequest, ObserveError, ExitDrained,
           ExitTimedOut, Leave, Signal, ObserverEnds, ObserverPanics, DeadlinePasses
  <1>2. owed' \subseteq Streams
    BY DEF OwedOK, Record
  <1>3. ASSUME NEW s \in owed'
        PROVE  Tag(slots'[s]) = "Draining" \/ slots'[s].state = Drained("Failed")
    <2>1. CASE Tag(slots'[s]) = "Draining"
      BY <2>1
    <2>2. CASE Tag(slots'[s]) # "Draining"
      <3>1. s \in owed /\ s \in Streams /\ ~WasReset /\ slots'[s].state # Drained("Accepted")
        BY <1>2, <2>2 DEF Record
      <3>2. CASE Tag(slots[s]) = "Draining"
        BY <1>1, <2>2, <3>1, <3>2, DrainEnds DEF Tag
      <3>3. CASE slots[s].state = Drained("Failed")
        <4>1. Tag(slots[s]) = "Drained"
          BY <3>3 DEF Tag, Drained, Waiting
        <4>2. slots'[s] = slots[s]
          BY <3>1, <4>1, StepServes DEF DeliveryStep, StreamStep, vars
        <4> QED BY <3>3, <4>2
      <3> QED BY <1>1, <3>1, <3>2, <3>3 DEF OwedOK, Accounted
    <2> QED BY <2>1, <2>2
  <1> QED BY <1>1, <1>2, <1>3 DEF OwedOK, Accounted

(* A run that ends clean has nothing accounted for that is not accepted.   *)
LEMMA OwedAtExit ==
  ASSUME DInv, OwedOK, Next, Record, pc' = "exited"
  PROVE  OwedOK'
  <1>1. owed' \subseteq Streams
    BY DEF OwedOK, Record
  <1>2. ASSUME pc # "exited", exit' = "ok" PROVE owed' = {} /\ ShutdownComplete'
    <2>1. /\ ShutdownComplete /\ ~ShutdownFailed /\ phase' = phase
          /\ slots' = [s \in Streams |-> [slots[s] EXCEPT !.chain = NoChain]]
      BY <1>2 DEF OwedOK, Next, Loop, Fetch, Harvest, PlanAndSend, Environment, Finished, vars,
             shutdown, TickOk, TickFails, HarvestQueryPending, HarvestQueryFailed, HarvestQueryOk,
             CycleDrain, CycleActive, CycleHold, ObserveNothing, ObserveRequest, ObserveError,
             ExitDrained, ExitTimedOut, Leave, Signal, ObserverEnds, ObserverPanics, DeadlinePasses
    <2>2. \A s \in Streams : slots'[s].state = slots[s].state
      BY <2>1 DEF DInv, IInv, TypeOK, ManagedSlot
    <2>3. owed = {}
      BY <1>2, <2>1 DEF OwedOK, Accounted, ShutdownComplete, ShutdownFailed
    <2>4. ShutdownComplete'
      BY <2>1, <2>2 DEF ShutdownComplete, Tag
    <2>5. owed' = {}
      BY <2>3, <2>4 DEF Record, ShutdownComplete
    <2> QED BY <2>4, <2>5
  <1>3. ASSUME pc = "exited", exit' = "ok" PROVE owed' = {} /\ ShutdownComplete'
    <2>1. UNCHANGED vars
      BY <1>3 DEF Next, Loop, Fetch, Harvest, PlanAndSend, Environment, Finished, TickOk,
             TickFails, HarvestQueryPending, HarvestQueryFailed, HarvestQueryOk,
             CycleDrain, CycleActive, CycleHold, ObserveNothing, ObserveRequest, ObserveError,
             ExitDrained, ExitTimedOut, Signal, ObserverEnds, ObserverPanics, DeadlinePasses
    <2>2. slots' = slots /\ exit = "ok"
      BY <1>3, <2>1 DEF vars
    <2> QED BY <2>2 DEF OwedOK, Record, ShutdownComplete, Tag
  <1> QED BY <1>1, <1>2, <1>3 DEF OwedOK

(* run returns Ok only when every terminal reveal that it scheduled in the *)
(* epoch it ends in was accepted by the backend.                           *)
THEOREM CleanExitsPay == LedgerSpec => []CleanExitPaysAll
  <1>1. LedgerInit => DInv /\ OwedOK
    BY InitServes DEF LedgerInit, OwedOK, Init
  <1>2. DInv /\ OwedOK /\ [LedgerNext]_ledgerVars => DInv' /\ OwedOK'
    <2> SUFFICES ASSUME DInv, OwedOK, [LedgerNext]_ledgerVars PROVE DInv' /\ OwedOK'
      OBVIOUS
    <2>1. CASE LedgerNext
      BY <2>1, StepServes, OwedStays, OwedAtExit DEF LedgerNext
    <2>2. CASE UNCHANGED ledgerVars
      <3>1. UNCHANGED vars /\ owed' = owed
        BY <2>2 DEF ledgerVars, ledger
      <3>2. DInv'
        BY <3>1, StepServes
      <3>3. slots' = slots /\ pc' = pc /\ exit' = exit
        BY <3>1 DEF vars
      <3> QED BY <3>1, <3>2, <3>3 DEF OwedOK, Accounted, ShutdownComplete, Tag
    <2> QED BY <2>1, <2>2
  <1>3. OwedOK => CleanExitPaysAll
    BY DEF OwedOK, CleanExitPaysAll
  <1> QED BY <1>1, <1>2, <1>3, PTL DEF LedgerSpec

=============================================================================
