------------------------ MODULE ProviderEngineProofs ------------------------
(***************************************************************************)
(* Theorems of the engine for every value of its constants: any MaxTick,   *)
(* any streams, any tick metadata, status responses and task results.      *)
(* First what every handler of a slot preserves, then the engine's         *)
(* invariants, which say that all its slots are in order.                  *)
(***************************************************************************)
EXTENDS ProviderEngine, TLAPS

USE DEF STREAM_COUNT, StreamIds

(* One signed call of a chain; G is the set of targets signed so far. *)
CallOK(c, chain, s, G) ==
    /\ c.target % STREAM_COUNT = s
    /\ c.target \in G
    /\ c.reveal = IF c.kind = "FirstCommit" THEN NoTick ELSE c.target - STREAM_COUNT
    /\ ~Remnant(chain, c) => (c.kind = "FirstCommit" <=> c.target = chain.first)

DistinctTargets(calls) == \A c, d \in calls : c.target = d.target => c = d

ChainOK(chain, s, G) ==
    /\ chain.first \in Ticks /\ chain.last \in Ticks
    /\ chain.first <= chain.last
    /\ chain.first % STREAM_COUNT = s /\ chain.last % STREAM_COUNT = s
    /\ chain.preimage = chain.last
    /\ chain.confirmed # NoTick => /\ chain.confirmed \in chain.first .. chain.last
                                   /\ (chain.confirmed - chain.first) % STREAM_COUNT = 0
    /\ \A c \in chain.calls : CallOK(c, chain, s, G)
    /\ DistinctTargets(chain.calls)

(* No terminal reveal is queued and nothing was signed past the tail. *)
OpenTail(chain, G) ==
    /\ \A t \in G : t <= chain.last
    /\ \A c \in chain.calls : c.kind # "TerminalReveal"

StateOK(slot, s, G) ==
    /\ Tag(slot) \in {"Waiting", "Drained"} => slot.chain = NoChain
    /\ Tag(slot) \notin {"Waiting", "Drained"} => ChainOK(slot.chain, s, G)
    /\ Tag(slot) = "Waiting" => \A t \in G : t < slot.restartAt
    /\ Tag(slot) \in {"Starting", "Active", "Restarting"} => OpenTail(slot.chain, G)
    /\ Tag(slot) = "Starting" => slot.state.at = slot.chain.first
    /\ Tag(slot) = "Active" => slot.chain.confirmed # NoTick
    /\ Tag(slot) = "Restarting" => /\ slot.state.at = slot.chain.last
                                   /\ slot.restartAt = slot.chain.last + STREAM_COUNT
    /\ Tag(slot) = "Draining" =>
          /\ slot.state.at = slot.chain.last + STREAM_COUNT
          /\ \A c \in slot.chain.calls : IF c.kind = "TerminalReveal" THEN c.target = slot.state.at
                                         ELSE c.target <= slot.chain.last

SlotOK(slot, s, G) == slot \in ManagedSlot /\ G \in SUBSET Ticks /\ StateOK(slot, s, G)

-----------------------------------------------------------------------------
(* Types of the constants and of the state constructors *)

(* The absent chain is a chain value.                                      *)
LEMMA NoChainType == NoChain \in Chain
  BY DEF NoChain, Chain, OptTicks, NoSuspicion, Suspicion, NoEvidence, Evidence, STATUS_CONFIRMATIONS_REQUIRED

(* Ticks are naturals, and None is not one of them.                        *)
LEMMA TicksType == Ticks \subseteq Nat /\ NoTick \notin Ticks /\ 0 \in Ticks /\ MaxTick \in Ticks
  BY MaxTickAssumption DEF Ticks, NoTick

(* A saturating addition stays a u32.                                      *)
LEMMA SaturatingAddType ==
  ASSUME NEW t \in Ticks, NEW n \in Nat
  PROVE  SaturatingAdd(t, n) \in Ticks
  BY MaxTickAssumption DEF Ticks, SaturatingAdd

(* The constructors build slot states.                                     *)
LEMMA StateTypes ==
  ASSUME NEW a \in Ticks, NEW o \in BOOLEAN, NEW t \in Ticks,
         NEW r \in DrainReasons, NEW w \in DrainOutcomes, NEW x \in DrainReasons \cup {"None"}
  PROVE  /\ Waiting(a, o) \in SlotState /\ Starting(t) \in SlotState /\ Active \in SlotState
         /\ Restarting(t, a, o, x) \in SlotState /\ Draining(r, t) \in SlotState
         /\ Drained(w) \in SlotState
  BY TicksType DEF Waiting, Starting, Active, Restarting, Draining, Drained, SlotState,
                   SlotTags, OptTicks

(* Active is a slot state.                                                 *)
LEMMA ActiveType == Active \in SlotState
  BY TicksType DEF Waiting, Active, SlotState, SlotTags, OptTicks

(* No suspicion is a suspicion value.                                      *)
LEMMA NoSuspicionType == NoSuspicion \in Suspicion
  BY DEF NoSuspicion, Suspicion, NoEvidence, Evidence, OptTicks, STATUS_CONFIRMATIONS_REQUIRED

(* The initial slot, before anything was signed, is in order. *)
THEOREM InitSlotOK == ASSUME NEW s \in StreamIds PROVE SlotOK(InitSlot, s, {})
  <1>1. InitSlot \in ManagedSlot
    BY NoChainType, StateTypes, TicksType DEF InitSlot, ManagedSlot, DrainReasons, DrainOutcomes
  <1> QED BY <1>1 DEF InitSlot, SlotOK, StateOK, Tag, Waiting

(* A chain exists exactly in the states that serve one. *)
LEMMA HasChainTag ==
  ASSUME NEW slot, NEW s, NEW G, SlotOK(slot, s, G)
  PROVE  /\ HasChain(slot) <=> Tag(slot) \notin {"Waiting", "Drained"}
         /\ Tag(slot) \in SlotTags
  BY TicksType DEF SlotOK, StateOK, HasChain, NoChain, ChainOK, ManagedSlot, SlotState, Tag
-----------------------------------------------------------------------------
(* Handlers that only touch the delivery fields of calls *)

(* `new' are calls of `old' with the same signed bytes. *)
CallsFrom(new, old) ==
    /\ new \subseteq PlannedCall
    /\ \A c \in new : \E d \in old : SameBytes(c, d)
    /\ DistinctTargets(new)

(* Rewriting delivery fields keeps a slot in order.                        *)
LEMMA ReplaceCalls ==
  ASSUME NEW slot, NEW s \in StreamIds, NEW G, SlotOK(slot, s, G),
         NEW calls, CallsFrom(calls, slot.chain.calls)
  PROVE  SlotOK([slot EXCEPT !.chain.calls = calls], s, G)
  <1> DEFINE new == [slot EXCEPT !.chain.calls = calls]
  <1>1. /\ new \in ManagedSlot
        /\ new.state = slot.state /\ new.restartAt = slot.restartAt
        /\ new.chain \in Chain
        /\ new.chain.calls = calls
        /\ new.chain.first = slot.chain.first /\ new.chain.last = slot.chain.last
        /\ new.chain.confirmed = slot.chain.confirmed
        /\ new.chain.preimage = slot.chain.preimage
        /\ new.chain.suspicion = slot.chain.suspicion
    BY DEF SlotOK, ManagedSlot, Chain, CallsFrom
  <1>2. \A c \in calls : c \in PlannedCall /\ \E d \in slot.chain.calls : SameBytes(c, d)
    BY DEF CallsFrom
  <1>3. Tag(slot) \in {"Waiting", "Drained"} => new.chain = NoChain
    <2> SUFFICES ASSUME Tag(slot) \in {"Waiting", "Drained"} PROVE new.chain = NoChain
      OBVIOUS
    <2>1. slot.chain = NoChain
      BY DEF SlotOK, StateOK
    <2>2. calls = {}
      BY <2>1, <1>2 DEF NoChain
    <2> QED BY <2>1, <2>2 DEF NoChain, SlotOK, ManagedSlot, Chain
  <1>4. ChainOK(slot.chain, s, G) => ChainOK(new.chain, s, G)
    BY <1>1, <1>2 DEF ChainOK, CallOK, SameBytes, Remnant, CallsFrom, PlannedCall
  <1>5. StateOK(new, s, G)
    BY <1>1, <1>2, <1>3, <1>4 DEF SlotOK, StateOK, Tag, OpenTail, SameBytes, PlannedCall
  <1> QED BY <1>1, <1>5 DEF SlotOK

(* expire_calls keeps the signed bytes of a call.                          *)
LEMMA ExpireCallBytes ==
  ASSUME NEW c \in PlannedCall, NEW tick \in Ticks
  PROVE  ExpireCall(c, tick) \in PlannedCall /\ SameBytes(ExpireCall(c, tick), c)
  BY DEF ExpireCall, PlannedCall, SameBytes, BroadcastStates

(* dispatch_calls keeps the signed bytes of a call.                        *)
LEMMA DispatchCallBytes ==
  ASSUME NEW slot, NEW c \in PlannedCall, NEW tick \in Ticks
  PROVE  DispatchCall(slot, c, tick) \in PlannedCall /\ SameBytes(DispatchCall(slot, c, tick), c)
  BY DEF DispatchCall, PlannedCall, SameBytes, BroadcastStates

(* harvest_broadcasts keeps the signed bytes of a call.                    *)
LEMMA HarvestCallBytes ==
  ASSUME NEW slot, NEW c \in PlannedCall, NEW result
  PROVE  HarvestCall(slot, c, result) \in PlannedCall /\ SameBytes(HarvestCall(slot, c, result), c)
  BY DEF HarvestCall, PlannedCall, SameBytes, BroadcastStates

(* A slot in order queues no two calls for one target.                     *)
LEMMA CallsDistinct ==
  ASSUME NEW slot, NEW s, NEW G, SlotOK(slot, s, G)
  PROVE  slot.chain.calls \subseteq PlannedCall /\ DistinctTargets(slot.chain.calls)
  BY DEF SlotOK, StateOK, ChainOK, NoChain, ManagedSlot, Chain, DistinctTargets

(* The calls after an expiry are the calls before it.                      *)
LEMMA ExpireCallsFrom ==
  ASSUME NEW slot, NEW s, NEW G, SlotOK(slot, s, G), NEW tick \in Ticks
  PROVE  CallsFrom({ExpireCall(c, tick) : c \in slot.chain.calls}, slot.chain.calls)
  BY CallsDistinct, ExpireCallBytes DEF CallsFrom, DistinctTargets, SameBytes

(* dispatch_calls keeps a slot in order and its calls.                     *)
LEMMA DispatchCallsOK ==
  ASSUME NEW slot, NEW s \in StreamIds, NEW G, SlotOK(slot, s, G), NEW tick \in Ticks
  PROVE  /\ SlotOK(DispatchCalls(slot, tick).slot, s, G)
         /\ DispatchCalls(slot, tick).marks \subseteq Marks
         /\ CallsFrom(DispatchCalls(slot, tick).slot.chain.calls, slot.chain.calls)
  <1> DEFINE new == {DispatchCall(slot, c, tick) : c \in slot.chain.calls}
  <1>1. CallsFrom(new, slot.chain.calls)
    BY CallsDistinct, DispatchCallBytes DEF CallsFrom, DistinctTargets, SameBytes
  <1>2. DispatchCalls(slot, tick).slot = [slot EXCEPT !.chain.calls = new]
    BY DEF DispatchCalls, Result
  <1>3. DispatchCalls(slot, tick).slot.chain.calls = new
    BY <1>2 DEF SlotOK, ManagedSlot, Chain
  <1>4. DispatchCalls(slot, tick).marks \subseteq Marks
    BY CallsDistinct DEF DispatchCalls, Result, MarkAll, Marks, PlannedCall
  <1>5. SlotOK([slot EXCEPT !.chain.calls = new], s, G)
    BY <1>1, ReplaceCalls
  <1> HIDE DEF new
  <1> QED BY <1>1, <1>2, <1>3, <1>4, <1>5

(* harvest_broadcasts keeps a slot in order and its calls.                 *)
LEMMA HarvestBroadcastsOK ==
  ASSUME NEW slot, NEW s \in StreamIds, NEW G, SlotOK(slot, s, G), NEW result
  PROVE  /\ SlotOK(HarvestBroadcasts(slot, result).slot, s, G)
         /\ HarvestBroadcasts(slot, result).marks \subseteq Marks
         /\ CallsFrom(HarvestBroadcasts(slot, result).slot.chain.calls, slot.chain.calls)
  <1> DEFINE new == {HarvestCall(slot, c, result) : c \in slot.chain.calls}
  <1>1. CallsFrom(new, slot.chain.calls)
    BY CallsDistinct, HarvestCallBytes DEF CallsFrom, DistinctTargets, SameBytes
  <1>2. HarvestBroadcasts(slot, result).slot = [slot EXCEPT !.chain.calls = new]
    BY DEF HarvestBroadcasts, Result
  <1>3. HarvestBroadcasts(slot, result).slot.chain.calls = new
    BY <1>2 DEF SlotOK, ManagedSlot, Chain
  <1>4. HarvestBroadcasts(slot, result).marks \subseteq Marks
    BY CallsDistinct DEF HarvestBroadcasts, Result, MarkAll, Marks, PlannedCall
  <1>5. SlotOK([slot EXCEPT !.chain.calls = new], s, G)
    BY <1>1, ReplaceCalls
  <1> HIDE DEF new
  <1> QED BY <1>1, <1>2, <1>3, <1>4, <1>5
-----------------------------------------------------------------------------
(* Losing trust in a chain *)

(* A slot that ran out of ticks is in order.                               *)
LEMMA ExhaustedOK ==
  ASSUME NEW s \in StreamIds, NEW G \in SUBSET Ticks
  PROVE  SlotOK(ExhaustedSlot, s, G)
  <1>1. ExhaustedSlot \in ManagedSlot
    BY NoChainType, StateTypes, TicksType DEF ExhaustedSlot, ManagedSlot, DrainReasons, DrainOutcomes
  <1> QED BY <1>1 DEF ExhaustedSlot, SlotOK, StateOK, Tag, Drained, Waiting

(* A slot that ran out of ticks is drained and has no chain.               *)
LEMMA ExhaustedShape ==
  /\ ExhaustedSlot.chain = NoChain /\ Tag(ExhaustedSlot) = "Drained"
  /\ ~IsPlanned(ExhaustedSlot)
  BY DEF ExhaustedSlot, Tag, IsPlanned, Drained, Waiting

(* lose_chain leaves a slot in order, without a chain, and past its tail.  *)
LEMMA LoseChainOK ==
  ASSUME NEW slot, NEW s \in StreamIds, NEW G, SlotOK(slot, s, G), IsPlanned(slot),
         NEW after \in Ticks, NEW observed \in BOOLEAN
  PROVE  /\ SlotOK(LoseChain(slot, after, observed), s, G)
         /\ LoseChain(slot, after, observed).chain = NoChain
         /\ Tag(LoseChain(slot, after, observed)) \in {"Waiting", "Drained"}
  <1> DEFINE last == slot.chain.last
             lost == LoseChain(slot, after, observed)
  <1>1. /\ HasChain(slot) /\ last \in Ticks /\ G \in SUBSET Ticks
        /\ \A t \in G : t <= last
    BY HasChainTag DEF IsPlanned, SlotOK, StateOK, ChainOK, OpenTail
  <1>2. CASE last + STREAM_COUNT > MaxTick
    <2>1. CheckedAdd(last, STREAM_COUNT) = NoTick
      BY <1>1, <1>2, MaxTickAssumption DEF CheckedAdd, Ticks
    <2>2. lost = ExhaustedSlot
      BY <1>1, <2>1 DEF LoseChain
    <2> QED BY <1>1, <2>2, ExhaustedOK, ExhaustedShape
  <1>3. CASE last + STREAM_COUNT <= MaxTick
    <2>1. last + STREAM_COUNT \in Ticks /\ last + STREAM_COUNT # NoTick
      BY <1>1, <1>3, MaxTickAssumption DEF Ticks, NoTick
    <2>2. lost = [state |-> Waiting(after, observed), chain |-> NoChain,
                  restartAt |-> last + STREAM_COUNT]
      BY <1>1, <1>3, <2>1 DEF LoseChain, CheckedAdd
    <2>3. Waiting(after, observed) \in SlotState
      BY StateTypes DEF DrainReasons, DrainOutcomes
    <2>4. lost \in ManagedSlot
      BY <2>1, <2>2, <2>3, NoChainType DEF ManagedSlot
    <2>5. Tag(lost) = "Waiting" /\ lost.chain = NoChain
          /\ lost.restartAt = last + STREAM_COUNT
      BY <2>2 DEF Tag, Waiting
    <2>6. \A t \in G : t < last + STREAM_COUNT
      BY <1>1, TicksType DEF Ticks
    <2> QED BY <1>1, <2>4, <2>5, <2>6 DEF SlotOK, StateOK
  <1> QED BY <1>1, <1>2, <1>3, MaxTickAssumption DEF Ticks

(* begin_status_restart freezes the chain as it is, or ends it.            *)
LEMMA BeginStatusRestartOK ==
  ASSUME NEW slot, NEW s \in StreamIds, NEW G, SlotOK(slot, s, G), IsPlanned(slot),
         NEW after \in Ticks, NEW observed \in BOOLEAN
  PROVE  /\ SlotOK(BeginStatusRestart(slot, after, observed), s, G)
         /\ ~IsPlanned(BeginStatusRestart(slot, after, observed))
         /\ BeginStatusRestart(slot, after, observed).chain \in {slot.chain, NoChain}
  <1> DEFINE last == slot.chain.last
             next == BeginStatusRestart(slot, after, observed)
  <1>1. /\ HasChain(slot) /\ last \in Ticks /\ G \in SUBSET Ticks
        /\ slot \in ManagedSlot /\ ChainOK(slot.chain, s, G) /\ OpenTail(slot.chain, G)
    BY HasChainTag DEF IsPlanned, SlotOK, StateOK, ChainOK
  <1>2. CASE last + STREAM_COUNT > MaxTick
    <2>1. CheckedAdd(last, STREAM_COUNT) = NoTick
      BY <1>1, <1>2, MaxTickAssumption DEF CheckedAdd, Ticks
    <2>2. next = ExhaustedSlot
      BY <1>1, <2>1 DEF BeginStatusRestart
    <2> QED BY <1>1, <2>2, ExhaustedOK, ExhaustedShape
  <1>3. CASE last + STREAM_COUNT <= MaxTick
    <2> DEFINE st == Restarting(last, after, observed, "None")
    <2>1. last + STREAM_COUNT \in Ticks /\ last + STREAM_COUNT # NoTick
      BY <1>1, <1>3, MaxTickAssumption DEF Ticks, NoTick
    <2>2. next = [slot EXCEPT !.restartAt = last + STREAM_COUNT, !.state = st]
      BY <1>1, <1>3, <2>1 DEF BeginStatusRestart, CheckedAdd
    <2>3. st \in SlotState /\ st.tag = "Restarting" /\ st.at = last
      BY <1>1, StateTypes DEF DrainReasons, DrainOutcomes, Restarting, Waiting
    <2> HIDE DEF st
    <2>4. /\ next \in ManagedSlot /\ next.state = st /\ next.chain = slot.chain
          /\ next.restartAt = last + STREAM_COUNT
      BY <1>1, <2>1, <2>2, <2>3 DEF ManagedSlot
    <2> QED BY <1>1, <2>3, <2>4 DEF SlotOK, StateOK, Tag, IsPlanned
  <1> QED BY <1>1, <1>2, <1>3, MaxTickAssumption DEF Ticks

(* A financial failure names a tick.                                       *)
LEMMA FailureTargetsType ==
  ASSUME NEW slot, NEW s \in StreamIds, NEW G, SlotOK(slot, s, G), IsPlanned(slot),
         NEW evidence \in Evidence
  PROVE  FinancialFailureTargets(slot.chain, evidence) \subseteq Ticks
  BY HasChainTag, MaxTickAssumption
     DEF FinancialFailureTargets, SlotOK, StateOK, ChainOK, IsPlanned, Evidence, OptTicks, Ticks,
         NoTick, CheckedAdd

-----------------------------------------------------------------------------
(* Applying a provider-status observation *)

(* Observing evidence gives a suspicion.                                   *)
LEMMA ObserveEvidenceType ==
  ASSUME NEW suspicion \in Suspicion, NEW evidence \in Evidence, NEW requested \in Ticks
  PROVE  ObserveEvidence(suspicion, evidence, requested) \in Suspicion
  BY DEF ObserveEvidence, Suspicion, NewSuspicion, OptTicks, STATUS_CONFIRMATIONS_REQUIRED, MinOf

(* Only the suspicion and the watermark of the chain change. *)
LEMMA ReplaceSuspicion ==
  ASSUME NEW slot, NEW s \in StreamIds, NEW G, SlotOK(slot, s, G), IsPlanned(slot),
         NEW suspicion \in Suspicion
  PROVE  /\ SlotOK([slot EXCEPT !.chain.suspicion = suspicion], s, G)
         /\ [slot EXCEPT !.chain.suspicion = suspicion].state = slot.state
         /\ [slot EXCEPT !.chain.suspicion = suspicion].chain.calls = slot.chain.calls
  <1> DEFINE new == [slot EXCEPT !.chain.suspicion = suspicion]
  <1>1. /\ new \in ManagedSlot
        /\ new.state = slot.state /\ new.restartAt = slot.restartAt
        /\ new.chain \in Chain
        /\ new.chain.calls = slot.chain.calls
        /\ new.chain.first = slot.chain.first /\ new.chain.last = slot.chain.last
        /\ new.chain.confirmed = slot.chain.confirmed
        /\ new.chain.preimage = slot.chain.preimage
    BY DEF SlotOK, ManagedSlot, Chain
  <1>2. ChainOK(slot.chain, s, G) => ChainOK(new.chain, s, G)
    BY <1>1 DEF ChainOK, CallOK, Remnant
  <1> QED BY <1>1, <1>2 DEF SlotOK, StateOK, Tag, OpenTail, IsPlanned

(* observe_status_evidence keeps a planned slot in order.                  *)
LEMMA ObserveStatusEvidenceOK ==
  ASSUME NEW slot, NEW s \in StreamIds, NEW G, SlotOK(slot, s, G), IsPlanned(slot),
         NEW evidence \in Evidence, NEW requested \in Ticks
  PROVE  /\ SlotOK(ObserveStatusEvidence(slot, evidence, requested).slot, s, G)
         /\ ObserveStatusEvidence(slot, evidence, requested).marks \subseteq Marks
         /\ ObserveStatusEvidence(slot, evidence, requested).slot.chain.calls
                \in {slot.chain.calls, {}}
  <1> DEFINE next == ObserveEvidence(slot.chain.suspicion, evidence, requested)
             suspected == [slot EXCEPT !.chain.suspicion = next]
             absent == evidence.kind = "Absent"
             after == IF absent THEN requested ELSE SaturatingAdd(requested, 1)
             result == ObserveStatusEvidence(slot, evidence, requested)
  <1>1. next \in Suspicion
    BY ObserveEvidenceType DEF SlotOK, ManagedSlot, Chain
  <1>2. /\ SlotOK(suspected, s, G) /\ IsPlanned(suspected)
        /\ suspected.chain.calls = slot.chain.calls
    BY <1>1, ReplaceSuspicion DEF IsPlanned, Tag
  <1>3. after \in Ticks /\ absent \in BOOLEAN
    BY SaturatingAddType
  <1> DEFINE restarted == BeginStatusRestart(suspected, after, absent)
             failed == MarkAll(FinancialFailureTargets(slot.chain, evidence), "Failed")
  <1>4. SlotOK(restarted, s, G) /\ restarted.chain \in {suspected.chain, NoChain}
    BY <1>2, <1>3, BeginStatusRestartOK
  <1>5. restarted.chain.calls \in {slot.chain.calls, {}}
    BY <1>2, <1>4 DEF NoChain
  <1>6. failed \subseteq Marks
    BY FailureTargetsType DEF MarkAll, Marks
  <1>7. \/ result = Result(slot, {})
        \/ result = Result(suspected, {})
        \/ result = Result(restarted, failed)
    BY DEF ObserveStatusEvidence, Outdated
  <1> HIDE DEF next, suspected, after, absent, restarted, failed, result
  <1>8. /\ SlotOK(result.slot, s, G)
        /\ result.marks \subseteq Marks
        /\ result.slot.chain.calls \in {slot.chain.calls, {}}
    BY <1>2, <1>4, <1>5, <1>6, <1>7 DEF Result
  <1> QED BY <1>8 DEF result

(* A planned slot that is acknowledged at a target of its own chain. *)
LEMMA AcknowledgedOK ==
  ASSUME NEW slot, NEW s \in StreamIds, NEW G, SlotOK(slot, s, G), IsPlanned(slot),
         NEW new \in ManagedSlot, new.state = Active,
         new.chain.first = slot.chain.first, new.chain.last = slot.chain.last,
         new.chain.preimage = slot.chain.preimage, new.chain.calls = slot.chain.calls,
         new.chain.confirmed \in slot.chain.first .. slot.chain.last,
         (new.chain.confirmed - slot.chain.first) % STREAM_COUNT = 0
  PROVE  SlotOK(new, s, G) /\ IsPlanned(new)
  <1>1. Tag(new) = "Active"
    BY DEF Tag, Active, Waiting
  <1>2. /\ ChainOK(slot.chain, s, G) /\ OpenTail(slot.chain, G) /\ G \in SUBSET Ticks
        /\ slot.chain.first \in Ticks
    BY DEF SlotOK, StateOK, IsPlanned, ChainOK
  <1>3. ChainOK(new.chain, s, G)
    BY <1>2 DEF ChainOK, CallOK, Remnant
  <1>4. new.chain.confirmed # NoTick
    BY <1>2, TicksType DEF Ticks, NoTick
  <1> QED BY <1>1, <1>2, <1>3, <1>4 DEF SlotOK, StateOK, OpenTail, IsPlanned

(* apply_confirmation_watermark keeps a slot in order, from Starting too.  *)
LEMMA ApplyConfirmationWatermarkOK ==
  ASSUME NEW slot, NEW s \in StreamIds, NEW G, SlotOK(slot, s, G), IsPlanned(slot),
         NEW seen \in Ticks, OwnsTarget(slot.chain, seen), NEW requested \in Ticks
  PROVE  LET result == ApplyConfirmationWatermark([slot EXCEPT !.state = Active], seen, requested)
         IN  /\ SlotOK(result.slot, s, G)
             /\ result.marks \subseteq Marks
             /\ result.slot.chain.calls \in {slot.chain.calls, {}}
  <1> DEFINE activated == [slot EXCEPT !.state = Active]
             old == activated.chain
             chain == IF old.confirmed # seen
                      THEN [old EXCEPT !.confirmed = seen, !.suspicion = NoSuspicion]
                      ELSE old
             unsuspected == [activated EXCEPT !.chain = [chain EXCEPT !.suspicion = NoSuspicion]]
             moved == [activated EXCEPT !.chain = chain]
             result == ApplyConfirmationWatermark(activated, seen, requested)
             observed == ObserveStatusEvidence(moved, Lag(seen + STREAM_COUNT), requested)
  <1>1. /\ Active \in SlotState /\ NoSuspicion \in Suspicion
        /\ slot \in ManagedSlot /\ slot.chain \in Chain /\ ChainOK(slot.chain, s, G)
    BY ActiveType, NoSuspicionType DEF SlotOK, StateOK, IsPlanned, ManagedSlot
  <1>2. /\ activated \in ManagedSlot /\ activated.state = Active /\ old = slot.chain
    BY <1>1 DEF ManagedSlot
  <1>3. /\ chain \in Chain
        /\ chain.first = old.first /\ chain.last = old.last
        /\ chain.preimage = old.preimage /\ chain.calls = old.calls
        /\ chain.confirmed = seen
    BY <1>1, <1>2, TicksType DEF Chain, OptTicks
  <1>4. seen \in slot.chain.first .. slot.chain.last /\ (seen - slot.chain.first) % STREAM_COUNT = 0
    BY <1>1, TicksType DEF OwnsTarget, ChainOK, Ticks
  <1> HIDE DEF chain
  <1>5. /\ moved \in ManagedSlot /\ moved.state = Active /\ moved.chain = chain
        /\ SlotOK(moved, s, G) /\ IsPlanned(moved) /\ moved.chain.calls = slot.chain.calls
    <2>1. moved \in ManagedSlot /\ moved.state = Active /\ moved.chain = chain
      BY <1>2, <1>3 DEF ManagedSlot
    <2> HIDE DEF moved
    <2> QED BY <1>2, <1>3, <1>4, <2>1, AcknowledgedOK
  <1>6. SlotOK(unsuspected, s, G) /\ unsuspected.chain.calls = slot.chain.calls
    <2>1. /\ unsuspected \in ManagedSlot /\ unsuspected.state = Active
          /\ unsuspected.chain.first = old.first /\ unsuspected.chain.last = old.last
          /\ unsuspected.chain.preimage = old.preimage /\ unsuspected.chain.calls = old.calls
          /\ unsuspected.chain.confirmed = seen
      BY <1>1, <1>2, <1>3 DEF ManagedSlot, Chain
    <2> HIDE DEF unsuspected
    <2> QED BY <1>2, <1>4, <2>1, AcknowledgedOK
  <1>7. old.confirmed # NoTick => SlotOK(activated, s, G)
    <2> SUFFICES ASSUME old.confirmed # NoTick PROVE SlotOK(activated, s, G)
      OBVIOUS
    <2>1. /\ slot.chain.confirmed \in slot.chain.first .. slot.chain.last
          /\ (slot.chain.confirmed - slot.chain.first) % STREAM_COUNT = 0
      BY <1>1, <1>2 DEF ChainOK
    <2> HIDE DEF activated
    <2> QED BY <1>2, <2>1, AcknowledgedOK
  <1>8. HasChain(activated)
    BY <1>2, HasChainTag DEF HasChain, IsPlanned
  <1>9. \/ result = Result(activated, {}) /\ old.confirmed # NoTick
        \/ result = Result(unsuspected, {})
        \/ result = Result(moved, {})
        \/ result = observed /\ seen + STREAM_COUNT <= MaxTick
    <2>1. seen # NoTick /\ (seen < old.confirmed => old.confirmed # NoTick)
      BY TicksType DEF Ticks, NoTick
    <2>2. CheckedAdd(seen, STREAM_COUNT) # NoTick => seen + STREAM_COUNT <= MaxTick
      BY DEF CheckedAdd
    <2> QED BY <1>8, <2>1, <2>2 DEF ApplyConfirmationWatermark, Repeated, chain
  <1>10. seen + STREAM_COUNT <= MaxTick =>
           /\ SlotOK(observed.slot, s, G) /\ observed.marks \subseteq Marks
           /\ observed.slot.chain.calls \in {slot.chain.calls, {}}
    <2> SUFFICES ASSUME seen + STREAM_COUNT <= MaxTick
                 PROVE  /\ SlotOK(observed.slot, s, G) /\ observed.marks \subseteq Marks
                        /\ observed.slot.chain.calls \in {slot.chain.calls, {}}
      OBVIOUS
    <2>1. Lag(seen + STREAM_COUNT) \in Evidence
      BY MaxTickAssumption DEF Lag, Evidence, OptTicks, Ticks
    <2> HIDE DEF moved
    <2> QED BY <1>5, <2>1, ObserveStatusEvidenceOK
  <1>11. activated.chain.calls = slot.chain.calls
    BY <1>2
  <1> HIDE DEF activated, unsuspected, moved, observed
  <1> SUFFICES /\ SlotOK(result.slot, s, G)
               /\ result.marks \subseteq Marks
               /\ result.slot.chain.calls \in {slot.chain.calls, {}}
    BY DEF activated
  <1> HIDE DEF result
  <1> QED BY <1>5, <1>6, <1>7, <1>9, <1>10, <1>11 DEF Result

(* Waiting and Restarting keep everything but what they know of absence. *)
LEMMA ObserveAbsenceOK ==
  ASSUME NEW slot, NEW s \in StreamIds, NEW G, SlotOK(slot, s, G),
         Tag(slot) \in {"Waiting", "Restarting"}, NEW seen \in OptTicks, NEW requested \in Ticks
  PROVE  LET new == [slot EXCEPT !.state = ObserveAbsence(@, seen, requested)]
         IN  SlotOK(new, s, G) /\ new.chain = slot.chain
  <1> DEFINE state == ObserveAbsence(slot.state, seen, requested)
             new == [slot EXCEPT !.state = ObserveAbsence(@, seen, requested)]
  <1>1. /\ slot \in ManagedSlot /\ slot.state \in SlotState
        /\ SaturatingAdd(requested, 1) \in Ticks
    BY SaturatingAddType DEF SlotOK, ManagedSlot
  <1>2. /\ state \in SlotState /\ state.tag = slot.state.tag /\ state.at = slot.state.at
        /\ state.reason = slot.state.reason
    BY <1>1 DEF ObserveAbsence, SlotState, MaxOf
  <1> HIDE DEF state
  <1>3. /\ new \in ManagedSlot /\ new.state = state /\ new.chain = slot.chain
        /\ new.restartAt = slot.restartAt
    BY <1>1, <1>2 DEF ManagedSlot, state
  <1> HIDE DEF new
  <1>4. SlotOK(new, s, G)
    BY <1>2, <1>3 DEF SlotOK, StateOK, Tag
  <1> QED BY <1>3, <1>4 DEF new

(* apply_status keeps a slot in order, whatever the response says.         *)
THEOREM ApplyStatusOK ==
  ASSUME NEW slot, NEW s \in StreamIds, NEW G, SlotOK(slot, s, G),
         NEW seen \in OptTicks, NEW requested \in Ticks
  PROVE  /\ SlotOK(ApplyStatus(slot, seen, requested).slot, s, G)
         /\ ApplyStatus(slot, seen, requested).marks \subseteq Marks
         /\ ApplyStatus(slot, seen, requested).slot.chain.calls \in {slot.chain.calls, {}}
  <1> DEFINE owned == HasChain(slot) /\ seen # NoTick /\ OwnsTarget(slot.chain, seen)
             evidence == IF seen = NoTick THEN Absent ELSE Foreign(seen)
             result == ApplyStatus(slot, seen, requested)
  <1>1. evidence \in Evidence
    BY DEF Absent, Foreign, Evidence, OptTicks
  <1>2. Tag(slot) \in SlotTags
    BY HasChainTag
  <1>3. CASE Tag(slot) \in {"Draining", "Drained"}
    <2>1. result = Result(slot, {})
      BY <1>3 DEF ApplyStatus, IsPlanned
    <2>2. result.slot = slot /\ result.marks = {}
      BY <2>1 DEF Result
    <2> QED BY <2>2
  <1>4. CASE Tag(slot) \in {"Waiting", "Restarting"}
    <2>1. result = Result([slot EXCEPT !.state = ObserveAbsence(@, seen, requested)], {})
      BY <1>4 DEF ApplyStatus, IsPlanned
    <2> DEFINE new == [slot EXCEPT !.state = ObserveAbsence(@, seen, requested)]
    <2>2. SlotOK(new, s, G) /\ new.chain = slot.chain
      BY <1>4, ObserveAbsenceOK
    <2>3. result.slot = new /\ result.marks = {}
      BY <2>1 DEF Result
    <2> HIDE DEF new
    <2> QED BY <2>2, <2>3
  <1>5. CASE IsPlanned(slot) /\ owned
    <2>1. result = ApplyConfirmationWatermark([slot EXCEPT !.state = Active], seen, requested)
      BY <1>5 DEF ApplyStatus, IsPlanned
    <2>2. seen \in Ticks /\ OwnsTarget(slot.chain, seen)
      BY <1>5 DEF OptTicks
    <2> DEFINE applied == ApplyConfirmationWatermark([slot EXCEPT !.state = Active], seen, requested)
    <2>3. /\ SlotOK(applied.slot, s, G) /\ applied.marks \subseteq Marks
          /\ applied.slot.chain.calls \in {slot.chain.calls, {}}
      BY <1>5, <2>2, ApplyConfirmationWatermarkOK
    <2> QED BY <2>1, <2>3
  <1>6. CASE IsPlanned(slot) /\ ~owned
    <2>1. \/ result = Result(slot, {})
          \/ result = ObserveStatusEvidence(slot, evidence, requested)
      BY <1>6 DEF ApplyStatus, IsPlanned
    <2> HIDE DEF evidence
    <2>2. CASE result = Result(slot, {})
      BY <2>2 DEF Result
    <2>3. CASE result = ObserveStatusEvidence(slot, evidence, requested)
      BY <1>1, <1>6, <2>3, ObserveStatusEvidenceOK
    <2> QED BY <2>1, <2>2, <2>3
  <1> QED BY <1>2, <1>3, <1>4, <1>5, <1>6 DEF SlotTags, IsPlanned

-----------------------------------------------------------------------------
(* Missed targets *)

(* complete_drain leaves a slot in order, without a chain.                 *)
LEMMA CompleteDrainOK ==
  ASSUME NEW slot, NEW s \in StreamIds, NEW G, SlotOK(slot, s, G), NEW outcome \in DrainOutcomes
  PROVE  /\ SlotOK(CompleteDrain(slot, outcome), s, G)
         /\ CompleteDrain(slot, outcome).chain = NoChain
  <1> DEFINE new == CompleteDrain(slot, outcome)
  <1>1. Drained(outcome) \in SlotState /\ Drained(outcome).tag = "Drained"
    BY TicksType DEF Drained, Waiting, SlotState, SlotTags, OptTicks
  <1>2. new \in ManagedSlot /\ new.state = Drained(outcome) /\ new.chain = NoChain
    BY <1>1, NoChainType DEF CompleteDrain, SlotOK, ManagedSlot
  <1> HIDE DEF new
  <1>3. SlotOK(new, s, G)
    BY <1>1, <1>2 DEF SlotOK, StateOK, Tag
  <1> QED BY <1>2, <1>3 DEF new

(* expire_calls keeps a slot in order and never revives a chain.           *)
LEMMA ExpireCallsOK ==
  ASSUME NEW slot, NEW s \in StreamIds, NEW G, SlotOK(slot, s, G), NEW tick \in Ticks
  PROVE  /\ SlotOK(ExpireCalls(slot, tick).slot, s, G)
         /\ ExpireCalls(slot, tick).marks \subseteq Marks
         /\ \/ CallsFrom(ExpireCalls(slot, tick).slot.chain.calls, slot.chain.calls)
            \/ ExpireCalls(slot, tick).slot.chain = NoChain
         /\ IsPlanned(ExpireCalls(slot, tick).slot) => IsPlanned(slot)
  <1> DEFINE calls == {ExpireCall(c, tick) : c \in slot.chain.calls}
             expired == [slot EXCEPT !.chain.calls = {ExpireCall(c, tick) : c \in @}]
             lost == LoseChain(expired, SaturatingAdd(tick, 1), FALSE)
             drained == CompleteDrain(expired, "Failed")
             result == ExpireCalls(slot, tick)
  <1>1. CallsFrom(calls, slot.chain.calls)
    BY ExpireCallsFrom
  <1>2. expired = [slot EXCEPT !.chain.calls = calls]
    OBVIOUS
  <1> HIDE DEF calls
  <1>3. SlotOK(expired, s, G)
    BY <1>1, <1>2, ReplaceCalls
  <1>4. expired.chain.calls = calls /\ expired.state = slot.state
    BY <1>2 DEF SlotOK, ManagedSlot, Chain
  <1>5. SaturatingAdd(tick, 1) \in Ticks
    BY SaturatingAddType
  <1>6. \/ result.slot = expired
        \/ IsPlanned(slot) /\ result.slot = lost
        \/ result.slot = drained
    BY DEF ExpireCalls, Result, IsPlanned
  <1>7. result.marks \subseteq Marks
    <2>1. ExpiryFailures(slot, tick) \subseteq {c.target : c \in slot.chain.calls}
      BY DEF ExpiryFailures, OverdueOwn
    <2> QED BY <2>1, CallsDistinct DEF ExpireCalls, Result, MarkAll, Marks, PlannedCall
  <1> HIDE DEF expired, lost, drained, result
  <1>8. IsPlanned(slot) => SlotOK(lost, s, G) /\ lost.chain = NoChain /\ ~IsPlanned(lost)
    <2> SUFFICES ASSUME IsPlanned(slot)
                 PROVE  SlotOK(lost, s, G) /\ lost.chain = NoChain /\ ~IsPlanned(lost)
      OBVIOUS
    <2>1. IsPlanned(expired)
      BY <1>4 DEF IsPlanned, Tag
    <2>2. /\ SlotOK(lost, s, G) /\ lost.chain = NoChain
          /\ Tag(lost) \in {"Waiting", "Drained"}
      BY <1>3, <1>5, <2>1, LoseChainOK DEF lost
    <2> QED BY <2>2 DEF IsPlanned
  <1>9. SlotOK(drained, s, G) /\ drained.chain = NoChain /\ ~IsPlanned(drained)
    <2>1. SlotOK(drained, s, G) /\ drained.chain = NoChain
      BY <1>3, CompleteDrainOK DEF drained, DrainOutcomes
    <2>2. Tag(drained) = "Drained"
      BY <1>3 DEF drained, CompleteDrain, Drained, Waiting, Tag, SlotOK, ManagedSlot
    <2> QED BY <2>1, <2>2 DEF IsPlanned
  <1>10. IsPlanned(expired) => IsPlanned(slot)
    BY <1>4 DEF IsPlanned, Tag
  <1> SUFFICES /\ SlotOK(result.slot, s, G) /\ result.marks \subseteq Marks
               /\ \/ CallsFrom(result.slot.chain.calls, slot.chain.calls)
                  \/ result.slot.chain = NoChain
               /\ IsPlanned(result.slot) => IsPlanned(slot)
    BY DEF result
  <1> QED BY <1>1, <1>3, <1>4, <1>6, <1>7, <1>8, <1>9, <1>10

-----------------------------------------------------------------------------
(* Planning: handlers that sign *)

Targets(calls) == {c.target : c \in calls}

(* Every call is an old one or lies above everything signed before. *)
SignsAbove(new, old, G) ==
    \A c \in new : (\E d \in old : SameBytes(c, d)) \/ \A t \in G : c.target > t

(* What a handler that may sign delivers. *)
PlanOK(new, slot, s, G) ==
    /\ SlotOK(new, s, G \cup Targets(new.chain.calls))
    /\ SignsAbove(new.chain.calls, slot.chain.calls, G)

(* The signed targets may be narrowed to any set that holds the queue. *)
LEMMA NarrowSigned ==
  ASSUME NEW slot, NEW s, NEW G, SlotOK(slot, s, G),
         NEW H \in SUBSET G, Targets(slot.chain.calls) \subseteq H
  PROVE  SlotOK(slot, s, H)
  <1>1. H \in SUBSET Ticks
    BY DEF SlotOK
  <1>2. ChainOK(slot.chain, s, G) => ChainOK(slot.chain, s, H)
    BY DEF ChainOK, CallOK, Targets
  <1> QED BY <1>1, <1>2 DEF SlotOK, StateOK, OpenTail

(* A handler that signs nothing. *)
LEMMA SignsNothing ==
  ASSUME NEW slot, NEW s, NEW G, NEW new, SlotOK(new, s, G),
         CallsFrom(new.chain.calls, slot.chain.calls) \/ new.chain.calls \in {slot.chain.calls, {}}
  PROVE  PlanOK(new, slot, s, G)
  <1>1. Targets(new.chain.calls) \subseteq G
    BY DEF SlotOK, StateOK, ChainOK, CallOK, Targets, NoChain
  <1>2. SlotOK(new, s, G \cup Targets(new.chain.calls))
    <2>1. G \cup Targets(new.chain.calls) = G
      BY <1>1
    <2> QED BY <2>1
  <1>3. SignsAbove(new.chain.calls, slot.chain.calls, G)
    BY DEF SignsAbove, CallsFrom, SameBytes
  <1> QED BY <1>2, <1>3 DEF PlanOK

(* Two handlers that sign compose.                                         *)
LEMMA PlanTwice ==
  ASSUME NEW slot, NEW s, NEW G, NEW mid, NEW new,
         PlanOK(mid, slot, s, G), PlanOK(new, mid, s, G \cup Targets(mid.chain.calls))
  PROVE  PlanOK(new, slot, s, G)
  <1>1. SlotOK(new, s, G \cup Targets(new.chain.calls))
    <2> DEFINE big == (G \cup Targets(mid.chain.calls)) \cup Targets(new.chain.calls)
    <2>1. SlotOK(new, s, big) /\ G \cup Targets(new.chain.calls) \subseteq big
      BY DEF PlanOK
    <2> HIDE DEF big
    <2> QED BY <2>1, NarrowSigned
  <1>2. SignsAbove(new.chain.calls, slot.chain.calls, G)
    <2> SUFFICES ASSUME NEW c \in new.chain.calls
                 PROVE  (\E d \in slot.chain.calls : SameBytes(c, d)) \/ \A t \in G : c.target > t
      BY DEF SignsAbove
    <2>1. CASE \A t \in G \cup Targets(mid.chain.calls) : c.target > t
      BY <2>1
    <2>2. CASE \E d \in mid.chain.calls : SameBytes(c, d)
      <3>1. PICK d \in mid.chain.calls : SameBytes(c, d)
        BY <2>2
      <3> QED BY <3>1 DEF PlanOK, SignsAbove, SameBytes
    <2> QED BY <2>1, <2>2 DEF PlanOK, SignsAbove
  <1> QED BY <1>1, <1>2 DEF PlanOK

(* The stream tick found is the first one of the stream from there on. *)
LEMMA NextStreamTickOK ==
  ASSUME NEW e \in Nat, NEW s \in StreamIds, NextStreamTick(e, s) # NoTick
  PROVE  /\ NextStreamTick(e, s) \in Ticks /\ NextStreamTick(e, s) \in e .. e + 2
         /\ NextStreamTick(e, s) % STREAM_COUNT = s
  BY MaxTickAssumption DEF NextStreamTick, CheckedAdd, Ticks, NoTick

(* A new call is a planned call with the fields it was given.              *)
LEMMA NewCallType ==
  ASSUME NEW t \in Ticks, NEW k \in CallKinds, NEW r \in OptTicks
  PROVE  /\ NewCall(t, k, r) \in PlannedCall
         /\ NewCall(t, k, r).target = t /\ NewCall(t, k, r).kind = k /\ NewCall(t, k, r).reveal = r
  BY DEF NewCall, PlannedCall, BroadcastStates

(* start_if_ready signs above everything signed before, the frozen tail included. *)
LEMMA StartIfReadyOK ==
  ASSUME NEW slot, NEW s \in StreamIds, NEW G, SlotOK(slot, s, G), NEW tick \in Ticks
  PROVE  /\ PlanOK(StartIfReady(slot, s, tick).slot, slot, s, G)
         /\ StartIfReady(slot, s, tick).marks = {}
  <1> DEFINE earliest == MaxOf(tick + SEND_LEAD_TICKS, slot.restartAt)
             target == NextStreamTick(earliest, s)
             call == NewCall(target, "FirstCommit", NoTick)
             calls == slot.chain.calls \cup {call}
             chain == [NoChain EXCEPT !.first = target, !.last = target, !.preimage = target,
                                      !.calls = calls]
             new == [slot EXCEPT !.chain = chain, !.state = Starting(target)]
             result == StartIfReady(slot, s, tick)
             H == G \cup Targets(calls)
  <1>1. CASE result.slot = slot /\ result.marks = {}
    <2>1. PlanOK(slot, slot, s, G)
      BY SignsNothing
    <2> QED BY <1>1, <2>1
  <1>2. CASE MayStart(slot) /\ target # NoTick /\ result = Result(new, {})
    <2>1. slot \in ManagedSlot /\ slot.restartAt \in Ticks /\ G \in SUBSET Ticks
      BY DEF SlotOK, ManagedSlot
    <2>2. earliest \in Nat /\ earliest >= slot.restartAt
      BY <2>1, TicksType DEF MaxOf, Ticks, SEND_LEAD_TICKS
    <2> HIDE DEF earliest
    <2>3. target \in Ticks /\ target >= slot.restartAt /\ target % STREAM_COUNT = s
      BY <1>2, <2>1, <2>2, NextStreamTickOK, TicksType DEF Ticks
    <2> HIDE DEF target
    <2>4. /\ \A t \in G : t < slot.restartAt
          /\ \/ slot.chain.calls = {}
             \/ ChainOK(slot.chain, s, G) /\ OpenTail(slot.chain, G)
      <3>1. Tag(slot) \in {"Waiting", "Restarting"}
        BY <1>2 DEF MayStart
      <3>2. CASE Tag(slot) = "Waiting"
        BY <3>2 DEF SlotOK, StateOK, NoChain
      <3>3. CASE Tag(slot) = "Restarting"
        BY <2>1, <3>3, TicksType DEF SlotOK, StateOK, OpenTail, ChainOK, Ticks
      <3> QED BY <3>1, <3>2, <3>3
    <2>5. \A t \in G : t < target
      BY <2>1, <2>3, <2>4, TicksType DEF Ticks
    <2>6. /\ call \in PlannedCall /\ call.target = target /\ call.kind = "FirstCommit"
          /\ call.reveal = NoTick
      BY <2>3, NewCallType DEF CallKinds, OptTicks
    <2> HIDE DEF call
    <2>7. \A c \in slot.chain.calls : /\ c \in PlannedCall /\ c.target \in G
                                      /\ c.kind # "TerminalReveal"
                                      /\ CallOK(c, slot.chain, s, G)
      BY <2>4, CallsDistinct DEF ChainOK, CallOK, OpenTail
    <2>8. /\ calls \subseteq PlannedCall
          /\ \A c \in calls : c.target <= target
          /\ H \in SUBSET Ticks
          /\ \A t \in H : t <= target
      <3>1. calls \subseteq PlannedCall
        BY <2>6, <2>7
      <3>2. H = G \cup {target}
        BY <2>6, <2>7 DEF Targets
      <3>3. \A t \in H : t \in Ticks /\ t <= target
        BY <2>1, <2>3, <2>5, <3>2, TicksType DEF Ticks
      <3>4. \A c \in calls : c.target \in H
        BY DEF Targets
      <3> QED BY <3>1, <3>3, <3>4
    <2>9. /\ chain \in Chain /\ chain.first = target /\ chain.last = target
          /\ chain.preimage = target /\ chain.calls = calls /\ chain.confirmed = NoTick
      <3> HIDE DEF calls
      <3> QED BY <2>3, <2>8, NoChainType DEF NoChain, Chain, OptTicks
    <2> HIDE DEF chain
    <2>10. ChainOK(chain, s, H)
      <3>1. \A c \in calls : CallOK(c, chain, s, H)
        <4> SUFFICES ASSUME NEW c \in calls PROVE CallOK(c, chain, s, H)
          OBVIOUS
        <4>1. c.target \in H
          BY DEF Targets
        <4>2. CASE c = call
          BY <2>3, <2>6, <2>9, <4>1, <4>2, TicksType DEF CallOK, Remnant
        <4>3. CASE c \in slot.chain.calls
          BY <2>3, <2>5, <2>7, <2>9, <4>1, <4>3, TicksType DEF CallOK, Remnant, Ticks
        <4> QED BY <4>2, <4>3
      <3>2. DistinctTargets(calls)
        BY <2>1, <2>3, <2>5, <2>6, <2>7, CallsDistinct, TicksType DEF DistinctTargets, Ticks
      <3> HIDE DEF calls, H
      <3> QED BY <2>3, <2>9, <3>1, <3>2, TicksType DEF ChainOK, Ticks
    <2>11. OpenTail(chain, H)
      BY <2>6, <2>7, <2>8, <2>9 DEF OpenTail
    <2>12. Starting(target) \in SlotState /\ Starting(target).tag = "Starting"
           /\ Starting(target).at = target
      BY <2>3, TicksType DEF Starting, Waiting, SlotState, SlotTags, OptTicks
    <2>13. new \in ManagedSlot /\ new.state = Starting(target) /\ new.chain = chain
      BY <2>1, <2>9, <2>12 DEF ManagedSlot
    <2>14. result.slot = new /\ result.marks = {}
      BY <1>2 DEF Result
    <2> HIDE DEF new, result, H
    <2>15. SlotOK(new, s, H)
      BY <2>8, <2>9, <2>10, <2>11, <2>12, <2>13 DEF SlotOK, StateOK, Tag
    <2>16. SignsAbove(new.chain.calls, slot.chain.calls, G)
      BY <2>1, <2>3, <2>5, <2>6, <2>9, <2>13, TicksType DEF SignsAbove, SameBytes, Ticks
    <2>17. PlanOK(new, slot, s, G)
      BY <2>9, <2>13, <2>15, <2>16 DEF PlanOK, H
    <2> QED BY <2>14, <2>17 DEF result
  <1>3. \/ result.slot = slot /\ result.marks = {}
        \/ MayStart(slot) /\ target # NoTick /\ result = Result(new, {})
    BY DEF StartIfReady, Result, Error
  <1> QED BY <1>1, <1>2, <1>3

(* One round of the planning loop keeps a planned slot in order. *)
LEMMA PlanNextOK ==
  ASSUME NEW slot, NEW s \in StreamIds, NEW G, SlotOK(slot, s, G), IsPlanned(slot),
         NEW horizon \in Nat
  PROVE  LET new == [slot EXCEPT !.chain = PlanNext(@, horizon)]
         IN  PlanOK(new, slot, s, G) /\ IsPlanned(new)
  <1> DEFINE target == slot.chain.last + STREAM_COUNT
             call == NewCall(target, "RevealAndCommit", slot.chain.preimage)
             calls == slot.chain.calls \cup {call}
             chain == PlanNext(slot.chain, horizon)
             new == [slot EXCEPT !.chain = PlanNext(@, horizon)]
             H == G \cup Targets(calls)
  <1>1. /\ slot \in ManagedSlot /\ slot.chain \in Chain /\ G \in SUBSET Ticks
        /\ ChainOK(slot.chain, s, G) /\ OpenTail(slot.chain, G)
    BY DEF SlotOK, StateOK, ManagedSlot, IsPlanned
  <1>2. CASE ~PlansNext(slot.chain, horizon)
    <2>1. new = slot
      BY <1>1, <1>2 DEF PlanNext, ManagedSlot
    <2>2. PlanOK(slot, slot, s, G)
      BY SignsNothing
    <2> QED BY <2>1, <2>2
  <1>3. CASE PlansNext(slot.chain, horizon)
    <2>1. target \in Ticks /\ slot.chain.first \in Ticks /\ slot.chain.last \in Ticks
          /\ target % STREAM_COUNT = s /\ \A t \in G : t < target
      BY <1>1, <1>3, MaxTickAssumption DEF PlansNext, CheckedAdd, ChainOK, OpenTail, Ticks
    <2>2. /\ call \in PlannedCall /\ call.target = target /\ call.kind = "RevealAndCommit"
          /\ call.reveal = slot.chain.last
      BY <1>1, <2>1, NewCallType DEF CallKinds, OptTicks, ChainOK
    <2>3. chain = [slot.chain EXCEPT !.calls = calls, !.last = target, !.preimage = target]
      BY <1>3 DEF PlanNext
    <2> HIDE DEF call
    <2>4. \A c \in slot.chain.calls : /\ c \in PlannedCall /\ c.target \in G
                                      /\ c.kind # "TerminalReveal"
                                      /\ CallOK(c, slot.chain, s, G)
      BY <1>1, CallsDistinct DEF ChainOK, CallOK, OpenTail
    <2>5. calls \subseteq PlannedCall /\ H \in SUBSET Ticks /\ \A t \in H : t <= target
      <3>1. calls \subseteq PlannedCall
        BY <2>2, <2>4
      <3>2. H = G \cup {target}
        BY <2>2, <2>4 DEF Targets
      <3>3. \A t \in H : t \in Ticks /\ t <= target
        BY <1>1, <2>1, <3>2, TicksType DEF Ticks
      <3> QED BY <3>1, <3>3
    <2>6. /\ chain \in Chain /\ chain.first = slot.chain.first /\ chain.last = target
          /\ chain.preimage = target /\ chain.calls = calls
          /\ chain.confirmed = slot.chain.confirmed
      <3> HIDE DEF calls, chain, target
      <3> QED BY <1>1, <2>1, <2>3, <2>5 DEF Chain, OptTicks
    <2> HIDE DEF chain
    <2>7. \A c \in calls : CallOK(c, chain, s, H)
      <3> SUFFICES ASSUME NEW c \in calls PROVE CallOK(c, chain, s, H)
        OBVIOUS
      <3>1. c.target \in H
        BY DEF Targets
      <3>2. CASE c = call
        BY <1>1, <2>1, <2>2, <2>6, <3>1, <3>2, TicksType DEF CallOK, Remnant, ChainOK, Ticks
      <3>3. CASE c \in slot.chain.calls
        BY <2>1, <2>4, <2>6, <3>1, <3>3, TicksType DEF CallOK, Remnant, Ticks
      <3> QED BY <3>2, <3>3
    <2>8. DistinctTargets(calls)
      BY <1>1, <2>1, <2>2, <2>4, CallsDistinct, TicksType DEF DistinctTargets, Ticks
    <2>9. OpenTail(chain, H)
      BY <2>2, <2>4, <2>5, <2>6 DEF OpenTail
    <2> HIDE DEF calls, H, target
    <2>10. target >= slot.chain.last
      BY <2>1 DEF target, Ticks
    <2>11. ChainOK(chain, s, H)
      BY <1>1, <2>1, <2>6, <2>7, <2>8, <2>10, TicksType DEF ChainOK, Ticks
    <2>12. new \in ManagedSlot /\ new.state = slot.state /\ new.chain = chain
      BY <1>1, <2>6 DEF ManagedSlot, chain
    <2> HIDE DEF new
    <2>13. SlotOK(new, s, H) /\ IsPlanned(new)
      BY <2>5, <2>6, <2>9, <2>11, <2>12 DEF SlotOK, StateOK, Tag, IsPlanned
    <2>14. SignsAbove(new.chain.calls, slot.chain.calls, G)
      BY <1>1, <2>1, <2>2, <2>6, <2>12, TicksType DEF SignsAbove, SameBytes, Ticks, calls
    <2>15. PlanOK(new, slot, s, G)
      BY <2>6, <2>12, <2>13, <2>14 DEF PlanOK, H
    <2> QED BY <2>13, <2>15 DEF new
  <1> QED BY <1>2, <1>3

(* The planning loop ends after two rounds: the next target lies above the *)
(* tick, and the horizon only six ticks ahead of it.                       *)
THEOREM LoopEndsAfterTwoRounds ==
  ASSUME NEW slot, NEW s \in StreamIds, NEW G, SlotOK(slot, s, G), IsPlanned(slot),
         NEW tick \in Ticks, tick < slot.chain.last + STREAM_COUNT
  PROVE  LET horizon == tick + SEND_LEAD_TICKS
         IN  ~PlansNext(PlanNext(PlanNext(slot.chain, horizon), horizon), horizon)
  <1> DEFINE horizon == tick + SEND_LEAD_TICKS
             one == PlanNext(slot.chain, horizon)
             two == PlanNext(one, horizon)
  <1>1. slot.chain \in Chain /\ slot.chain.last \in Int /\ tick \in Int
    BY TicksType DEF SlotOK, StateOK, IsPlanned, ChainOK, ManagedSlot, Ticks
  <1>2. \A chain : ~PlansNext(chain, horizon) => PlanNext(chain, horizon) = chain
    BY DEF PlanNext
  <1>3. PlansNext(slot.chain, horizon) => one.last = slot.chain.last + STREAM_COUNT
    BY <1>1 DEF PlanNext, Chain
  <1>4. PlansNext(one, horizon) => two.last = one.last + STREAM_COUNT
    <2>1. DOMAIN one = DOMAIN slot.chain /\ "last" \in DOMAIN slot.chain
      BY <1>1 DEF PlanNext, Chain
    <2> HIDE DEF one
    <2> QED BY <2>1 DEF PlanNext
  <1>5. \A chain : PlansNext(chain, horizon) => chain.last + STREAM_COUNT <= horizon
    BY DEF PlansNext
  <1> HIDE DEF one, two
  <1>6. CASE ~PlansNext(slot.chain, horizon)
    BY <1>2, <1>6 DEF one, two
  <1>7. CASE PlansNext(slot.chain, horizon) /\ ~PlansNext(one, horizon)
    BY <1>2, <1>7 DEF two, one
  <1>8. CASE PlansNext(slot.chain, horizon) /\ PlansNext(one, horizon)
    <2>1. two.last + STREAM_COUNT = slot.chain.last + 9 /\ slot.chain.last + 9 > horizon
      BY <1>1, <1>3, <1>4, <1>8 DEF SEND_LEAD_TICKS
    <2>2. ~PlansNext(two, horizon)
      BY <1>1, <1>5, <2>1 DEF SEND_LEAD_TICKS
    <2> QED BY <2>2 DEF one, two
  <1> QED BY <1>6, <1>7, <1>8

(* extend_chain signs only past the tail of the chain.                     *)
LEMMA ExtendChainOK ==
  ASSUME NEW slot, NEW s \in StreamIds, NEW G, SlotOK(slot, s, G), NEW tick \in Ticks
  PROVE  /\ PlanOK(ExtendChain(slot, s, tick).slot, slot, s, G)
         /\ ExtendChain(slot, s, tick).marks \subseteq Marks
  <1> DEFINE next == CheckedAdd(slot.chain.last, STREAM_COUNT)
             expired == ExpireCalls(slot, tick)
             lost == LoseChain(expired.slot, SaturatingAdd(tick, 1), FALSE)
             horizon == tick + SEND_LEAD_TICKS
             one == [slot EXCEPT !.chain = PlanNext(@, horizon)]
             two == [one EXCEPT !.chain = PlanNext(@, horizon)]
             both == [slot EXCEPT !.chain = PlanNext(PlanNext(@, horizon), horizon)]
             result == ExtendChain(slot, s, tick)
             missed == MarkAll({next}, "Failed")
  <1>1. /\ SlotOK(expired.slot, s, G) /\ expired.marks \subseteq Marks
        /\ \/ CallsFrom(expired.slot.chain.calls, slot.chain.calls)
           \/ expired.slot.chain = NoChain
        /\ IsPlanned(expired.slot) => IsPlanned(slot)
    BY ExpireCallsOK
  <1>2. horizon \in Nat /\ SaturatingAdd(tick, 1) \in Ticks
    <2>1. horizon \in Nat
      BY TicksType DEF Ticks, SEND_LEAD_TICKS
    <2> QED BY <2>1, SaturatingAddType
  <1>3. \/ result.slot = slot /\ result.marks = {}
        \/ result = expired
        \/ /\ IsPlanned(expired.slot)
           /\ result.slot = lost /\ result.marks = expired.marks \cup missed
           /\ HasChain(slot) /\ next # NoTick
        \/ /\ IsPlanned(slot)
           /\ result.slot = both /\ result.marks = {}
    BY DEF ExtendChain, Result, Error
  <1> HIDE DEF expired, result
  <1> SUFFICES PlanOK(result.slot, slot, s, G) /\ result.marks \subseteq Marks
    BY DEF result
  <1>4. CASE result.slot = slot /\ result.marks = {}
    <2>1. PlanOK(slot, slot, s, G)
      BY SignsNothing
    <2> QED BY <1>4, <2>1
  <1>5. CASE result = expired
    <2>1. PlanOK(expired.slot, slot, s, G)
      BY <1>1, SignsNothing DEF NoChain
    <2> QED BY <1>1, <1>5, <2>1
  <1>6. CASE /\ IsPlanned(expired.slot)
             /\ result.slot = lost /\ result.marks = expired.marks \cup missed
             /\ HasChain(slot) /\ next # NoTick
    <2>1. SlotOK(lost, s, G) /\ lost.chain = NoChain
      BY <1>1, <1>2, <1>6, LoseChainOK
    <2> HIDE DEF lost
    <2>2. PlanOK(lost, slot, s, G)
      BY <2>1, SignsNothing DEF NoChain
    <2>3. slot.chain.last \in Ticks
      BY <1>6, HasChainTag DEF SlotOK, StateOK, ChainOK
    <2>4. next \in Ticks
      BY <1>6, <2>3, MaxTickAssumption DEF CheckedAdd, Ticks, NoTick
    <2>5. missed \subseteq Marks
      BY <2>4 DEF MarkAll, Marks
    <2> QED BY <1>1, <1>6, <2>2, <2>5
  <1>7. CASE IsPlanned(slot) /\ result.slot = both /\ result.marks = {}
    <2>1. PlanOK(one, slot, s, G) /\ IsPlanned(one)
      BY <1>2, <1>7, PlanNextOK
    <2>2. SlotOK(one, s, G \cup Targets(one.chain.calls))
      BY <2>1 DEF PlanOK
    <2>3. both = two
      BY DEF SlotOK, ManagedSlot
    <2> HIDE DEF one
    <2>4. PlanOK(two, one, s, G \cup Targets(one.chain.calls))
      BY <1>2, <2>1, <2>2, PlanNextOK
    <2> HIDE DEF two, both
    <2>5. PlanOK(both, slot, s, G)
      BY <2>1, <2>3, <2>4, PlanTwice
    <2> QED BY <1>7, <2>5
  <1> QED BY <1>3, <1>4, <1>5, <1>6, <1>7

(* Planning a slot at any tick keeps it in order and signs only fresh targets. *)
THEOREM PlanSlotOK ==
  ASSUME NEW slot, NEW s \in StreamIds, NEW G, SlotOK(slot, s, G), NEW tick \in Ticks
  PROVE  /\ PlanOK(PlanSlot(slot, s, tick).slot, slot, s, G)
         /\ PlanSlot(slot, s, tick).marks \subseteq Marks
  <1> DEFINE started == StartIfReady(slot, s, tick)
             extended == ExtendChain(started.slot, s, tick)
             H == G \cup Targets(started.slot.chain.calls)
  <1>1. PlanOK(started.slot, slot, s, G) /\ started.marks = {}
    BY StartIfReadyOK
  <1>2. SlotOK(started.slot, s, H)
    BY <1>1 DEF PlanOK
  <1>3. PlanOK(extended.slot, started.slot, s, H) /\ extended.marks \subseteq Marks
    BY <1>2, ExtendChainOK
  <1>4. PlanOK(extended.slot, slot, s, G)
    BY <1>1, <1>3, PlanTwice
  <1>5. PlanSlot(slot, s, tick) \in {started, extended}
    BY DEF PlanSlot
  <1> QED BY <1>1, <1>3, <1>4, <1>5

(* The terminal reveal goes three ticks past the tail. *)
LEMMA AddTerminalOK ==
  ASSUME NEW slot, NEW s \in StreamIds, NEW G, SlotOK(slot, s, G), IsPlanned(slot),
         NEW reason \in DrainReasons, slot.chain.last + STREAM_COUNT <= MaxTick
  PROVE  LET terminal == slot.chain.last + STREAM_COUNT
         IN  PlanOK([slot EXCEPT !.chain.calls = @ \cup
                                     {NewCall(terminal, "TerminalReveal", slot.chain.preimage)},
                                 !.state = Draining(reason, terminal)], slot, s, G)
  <1> DEFINE target == slot.chain.last + STREAM_COUNT
             call == NewCall(target, "TerminalReveal", slot.chain.preimage)
             calls == slot.chain.calls \cup {call}
             new == [slot EXCEPT !.chain.calls = @ \cup {call}, !.state = Draining(reason, target)]
             H == G \cup Targets(calls)
  <1>1. /\ slot \in ManagedSlot /\ slot.chain \in Chain /\ G \in SUBSET Ticks
        /\ ChainOK(slot.chain, s, G) /\ OpenTail(slot.chain, G)
    BY DEF SlotOK, StateOK, ManagedSlot, IsPlanned
  <1>2. target \in Ticks /\ slot.chain.first \in Ticks /\ slot.chain.last \in Ticks
        /\ target % STREAM_COUNT = s /\ (\A t \in G : t < target) /\ slot.chain.first < target
    BY <1>1, MaxTickAssumption DEF ChainOK, OpenTail, Ticks
  <1>3. /\ call \in PlannedCall /\ call.target = target /\ call.kind = "TerminalReveal"
        /\ call.reveal = slot.chain.last
    BY <1>1, <1>2, NewCallType DEF CallKinds, OptTicks, ChainOK
  <1> HIDE DEF call
  <1>4. \A c \in slot.chain.calls : /\ c \in PlannedCall /\ c.target \in G
                                    /\ c.kind # "TerminalReveal"
                                    /\ CallOK(c, slot.chain, s, G)
    BY <1>1, CallsDistinct DEF ChainOK, CallOK, OpenTail
  <1>5. H \in SUBSET Ticks
    <2>1. H = G \cup {target}
      BY <1>3, <1>4 DEF Targets
    <2> QED BY <1>1, <1>2, <2>1
  <1>6. calls \subseteq PlannedCall
    BY <1>3, <1>4
  <1>7. /\ Draining(reason, target) \in SlotState
        /\ Draining(reason, target).tag = "Draining" /\ Draining(reason, target).at = target
    BY <1>2, TicksType DEF Draining, Waiting, SlotState, SlotTags, OptTicks
  <1>8. /\ new \in ManagedSlot /\ new.state = Draining(reason, target)
        /\ new.chain.first = slot.chain.first /\ new.chain.last = slot.chain.last
        /\ new.chain.preimage = slot.chain.preimage /\ new.chain.calls = calls
        /\ new.chain.confirmed = slot.chain.confirmed
    <2> HIDE DEF target
    <2> QED BY <1>1, <1>6, <1>7 DEF ManagedSlot, Chain
  <1> HIDE DEF new
  <1>9. \A c \in calls : CallOK(c, new.chain, s, H)
    <2> SUFFICES ASSUME NEW c \in calls PROVE CallOK(c, new.chain, s, H)
      OBVIOUS
    <2>1. c.target \in H
      BY DEF Targets
    <2>2. CASE c = call
      BY <1>1, <1>2, <1>3, <1>8, <2>1, <2>2, TicksType DEF CallOK, Remnant, ChainOK, Ticks
    <2>3. CASE c \in slot.chain.calls
      BY <1>2, <1>4, <1>8, <2>1, <2>3, TicksType DEF CallOK, Remnant, Ticks
    <2> QED BY <2>2, <2>3
  <1>10. DistinctTargets(calls)
    BY <1>1, <1>2, <1>3, <1>4, CallsDistinct, TicksType DEF DistinctTargets, Ticks
  <1>11. \A c \in calls : IF c.kind = "TerminalReveal" THEN c.target = target
                          ELSE c.target <= slot.chain.last
    BY <1>1, <1>2, <1>3, <1>4 DEF OpenTail
  <1>12. SignsAbove(calls, slot.chain.calls, G)
    BY <1>1, <1>2, <1>3, TicksType DEF SignsAbove, SameBytes, Ticks
  <1> HIDE DEF calls, H
  <1>13. ChainOK(new.chain, s, H)
    BY <1>1, <1>8, <1>9, <1>10 DEF ChainOK
  <1>14. SlotOK(new, s, H)
    BY <1>5, <1>7, <1>8, <1>11, <1>13 DEF SlotOK, StateOK, Tag
  <1>15. PlanOK(new, slot, s, G)
    BY <1>8, <1>12, <1>14 DEF PlanOK, H
  <1> QED BY <1>15 DEF new, call

(* enter_drain signs at most the terminal reveal, three ticks past the tail. *)
THEOREM EnterDrainOK ==
  ASSUME NEW slot, NEW s \in StreamIds, NEW G, SlotOK(slot, s, G), NEW reason \in DrainReasons
  PROVE  /\ PlanOK(EnterDrain(slot, s, reason).slot, slot, s, G)
         /\ EnterDrain(slot, s, reason).marks = {}
  <1> DEFINE terminal == slot.chain.last + STREAM_COUNT
             latched == IF slot.state.reason = "Shutdown" THEN "Shutdown" ELSE reason
             nothing == [slot EXCEPT !.state = Drained("NothingToDrain")]
             restarting == [slot EXCEPT !.state.reason = latched]
             draining == [slot EXCEPT !.chain.calls = @ \cup
                              {NewCall(terminal, "TerminalReveal", slot.chain.preimage)},
                                      !.state = Draining(reason, terminal)]
             result == EnterDrain(slot, s, reason)
  <1>1. slot \in ManagedSlot /\ Tag(slot) \in SlotTags
    BY HasChainTag DEF SlotOK
  <1>2. result.marks = {}
    BY DEF EnterDrain, Result, Error
  <1>3. \/ result.slot = slot
        \/ Tag(slot) = "Waiting" /\ result.slot = nothing
        \/ Tag(slot) = "Restarting" /\ result.slot = restarting
        \/ IsPlanned(slot) /\ terminal <= MaxTick /\ result.slot = draining
    <2>1. CheckedAdd(slot.chain.last, STREAM_COUNT) # NoTick =>
              /\ terminal <= MaxTick /\ CheckedAdd(slot.chain.last, STREAM_COUNT) = terminal
      BY DEF CheckedAdd
    <2> QED BY <1>1, <2>1 DEF EnterDrain, Result, Error, IsPlanned, SlotTags
  <1> SUFFICES PlanOK(result.slot, slot, s, G)
    BY <1>2
  <1> HIDE DEF result
  <1>4. CASE result.slot = slot
    BY <1>4, SignsNothing
  <1>5. CASE Tag(slot) = "Waiting" /\ result.slot = nothing
    <2>1. Drained("NothingToDrain") \in SlotState /\ Drained("NothingToDrain").tag = "Drained"
      BY TicksType DEF Drained, Waiting, SlotState, SlotTags, OptTicks, DrainOutcomes
    <2>2. /\ nothing \in ManagedSlot /\ nothing.state = Drained("NothingToDrain")
          /\ nothing.chain = slot.chain
      BY <1>1, <2>1 DEF ManagedSlot
    <2> HIDE DEF nothing
    <2>3. SlotOK(nothing, s, G)
      BY <1>5, <2>1, <2>2 DEF SlotOK, StateOK, Tag
    <2>4. PlanOK(nothing, slot, s, G)
      BY <2>2, <2>3, SignsNothing
    <2> QED BY <1>5, <2>4
  <1>6. CASE Tag(slot) = "Restarting" /\ result.slot = restarting
    <2>1. latched \in DrainReasons
      BY DEF DrainReasons
    <2> HIDE DEF latched
    <2>2. /\ restarting \in ManagedSlot /\ restarting.chain = slot.chain
          /\ restarting.restartAt = slot.restartAt
          /\ restarting.state.tag = slot.state.tag /\ restarting.state.at = slot.state.at
      BY <1>1, <2>1 DEF ManagedSlot, SlotState
    <2> HIDE DEF restarting
    <2>3. SlotOK(restarting, s, G)
      BY <1>6, <2>2 DEF SlotOK, StateOK, Tag
    <2>4. PlanOK(restarting, slot, s, G)
      BY <2>2, <2>3, SignsNothing
    <2> QED BY <1>6, <2>4
  <1>7. CASE IsPlanned(slot) /\ terminal <= MaxTick /\ result.slot = draining
    <2>1. PlanOK(draining, slot, s, G)
      BY <1>7, AddTerminalOK
    <2> HIDE DEF draining
    <2> QED BY <1>7, <2>1
  <1> QED BY <1>3, <1>4, <1>5, <1>6, <1>7

-----------------------------------------------------------------------------
(* The end of a cycle *)

(* What a handler that signs nothing delivers: each call is an old one. *)
KeepsOK(new, slot, s, G) ==
    /\ SlotOK(new, s, G)
    /\ \A c \in new.chain.calls : \E d \in slot.chain.calls : SameBytes(c, d)

(* A handler whose calls come from the queue signs nothing.                *)
LEMMA KeepsSame ==
  ASSUME NEW slot, NEW s, NEW G, NEW new, SlotOK(new, s, G),
         \/ CallsFrom(new.chain.calls, slot.chain.calls)
         \/ new.chain.calls \subseteq slot.chain.calls
         \/ new.chain = NoChain
  PROVE  KeepsOK(new, slot, s, G)
  BY DEF KeepsOK, CallsFrom, SameBytes, NoChain

(* finish_drain keeps a slot in order.                                     *)
LEMMA FinishDrainOK ==
  ASSUME NEW slot, NEW s \in StreamIds, NEW G, SlotOK(slot, s, G)
  PROVE  KeepsOK(FinishDrain(slot), slot, s, G)
  <1>1. FinishDrain(slot) \in {slot, CompleteDrain(slot, "Accepted"), CompleteDrain(slot, "Failed")}
    BY DEF FinishDrain
  <1>2. \A w \in {"Accepted", "Failed"} : KeepsOK(CompleteDrain(slot, w), slot, s, G)
    BY CompleteDrainOK, KeepsSame DEF DrainOutcomes
  <1>3. KeepsOK(slot, slot, s, G)
    BY KeepsSame
  <1> QED BY <1>1, <1>2, <1>3

(* finish_status_restart leaves a waiting slot whose restart lies past its tail. *)
LEMMA FinishStatusRestartOK ==
  ASSUME NEW slot, NEW s \in StreamIds, NEW G, SlotOK(slot, s, G), NEW tick \in Ticks
  PROVE  KeepsOK(FinishStatusRestart(slot, tick), slot, s, G)
  <1> DEFINE state == IF slot.state.reason # "None" THEN Drained("NothingToDrain")
                      ELSE Waiting(slot.state.absenceAfter, slot.state.absenceObserved)
             new == FinishStatusRestart(slot, tick)
  <1>1. CASE Tag(slot) # "Restarting" \/ tick < slot.state.at
    <2>1. new = slot
      BY <1>1 DEF FinishStatusRestart
    <2>2. KeepsOK(slot, slot, s, G)
      BY KeepsSame
    <2> QED BY <2>1, <2>2
  <1>2. CASE Tag(slot) = "Restarting" /\ tick >= slot.state.at
    <2>1. slot \in ManagedSlot /\ slot.state \in SlotState
      BY DEF SlotOK, ManagedSlot
    <2>2. state \in SlotState /\ state.tag \in {"Waiting", "Drained"}
      BY <2>1, TicksType DEF Drained, Waiting, SlotState, SlotTags, OptTicks, DrainOutcomes
    <2>3. slot.state.at \in Ticks
      BY <1>2 DEF SlotOK, StateOK, ChainOK
    <2>4. new = [slot EXCEPT !.chain = NoChain, !.state = state]
      <3>1. ~(Tag(slot) # "Restarting" \/ tick < slot.state.at)
        BY <1>2, <2>3, TicksType DEF Ticks
      <3> QED BY <2>1, <3>1 DEF FinishStatusRestart
    <2> HIDE DEF state
    <2>5. /\ new \in ManagedSlot /\ new.state = state /\ new.chain = NoChain
          /\ new.restartAt = slot.restartAt
      BY <2>1, <2>2, <2>4, NoChainType DEF ManagedSlot
    <2>6. \A t \in G : t < slot.restartAt
      BY <1>2, TicksType DEF SlotOK, StateOK, ChainOK, OpenTail, Ticks
    <2> HIDE DEF new
    <2>7. SlotOK(new, s, G)
      BY <2>2, <2>5, <2>6 DEF SlotOK, StateOK, Tag
    <2>8. KeepsOK(new, slot, s, G)
      BY <2>5, <2>7, KeepsSame
    <2> QED BY <2>8 DEF new
  <1>3. Tag(slot) = "Restarting" => slot.state.at \in Ticks
    BY DEF SlotOK, StateOK, ChainOK
  <1> QED BY <1>1, <1>2, <1>3, TicksType DEF Ticks

(* prune_calls keeps a slot in order.                                      *)
LEMMA PruneCallsOK ==
  ASSUME NEW slot, NEW s \in StreamIds, NEW G, SlotOK(slot, s, G), NEW tick
  PROVE  KeepsOK(PruneCalls(slot, tick), slot, s, G)
  <1>1. PICK calls \in SUBSET slot.chain.calls :
            PruneCalls(slot, tick) = [slot EXCEPT !.chain.calls = calls]
    <2> DEFINE keeps(c) == IF Remnant(slot.chain, c) THEN c.target > tick
                           ELSE c.target >= tick \/ c.state # "Accepted"
               kept == {c \in slot.chain.calls : keeps(c)}
    <2>1. CASE Tag(slot) = "Draining"
      <3>1. slot = [slot EXCEPT !.chain.calls = slot.chain.calls]
        BY DEF SlotOK, ManagedSlot, Chain
      <3> QED BY <2>1, <3>1 DEF PruneCalls
    <2>2. CASE Tag(slot) # "Draining"
      <3>1. PruneCalls(slot, tick) = [slot EXCEPT !.chain.calls = kept]
        BY <2>2 DEF PruneCalls
      <3>2. kept \in SUBSET slot.chain.calls
        OBVIOUS
      <3> HIDE DEF kept
      <3> QED BY <3>1, <3>2
    <2> QED BY <2>1, <2>2
  <1>2. CallsFrom(calls, slot.chain.calls)
    BY CallsDistinct DEF CallsFrom, DistinctTargets, SameBytes
  <1>3. SlotOK(PruneCalls(slot, tick), s, G)
    BY <1>1, <1>2, ReplaceCalls
  <1>4. PruneCalls(slot, tick).chain.calls = calls
    BY <1>1 DEF SlotOK, ManagedSlot, Chain
  <1> QED BY <1>3, <1>4, KeepsSame

(* Two handlers that sign nothing compose.                                 *)
LEMMA KeepsTwice ==
  ASSUME NEW slot, NEW s, NEW G, NEW mid, NEW new,
         KeepsOK(mid, slot, s, G), KeepsOK(new, mid, s, G)
  PROVE  KeepsOK(new, slot, s, G)
  BY DEF KeepsOK, SameBytes

(* The per-slot end of a cycle keeps a slot in order and signs nothing.    *)
THEOREM SendSlotOK ==
  ASSUME NEW slot, NEW s \in StreamIds, NEW G, SlotOK(slot, s, G), NEW tick \in Ticks
  PROVE  /\ KeepsOK(SendSlot(slot, tick).slot, slot, s, G)
         /\ SendSlot(slot, tick).marks \subseteq Marks
  <1> DEFINE expired == ExpireCalls(slot, tick)
             sent == DispatchCalls(expired.slot, tick)
             drained == FinishDrain(sent.slot)
             restarted == FinishStatusRestart(drained, tick)
             pruned == PruneCalls(restarted, tick)
  <1>1. KeepsOK(expired.slot, slot, s, G) /\ expired.marks \subseteq Marks
    BY ExpireCallsOK, KeepsSame
  <1> HIDE DEF expired
  <1>2. KeepsOK(sent.slot, expired.slot, s, G) /\ sent.marks \subseteq Marks
    BY <1>1, DispatchCallsOK, KeepsSame DEF KeepsOK
  <1> HIDE DEF sent
  <1>3. KeepsOK(drained, sent.slot, s, G)
    BY <1>2, FinishDrainOK DEF KeepsOK
  <1> HIDE DEF drained
  <1>4. KeepsOK(restarted, drained, s, G)
    BY <1>3, FinishStatusRestartOK DEF KeepsOK
  <1> HIDE DEF restarted
  <1>5. KeepsOK(pruned, restarted, s, G)
    BY <1>4, PruneCallsOK DEF KeepsOK
  <1> HIDE DEF pruned
  <1>6. KeepsOK(pruned, slot, s, G)
    BY <1>1, <1>2, <1>3, <1>4, <1>5, KeepsTwice
  <1>7. SendSlot(slot, tick) = Result(pruned, expired.marks \cup sent.marks)
    BY DEF SendSlot, expired, sent, drained, restarted, pruned
  <1> QED BY <1>1, <1>2, <1>6, <1>7 DEF Result

-----------------------------------------------------------------------------
(* The engine *)

(* Every slot is in order with respect to what it signed since its reset. *)
SlotsOK ==
    pc # "exited" => \A s \in Streams : SlotOK(slots[s], s, signed[s])

ExitedEmpty ==
    pc = "exited" => \A s \in Streams : slots[s].chain = NoChain

(* The cycle works on the tick metadata of the current epoch. *)
InfoOK ==
    pc \in {"harvest", "plan"} => info \in TickInfos /\ info.epoch = phase.epoch

QueryOK ==
    query # NoQuery => query.requested \in Ticks /\ query.epoch = phase.epoch

IInv == TypeOK /\ SlotsOK /\ ExitedEmpty /\ InfoOK /\ QueryOK

(* What every step does to the queues. *)
SignedStep ==
    \A s \in Streams : SignsAbove(slots'[s].chain.calls, slots[s].chain.calls, signed[s])

(* The streams of the instance are streams of the program.                 *)
LEMMA StreamsType == \A s \in Streams : s \in StreamIds
  BY StreamsAssumption

(* Tick metadata holds ticks.                                              *)
LEMMA InfoType == \A i \in TickInfos : i.epoch \in Nat /\ i.tick \in Ticks /\ i.initialTick \in Ticks
  BY TickInfosAssumption DEF TickInfoSet

(* The initial state satisfies the invariant. *)
LEMMA InitOK == Init => IInv
  <1> SUFFICES ASSUME Init PROVE IInv
    OBVIOUS
  <1>1. \A s \in Streams : SlotOK(InitSlot, s, {})
    BY StreamsType, InitSlotOK
  <1>2. InitSlot \in ManagedSlot
    BY NoChainType, TicksType
       DEF InitSlot, ManagedSlot, Waiting, SlotState, SlotTags, OptTicks
  <1>3. TypeOK
    BY <1>2 DEF Init, TypeOK, NoPhase, PhaseTags, OptEpochs, NoQuery, OptTicks, Marks
  <1> QED BY <1>1, <1>3 DEF Init, IInv, SlotsOK, ExitedEmpty, InfoOK, QueryOK

(* Steps that leave the slots and what was signed alone. *)
LEMMA KeptSlots ==
  ASSUME IInv, slots' = slots, signed' = signed, pc # "exited", pc' # "exited"
  PROVE  SlotsOK' /\ ExitedEmpty' /\ SignedStep
  BY DEF IInv, SlotsOK, ExitedEmpty, SignedStep, SignsAbove, SameBytes

(* Steps that replace every slot by one in order. *)
LEMMA ReplacedSlots ==
  ASSUME IInv, pc # "exited", pc' # "exited",
         NEW f, slots' = [s \in Streams |-> f[s]],
         signed' \in [Streams -> SUBSET Ticks],
         \A s \in Streams : SlotOK(f[s], s, signed'[s])
  PROVE  SlotsOK' /\ ExitedEmpty' /\ slots' \in [Streams -> ManagedSlot]
  BY DEF SlotsOK, ExitedEmpty, SlotOK

-----------------------------------------------------------------------------
(* The loop head *)

(* Returning from run keeps the invariant.                                 *)
LEMMA LeaveOK ==
  ASSUME IInv, NEW result \in {"ok", "err"}, Leave(result),
         UNCHANGED <<phase, info, token, observer, stopping, late, signed>>
  PROVE  IInv' /\ SignedStep
  <1>1. \A s \in Streams : slots[s] \in ManagedSlot
    BY DEF IInv, TypeOK
  <1>2. \A s \in Streams : /\ slots'[s] \in ManagedSlot
                           /\ slots'[s].chain = NoChain
    BY <1>1, NoChainType DEF Leave, ManagedSlot
  <1>3. slots' \in [Streams -> ManagedSlot]
    BY <1>2 DEF Leave
  <1>4. TypeOK'
    BY <1>3 DEF IInv, TypeOK, Leave, NoQuery, OptEpochs, OptTicks, Marks
  <1>5. SlotsOK' /\ ExitedEmpty' /\ InfoOK' /\ QueryOK'
    BY <1>2 DEF SlotsOK, ExitedEmpty, InfoOK, QueryOK, Leave
  <1>6. SignedStep
    BY <1>2 DEF SignedStep, SignsAbove, NoChain
  <1> QED BY <1>4, <1>5, <1>6 DEF IInv

(* update_epoch_phase keeps the type of the phase and adopts the epoch.    *)
LEMMA UpdateEpochPhaseOK ==
  ASSUME IInv, NEW i \in TickInfos, NEW w \in StopWindows
  PROVE  /\ UpdateEpochPhase(phase, i, w) \in [tag : PhaseTags, epoch : OptEpochs, ready : OptTicks]
         /\ UpdateEpochPhase(phase, i, w).epoch = i.epoch
  <1>1. /\ i.epoch \in Nat /\ SaturatingAdd(i.initialTick, ResumeDelay) \in Ticks
    BY InfoType, SaturatingAddType, DelayAssumption
  <1>2. phase \in [tag : PhaseTags, epoch : OptEpochs, ready : OptTicks]
    BY DEF IInv, TypeOK
  <1> QED BY <1>1, <1>2, TicksType DEF UpdateEpochPhase, PhaseTags, OptEpochs, OptTicks

(* A cycle's start, reset_slots included, keeps the invariant.             *)
LEMMA TickOkStep ==
  ASSUME IInv, NEW i \in TickInfos, NEW w \in StopWindows, TickOk(i, w)
  PROVE  IInv' /\ SignedStep
  <1>1. pc # "exited" /\ pc' # "exited"
    BY DEF TickOk
  <1>2. /\ phase' \in [tag : PhaseTags, epoch : OptEpochs, ready : OptTicks]
        /\ phase'.epoch = i.epoch
    BY UpdateEpochPhaseOK DEF TickOk
  <1>3. CASE phase.epoch # i.epoch
    <2>1. /\ slots' = [s \in Streams |-> InitSlot] /\ signed' = [s \in Streams |-> {}]
          /\ query' = NoQuery
      BY <1>3 DEF TickOk
    <2>2. \A s \in Streams : SlotOK(slots'[s], s, signed'[s])
      BY <2>1, StreamsType, InitSlotOK
    <2>3. slots' \in [Streams -> ManagedSlot]
      BY <2>1, <2>2 DEF SlotOK
    <2>4. SlotsOK' /\ ExitedEmpty' /\ QueryOK'
      BY <1>1, <2>1, <2>2 DEF SlotsOK, ExitedEmpty, QueryOK
    <2>5. TypeOK'
      BY <1>2, <2>1, <2>3
         DEF IInv, TypeOK, TickOk, shutdown, NoQuery, OptEpochs, OptTicks, Marks
    <2>6. SignedStep
      BY <2>1 DEF SignedStep, SignsAbove, InitSlot, NoChain
    <2> QED BY <1>2, <2>4, <2>5, <2>6 DEF IInv, InfoOK, TickOk
  <1>4. CASE phase.epoch = i.epoch
    <2>1. slots' = slots /\ signed' = signed /\ query' = query
      BY <1>4 DEF TickOk
    <2>2. SlotsOK' /\ ExitedEmpty' /\ SignedStep
      BY <1>1, <2>1, KeptSlots
    <2>3. TypeOK'
      BY <1>2, <2>1 DEF IInv, TypeOK, TickOk, shutdown, Marks
    <2>4. InfoOK' /\ QueryOK'
      BY <1>2, <1>4, <2>1 DEF IInv, InfoOK, QueryOK, TickOk
    <2> QED BY <2>2, <2>3, <2>4 DEF IInv
  <1> QED BY <1>3, <1>4

-----------------------------------------------------------------------------
(* Harvesting *)

(* Harvesting broadcasts keeps every slot in order.                        *)
LEMMA HarvestNoStatusOK ==
  ASSUME IInv, pc # "exited", NEW results, HarvestNoStatus(results)
  PROVE  /\ \A s \in Streams : KeepsOK(slots'[s], slots[s], s, signed[s])
         /\ slots' \in [Streams -> ManagedSlot] /\ marks' \subseteq Marks
  <1> DEFINE harvested == [s \in Streams |-> HarvestBroadcasts(slots[s], results)]
  <1>1. /\ slots' = [s \in Streams |-> harvested[s].slot]
        /\ marks' = UNION {harvested[s].marks : s \in Streams}
    BY DEF HarvestNoStatus, Harvested
  <1>2. \A s \in Streams : /\ KeepsOK(harvested[s].slot, slots[s], s, signed[s])
                           /\ harvested[s].marks \subseteq Marks
    BY StreamsType, HarvestBroadcastsOK, KeepsSame DEF IInv, SlotsOK
  <1> HIDE DEF harvested
  <1>3. marks' \subseteq Marks
    BY <1>1, <1>2
  <1> QED BY <1>1, <1>2, <1>3 DEF KeepsOK, SlotOK

(* Harvesting broadcasts and a status response keeps every slot in order.  *)
LEMMA HarvestStatusOK ==
  ASSUME IInv, pc # "exited", query # NoQuery, NEW results, NEW seen \in StatusReports,
         HarvestStatus(results, seen)
  PROVE  /\ \A s \in Streams : KeepsOK(slots'[s], slots[s], s, signed[s])
         /\ slots' \in [Streams -> ManagedSlot] /\ marks' \subseteq Marks
  <1> DEFINE harvested == [s \in Streams |-> HarvestBroadcasts(slots[s], results)]
             applied == [s \in Streams |->
                            ApplyStatus(harvested[s].slot, seen[s], query.requested)]
  <1>1. /\ slots' = [s \in Streams |-> applied[s].slot]
        /\ marks' = UNION {harvested[s].marks \cup applied[s].marks : s \in Streams}
    BY DEF HarvestStatus, Harvested
  <1>2. \A s \in Streams : /\ KeepsOK(harvested[s].slot, slots[s], s, signed[s])
                           /\ harvested[s].marks \subseteq Marks
    BY StreamsType, HarvestBroadcastsOK, KeepsSame DEF IInv, SlotsOK
  <1> HIDE DEF harvested
  <1>3. /\ query.requested \in Ticks
        /\ \A s \in Streams : seen[s] \in OptTicks
    BY StatusTicksAssumption DEF IInv, QueryOK, StatusReports, OptTicks
  <1>4. ASSUME NEW s \in Streams
        PROVE  /\ KeepsOK(applied[s].slot, slots[s], s, signed[s])
               /\ applied[s].marks \subseteq Marks
    <2>1. SlotOK(harvested[s].slot, s, signed[s]) /\ s \in StreamIds
      BY <1>2, StreamsType DEF KeepsOK
    <2>2. /\ SlotOK(applied[s].slot, s, signed[s])
          /\ applied[s].marks \subseteq Marks
          /\ applied[s].slot.chain.calls \in {harvested[s].slot.chain.calls, {}}
      BY <1>3, <2>1, ApplyStatusOK
    <2> QED BY <1>2, <2>2 DEF KeepsOK
  <1> HIDE DEF applied
  <1>5. marks' \subseteq Marks
    BY <1>1, <1>2, <1>4
  <1> QED BY <1>1, <1>4, <1>5 DEF KeepsOK, SlotOK

(* A step that signs nothing keeps the slots in order.                     *)
LEMMA KeepsStep ==
  ASSUME IInv, pc # "exited", pc' # "exited", signed' = signed,
         \A s \in Streams : KeepsOK(slots'[s], slots[s], s, signed[s])
  PROVE  SlotsOK' /\ ExitedEmpty' /\ SignedStep
  BY DEF SlotsOK, ExitedEmpty, SignedStep, SignsAbove, KeepsOK

(* Every harvest step keeps the invariant.                                 *)
LEMMA HarvestStep ==
  ASSUME IInv, Harvest
  PROVE  IInv' /\ SignedStep
  <1>1. pc = "harvest" /\ pc' = "plan" /\ UNCHANGED <<phase, info, signed, shutdown>>
    BY DEF Harvest, HarvestQueryPending, HarvestQueryFailed, HarvestQueryOk
  <1>2. query' = query \/ query' = NoQuery
    BY DEF Harvest, HarvestQueryPending, HarvestQueryFailed, HarvestQueryOk
  <1>3. \/ \E results : HarvestNoStatus(results)
        \/ query # NoQuery /\ \E results : \E seen \in StatusReports : HarvestStatus(results, seen)
    <2>1. PICK results \in [InFlight -> TaskResults] :
              \/ HarvestQueryPending(results) \/ HarvestQueryFailed(results)
              \/ \E seen \in StatusReports : HarvestQueryOk(results, seen)
      BY DEF Harvest
    <2>2. CASE HarvestQueryPending(results) \/ HarvestQueryFailed(results)
      BY <2>2 DEF HarvestQueryPending, HarvestQueryFailed
    <2>3. CASE \E seen \in StatusReports : HarvestQueryOk(results, seen)
      <3>1. PICK seen \in StatusReports : HarvestQueryOk(results, seen)
        BY <2>3
      <3>2. /\ query # NoQuery
            /\ HarvestStatus(results, seen) \/ HarvestNoStatus(results)
        BY <3>1 DEF HarvestQueryOk
      <3> QED BY <3>2
    <2> QED BY <2>1, <2>2, <2>3
  <1>4. /\ \A s \in Streams : KeepsOK(slots'[s], slots[s], s, signed[s])
        /\ slots' \in [Streams -> ManagedSlot] /\ marks' \subseteq Marks
    BY <1>1, <1>3, HarvestNoStatusOK, HarvestStatusOK
  <1>5. SlotsOK' /\ ExitedEmpty' /\ SignedStep
    BY <1>1, <1>4, KeepsStep
  <1>6. TypeOK'
    BY <1>1, <1>2, <1>4 DEF IInv, TypeOK, shutdown, NoQuery, OptEpochs, OptTicks
  <1>7. InfoOK' /\ QueryOK'
    BY <1>1, <1>2 DEF IInv, InfoOK, QueryOK
  <1> QED BY <1>5, <1>6, <1>7 DEF IInv

-----------------------------------------------------------------------------
(* Planning and sending *)

(* `planned' is what the drain, active or hold planning of every slot gives. *)
PlanResults(planned) ==
    \A s \in Streams : /\ PlanOK(planned[s].slot, slots[s], s, signed[s])
                       /\ planned[s].marks \subseteq Marks

(* The slots the planning reached, and what they signed, are in order. *)
LEMMA PlannedSlotsOK ==
  ASSUME IInv, pc # "exited", NEW planned, PlanResults(planned)
  PROVE  /\ \A s \in Streams : PlanOK(PlannedSlots(planned)[s], slots[s], s, signed[s])
         /\ PlannedSlots(planned) \in [Streams -> ManagedSlot]
         /\ SignedBy(planned) \in [Streams -> SUBSET Ticks]
         /\ \A s \in Streams : SignedBy(planned)[s] =
                signed[s] \cup Targets(PlannedSlots(planned)[s].chain.calls)
         /\ PlannedMarks(planned) \subseteq Marks
  <1>1. \A s \in Streams : PlanOK(slots[s], slots[s], s, signed[s])
    BY StreamsType, SignsNothing DEF IInv, SlotsOK
  <1>2. \A s \in Streams : PlannedSlots(planned)[s] \in {planned[s].slot, slots[s]}
    BY DEF PlannedSlots
  <1>3. \A s \in Streams : PlanOK(PlannedSlots(planned)[s], slots[s], s, signed[s])
    BY <1>1, <1>2 DEF PlanResults
  <1>4. \A s \in Streams : SignedBy(planned)[s] =
                signed[s] \cup Targets(PlannedSlots(planned)[s].chain.calls)
    BY DEF SignedBy, Targets
  <1>5. \A s \in Streams : /\ PlannedSlots(planned)[s] \in ManagedSlot
                           /\ SignedBy(planned)[s] \in SUBSET Ticks
    BY <1>3, <1>4 DEF PlanOK, SlotOK
  <1>6. PlannedSlots(planned) \in [Streams -> ManagedSlot]
    BY <1>5 DEF PlannedSlots
  <1>7. SignedBy(planned) \in [Streams -> SUBSET Ticks]
    BY <1>5 DEF SignedBy
  <1>8. PlannedMarks(planned) \subseteq Marks
    BY DEF PlannedMarks, PlanResults
  <1> QED BY <1>3, <1>4, <1>6, <1>7, <1>8

(* Planning then sending keeps every slot in order.                        *)
LEMMA PlanThenSendOK ==
  ASSUME IInv, pc # "exited", pc' # "exited", NEW planned, PlanResults(planned),
         NEW due, PlanThenSend(planned, due), info.tick \in Ticks
  PROVE  /\ SlotsOK' /\ ExitedEmpty' /\ SignedStep
         /\ slots' \in [Streams -> ManagedSlot] /\ marks' \subseteq Marks
         /\ signed' \in [Streams -> SUBSET Ticks]
  <1> DEFINE sent == [s \in Streams |-> SendSlot(planned[s].slot, info.tick)]
  <1>1. /\ slots' = [s \in Streams |-> sent[s].slot]
        /\ marks' = UNION {planned[s].marks \cup sent[s].marks : s \in Streams}
        /\ signed' = SignedBy(planned)
        /\ \A s \in Streams : PlannedSlots(planned)[s] = planned[s].slot
    BY DEF PlanThenSend, AllOk, PlannedSlots, Reached
  <1>2. ASSUME NEW s \in Streams
        PROVE  /\ SlotOK(slots'[s], s, signed'[s])
               /\ SignsAbove(slots'[s].chain.calls, slots[s].chain.calls, signed[s])
               /\ sent[s].marks \subseteq Marks
    <2>1. PlanOK(planned[s].slot, slots[s], s, signed[s]) /\ s \in StreamIds
      BY StreamsType DEF PlanResults
    <2>2. signed'[s] = signed[s] \cup Targets(planned[s].slot.chain.calls)
      BY <1>1, PlannedSlotsOK
    <2>3. SlotOK(planned[s].slot, s, signed'[s])
      BY <2>1, <2>2 DEF PlanOK
    <2>4. KeepsOK(sent[s].slot, planned[s].slot, s, signed'[s]) /\ sent[s].marks \subseteq Marks
      BY <2>1, <2>3, SendSlotOK
    <2> HIDE DEF sent
    <2>5. slots'[s] = sent[s].slot
      BY <1>1
    <2>6. SignsAbove(slots'[s].chain.calls, slots[s].chain.calls, signed[s])
      <3> SUFFICES ASSUME NEW c \in slots'[s].chain.calls
                   PROVE  \/ \E d \in slots[s].chain.calls : SameBytes(c, d)
                          \/ \A t \in signed[s] : c.target > t
        BY DEF SignsAbove
      <3>1. PICK e \in planned[s].slot.chain.calls : SameBytes(c, e)
        BY <2>4, <2>5 DEF KeepsOK
      <3> QED BY <2>1, <3>1 DEF PlanOK, SignsAbove, SameBytes
    <2> QED BY <2>4, <2>5, <2>6 DEF KeepsOK
  <1> HIDE DEF sent
  <1>3. slots' \in [Streams -> ManagedSlot]
    BY <1>1, <1>2 DEF SlotOK
  <1>4. marks' \subseteq Marks
    BY <1>1, <1>2 DEF PlanResults
  <1>5. signed' \in [Streams -> SUBSET Ticks]
    BY <1>1, PlannedSlotsOK
  <1> QED BY <1>2, <1>3, <1>4, <1>5 DEF SlotsOK, ExitedEmpty, SignedStep

(* Slots become what the planning reached; nothing is sent. *)
LEMMA PlannedStep ==
  ASSUME IInv, pc # "exited", pc' # "exited", NEW planned, PlanResults(planned),
         slots' = PlannedSlots(planned), signed' = SignedBy(planned)
  PROVE  /\ SlotsOK' /\ ExitedEmpty' /\ SignedStep
         /\ slots' \in [Streams -> ManagedSlot] /\ signed' \in [Streams -> SUBSET Ticks]
  BY PlannedSlotsOK DEF PlanOK, SlotsOK, ExitedEmpty, SignedStep

(* A cycle, cut short by a planning error or not, keeps the invariant.     *)
LEMMA CycleOK ==
  ASSUME IInv, pc = "plan", pc' = "observe", NEW planned, PlanResults(planned), NEW due,
         PlanThenSend(planned, due) \/ PlanFails(planned),
         UNCHANGED <<phase, info, shutdown>>
  PROVE  IInv' /\ SignedStep
  <1>1. info \in TickInfos /\ info.epoch = phase.epoch /\ info.tick \in Ticks /\ info.epoch \in Nat
    BY InfoType DEF IInv, InfoOK
  <1>2. /\ SlotsOK' /\ ExitedEmpty' /\ SignedStep
        /\ slots' \in [Streams -> ManagedSlot] /\ marks' \subseteq Marks
        /\ signed' \in [Streams -> SUBSET Ticks]
    <2>1. CASE PlanThenSend(planned, due)
      BY <1>1, <2>1, PlanThenSendOK
    <2>2. CASE PlanFails(planned)
      BY <2>2, PlannedStep, PlannedSlotsOK DEF PlanFails
    <2> QED BY <2>1, <2>2
  <1>3. query' = query \/ query' = [epoch |-> info.epoch, requested |-> info.tick]
    BY DEF PlanThenSend, PlanFails, EnsureStatusQuery
  <1>4. TypeOK'
    BY <1>1, <1>2, <1>3 DEF IInv, TypeOK, shutdown, OptEpochs, OptTicks
  <1>5. InfoOK' /\ QueryOK'
    BY <1>1, <1>3 DEF IInv, InfoOK, QueryOK
  <1> QED BY <1>2, <1>4, <1>5 DEF IInv

(* Drain, active and hold planning give results of the shape CycleOK needs. *)
LEMMA PlanAndSendStep ==
  ASSUME IInv, PlanAndSend
  PROVE  IInv' /\ SignedStep
  <1>1. pc = "plan" /\ pc' = "observe" /\ UNCHANGED <<phase, info, shutdown>>
    BY DEF PlanAndSend, CycleDrain, CycleActive, CycleHold
  <1>2. /\ info.tick \in Ticks
        /\ \A s \in Streams : SlotOK(slots[s], s, signed[s]) /\ s \in StreamIds
    BY <1>1, InfoType, StreamsType DEF IInv, InfoOK, SlotsOK
  <1>3. PlanResults(DrainPlan)
    BY <1>2, EnterDrainOK DEF PlanResults, DrainPlan, DrainReason, DrainReasons
  <1>4. PlanResults(ActivePlan)
    BY <1>2, PlanSlotOK DEF PlanResults, ActivePlan
  <1>5. PlanResults(HoldPlan)
    BY <1>2, SignsNothing DEF PlanResults, HoldPlan, Result
  <1>6. \E due : \/ PlanThenSend(DrainPlan, due) \/ PlanFails(DrainPlan)
                 \/ PlanThenSend(ActivePlan, due) \/ PlanFails(ActivePlan)
                 \/ PlanThenSend(HoldPlan, due)
    BY DEF PlanAndSend, CycleDrain, CycleActive, CycleHold
  <1> QED BY <1>1, <1>3, <1>4, <1>5, <1>6, CycleOK

-----------------------------------------------------------------------------
(* The shutdown observer and the environment *)

(* Entering the shutdown drain keeps the invariant.                        *)
LEMMA ObserveRequestStep ==
  ASSUME IInv, ObserveRequest
  PROVE  IInv' /\ SignedStep
  <1>1. \A s \in Streams : SlotOK(slots[s], s, signed[s]) /\ s \in StreamIds
    BY StreamsType DEF IInv, SlotsOK, ObserveRequest
  <1>2. PlanResults(ShutdownPlan)
    BY <1>1, EnterDrainOK DEF PlanResults, ShutdownPlan, DrainReasons
  <1>3. /\ SlotsOK' /\ ExitedEmpty' /\ SignedStep
        /\ slots' \in [Streams -> ManagedSlot] /\ signed' \in [Streams -> SUBSET Ticks]
    BY <1>2, PlannedStep DEF ObserveRequest
  <1>4. TypeOK'
    BY <1>3 DEF IInv, TypeOK, ObserveRequest, Marks
  <1>5. InfoOK' /\ QueryOK'
    BY DEF IInv, InfoOK, QueryOK, ObserveRequest
  <1> QED BY <1>3, <1>4, <1>5 DEF IInv

(* Steps that touch neither the slots nor the query. *)
Untouched == UNCHANGED <<slots, phase, query, info, signed>> /\ pc # "exited"
             /\ pc' \in {pc, "head", "observe"}

(* Steps of the token, the observer and the deadline keep the invariant.   *)
LEMMA UntouchedStep ==
  ASSUME IInv, Untouched, TypeOK'
  PROVE  IInv' /\ SignedStep
  <1>1. SlotsOK' /\ ExitedEmpty' /\ SignedStep
    BY KeptSlots DEF Untouched
  <1>2. InfoOK' /\ QueryOK'
    BY DEF IInv, InfoOK, QueryOK, Untouched
  <1> QED BY <1>1, <1>2 DEF IInv

(* Every step keeps the invariant and signs only above what was signed. *)
LEMMA StepOK ==
  ASSUME IInv, [Next]_vars
  PROVE  IInv' /\ SignedStep
  <1>1. CASE \E i \in TickInfos, w \in StopWindows : TickOk(i, w)
    BY <1>1, TickOkStep
  <1>2. CASE TickFails
    BY <1>2, UntouchedStep DEF IInv, TypeOK, TickFails, Untouched, Marks
  <1>3. CASE Harvest
    BY <1>3, HarvestStep
  <1>4. CASE PlanAndSend
    BY <1>4, PlanAndSendStep
  <1>5. CASE ObserveNothing
    BY <1>5, UntouchedStep DEF IInv, TypeOK, ObserveNothing, Untouched, Marks
  <1>6. CASE ObserveRequest
    BY <1>6, ObserveRequestStep
  <1>7. CASE ObserveError \/ ExitDrained \/ ExitTimedOut
    BY <1>7, LeaveOK DEF ObserveError, ExitDrained, ExitTimedOut
  <1>8. CASE Environment
    BY <1>8, UntouchedStep
       DEF IInv, TypeOK, Environment, Signal, ObserverEnds, ObserverPanics, DeadlinePasses,
           Untouched, Marks
  <1>9. CASE UNCHANGED vars
    BY <1>9 DEF IInv, TypeOK, SlotsOK, ExitedEmpty, InfoOK, QueryOK, vars, SignedStep,
                SignsAbove, SameBytes
  <1> QED BY <1>1, <1>2, <1>3, <1>4, <1>5, <1>6, <1>7, <1>8, <1>9
          DEF Next, Loop, Fetch, Finished

-----------------------------------------------------------------------------
(* The theorems *)

(* The inductive invariant holds of every behaviour of the engine. *)
THEOREM Invariant == Spec => []IInv
  <1>1. IInv /\ [Next]_vars => IInv'
    BY StepOK
  <1> QED BY InitOK, <1>1, PTL DEF Spec

(* Every variable keeps its type: no tick arithmetic leaves u32, whatever  *)
(* ticks the backend reports.                                              *)
THEOREM TypeCorrect == Spec => []TypeOK
  <1>1. IInv => TypeOK
    BY DEF IInv
  <1> QED BY Invariant, <1>1, PTL

(* The preimage chain of start_if_ready, extend_chain and enter_drain      *)
(* links: each call reveals what was committed three ticks before.         *)
THEOREM ChainsLink == Spec => []ChainLinks
  <1>1. IInv => ChainLinks
    <2> SUFFICES ASSUME IInv, NEW s \in Streams, HasChain(slots[s])
                 PROVE  /\ ChainOK(slots[s].chain, s, signed[s])
      BY DEF ChainLinks, ChainOK, CallOK, DistinctTargets, Calls
    <2>1. pc # "exited"
      BY TicksType DEF IInv, ExitedEmpty, HasChain, NoChain
    <2>2. SlotOK(slots[s], s, signed[s])
      BY <2>1 DEF IInv, SlotsOK
    <2> QED BY <2>2, HasChainTag DEF SlotOK, StateOK
  <1> QED BY Invariant, <1>1, PTL

(* SlotState and Option<Chain> fit together in every state run can reach.  *)
THEOREM SlotsKeepShape == Spec => []SlotShape
  <1>1. IInv => SlotShape
    <2> SUFFICES ASSUME IInv, NEW s \in Streams, pc # "exited"
                 PROVE  LET slot == slots[s]
                            chain == slot.chain
                        IN  /\ HasChain(slot) <=>
                                   Tag(slot) \in {"Starting", "Active", "Restarting", "Draining"}
                            /\ Tag(slot) = "Active" => chain.confirmed # NoTick
                            /\ chain.confirmed # NoTick =>
                                   /\ chain.confirmed \in chain.first .. chain.last
                                   /\ (chain.confirmed - chain.first) % STREAM_COUNT = 0
                            /\ Tag(slot) = "Starting" => slot.state.at = chain.first
                            /\ Tag(slot) = "Restarting" =>
                                   /\ slot.state.at = chain.last
                                   /\ slot.restartAt = chain.last + STREAM_COUNT
                            /\ \A c \in chain.calls :
                                   IF c.kind = "TerminalReveal"
                                   THEN Tag(slot) = "Draining" /\ c.target = slot.state.at
                                   ELSE c.target <= chain.last
      BY DEF SlotShape
    <2> DEFINE slot == slots[s]
               chain == slot.chain
    <2>1. SlotOK(slot, s, signed[s])
      BY DEF IInv, SlotsOK
    <2> HIDE DEF slot
    <2>2. /\ HasChain(slot) <=> Tag(slot) \in {"Starting", "Active", "Restarting", "Draining"}
          /\ Tag(slot) \in SlotTags
      BY <2>1, HasChainTag DEF SlotTags
    <2>3. chain.confirmed # NoTick => /\ chain.confirmed \in chain.first .. chain.last
                                      /\ (chain.confirmed - chain.first) % STREAM_COUNT = 0
      BY <2>1 DEF SlotOK, StateOK, ChainOK, NoChain
    <2>4. /\ Tag(slot) = "Active" => chain.confirmed # NoTick
          /\ Tag(slot) = "Starting" => slot.state.at = chain.first
          /\ Tag(slot) = "Restarting" => /\ slot.state.at = chain.last
                                         /\ slot.restartAt = chain.last + STREAM_COUNT
      BY <2>1 DEF SlotOK, StateOK
    <2>5. ASSUME NEW c \in chain.calls
          PROVE  IF c.kind = "TerminalReveal"
                 THEN Tag(slot) = "Draining" /\ c.target = slot.state.at
                 ELSE c.target <= chain.last
      BY <2>1, <2>2 DEF SlotOK, StateOK, SlotTags, NoChain, OpenTail, ChainOK, CallOK
    <2> QED BY <2>2, <2>3, <2>4, <2>5 DEF slot
  <1> QED BY Invariant, <1>1, PTL

(* reset_slots leaves nothing of an epoch behind: the outstanding status   *)
(* query and every queued call belong to the current one.                  *)
THEOREM EpochsSeparate == Spec => []NothingCrossesEpochs
  <1>1. IInv => NothingCrossesEpochs
    <2> SUFFICES ASSUME IInv, NEW s \in Streams, NEW c \in slots[s].chain.calls
                 PROVE  c.target \in signed[s]
      BY DEF NothingCrossesEpochs, IInv, QueryOK, Calls
    <2>1. pc # "exited"
      BY DEF IInv, ExitedEmpty, NoChain
    <2> QED BY <2>1 DEF IInv, SlotsOK, SlotOK, StateOK, ChainOK, CallOK, NoChain
  <1> QED BY Invariant, <1>1, PTL

(* No target of a stream is signed twice between two slot resets, and no   *)
(* signed call is ever changed: a preimage is disclosed by one transaction *)
(* only, whatever ticks are skipped, repeated or reported backwards.       *)
THEOREM TargetsSignedOnce == Spec => SignedOnce
  <1> DEFINE A == \A s \in Streams : \A c \in slots'[s].chain.calls :
                      \/ \E d \in Calls(s) : SameBytes(c, d)
                      \/ \A t \in signed[s] : c.target > t
  <1>1. IInv /\ [Next]_vars => [A]_vars
    BY StepOK DEF SignedStep, SignsAbove, Calls
  <1> HIDE DEF A
  <1>2. Spec => [][A]_vars
    BY Invariant, <1>1, PTL DEF Spec
  <1> QED BY <1>2 DEF SignedOnce, A

=============================================================================
