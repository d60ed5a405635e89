--------------------------- MODULE TickMonitorProofs ---------------------------
(***************************************************************************)
(* What each operator of the monitor guarantees for all constants: it      *)
(* keeps a monitor in order with respect to the set V of targets verified  *)
(* since the last reset, and its counters equal to its outcomes.           *)
(***************************************************************************)
EXTENDS TickMonitor, TLAPS, FiniteSetTheorems, WellFoundedInduction

(* The targets verified are the checked ones and ones out of the window.   *)
Covers(m, V) == m.checked \subseteq V /\ \A t \in V : t \in m.checked \/ t < m.oldest

Watched(m, V) ==
    \A t \in Ticks : m.outcomes[t] # "None" => t \in m.queued \cup V \/ t < m.oldest

InOrder(m, V) ==
    m \in Monitor /\ V \subseteq Ticks /\ ChecksAgree(m) /\ Covers(m, V) /\ Watched(m, V)

MonitorMarks == [target : Ticks, mark : {"Ok", "Failed", "Digest"}]

(* Ticks are naturals, and the absent tick is none of them.                *)
LEMMA TickNumbers == Ticks \subseteq Nat /\ NoTick \notin Ticks /\ 0 \in Ticks /\ MaxTick \in Ticks
BY MaxTickAssumption DEF Ticks, NoTick

(* A saturating sum is a tick and never below its first argument.          *)
LEMMA DelayedTick ==
    ASSUME NEW t \in Ticks, NEW n \in Nat
    PROVE  SaturatingAdd(t, n) \in Ticks /\ SaturatingAdd(t, n) >= t
BY MaxTickAssumption DEF Ticks, SaturatingAdd

(* Counting outcomes over again yields counters.                           *)
LEMMA RecountType ==
    ASSUME NEW stats \in [Outcomes -> Nat], NEW old, NEW new
    PROVE  Recount(stats, old, new) \in [Outcomes -> Nat]
<1>1. ASSUME NEW S \in SUBSET Ticks PROVE Cardinality(S) \in Nat
    <2>1. IsFiniteSet(0 .. MaxTick)
        <3>1. 0 \in Int /\ MaxTick \in Int  BY MaxTickAssumption
        <3>. QED  BY <3>1, FS_Interval
    <2>2. IsFiniteSet(S)  BY <2>1, FS_Subset DEF Ticks
    <2>. QED  BY <2>2, FS_CardinalityType
<1>2. ASSUME NEW o \in Outcomes PROVE Recount(stats, old, new)[o] \in Nat
    <2>. DEFINE left == {t \in Ticks : old[t] = o /\ new[t] # o}
                entered == {t \in Ticks : old[t] # o /\ new[t] = o}
    <2>1. Cardinality(left) \in Nat /\ Cardinality(entered) \in Nat  BY <1>1
    <2>2. Recount(stats, old, new)[o]
              = MaxOf(0, stats[o] - Cardinality(left)) + Cardinality(entered)
          BY DEF Recount
    <2>. HIDE DEF left, entered
    <2>. QED  BY <2>1, <2>2 DEF MaxOf
<1>. QED  BY <1>2 DEF Recount

(* Recording outcomes touches the outcomes and the counters only.          *)
LEMMA WithOutcomesFields ==
    ASSUME NEW m \in Monitor, NEW outcomes \in [Ticks -> Outcomes \cup {"None"}]
    PROVE  /\ WithOutcomes(m, outcomes) \in Monitor
           /\ WithOutcomes(m, outcomes).outcomes = outcomes
           /\ WithOutcomes(m, outcomes).pending = m.pending
           /\ WithOutcomes(m, outcomes).ready = m.ready
           /\ WithOutcomes(m, outcomes).queued = m.queued
           /\ WithOutcomes(m, outcomes).checked = m.checked
           /\ WithOutcomes(m, outcomes).digests = m.digests
           /\ WithOutcomes(m, outcomes).check = m.check
           /\ WithOutcomes(m, outcomes).oldest = m.oldest
<1>1. m.stats \in [Outcomes -> Nat]  BY DEF Monitor
<1>2. Recount(m.stats, m.outcomes, outcomes) \in [Outcomes -> Nat]  BY <1>1, RecountType
<1>. QED  BY <1>2 DEF WithOutcomes, Monitor

(* What a report makes of an outcome is an outcome.                        *)
LEMMA OutcomeType ==
    ASSUME NEW prev \in Outcomes \cup {"None"}, NEW next \in Outcomes
    PROVE  Outcome(prev, next) \in Outcomes
BY DEF Outcome, TransitionAllowed, Outcomes

(* The ticks a monitor holds are numbers.                                  *)
LEMMA NumberFields ==
    ASSUME NEW m \in Monitor
    PROVE  /\ m.oldest \in Nat /\ m.check \in Nat \cup {NoTick}
           /\ m.pending \subseteq Nat /\ m.queued \subseteq Nat /\ m.checked \subseteq Nat
           /\ ReadyTargets(m) \subseteq Nat
<1>1. /\ m.oldest \in Ticks /\ m.check \in Ticks \cup {NoTick}
      /\ m.pending \subseteq Ticks /\ m.queued \subseteq Ticks /\ m.checked \subseteq Ticks
      /\ m.ready \subseteq ReadyCheck
      BY DEF Monitor, OptTicks
<1>2. ReadyTargets(m) \subseteq Ticks  BY <1>1 DEF ReadyTargets, ReadyCheck
<1>. QED  BY <1>1, <1>2, TickNumbers

(* The marks of a step keep the monitor in order.                          *)
LEMMA ApplyMarksOK ==
    ASSUME NEW m, NEW V, InOrder(m, V), NEW marks \in SUBSET MonitorMarks
    PROVE  InOrder(ApplyMarks(m, marks), V)
<1>. DEFINE outcomes == [t \in Ticks |-> MarkedOutcome(m.outcomes[t], marks, t)]
            targets(ks) == {k.target : k \in {j \in marks : j.mark \in ks}}
            financial == targets({"Ok", "Failed"})
            fresh == {t \in financial : MayQueue(m, t)}
            sent == targets({"Digest"})
            n == ApplyMarks(m, marks)
<1>1. m \in Monitor /\ V \subseteq Ticks /\ ChecksAgree(m) /\ Covers(m, V) /\ Watched(m, V)
      BY DEF InOrder
<1>2. \A t \in Ticks : m.outcomes[t] \in Outcomes \cup {"None"}  BY <1>1 DEF Monitor
<1>3. \A t \in Ticks : outcomes[t] \in Outcomes \cup {"None"}
    <2>1. "Ok" \in Outcomes /\ "Failed" \in Outcomes  BY DEF Outcomes
    <2>. QED  BY <1>2, <2>1, OutcomeType DEF MarkedOutcome
<1>4. outcomes \in [Ticks -> Outcomes \cup {"None"}]  BY <1>3
<1>5. financial \subseteq Ticks /\ sent \subseteq Ticks  BY DEF MonitorMarks
<1>6. \A t \in Ticks : outcomes[t] # m.outcomes[t] => t \in financial
    <2>. SUFFICES ASSUME NEW t \in Ticks, t \notin financial PROVE outcomes[t] = m.outcomes[t]
         OBVIOUS
    <2>1. [target |-> t, mark |-> "Ok"] \notin marks /\ [target |-> t, mark |-> "Failed"] \notin marks
          OBVIOUS
    <2>. QED  BY <2>1 DEF MarkedOutcome
<1>7. n = [WithOutcomes(m, outcomes) EXCEPT !.queued = @ \cup fresh,
                                            !.pending = @ \cup fresh,
                                            !.digests = @ \cup sent]
      BY DEF ApplyMarks
<1>. DEFINE w == WithOutcomes(m, outcomes)
<1>w. /\ w \in Monitor /\ w.outcomes = outcomes
      /\ w.pending = m.pending /\ w.ready = m.ready /\ w.queued = m.queued
      /\ w.checked = m.checked /\ w.check = m.check /\ w.oldest = m.oldest
      BY <1>1, <1>4, WithOutcomesFields
<1>f. fresh \subseteq Ticks  BY <1>5
<1>m. \A t \in financial : t \in fresh \/ ~MayQueue(m, t)  OBVIOUS
<1>q. \A t \in fresh : MayQueue(m, t)  OBVIOUS
<1>. HIDE DEF outcomes, financial, sent, n, targets, fresh, w
<1>8. /\ n \in Monitor
      /\ n.outcomes = outcomes
      /\ n.queued = m.queued \cup fresh /\ n.pending = m.pending \cup fresh
      /\ n.ready = m.ready /\ n.checked = m.checked /\ n.check = m.check /\ n.oldest = m.oldest
      BY <1>5, <1>7, <1>w, <1>f DEF Monitor, w
<1>9. ChecksAgree(n)
      BY <1>1, <1>8, <1>q DEF ChecksAgree, ReadyTargets, MayQueue
<1>10. Covers(n, V)  BY <1>1, <1>8 DEF Covers
<1>11. Watched(n, V)
    <2>. SUFFICES ASSUME NEW t \in Ticks, n.outcomes[t] # "None"
                  PROVE  t \in n.queued \cup V \/ t < n.oldest
         BY DEF Watched
    <2>1. CASE t \in financial
          BY <1>1, <1>8, <1>m, <2>1, TickNumbers, NumberFields DEF MayQueue, Covers
    <2>2. CASE t \notin financial
          BY <1>1, <1>6, <1>8, <2>2 DEF Watched
    <2>. QED  BY <2>1, <2>2
<1>. QED  BY <1>1, <1>8, <1>9, <1>10, <1>11 DEF InOrder, n

(* Expiry keeps the monitor in order and the outcomes as they are.         *)
LEMMA ExpireOK ==
    ASSUME NEW m, NEW V, InOrder(m, V), NEW at \in Ticks
    PROVE  /\ InOrder(ExpireTickChecks(m, at), V)
           /\ ExpireTickChecks(m, at).outcomes = m.outcomes
<1>. DEFINE oldest == OldestCheck(m, at)
            n == ExpireTickChecks(m, at)
<1>1. m \in Monitor /\ V \subseteq Ticks /\ ChecksAgree(m) /\ Covers(m, V) /\ Watched(m, V)
      BY DEF InOrder
<1>2. oldest \in Ticks /\ oldest >= m.oldest
    <2>1. m.oldest \in Ticks  BY <1>1 DEF Monitor
    <2>2. SaturatingAdd(CheckDelay, CheckWindow) \in Ticks
          BY DelayedTick, MonitorAssumption, TickNumbers
    <2>. QED  BY <2>1, <2>2, MaxTickAssumption DEF OldestCheck, MaxOf, Ticks
<1>. HIDE DEF oldest
<1>3. /\ n \in Monitor
      /\ n.oldest = oldest /\ n.outcomes = m.outcomes
      /\ n.pending = {t \in m.pending : t >= oldest}
      /\ n.queued = {t \in m.queued : t >= oldest}
      /\ n.checked = {t \in m.checked : t >= oldest}
      /\ n.ready = {r \in m.ready : r.target >= oldest}
      /\ n.check = IF m.check < oldest THEN NoTick ELSE m.check
      BY <1>1, <1>2 DEF ExpireTickChecks, oldest, Monitor, OptTicks
<1>. HIDE DEF n
<1>4. ReadyTargets(n) = {t \in ReadyTargets(m) : t >= oldest}  BY <1>3 DEF ReadyTargets
<1>5. {n.check} \ {NoTick} = {t \in {m.check} \ {NoTick} : t >= oldest}
    <2>1. m.check \in Nat \cup {NoTick} /\ oldest \in Nat  BY <1>1, <1>2, NumberFields, TickNumbers
    <2>. QED  BY <1>3, <2>1 DEF NoTick
<1>6. ChecksAgree(n)
    <2>1. \A q, r \in n.ready : q.target = r.target => q = r  BY <1>1, <1>3 DEF ChecksAgree
    <2>2. /\ n.queued = n.pending \cup ReadyTargets(n) \cup ({n.check} \ {NoTick})
          /\ n.pending \cap (ReadyTargets(n) \cup ({n.check} \ {NoTick})) = {}
          /\ ReadyTargets(n) \cap ({n.check} \ {NoTick}) = {}
          BY <1>1, <1>3, <1>4, <1>5 DEF ChecksAgree
    <2>3. n.queued \cap n.checked = {} /\ \A t \in n.queued \cup n.checked : t >= n.oldest
          BY <1>1, <1>3 DEF ChecksAgree
    <2>. QED  BY <2>1, <2>2, <2>3 DEF ChecksAgree
<1>7. Covers(n, V)
    <2>. SUFFICES ASSUME NEW t \in V PROVE t \in n.checked \/ t < n.oldest
         BY <1>1, <1>3 DEF Covers
    <2>1. CASE t \in m.checked
        <3>1. t \in Nat /\ oldest \in Nat  BY <1>1, <1>2, TickNumbers
        <3>. QED  BY <1>3, <2>1, <3>1
    <2>2. CASE t < m.oldest
        <3>1. t \in Nat /\ oldest \in Nat /\ m.oldest \in Nat  BY <1>1, <1>2, TickNumbers, NumberFields
        <3>. QED  BY <1>2, <1>3, <2>2, <3>1
    <2>. QED  BY <1>1, <2>1, <2>2 DEF Covers
<1>8. Watched(n, V)
    <2>. SUFFICES ASSUME NEW t \in Ticks, n.outcomes[t] # "None"
                  PROVE  t \in n.queued \cup V \/ t < n.oldest
         BY DEF Watched
    <2>1. t \in m.queued \cup V \/ t < m.oldest  BY <1>1, <1>3 DEF Watched
    <2>2. t \in Nat /\ oldest \in Nat /\ m.oldest \in Nat  BY <1>1, <1>2, TickNumbers, NumberFields
    <2>. QED  BY <1>2, <1>3, <2>1, <2>2
<1>. QED  BY <1>1, <1>3, <1>6, <1>7, <1>8 DEF InOrder, n

(* The target of a check that is answered with the given result.           *)
Answered(m, result) == IF result \in {"empty", "nonempty"} THEN {m.check} \ {NoTick} ELSE {}

(* A check that is answered moves from the queue to the checked targets.   *)
LEMMA DoneOK ==
    ASSUME NEW m, NEW V, InOrder(m, V), m.check # NoTick,
           NEW n \in Monitor,
           n.check = NoTick, n.queued = m.queued \ {m.check},
           n.checked = m.checked \cup {m.check},
           n.pending = m.pending, n.ready = m.ready, n.oldest = m.oldest,
           \A t \in Ticks : t # m.check => n.outcomes[t] = m.outcomes[t]
    PROVE  InOrder(n, V \cup {m.check})
<1>1. m \in Monitor /\ V \subseteq Ticks /\ ChecksAgree(m) /\ Covers(m, V) /\ Watched(m, V)
      BY DEF InOrder
<1>2. m.check \in Ticks  BY <1>1 DEF Monitor, OptTicks
<1>3. m.check \in m.queued  BY <1>1 DEF ChecksAgree
<1>4. ChecksAgree(n)
    <2>1. ReadyTargets(n) = ReadyTargets(m)  BY DEF ReadyTargets
    <2>2. {n.check} \ {NoTick} = {}  OBVIOUS
    <2>3. m.queued = m.pending \cup ReadyTargets(m) \cup {m.check}
          BY <1>1 DEF ChecksAgree
    <2>4. m.check \notin m.pending /\ m.check \notin ReadyTargets(m)  BY <1>1 DEF ChecksAgree
    <2>5. n.queued = n.pending \cup ReadyTargets(n) \cup ({n.check} \ {NoTick})
          BY <2>1, <2>2, <2>3, <2>4
    <2>6. n.pending \cap (ReadyTargets(n) \cup ({n.check} \ {NoTick})) = {}
          BY <1>1, <2>1, <2>2 DEF ChecksAgree
    <2>7. \A q, r \in n.ready : q.target = r.target => q = r  BY <1>1 DEF ChecksAgree
    <2>8. n.queued \cap n.checked = {}  BY <1>1 DEF ChecksAgree
    <2>9. \A t \in n.queued \cup n.checked : t >= n.oldest  BY <1>1, <1>3 DEF ChecksAgree
    <2>. QED  BY <2>2, <2>5, <2>6, <2>7, <2>8, <2>9 DEF ChecksAgree
<1>5. Covers(n, V \cup {m.check})  BY <1>1 DEF Covers
<1>6. Watched(n, V \cup {m.check})  BY <1>1 DEF Watched
<1>. QED  BY <1>1, <1>2, <1>4, <1>5, <1>6 DEF InOrder

(* Harvesting the running check keeps the order, with its target verified  *)
(* if it was answered.                                                     *)
LEMMA HarvestOK ==
    ASSUME NEW m, NEW V, InOrder(m, V), NEW result \in CheckResults
    PROVE  InOrder(HarvestTickCheck(m, result), V \cup Answered(m, result))
<1>. DEFINE n == HarvestTickCheck(m, result)
            done == [m EXCEPT !.check = NoTick, !.queued = @ \ {m.check},
                              !.checked = @ \cup {m.check}, !.digests = @ \ {m.check}]
<1>1. m \in Monitor /\ V \subseteq Ticks /\ ChecksAgree(m) /\ Covers(m, V) /\ Watched(m, V)
      BY DEF InOrder
<1>2. CASE m.check = NoTick \/ result = "pending"
    <2>1. n = m  BY <1>2 DEF HarvestTickCheck
    <2>2. V \cup Answered(m, result) = V  BY <1>2 DEF Answered
    <2>. QED  BY <2>1, <2>2
<1>3. CASE m.check # NoTick /\ result \in {"nonempty", "empty"}
    <2>1. m.check \in Ticks  BY <1>1, <1>3 DEF Monitor, OptTicks
    <2>2. /\ done \in Monitor
          /\ done.check = NoTick /\ done.queued = m.queued \ {m.check}
          /\ done.checked = m.checked \cup {m.check}
          /\ done.pending = m.pending /\ done.ready = m.ready /\ done.oldest = m.oldest
          /\ done.outcomes = m.outcomes
          BY <1>1, <2>1 DEF Monitor, OptTicks
    <2>3. V \cup Answered(m, result) = V \cup {m.check}  BY <1>3 DEF Answered
    <2>4. CASE result = "nonempty"
        <3>1. n = done  BY <1>3, <2>4 DEF HarvestTickCheck
        <3>. HIDE DEF done
        <3>. QED  BY <1>3, <2>2, <2>3, <3>1, DoneOK
    <2>5. CASE result = "empty"
        <3>. DEFINE outcomes == [m.outcomes EXCEPT ![m.check] = Outcome(@, "Empty")]
        <3>1. n = WithOutcomes(done, outcomes)
              BY <1>3, <2>2, <2>5 DEF HarvestTickCheck, RecordSendOutcome
        <3>2. outcomes \in [Ticks -> Outcomes \cup {"None"}]
            <4>1. m.outcomes \in [Ticks -> Outcomes \cup {"None"}]  BY <1>1 DEF Monitor
            <4>2. Outcome(m.outcomes[m.check], "Empty") \in Outcomes
                  BY <2>1, <4>1, OutcomeType DEF Outcomes
            <4>. QED  BY <4>1, <4>2
        <3>3. \A t \in Ticks : t # m.check => outcomes[t] = m.outcomes[t]
              BY <1>1 DEF Monitor
        <3>. HIDE DEF done, outcomes
        <3>4. /\ n \in Monitor /\ n.outcomes = outcomes
              /\ n.check = NoTick /\ n.queued = m.queued \ {m.check}
              /\ n.checked = m.checked \cup {m.check}
              /\ n.pending = m.pending /\ n.ready = m.ready /\ n.oldest = m.oldest
              BY <2>2, <3>1, <3>2, WithOutcomesFields
        <3>. HIDE DEF n
        <3>5. InOrder(n, V \cup {m.check})  BY <1>3, <3>3, <3>4, DoneOK
        <3>. QED  BY <2>3, <3>5 DEF n
    <2>. QED  BY <1>3, <2>4, <2>5
<1>4. CASE m.check # NoTick /\ result = "err"
    <2>1. m.check \in Ticks  BY <1>1, <1>4 DEF Monitor, OptTicks
    <2>. DEFINE e == [target |-> m.check, due |-> FALSE]
    <2>2. n = [m EXCEPT !.check = NoTick, !.ready = @ \cup {e}]
          BY <1>4 DEF HarvestTickCheck
    <2>e. e \in ReadyCheck /\ e.target = m.check  BY <2>1 DEF ReadyCheck
    <2>. HIDE DEF e
    <2>r. m.ready \cup {e} \in SUBSET ReadyCheck  BY <1>1, <2>e DEF Monitor
    <2>3. /\ n \in Monitor
          /\ n.check = NoTick /\ n.ready = m.ready \cup {e}
          /\ n.queued = m.queued /\ n.checked = m.checked /\ n.pending = m.pending
          /\ n.oldest = m.oldest /\ n.outcomes = m.outcomes
          BY <1>1, <2>2, <2>r DEF Monitor, OptTicks
    <2>. HIDE DEF n
    <2>4. ReadyTargets(n) = ReadyTargets(m) \cup {m.check}  BY <2>3, <2>e DEF ReadyTargets
    <2>5. ChecksAgree(n)
        <3>1. \A q, r \in n.ready : q.target = r.target => q = r
            <4>1. \A r \in m.ready : r.target # m.check
                  BY <1>1, <1>4 DEF ChecksAgree, ReadyTargets
            <4>2. \A q, r \in m.ready : q.target = r.target => q = r  BY <1>1 DEF ChecksAgree
            <4>. QED  BY <2>3, <2>e, <4>1, <4>2
        <3>2. /\ n.queued = n.pending \cup ReadyTargets(n) \cup ({n.check} \ {NoTick})
              /\ n.pending \cap (ReadyTargets(n) \cup ({n.check} \ {NoTick})) = {}
              /\ ReadyTargets(n) \cap ({n.check} \ {NoTick}) = {}
              BY <1>1, <1>4, <2>3, <2>4 DEF ChecksAgree
        <3>3. n.queued \cap n.checked = {} /\ \A t \in n.queued \cup n.checked : t >= n.oldest
              BY <1>1, <2>3 DEF ChecksAgree
        <3>. QED  BY <3>1, <3>2, <3>3 DEF ChecksAgree
    <2>6. Covers(n, V) /\ Watched(n, V)  BY <1>1, <2>3 DEF Covers, Watched
    <2>7. V \cup Answered(m, result) = V  BY <1>4 DEF Answered
    <2>. QED  BY <1>1, <2>3, <2>5, <2>6, <2>7 DEF InOrder, n
<1>. QED  BY <1>2, <1>3, <1>4 DEF CheckResults

(* A step that only moves targets among the waiting, ready and running     *)
(* ones keeps the order if those still add up to the queue.                *)
LEMMA MovedOK ==
    ASSUME NEW m, NEW V, InOrder(m, V), NEW n \in Monitor,
           n.queued = m.queued, n.checked = m.checked, n.oldest = m.oldest,
           n.outcomes = m.outcomes, ChecksAgree(n)
    PROVE  InOrder(n, V)
BY DEF InOrder, Covers, Watched

(* Promoting waiting targets keeps the order and starts nothing.           *)
LEMMA PromoteOK ==
    ASSUME NEW m, NEW V, InOrder(m, V), NEW at \in Ticks
    PROVE  InOrder(PromoteChecks(m, at), V) /\ PromoteChecks(m, at).check = m.check
<1>. DEFINE n == PromoteChecks(m, at)
            eligible == {t \in m.pending : at >= SaturatingAdd(t, CheckDelay)}
            entries == {[target |-> t, due |-> TRUE] : t \in eligible}
<1>1. m \in Monitor /\ ChecksAgree(m)  BY DEF InOrder
<1>2. eligible \subseteq m.pending /\ m.pending \subseteq Ticks /\ m.pending \subseteq m.queued
      BY <1>1 DEF Monitor, ChecksAgree
<1>3. entries \subseteq ReadyCheck
    <2>1. \A t \in eligible : [target |-> t, due |-> TRUE] \in ReadyCheck  BY <1>2 DEF ReadyCheck
    <2>. QED  BY <2>1
<1>4. n = [m EXCEPT !.pending = @ \ eligible, !.queued = @ \cup eligible, !.ready = @ \cup entries]
      BY DEF PromoteChecks
<1>e. \A r \in entries : r = [target |-> r.target, due |-> TRUE] /\ r.target \in eligible
      OBVIOUS
<1>h. \A t \in eligible : \E r \in entries : r.target = t
    <2>. SUFFICES ASSUME NEW t \in eligible PROVE \E r \in entries : r.target = t
         OBVIOUS
    <2>1. [target |-> t, due |-> TRUE] \in entries  OBVIOUS
    <2>. QED  BY <2>1
<1>. HIDE DEF eligible, entries
<1>5. /\ n \in Monitor
      /\ n.pending = m.pending \ eligible /\ n.queued = m.queued /\ n.ready = m.ready \cup entries
      /\ n.checked = m.checked /\ n.oldest = m.oldest /\ n.check = m.check
      /\ n.outcomes = m.outcomes
    <2>1. /\ m.pending \ eligible \in SUBSET Ticks
          /\ m.ready \cup entries \in SUBSET ReadyCheck
          /\ m.queued \cup eligible = m.queued
          BY <1>1, <1>2, <1>3 DEF Monitor
    <2>. QED  BY <1>1, <1>4, <2>1 DEF Monitor
<1>. HIDE DEF n
<1>6. ReadyTargets(n) = ReadyTargets(m) \cup eligible  BY <1>5, <1>e, <1>h DEF ReadyTargets
<1>7. \A q, r \in n.ready : q.target = r.target => q = r
    <2>1. \A q \in m.ready, r \in entries : q.target # r.target
          BY <1>1, <1>2, <1>e DEF ChecksAgree, ReadyTargets
    <2>2. \A q, r \in m.ready : q.target = r.target => q = r  BY <1>1 DEF ChecksAgree
    <2>3. \A q, r \in entries : q.target = r.target => q = r  BY <1>e
    <2>. QED  BY <1>5, <2>1, <2>2, <2>3
<1>8. ChecksAgree(n)  BY <1>1, <1>2, <1>5, <1>6, <1>7 DEF ChecksAgree
<1>. QED  BY <1>5, <1>8, MovedOK DEF n

(* A set of ticks that is not empty has a greatest one.                    *)
LEMMA TicksHaveMaximum ==
    ASSUME NEW T \in SUBSET Ticks, T # {}
    PROVE  \E t \in T : \A u \in T : u <= t
<1>. DEFINE R == OpToRel(<, Nat)
            H == {MaxTick - t : t \in T}
<1>1. H \subseteq Nat /\ H # {}
    <2>1. \A t \in T : MaxTick - t \in Nat  BY MaxTickAssumption DEF Ticks
    <2>2. H \subseteq Nat  BY <2>1
    <2>3. H # {}  OBVIOUS
    <2>. QED  BY <2>2, <2>3
<1>2. \A x, y \in Nat : y < x => <<y, x>> \in R  BY DEF OpToRel
<1>3. IsWellFoundedOn(R, Nat)  BY NatLessThanWellFounded
<1>. HIDE DEF R
<1>4. PICK x \in H : \A y \in H : ~ (<<y, x>> \in R)
    <2>. HIDE DEF H
    <2>. QED  BY <1>1, <1>3, WFMin
<1>5. PICK t \in T : x = MaxTick - t  OBVIOUS
<1>6. ASSUME NEW u \in T PROVE u <= t
    <2>1. MaxTick - u \in H  OBVIOUS
    <2>2. ~ (MaxTick - u < x)  BY <1>1, <1>2, <1>4, <2>1
    <2>. QED  BY <1>5, <2>2, MaxTickAssumption DEF Ticks
<1>. QED  BY <1>6

(* Starting the newest due check keeps the order.                          *)
LEMMA StartNewestOK ==
    ASSUME NEW m, NEW V, InOrder(m, V), m.check = NoTick
    PROVE  InOrder(StartNewest(m), V)
<1>. DEFINE n == StartNewest(m)
            due == {r \in m.ready : r.due}
            newest == CHOOSE r \in due : \A q \in due : q.target <= r.target
<1>1. m \in Monitor /\ ChecksAgree(m)  BY DEF InOrder
<1>2. CASE due = {}
      BY <1>2 DEF StartNewest
<1>3. CASE due # {}
    <2>1. \E r \in due : \A q \in due : q.target <= r.target
        <3>. DEFINE T == {r.target : r \in due}
        <3>1. T \subseteq Ticks /\ T # {}  BY <1>1, <1>3 DEF Monitor, ReadyCheck
        <3>2. PICK t \in T : \A u \in T : u <= t
            BY <3>1, TicksHaveMaximum
        <3>. QED  BY <3>2
    <2>2. newest \in due /\ newest \in m.ready  BY <2>1
    <2>3. n = [m EXCEPT !.ready = @ \ {newest}, !.check = newest.target]
          BY <1>3 DEF StartNewest
    <2>. HIDE DEF newest, due
    <2>4. newest.target \in Ticks  BY <1>1, <2>2 DEF Monitor, ReadyCheck
    <2>5. /\ n \in Monitor
          /\ n.ready = m.ready \ {newest} /\ n.check = newest.target
          /\ n.pending = m.pending /\ n.queued = m.queued
          /\ n.checked = m.checked /\ n.oldest = m.oldest /\ n.outcomes = m.outcomes
        <3>1. m.ready \ {newest} \subseteq ReadyCheck  BY <1>1 DEF Monitor
        <3>2. newest.target \in OptTicks  BY <2>4 DEF OptTicks
        <3>. HIDE DEF n
        <3>3. n \in Monitor  BY <1>1, <2>3, <3>1, <3>2 DEF Monitor
        <3>4. /\ n.ready = m.ready \ {newest} /\ n.check = newest.target
              /\ n.pending = m.pending /\ n.queued = m.queued
          BY <1>1, <2>3 DEF Monitor
        <3>5. n.checked = m.checked /\ n.oldest = m.oldest /\ n.outcomes = m.outcomes
          BY <1>1, <2>3 DEF Monitor
        <3>. QED  BY <3>3, <3>4, <3>5
    <2>. HIDE DEF n
    <2>6. newest.target # NoTick  BY <2>4, TickNumbers
    <2>7. ReadyTargets(m) = ReadyTargets(n) \cup {newest.target}
          BY <2>2, <2>5 DEF ReadyTargets
    <2>8. newest.target \notin ReadyTargets(n)
          BY <1>1, <2>2, <2>5 DEF ReadyTargets, ChecksAgree
    <2>9. ChecksAgree(n)
          BY <1>1, <2>5, <2>6, <2>7, <2>8 DEF ChecksAgree
    <2>. QED  BY <2>5, <2>9, MovedOK DEF n
<1>. QED  BY <1>2, <1>3

(* Looking for a check to start keeps the order.                           *)
LEMMA EnsureOK ==
    ASSUME NEW m, NEW V, InOrder(m, V), NEW at \in Ticks, NEW spaced
    PROVE  InOrder(EnsureTickCheck(m, at, spaced), V)
<1>. DEFINE expired == ExpireTickChecks(m, at)
<1>1. InOrder(expired, V)  BY ExpireOK
<1>2. CASE expired.check # NoTick \/ ~spaced
      BY <1>1, <1>2 DEF EnsureTickCheck
<1>3. CASE ~(expired.check # NoTick \/ ~spaced)
    <2>1. EnsureTickCheck(m, at, spaced) = StartNewest(PromoteChecks(expired, at))
          BY <1>3 DEF EnsureTickCheck
    <2>. HIDE DEF expired
    <2>2. InOrder(PromoteChecks(expired, at), V) /\ PromoteChecks(expired, at).check = NoTick
          BY <1>1, <1>3, PromoteOK
    <2>. QED  BY <2>1, <2>2, StartNewestOK
<1>. QED  BY <1>2, <1>3

(* The monitor's part of a cycle keeps the order.                          *)
LEMMA TailOK ==
    ASSUME NEW m, NEW V, InOrder(m, V), NEW at \in Ticks, NEW result \in CheckResults,
           NEW spaced, NEW planning
    PROVE  InOrder(MonitorTail(m, at, result, spaced, planning),
                   V \cup Answered(ExpireTickChecks(m, at), result))
<1>. DEFINE W == V \cup Answered(ExpireTickChecks(m, at), result)
            harvested == HarvestTickCheck(ExpireTickChecks(m, at), result)
<1>1. InOrder(ExpireTickChecks(m, at), V)  BY ExpireOK
<1>2. InOrder(harvested, W)  BY <1>1, HarvestOK
<1>3. MonitorTail(m, at, result, spaced, planning)
          = IF planning THEN EnsureTickCheck(harvested, at, spaced) ELSE harvested
      BY DEF MonitorTail
<1>. HIDE DEF W, harvested
<1>4. InOrder(EnsureTickCheck(harvested, at, spaced), W)  BY <1>2, EnsureOK
<1>5. InOrder(MonitorTail(m, at, result, spaced, planning), W)  BY <1>2, <1>3, <1>4
<1>. QED  BY <1>5 DEF W

(* A reset leaves a monitor in order of which nothing is verified.         *)
LEMMA ResetOK ==
    ASSUME NEW m \in Monitor
    PROVE  InOrder(ResetMonitor(m), {})
<1>. DEFINE n == ResetMonitor(m)
<1>1. /\ n \in Monitor /\ n.queued = {} /\ n.pending = {} /\ n.ready = {} /\ n.checked = {}
      /\ n.check = NoTick /\ n.outcomes = [t \in Ticks |-> "None"]
      BY TickNumbers DEF ResetMonitor, InitMonitor, Monitor, OptTicks
<1>. HIDE DEF n
<1>2. ChecksAgree(n) /\ Covers(n, {}) /\ Watched(n, {})
      BY <1>1 DEF ChecksAgree, ReadyTargets, Covers, Watched
<1>. QED  BY <1>1, <1>2 DEF InOrder, n

(* The end of a retry delay keeps the order and the outcomes.              *)
LEMMA DueOK ==
    ASSUME NEW m, NEW V, InOrder(m, V), NEW r \in m.ready
    PROVE  InOrder(BecomesDue(m, r), V) /\ BecomesDue(m, r).outcomes = m.outcomes
<1>. DEFINE n == BecomesDue(m, r)
            e == [r EXCEPT !.due = TRUE]
<1>1. m \in Monitor /\ ChecksAgree(m)  BY DEF InOrder
<1>2. r \in ReadyCheck  BY <1>1 DEF Monitor
<1>3. e \in ReadyCheck /\ e.target = r.target  BY <1>2 DEF ReadyCheck
<1>4. n = [m EXCEPT !.ready = (@ \ {r}) \cup {e}]  BY DEF BecomesDue
<1>. HIDE DEF e, n
<1>5. (m.ready \ {r}) \cup {e} \in SUBSET ReadyCheck  BY <1>1, <1>3 DEF Monitor
<1>6. /\ n \in Monitor /\ n.ready = (m.ready \ {r}) \cup {e}
      /\ n.pending = m.pending /\ n.queued = m.queued /\ n.checked = m.checked
      /\ n.check = m.check /\ n.oldest = m.oldest /\ n.outcomes = m.outcomes
      BY <1>1, <1>4, <1>5 DEF Monitor
<1>7. ReadyTargets(n) = ReadyTargets(m)
    <2>1. \A q \in n.ready : \E p \in m.ready : p.target = q.target  BY <1>3, <1>6
    <2>2. \A p \in m.ready : \E q \in n.ready : q.target = p.target  BY <1>3, <1>6
    <2>. QED  BY <2>1, <2>2 DEF ReadyTargets
<1>8. \A q, p \in n.ready : q.target = p.target => q = p
      BY <1>1, <1>3, <1>6 DEF ChecksAgree
<1>9. ChecksAgree(n)  BY <1>1, <1>6, <1>7, <1>8 DEF ChecksAgree
<1>. QED  BY <1>6, <1>9, MovedOK DEF n

(* A cycle changes the outcome of the running check only, and only if its  *)
(* tick is empty.                                                          *)
LEMMA TailOutcomes ==
    ASSUME NEW m \in Monitor, NEW at, NEW result \in CheckResults, NEW spaced, NEW planning
    PROVE  LET asked == ExpireTickChecks(m, at).check
           IN  MonitorTail(m, at, result, spaced, planning).outcomes
                   = IF asked # NoTick /\ result = "empty"
                     THEN [m.outcomes EXCEPT ![asked] = Outcome(@, "Empty")] ELSE m.outcomes
<1>. DEFINE expired == ExpireTickChecks(m, at)
            harvested == HarvestTickCheck(expired, result)
<1>0. /\ DOMAIN m = {"outcomes", "stats", "pending", "ready", "queued", "checked", "digests",
                     "check", "oldest"}
      BY DEF Monitor
<1>1. expired.outcomes = m.outcomes /\ DOMAIN expired = DOMAIN m
      BY <1>0 DEF ExpireTickChecks
<1>2. /\ harvested.outcomes = IF expired.check # NoTick /\ result = "empty"
                              THEN [m.outcomes EXCEPT ![expired.check] = Outcome(@, "Empty")]
                              ELSE m.outcomes
      /\ DOMAIN harvested = DOMAIN m
    <2>. HIDE DEF expired
    <2>. QED  BY <1>0, <1>1 DEF HarvestTickCheck, RecordSendOutcome, WithOutcomes, CheckResults
<1>. HIDE DEF harvested
<1>3. ASSUME NEW n, DOMAIN n = DOMAIN m
      PROVE  EnsureTickCheck(n, at, spaced).outcomes = n.outcomes
      BY <1>0, <1>3 DEF EnsureTickCheck, ExpireTickChecks, PromoteChecks, StartNewest
<1>4. MonitorTail(m, at, result, spaced, planning).outcomes = harvested.outcomes
      BY <1>2, <1>3 DEF MonitorTail, harvested
<1>. QED  BY <1>2, <1>4

(* The marks of a step change each outcome as the source records them.     *)
LEMMA ApplyOutcomes ==
    ASSUME NEW m \in Monitor, NEW marks
    PROVE  ApplyMarks(m, marks).outcomes
               = [t \in Ticks |-> MarkedOutcome(m.outcomes[t], marks, t)]
BY DEF ApplyMarks, WithOutcomes, Monitor

-----------------------------------------------------------------------------
(* The counters: what one holds beyond a base value is the number of       *)
(* targets that stand in its outcome.                                      *)

(* The targets that stand in an outcome.                                   *)
StandingIn(outcomes, o) == {t \in Ticks : outcomes[t] = o}

(* The counters stats add up over the counters base.                       *)
AddUp(stats, outcomes, base) ==
    \A o \in Outcomes : stats[o] = base[o] + Cardinality(StandingIn(outcomes, o))

(* A step from monitor m to n counts every change of outcome.              *)
CountsChanges(m, n) ==
    \/ n.stats = m.stats /\ n.outcomes = m.outcomes
    \/ n.stats = Recount(m.stats, m.outcomes, n.outcomes)

(* The targets are finitely many, and so are those of an outcome.          *)
LEMMA TicksAreFinite ==
    ASSUME NEW S \in SUBSET Ticks
    PROVE  IsFiniteSet(S) /\ Cardinality(S) \in Nat
<1>1. 0 \in Int /\ MaxTick \in Int  BY MaxTickAssumption
<1>2. IsFiniteSet(0 .. MaxTick)  BY <1>1, FS_Interval
<1>3. IsFiniteSet(S)  BY <1>2, FS_Subset DEF Ticks
<1>. QED  BY <1>3, FS_CardinalityType

(* Counting outcomes over again keeps the sum: no target leaves a counter  *)
(* it was not in, so the subtraction never saturates.                      *)
LEMMA RecountAddsUp ==
    ASSUME NEW stats \in [Outcomes -> Nat], NEW base \in [Outcomes -> Nat],
           NEW old, NEW new, AddUp(stats, old, base)
    PROVE  AddUp(Recount(stats, old, new), new, base)
<1>. SUFFICES ASSUME NEW o \in Outcomes
              PROVE  Recount(stats, old, new)[o] = base[o] + Cardinality(StandingIn(new, o))
     BY DEF AddUp
<1>. DEFINE O == StandingIn(old, o)
            N == StandingIn(new, o)
            left == {t \in Ticks : old[t] = o /\ new[t] # o}
            entered == {t \in Ticks : old[t] # o /\ new[t] = o}
            stayed == O \cap N
<1>1. /\ O \in SUBSET Ticks /\ N \in SUBSET Ticks
      /\ left = O \ N /\ entered = N \ O /\ stayed = N \cap O
      BY DEF StandingIn
<1>2. /\ Recount(stats, old, new)[o]
             = MaxOf(0, stats[o] - Cardinality(left)) + Cardinality(entered)
      /\ stats[o] = base[o] + Cardinality(O) /\ base[o] \in Nat
      BY DEF Recount, AddUp
<1>. HIDE DEF O, N, left, entered, stayed
<1>3. /\ IsFiniteSet(O) /\ Cardinality(O) \in Nat
      /\ IsFiniteSet(N) /\ Cardinality(N) \in Nat
      BY <1>1, TicksAreFinite
<1>4. Cardinality(left) \in Nat /\ Cardinality(entered) \in Nat /\ Cardinality(stayed) \in Nat
    <2>1. O \ N \in SUBSET Ticks /\ N \ O \in SUBSET Ticks /\ N \cap O \in SUBSET Ticks  BY <1>1
    <2>2. Cardinality(O \ N) \in Nat /\ Cardinality(N \ O) \in Nat /\ Cardinality(N \cap O) \in Nat
          BY <2>1, TicksAreFinite
    <2>. QED  BY <1>1, <2>2
<1>5. Cardinality(left) = Cardinality(O) - Cardinality(stayed)
    <2>1. Cardinality(O \ N) = Cardinality(O) - Cardinality(O \cap N)  BY <1>3, FS_Difference
    <2>. QED  BY <1>1, <2>1 DEF stayed
<1>6. Cardinality(entered) = Cardinality(N) - Cardinality(stayed)
    <2>1. Cardinality(N \ O) = Cardinality(N) - Cardinality(N \cap O)  BY <1>3, FS_Difference
    <2>. QED  BY <1>1, <2>1
<1>7. stats[o] - Cardinality(left) = base[o] + Cardinality(stayed)
      BY <1>2, <1>3, <1>4, <1>5
<1>8. MaxOf(0, stats[o] - Cardinality(left)) = base[o] + Cardinality(stayed)
      BY <1>2, <1>4, <1>7 DEF MaxOf
<1>9. Recount(stats, old, new)[o] = base[o] + Cardinality(N)
      BY <1>2, <1>3, <1>4, <1>6, <1>8
<1>. QED  BY <1>9 DEF N

(* A step that counts every change keeps the sum.                          *)
LEMMA CountingKeepsSum ==
    ASSUME NEW m \in Monitor, NEW n, NEW base \in [Outcomes -> Nat],
           AddUp(m.stats, m.outcomes, base), CountsChanges(m, n)
    PROVE  AddUp(n.stats, n.outcomes, base)
<1>1. m.stats \in [Outcomes -> Nat]  BY DEF Monitor
<1>2. CASE n.stats = m.stats /\ n.outcomes = m.outcomes
      BY <1>2
<1>3. CASE n.stats = Recount(m.stats, m.outcomes, n.outcomes)
    <2>1. AddUp(Recount(m.stats, m.outcomes, n.outcomes), n.outcomes, base)
          BY <1>1, RecountAddsUp
    <2>. QED  BY <1>3, <2>1
<1>. QED  BY <1>2, <1>3 DEF CountsChanges

(* The fields of a monitor.                                                *)
LEMMA MonitorDomain ==
    ASSUME NEW m \in Monitor
    PROVE  DOMAIN m = {"outcomes", "stats", "pending", "ready", "queued", "checked", "digests",
                       "check", "oldest"}
BY DEF Monitor

(* The marks of a step are counted.                                        *)
LEMMA MarksAreCounted ==
    ASSUME NEW m \in Monitor, NEW marks
    PROVE  CountsChanges(m, ApplyMarks(m, marks))
<1>. DEFINE outcomes == [t \in Ticks |-> MarkedOutcome(m.outcomes[t], marks, t)]
            w == WithOutcomes(m, outcomes)
<1>1. w.outcomes = outcomes /\ w.stats = Recount(m.stats, m.outcomes, outcomes)
      BY MonitorDomain DEF WithOutcomes
<1>2. /\ ApplyMarks(m, marks).outcomes = w.outcomes
      /\ ApplyMarks(m, marks).stats = w.stats
      BY DEF ApplyMarks
<1>. HIDE DEF outcomes, w
<1>. QED  BY <1>1, <1>2 DEF CountsChanges

(* A cycle counts the change that the answered check makes.                *)
LEMMA TailIsCounted ==
    ASSUME NEW m \in Monitor, NEW at, NEW result \in CheckResults, NEW spaced, NEW planning
    PROVE  CountsChanges(m, MonitorTail(m, at, result, spaced, planning))
<1>. DEFINE expired == ExpireTickChecks(m, at)
            harvested == HarvestTickCheck(expired, result)
<1>0. DOMAIN m = {"outcomes", "stats", "pending", "ready", "queued", "checked", "digests",
                  "check", "oldest"}
      BY MonitorDomain
<1>1. /\ expired.outcomes = m.outcomes /\ expired.stats = m.stats
      /\ DOMAIN expired = DOMAIN m
      BY <1>0 DEF ExpireTickChecks
<1>2. CountsChanges(m, harvested) /\ DOMAIN harvested = DOMAIN m
    <2>. DEFINE outcomes == [expired.outcomes EXCEPT ![expired.check] = Outcome(@, "Empty")]
    <2>. HIDE DEF expired
    <2>1. CASE expired.check = NoTick \/ result = "pending"
          BY <1>1, <2>1 DEF HarvestTickCheck, CountsChanges
    <2>2. CASE expired.check # NoTick /\ result = "nonempty"
          BY <1>0, <1>1, <2>2 DEF HarvestTickCheck, CountsChanges
    <2>3. CASE expired.check # NoTick /\ result = "empty"
        <3>1. /\ harvested.outcomes = outcomes
              /\ harvested.stats = Recount(m.stats, m.outcomes, outcomes)
              /\ DOMAIN harvested = DOMAIN m
              BY <1>0, <1>1, <2>3 DEF HarvestTickCheck, RecordSendOutcome, WithOutcomes
        <3>. HIDE DEF harvested, outcomes
        <3>. QED  BY <3>1 DEF CountsChanges
    <2>4. CASE expired.check # NoTick /\ result = "err"
          BY <1>0, <1>1, <2>4 DEF HarvestTickCheck, CountsChanges
    <2>. QED  BY <2>1, <2>2, <2>3, <2>4 DEF CheckResults
<1>. HIDE DEF harvested
<1>3. ASSUME NEW n, DOMAIN n = DOMAIN m
      PROVE  /\ EnsureTickCheck(n, at, spaced).outcomes = n.outcomes
             /\ EnsureTickCheck(n, at, spaced).stats = n.stats
      BY <1>0, <1>3 DEF EnsureTickCheck, ExpireTickChecks, PromoteChecks, StartNewest
<1>4. /\ MonitorTail(m, at, result, spaced, planning).outcomes = harvested.outcomes
      /\ MonitorTail(m, at, result, spaced, planning).stats = harvested.stats
      BY <1>2, <1>3 DEF MonitorTail, harvested
<1>. QED  BY <1>2, <1>4 DEF CountsChanges

(* With every outcome absent, nothing stands in any counter.               *)
LEMMA NothingStands ==
    ASSUME NEW stats \in [Outcomes -> Nat], NEW outcomes, \A t \in Ticks : outcomes[t] = "None"
    PROVE  AddUp(stats, outcomes, stats)
<1>1. ASSUME NEW o \in Outcomes PROVE Cardinality(StandingIn(outcomes, o)) = 0
    <2>1. StandingIn(outcomes, o) = {}  BY DEF StandingIn, Outcomes
    <2>. QED  BY <2>1, FS_EmptySet
<1>. QED  BY <1>1 DEF AddUp

=============================================================================
