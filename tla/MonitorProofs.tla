--------------------------- MODULE MonitorProofs ---------------------------
(***************************************************************************)
(* What the monitor guarantees for all constants, under every sequence of  *)
(* marks, ticks and check results.                                         *)
(***************************************************************************)
EXTENDS MonitorWatch, TickMonitorProofs

(* Reports and outcomes: recording one more report keeps the worst.        *)
LEMMA WorstOfOneMore ==
    ASSUME NEW S \in SUBSET Outcomes, NEW k \in Outcomes
    PROVE  Outcome(Worst(S), k) = Worst(S \cup {k})
BY DEF Outcome, TransitionAllowed, Worst, Outcomes

(* The marks of a step are recorded as their worst.                        *)
LEMMA WorstOfMarks ==
    ASSUME NEW S \in SUBSET Outcomes, NEW marks, NEW t
    PROVE  MarkedOutcome(Worst(S), marks, t)
               = Worst(S \cup {k \in {"Ok", "Failed"} : [target |-> t, mark |-> k] \in marks})
<1>. DEFINE has(k) == [target |-> t, mark |-> k] \in marks
            O == IF has("Ok") THEN {"Ok"} ELSE {}
            F == IF has("Failed") THEN {"Failed"} ELSE {}
            K == {k \in {"Ok", "Failed"} : [target |-> t, mark |-> k] \in marks}
<1>1. K = O \cup F  OBVIOUS
<1>2. "Ok" \in Outcomes /\ "Failed" \in Outcomes  BY DEF Outcomes
<1>3. (IF has("Ok") THEN Outcome(Worst(S), "Ok") ELSE Worst(S)) = Worst(S \cup O)
      BY <1>2, WorstOfOneMore
<1>4. S \cup O \in SUBSET Outcomes  BY <1>2
<1>5. (IF has("Failed") THEN Outcome(Worst(S \cup O), "Failed") ELSE Worst(S \cup O))
          = Worst((S \cup O) \cup F)
      BY <1>2, <1>4, WorstOfOneMore
<1>6. (S \cup O) \cup F = S \cup K  BY <1>1
<1>7. MarkedOutcome(Worst(S), marks, t) = Worst((S \cup O) \cup F)
      BY <1>3, <1>5 DEF MarkedOutcome
<1>8. MarkedOutcome(Worst(S), marks, t) = Worst(S \cup K)
    <2>. HIDE DEF O, F, K
    <2>. QED  BY <1>6, <1>7
<1>. QED  BY <1>8

-----------------------------------------------------------------------------
(* The inductive invariant: the monitor is in order with respect to the    *)
(* targets verified, and its outcomes are the worst ones reported.         *)
MonitorInv ==
    /\ InOrder(mon, verified)
    /\ tick \in Ticks
    /\ reported \in [Ticks -> SUBSET Outcomes]
    /\ WorstOutcome

(* The invariant holds initially.                                          *)
LEMMA MonitorStarts == MonitorInit => MonitorInv
<1>. SUFFICES ASSUME MonitorInit PROVE MonitorInv  OBVIOUS
<1>1. /\ InitMonitor \in Monitor /\ InitMonitor.stats = [o \in Outcomes |-> 0]
      /\ InitMonitor.outcomes = [t \in Ticks |-> "None"]
      BY TickNumbers DEF InitMonitor, Monitor, OptTicks
<1>2. ResetMonitor(InitMonitor) = InitMonitor  BY DEF ResetMonitor, InitMonitor
<1>3. InOrder(mon, verified)  BY <1>1, <1>2, ResetOK DEF MonitorInit
<1>4. WorstOutcome  BY <1>1 DEF MonitorInit, WorstOutcome, Worst
<1>. QED  BY <1>3, <1>4, TickNumbers DEF MonitorInit, MonitorInv

(* Every step keeps the invariant.                                         *)
LEMMA MonitorPreserved == MonitorInv /\ [MonitorNext]_monitorVars => MonitorInv'
<1>. SUFFICES ASSUME MonitorInv, [MonitorNext]_monitorVars PROVE MonitorInv'  OBVIOUS
<1>1. /\ InOrder(mon, verified) /\ tick \in Ticks /\ mon \in Monitor
      /\ reported \in [Ticks -> SUBSET Outcomes]
      /\ \A t \in Ticks : mon.outcomes[t] = Worst(reported[t])
      BY DEF MonitorInv, InOrder, WorstOutcome
<1>2. CASE ServeSlots
    <2>1. PICK marks \in MarkSets :
              /\ mon' = ApplyMarks(mon, marks)
              /\ reported' = [t \in Ticks |-> reported[t] \cup
                                 {k \in {"Ok", "Failed"} : [target |-> t, mark |-> k] \in marks}]
          BY <1>2 DEF ServeSlots
    <2>2. marks \in SUBSET MonitorMarks
          BY MonitorWatchAssumption DEF MarkSets, MonitorMarks
    <2>3. InOrder(mon', verified')  BY <1>1, <1>2, <2>1, <2>2, ApplyMarksOK DEF ServeSlots
    <2>4. reported' \in [Ticks -> SUBSET Outcomes]  BY <1>1, <2>1 DEF Outcomes
    <2>5. WorstOutcome'
        <3>. SUFFICES ASSUME NEW t \in Ticks PROVE mon'.outcomes[t] = Worst(reported'[t])
             BY DEF WorstOutcome
        <3>1. mon'.outcomes[t] = MarkedOutcome(Worst(reported[t]), marks, t)
            <4>1. mon'.outcomes = [u \in Ticks |-> MarkedOutcome(mon.outcomes[u], marks, u)]
                  BY <1>1, <2>1, ApplyOutcomes
            <4>2. mon'.outcomes[t] = MarkedOutcome(mon.outcomes[t], marks, t)  BY <4>1
            <4>3. mon.outcomes[t] = Worst(reported[t])  BY <1>1
            <4>. QED  BY <4>2, <4>3
        <3>2. reported[t] \in SUBSET Outcomes  BY <1>1
        <3>. QED  BY <2>1, <3>1, <3>2, WorstOfMarks
    <2>. QED  BY <1>1, <1>2, <2>3, <2>4, <2>5 DEF ServeSlots, MonitorInv
<1>3. CASE NextReport
      BY <1>1, <1>3, MonitorWatchAssumption, MaxTickAssumption
      DEF NextReport, histories, MonitorInv, WorstOutcome, Ticks
<1>4. ASSUME NEW result \in CheckResults, NEW spaced, NEW planning,
             CheckTicks(result, spaced, planning)
      PROVE  MonitorInv'
    <2>. DEFINE asked == ExpireTickChecks(mon, tick).check
                answered == Answered(ExpireTickChecks(mon, tick), result)
    <2>1. /\ mon' = MonitorTail(mon, tick, result, spaced, planning)
          /\ verified' = verified \cup answered
          /\ reported' = [t \in Ticks |-> reported[t] \cup
                             IF t \in answered /\ result = "empty" THEN {"Empty"} ELSE {}]
          /\ tick' = tick
          BY <1>4 DEF CheckTicks, Answered
    <2>2. InOrder(mon', verified')  BY <1>1, <2>1, TailOK
    <2>3. reported' \in [Ticks -> SUBSET Outcomes]  BY <1>1, <2>1 DEF Outcomes
    <2>4. mon'.outcomes = IF asked # NoTick /\ result = "empty"
                          THEN [mon.outcomes EXCEPT ![asked] = Outcome(@, "Empty")]
                          ELSE mon.outcomes
          BY <1>1, <2>1, TailOutcomes
    <2>5. \A t \in Ticks : t \in answered /\ result = "empty"
                              <=> t = asked /\ asked # NoTick /\ result = "empty"
          BY DEF Answered
    <2>. HIDE DEF asked, answered
    <2>6. WorstOutcome'
        <3>. SUFFICES ASSUME NEW t \in Ticks PROVE mon'.outcomes[t] = Worst(reported'[t])
             BY DEF WorstOutcome
        <3>0. mon.outcomes \in [Ticks -> Outcomes \cup {"None"}]  BY <1>1 DEF Monitor
        <3>1. CASE t \in answered /\ result = "empty"
            <4>1. mon'.outcomes[t] = Outcome(Worst(reported[t]), "Empty")
                  BY <1>1, <2>4, <2>5, <3>0, <3>1
            <4>2. reported'[t] = reported[t] \cup {"Empty"}  BY <2>1, <3>1
            <4>3. reported[t] \in SUBSET Outcomes /\ "Empty" \in Outcomes  BY <1>1 DEF Outcomes
            <4>. QED  BY <4>1, <4>2, <4>3, WorstOfOneMore
        <3>2. CASE ~(t \in answered /\ result = "empty")
            <4>1. mon'.outcomes[t] = mon.outcomes[t]  BY <2>4, <2>5, <3>0, <3>2
            <4>2. reported'[t] = reported[t]  BY <2>1, <3>2
            <4>. QED  BY <1>1, <4>1, <4>2
        <3>. QED  BY <3>1, <3>2
    <2>. QED  BY <1>1, <2>1, <2>2, <2>3, <2>6 DEF MonitorInv
<1>5. CASE EpochReset
    <2>1. InOrder(mon', verified')  BY <1>1, <1>5, ResetOK DEF EpochReset
    <2>2. \A t \in Ticks : mon'.outcomes[t] = "None"
          BY <1>5 DEF EpochReset, ResetMonitor, InitMonitor
    <2>3. reported' = [t \in Ticks |-> {}] /\ tick' = tick  BY <1>5 DEF EpochReset
    <2>4. WorstOutcome'  BY <2>2, <2>3 DEF WorstOutcome, Worst
    <2>. QED  BY <1>1, <2>1, <2>3, <2>4 DEF MonitorInv
<1>6. CASE RetryDue
    <2>1. PICK r \in mon.ready : mon' = BecomesDue(mon, r)  BY <1>6 DEF RetryDue
    <2>2. InOrder(mon', verified) /\ mon'.outcomes = mon.outcomes  BY <1>1, <2>1, DueOK
    <2>. QED  BY <1>1, <1>6, <2>2 DEF RetryDue, histories, MonitorInv, WorstOutcome
<1>7. CASE UNCHANGED monitorVars
      BY <1>1, <1>7 DEF monitorVars, MonitorInv, WorstOutcome
<1>. QED  BY <1>2, <1>3, <1>4, <1>5, <1>6, <1>7 DEF MonitorNext

(* Every reachable state satisfies the inductive invariant.                *)
THEOREM MonitorInvariant == MonitorSpec => []MonitorInv
<1>. QED  BY MonitorStarts, MonitorPreserved, PTL DEF MonitorSpec

(* The collections of targets to check agree in every reachable state: a   *)
(* queued target is waiting, ready or running, exactly one of them.        *)
THEOREM ChecksAlwaysPartition == MonitorSpec => []ChecksPartition
<1>1. MonitorInv => ChecksPartition  BY DEF MonitorInv, InOrder, ChecksPartition
<1>. QED  BY <1>1, MonitorInvariant, PTL

(* No target is verified a second time in an epoch.                        *)
THEOREM VerifiedAtMostOnce == MonitorSpec => []VerifiedOnce
<1>1. ASSUME MonitorInv PROVE VerifiedOnce
    <2>1. ChecksAgree(mon) /\ Covers(mon, verified) /\ mon \in Monitor
          BY <1>1 DEF MonitorInv, InOrder
    <2>2. mon.oldest \in Nat /\ mon.queued \subseteq Nat  BY <2>1, NumberFields
    <2>3. ASSUME NEW t \in mon.queued, t \in verified PROVE FALSE
        <3>1. t \notin mon.checked /\ t >= mon.oldest  BY <2>1 DEF ChecksAgree
        <3>2. t < mon.oldest  BY <2>1, <2>3, <3>1 DEF Covers
        <3>. QED  BY <2>2, <3>1, <3>2
    <2>. QED  BY <2>3 DEF VerifiedOnce
<1>. QED  BY <1>1, MonitorInvariant, PTL

(* Every counted target is queued for its check, was verified, or left the *)
(* window.                                                                 *)
THEOREM NoneEscapes == MonitorSpec => []NoneUnwatched
<1>1. MonitorInv => NoneUnwatched  BY DEF MonitorInv, InOrder, Watched, NoneUnwatched
<1>. QED  BY <1>1, MonitorInvariant, PTL

(* Every target stands in the worst outcome reported of it.                *)
THEOREM WorstAlwaysCounted == MonitorSpec => []WorstOutcome
<1>1. MonitorInv => WorstOutcome  BY DEF MonitorInv
<1>. QED  BY <1>1, MonitorInvariant, PTL

-----------------------------------------------------------------------------
(* A second invariant, on top of the first: the counters add up over those *)
(* of the last reset.                                                      *)
CountersInv == settled \in [Outcomes -> Nat] /\ AddUp(mon.stats, mon.outcomes, settled)

(* The counters are what they were at the last reset plus the targets of   *)
(* each outcome, in every reachable state.                                 *)
THEOREM CountersAlwaysAddUp == MonitorSpec => []CountersAddUp
<1>1. MonitorInit => CountersInv
    <2>. SUFFICES ASSUME MonitorInit PROVE CountersInv  OBVIOUS
    <2>1. /\ mon.stats = settled /\ settled \in [Outcomes -> Nat]
          /\ \A t \in Ticks : mon.outcomes[t] = "None"
          BY DEF MonitorInit, InitMonitor
    <2>. QED  BY <2>1, NothingStands DEF CountersInv
<1>2. MonitorInv /\ CountersInv /\ [MonitorNext]_monitorVars => CountersInv'
    <2>. SUFFICES ASSUME MonitorInv, CountersInv, [MonitorNext]_monitorVars PROVE CountersInv'
         OBVIOUS
    <2>1. /\ mon \in Monitor /\ settled \in [Outcomes -> Nat]
          /\ AddUp(mon.stats, mon.outcomes, settled)
          BY DEF MonitorInv, InOrder, CountersInv
    <2>k. ASSUME CountsChanges(mon, mon'), settled' = settled PROVE CountersInv'
        <3>1. AddUp(mon'.stats, mon'.outcomes, settled)  BY <2>1, <2>k, CountingKeepsSum
        <3>. QED  BY <2>1, <2>k, <3>1 DEF CountersInv
    <2>2. CASE ServeSlots
          BY <2>1, <2>2, <2>k, MarksAreCounted DEF ServeSlots
    <2>3. CASE NextReport
          BY <2>3, <2>k DEF NextReport, histories, CountsChanges
    <2>4. ASSUME NEW result \in CheckResults, NEW spaced, NEW planning,
                 CheckTicks(result, spaced, planning)
          PROVE  CountersInv'
          BY <2>1, <2>4, <2>k, TailIsCounted DEF CheckTicks
    <2>5. CASE EpochReset
        <3>1. /\ settled' = mon.stats /\ mon'.stats = mon.stats
              /\ \A t \in Ticks : mon'.outcomes[t] = "None"
              BY <2>5 DEF EpochReset, ResetMonitor, InitMonitor
        <3>2. mon.stats \in [Outcomes -> Nat]  BY <2>1 DEF Monitor
        <3>3. AddUp(mon.stats, mon'.outcomes, mon.stats)  BY <3>1, <3>2, NothingStands
        <3>. QED  BY <3>1, <3>2, <3>3 DEF CountersInv
    <2>6. CASE RetryDue
        <3>1. PICK r \in mon.ready : mon' = BecomesDue(mon, r)  BY <2>6 DEF RetryDue
        <3>2. mon'.stats = mon.stats /\ mon'.outcomes = mon.outcomes  BY <3>1 DEF BecomesDue
        <3>. QED  BY <2>6, <2>k, <3>2 DEF RetryDue, histories, CountsChanges
    <2>7. CASE UNCHANGED monitorVars
          BY <2>7, <2>k DEF monitorVars, CountsChanges
    <2>. QED  BY <2>2, <2>3, <2>4, <2>5, <2>6, <2>7 DEF MonitorNext
<1>3. CountersInv => CountersAddUp  BY DEF CountersInv, AddUp, StandingIn, CountersAddUp
<1>. QED  BY <1>1, <1>2, <1>3, MonitorInvariant, PTL DEF MonitorSpec

=============================================================================
