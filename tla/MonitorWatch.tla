---------------------------- MODULE MonitorWatch ----------------------------
(***************************************************************************)
(* The monitor under every sequence of marks, ticks and check results.     *)
(* The histories say independently what was reported of each target, what  *)
(* was verified, and what the counters held at the last reset.             *)
(***************************************************************************)
EXTENDS TickMonitor

CONSTANTS
    LastTick,      \* bound: the highest tick reported
    Targets,       \* the targets that are marked
    MaxJump,       \* bound: how far one tick report may move forward,
    MaxRegress,    \* bound: and backward
    MaxResets      \* bound: epoch changes

ASSUME MonitorWatchAssumption ==
    /\ LastTick \in Ticks /\ Targets \subseteq Ticks
    /\ MaxJump \in Nat /\ MaxRegress \in Nat /\ MaxResets \in Nat

VARIABLES
    mon,        \* the monitor
    tick,       \* the tick of the last report
    reported,   \* history: the outcomes reported of each target since the last reset
    verified,   \* history: the targets whose check was answered since the last reset
    settled,    \* history: the counters at the last reset
    resets      \* number of resets

histories == <<reported, verified, settled>>
monitorVars == <<mon, tick, reported, verified, settled, resets>>

MonitorInit ==
    /\ mon = InitMonitor
    /\ tick = 0
    /\ reported = [t \in Ticks |-> {}]
    /\ verified = {}
    /\ settled = [o \in Outcomes |-> 0]
    /\ resets = 0

(* A handler may mark a target up to the planning horizon: one outcome, or *)
(* an acceptance and the evidence of its loss in the same step.            *)
MarkSets ==
    LET markOf(t, ks) == {[target |-> t, mark |-> k] : k \in ks}
        inReach == {t \in Targets : t <= tick + SEND_LEAD_TICKS}
        unsent == {t \in Targets : tick < t /\ t <= tick + REVEAL_SEND_LEAD_TICKS}
    IN  {markOf(t, ks) : t \in inReach, ks \in {{"Ok"}, {"Failed"}, {"Ok", "Failed"}}}
            \cup {markOf(t, {"Digest"}) : t \in unsent}

(* Slots are served in the cycle of the current tick.  The cycle may end   *)
(* there, when a planning error cuts it short.                             *)
ServeSlots ==
    /\ \E marks \in MarkSets :
          /\ mon' = ApplyMarks(mon, marks)
          /\ reported' = [t \in Ticks |-> reported[t] \cup
                             {k \in {"Ok", "Failed"} : [target |-> t, mark |-> k] \in marks}]
    /\ UNCHANGED <<tick, verified, settled, resets>>

(* The next tick report. *)
NextReport ==
    /\ tick' \in 0 .. LastTick
    /\ tick' <= tick + MaxJump /\ tick' >= tick - MaxRegress
    /\ UNCHANGED <<mon, histories, resets>>

(* The monitor's part of a cycle that reaches it. *)
CheckTicks(result, spaced, planning) ==
    LET asked == {ExpireTickChecks(mon, tick).check} \ {NoTick}
        answered == IF result \in {"empty", "nonempty"} THEN asked ELSE {}
    IN  /\ mon' = MonitorTail(mon, tick, result, spaced, planning)
        /\ verified' = verified \cup answered
        /\ reported' = [t \in Ticks |-> reported[t] \cup
                           IF t \in answered /\ result = "empty" THEN {"Empty"} ELSE {}]
        /\ UNCHANGED <<tick, settled, resets>>

EpochReset ==
    /\ resets < MaxResets
    /\ mon' = ResetMonitor(mon)
    /\ reported' = [t \in Ticks |-> {}]
    /\ verified' = {}
    /\ settled' = mon.stats
    /\ resets' = resets + 1
    /\ UNCHANGED tick

RetryDue ==
    /\ \E r \in mon.ready : ~r.due /\ mon' = BecomesDue(mon, r)
    /\ UNCHANGED <<tick, histories, resets>>

MonitorNext ==
    \/ ServeSlots
    \/ NextReport
    \/ \E result \in CheckResults, spaced, planning \in BOOLEAN : CheckTicks(result, spaced, planning)
    \/ EpochReset
    \/ RetryDue

MonitorSpec == MonitorInit /\ [][MonitorNext]_monitorVars

-----------------------------------------------------------------------------

(* The counters are the outcomes: what they held at the last reset plus    *)
(* one for every target counted since, however often it was reclassified.  *)
CountersAddUp ==
    \A o \in Outcomes :
        mon.stats[o] = settled[o] + Cardinality({t \in Ticks : mon.outcomes[t] = o})

Worst(reports) ==
    IF "Empty" \in reports THEN "Empty"
    ELSE IF "Failed" \in reports THEN "Failed"
    ELSE IF "Ok" \in reports THEN "Ok"
    ELSE "None"

(* Each target is counted in the worst outcome ever reported of it, in     *)
(* whatever order acceptance, loss and an empty tick were learnt.          *)
WorstOutcome == \A t \in Ticks : mon.outcomes[t] = Worst(reported[t])

(* The collections that hold a target to check agree: a queued target is   *)
(* waiting, ready or being checked, exactly one of them and once, and none *)
(* is checked already or out of the window.                                *)
ChecksPartition == ChecksAgree(mon)

(* A target is verified at most once per epoch: after its entry among the  *)
(* checked ones expired, the watermark keeps it out, also when ticks       *)
(* regress and its delivery is reclassified afterwards.                    *)
VerifiedOnce == mon.queued \cap verified = {}

(* No counted target escapes its check: it is queued, was verified, or     *)
(* fell out of the window.                                                 *)
NoneUnwatched ==
    \A t \in Ticks :
        mon.outcomes[t] # "None" => t \in mon.queued \cup verified \/ t < mon.oldest

=============================================================================
