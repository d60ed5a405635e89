-------------------------- MODULE MonitoredEngine --------------------------
(***************************************************************************)
(* The engine with its delivery counters and tick checks.  The monitor     *)
(* takes the marks of each engine step, does its part at the end of a      *)
(* cycle whose planning succeeded, and never holds the engine up.          *)
(***************************************************************************)
EXTENDS ProviderEngine, TickMonitor

CONSTANT AnswerKinds     \* how a check may stand when it is harvested

ASSUME AnswerAssumption == AnswerKinds \subseteq CheckResults

VARIABLES
    mon,      \* the monitor
    starts    \* history: the first targets of the chains started since the last reset

monitoredVars == <<vars, mon, starts>>

MonitoredInit == Init /\ mon = InitMonitor /\ starts = [s \in Streams |-> {}]

(* The chains that a step starts. *)
RecordStarts(old) ==
    starts' = [s \in Streams |-> old[s] \cup ({slots'[s].chain.first} \ {NoTick})]

MonitoredFetch ==
    /\ Fetch
    /\ IF WasReset THEN mon' = ResetMonitor(mon) /\ starts' = [s \in Streams |-> {}]
       ELSE UNCHANGED <<mon, starts>>

MonitoredHarvest ==
    /\ Harvest
    /\ mon' = ApplyMarks(mon, marks')
    /\ RecordStarts(starts)

CyclePlan == IF token \/ EpochDraining THEN DrainPlan
             ELSE IF EpochActive THEN ActivePlan ELSE HoldPlan

MonitoredPlanAndSend ==
    /\ PlanAndSend
    /\ LET marked == ApplyMarks(mon, marks')
       IN  IF AllOk(CyclePlan)
           THEN \E result \in IF mon.check = NoTick THEN {"pending"} ELSE AnswerKinds,
                   spaced \in BOOLEAN :
                    mon' = MonitorTail(marked, info.tick, result, spaced, ~token /\ ~EpochDraining)
           ELSE mon' = marked
    /\ RecordStarts(starts)

MonitoredQuiet ==
    /\ \/ ObserveNothing \/ ObserveRequest \/ ObserveError \/ ExitDrained \/ ExitTimedOut
       \/ Environment \/ Finished
    /\ UNCHANGED <<mon, starts>>

MonitoredRetryDue ==
    /\ pc # "exited"
    /\ \E r \in mon.ready : ~r.due /\ mon' = BecomesDue(mon, r)
    /\ UNCHANGED <<vars, starts>>

MonitoredNext ==
    \/ MonitoredFetch \/ MonitoredHarvest \/ MonitoredPlanAndSend \/ MonitoredQuiet
    \/ MonitoredRetryDue

MonitoredSpec == MonitoredInit /\ [][MonitoredNext]_monitoredVars

-----------------------------------------------------------------------------

(* An accepted normal reveal is counted as soon as its acceptance is       *)
(* harvested, and its digest is kept for as long as a check may ask for    *)
(* it, whatever is retried, frozen or lost in between.                     *)
AcceptedRevealsCounted ==
    \A s \in Streams :
        /\ \A c \in Calls(s) : (c.kind = "RevealAndCommit" /\ c.state = "Accepted") =>
              mon.outcomes[c.target] # "None"
        /\ \A t \in mon.queued : mon.outcomes[t] = "Ok" => t \in mon.digests

(* The counters charge a chain, for the targets after its first one up to  *)
(* the first target of the next chain of its stream, with at most one      *)
(* failure, though the loss of its collateral may show as several missed   *)
(* calls, as a status that confirms the loss, and as a failed terminal     *)
(* reveal.  (The target that was never planned in time is charged to the   *)
(* old chain, and after a tick report that runs far back its replacement   *)
(* may start on that very target.)                                         *)
OneFailureCounted ==
    \A s \in Streams : \A first \in starts[s] :
        Cardinality({t \in Ticks :
            /\ t % STREAM_COUNT = s /\ t > first
            /\ \A later \in starts[s] : later > first => t <= later
            /\ mon.outcomes[t] = "Failed"}) <= 1

=============================================================================
