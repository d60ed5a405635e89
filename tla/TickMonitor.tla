---------------------------- MODULE TickMonitor ----------------------------
(***************************************************************************)
(* The delivery counters and the delayed target-tick checks, as operators  *)
(* on a monitor record.  Handlers of slots leave marks; the monitor counts *)
(* each marked target once, in its worst outcome, and asks the backend     *)
(* later whether the target tick was empty.                                *)
(*                                                                         *)
(* Ready checks are kept by the instant at which they may start; here an   *)
(* entry is due or not, and a retry becomes due when the environment says  *)
(* so.  The failure count of a check only sets that delay and the aggregate *)
(* of expired checks is only logged: both are left out, as are the counters' *)
(* u64 maxima.                                                             *)
(***************************************************************************)
EXTENDS RandomSchedule, FiniteSets

CONSTANTS
    CheckDelay,    \* reveal_check_delay_ticks
    CheckWindow    \* TICK_CHECK_WINDOW, 32 in the code

ASSUME MonitorAssumption == CheckDelay \in Ticks /\ CheckWindow \in Ticks

Outcomes == {"Ok", "Failed", "Empty"}
CheckResults == {"pending", "nonempty", "empty", "err"}

(* A ready check; its failures and its instant are abstracted to `due'. *)
ReadyCheck == [target : Ticks, due : BOOLEAN]

(* outcomes is send_outcomes ("None" for an absent key), stats send_stats, *)
(* and check the target of tick_check; the other names are the code's,     *)
(* without their suffixes.                                                 *)
Monitor == [outcomes : [Ticks -> Outcomes \cup {"None"}], stats : [Outcomes -> Nat],
            pending : SUBSET Ticks, ready : SUBSET ReadyCheck, queued : SUBSET Ticks,
            checked : SUBSET Ticks, digests : SUBSET Ticks, check : OptTicks, oldest : Ticks]

InitMonitor ==
    [outcomes |-> [t \in Ticks |-> "None"], stats |-> [o \in Outcomes |-> 0],
     pending |-> {}, ready |-> {}, queued |-> {}, checked |-> {}, digests |-> {},
     check |-> NoTick, oldest |-> 0]

ReadyTargets(m) == {r.target : r \in m.ready}

-----------------------------------------------------------------------------
(* Outcomes and counters *)

(* Seeded bug: a late failure overrides the finding of an empty tick. *)
AllowedByAnyFailure(prev, next) == prev = "None" \/ (prev # next /\ next # "Ok")

TransitionAllowed(prev, next) ==
    \/ prev = "None"
    \/ prev = "Ok" /\ next \in {"Failed", "Empty"}
    \/ prev = "Failed" /\ next = "Empty"

Outcome(prev, next) == IF TransitionAllowed(prev, next) THEN next ELSE prev

(* Seeded bug: a target that is reclassified stays in its old counter. *)
RecountGrowing(stats, old, new) ==
    [o \in Outcomes |-> stats[o] + Cardinality({t \in Ticks : old[t] # o /\ new[t] = o})]

(* Every target that changes its outcome leaves one counter for another. *)
Recount(stats, old, new) ==
    [o \in Outcomes |->
        MaxOf(0, stats[o] - Cardinality({t \in Ticks : old[t] = o /\ new[t] # o}))
            + Cardinality({t \in Ticks : old[t] # o /\ new[t] = o})]

WithOutcomes(m, outcomes) ==
    [m EXCEPT !.outcomes = outcomes, !.stats = Recount(@, m.outcomes, outcomes)]

RecordSendOutcome(m, target, next) ==
    WithOutcomes(m, [m.outcomes EXCEPT ![target] = Outcome(@, next)])

(* What the marks of one step make of an outcome; the order of two marks   *)
(* of one target does not matter.                                          *)
MarkedOutcome(prev, marks, t) ==
    LET has(mark) == [target |-> t, mark |-> mark] \in marks
        accepted == IF has("Ok") THEN Outcome(prev, "Ok") ELSE prev
    IN  IF has("Failed") THEN Outcome(accepted, "Failed") ELSE accepted

(* Seeded bug: a queued target is queued again. *)
MayQueueAgain(m, t) == t >= m.oldest /\ t \notin m.checked

MayQueue(m, t) == t >= m.oldest /\ t \notin m.checked /\ t \notin m.queued

(* The marks of one step: record_send_outcome and queue_tick_check for     *)
(* every delivery outcome, the digests of the reveals that were sent.      *)
ApplyMarks(m, marks) ==
    LET targets(ks) == {k.target : k \in {j \in marks : j.mark \in ks}}
        fresh == {t \in targets({"Ok", "Failed"}) : MayQueue(m, t)}
        counted == WithOutcomes(m, [t \in Ticks |-> MarkedOutcome(m.outcomes[t], marks, t)])
    IN  [counted EXCEPT !.queued = @ \cup fresh,
                        !.pending = @ \cup fresh,
                        !.digests = @ \cup targets({"Digest"})]

-----------------------------------------------------------------------------
(* Target-tick checks *)

(* Seeded bug: the watermark follows the tick backwards. *)
OldestFollowing(m, tick) == MaxOf(0, tick - SaturatingAdd(CheckDelay, CheckWindow))

OldestCheck(m, tick) ==
    MaxOf(MaxOf(0, tick - SaturatingAdd(CheckDelay, CheckWindow)), m.oldest)

(* Seeded bug: the last tick of the window is dropped with the older ones. *)
ExpireInclusive(m, tick) ==
    LET oldest == OldestCheck(m, tick)
        kept(S) == {t \in S : t > oldest}
    IN  [m EXCEPT !.oldest = oldest,
                  !.pending = kept(@), !.queued = kept(@), !.checked = kept(@),
                  !.digests = kept(@),
                  !.ready = {r \in @ : r.target > oldest},
                  !.check = IF @ <= oldest THEN NoTick ELSE @]

ExpireTickChecks(m, tick) ==
    LET oldest == OldestCheck(m, tick)
        kept(S) == {t \in S : t >= oldest}
    IN  [m EXCEPT !.oldest = oldest,
                  !.pending = kept(@), !.queued = kept(@), !.checked = kept(@),
                  !.digests = kept(@),
                  !.ready = {r \in @ : r.target >= oldest},
                  !.check = IF @ < oldest THEN NoTick ELSE @]

(* `result' is how the running check stands when it is harvested. *)
HarvestTickCheck(m, result) ==
    LET done == [m EXCEPT !.check = NoTick, !.queued = @ \ {m.check},
                          !.checked = @ \cup {m.check}, !.digests = @ \ {m.check}]
    IN  CASE m.check = NoTick \/ result = "pending" -> m
          [] m.check # NoTick /\ result = "nonempty" -> done
          [] m.check # NoTick /\ result = "empty" -> RecordSendOutcome(done, m.check, "Empty")
          [] OTHER -> [m EXCEPT !.check = NoTick,
                                !.ready = @ \cup {[target |-> m.check, due |-> FALSE]}]

(* Waiting targets whose delay is over become ready. *)
PromoteChecks(m, tick) ==
    LET eligible == {t \in m.pending : tick >= SaturatingAdd(t, CheckDelay)}
    IN  [m EXCEPT !.pending = @ \ eligible,
                  !.queued = @ \cup eligible,
                  !.ready = @ \cup {[target |-> t, due |-> TRUE] : t \in eligible}]

StartNewest(m) ==
    LET due == {r \in m.ready : r.due}
        newest == CHOOSE r \in due : \A q \in due : q.target <= r.target
    IN  IF due = {} THEN m
        ELSE [m EXCEPT !.ready = @ \ {newest}, !.check = newest.target]

(* `spaced' is the scan interval. *)
EnsureTickCheck(m, tick, spaced) ==
    LET expired == ExpireTickChecks(m, tick)
    IN  IF expired.check # NoTick \/ ~spaced THEN expired
        ELSE StartNewest(PromoteChecks(expired, tick))

(* The monitor's part of a cycle; `planning' is FALSE in a drain. *)
MonitorTail(m, tick, result, spaced, planning) ==
    LET harvested == HarvestTickCheck(ExpireTickChecks(m, tick), result)
    IN  IF planning THEN EnsureTickCheck(harvested, tick, spaced) ELSE harvested

(* reset_slots: everything but the cumulative counters. *)
ResetMonitor(m) == [InitMonitor EXCEPT !.stats = m.stats]

(* The delay of a retry is over. *)
BecomesDue(m, r) == [m EXCEPT !.ready = (@ \ {r}) \cup {[r EXCEPT !.due = TRUE]}]

-----------------------------------------------------------------------------

(* How the collections of a monitor fit together. *)
ChecksAgree(m) ==
    LET running == {m.check} \ {NoTick}
    IN  /\ m.queued = m.pending \cup ReadyTargets(m) \cup running
        /\ m.pending \cap (ReadyTargets(m) \cup running) = {}
        /\ ReadyTargets(m) \cap running = {}
        /\ \A q, r \in m.ready : q.target = r.target => q = r
        /\ m.queued \cap m.checked = {}
        /\ \A t \in m.queued \cup m.checked : t >= m.oldest

=============================================================================
