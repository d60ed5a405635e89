--------------------------- MODULE StatusEvidence ---------------------------
(***************************************************************************)
(* What a decoded provider-status response says against a local chain, and *)
(* how such evidence accumulates: only observations requested at strictly  *)
(* later ticks count, and evidence that disagrees starts again at one.     *)
(* first_requested_tick is only logged and is left out.                    *)
(***************************************************************************)
EXTENDS RandomSchedule

NoEvidence == [kind |-> "None", tick |-> NoTick]
Absent == [kind |-> "Absent", tick |-> NoTick]
Foreign(lastUpdate) == [kind |-> "Foreign", tick |-> lastUpdate]
Lag(missing) == [kind |-> "Lag", tick |-> missing]

Evidence == [kind : {"None", "Absent", "Foreign", "Lag"}, tick : OptTicks]

(* Seeded bug: evidence of one kind always agrees. *)
AgreesByKind(prev, next) == prev.kind = next.kind /\ prev.kind # "None"

AgreesWith(prev, next) ==
    /\ prev.kind = next.kind
    /\ \/ prev.kind = "Absent"
       \/ prev.kind = "Foreign" /\ next.tick >= prev.tick
       \/ prev.kind = "Lag" /\ next.tick = prev.tick

(* NoSuspicion is status_suspicion = None: its lastRequested is below every *)
(* tick and its evidence agrees with none.                                  *)
NoSuspicion == [evidence |-> NoEvidence, confirmations |-> 0, lastRequested |-> NoTick]

Suspicion == [evidence : Evidence, confirmations : 0 .. STATUS_CONFIRMATIONS_REQUIRED,
              lastRequested : OptTicks]

(* An answer requested no later than what the suspicion already rests on. *)
Outdated(suspicion, requested) == requested <= suspicion.lastRequested

NewSuspicion(evidence, requested) ==
    [evidence |-> evidence, confirmations |-> 1, lastRequested |-> requested]

ObserveEvidence(suspicion, evidence, requested) ==
    IF Outdated(suspicion, requested) THEN suspicion
    ELSE IF ~AgreesWith(suspicion.evidence, evidence) THEN NewSuspicion(evidence, requested)
    ELSE [evidence |-> evidence,
          confirmations |-> MinOf(suspicion.confirmations + 1, STATUS_CONFIRMATIONS_REQUIRED),
          lastRequested |-> requested]

(* Seeded bug: the first suspicion counts as confirmed. *)
IsConfirmedAtOnce(suspicion) == suspicion.confirmations >= 1

IsConfirmed(suspicion) == suspicion.confirmations >= STATUS_CONFIRMATIONS_REQUIRED

=============================================================================
