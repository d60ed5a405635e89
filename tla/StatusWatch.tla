---------------------------- MODULE StatusWatch ----------------------------
(***************************************************************************)
(* One signed chain and the stream of decoded status responses applied to  *)
(* it.  Responses may carry any request tick in any order (tick reports    *)
(* repeat and regress) and any content.  The history of responses says     *)
(* independently when the chain may, and when it must, be frozen.          *)
(***************************************************************************)
EXTENDS StreamSlot, Sequences

CONSTANTS
    FirstTarget,   \* the first target of the watched chain
    LastTarget,    \* the last signed one
    SeenTicks,     \* last_update_ticks a response may report
    RequestTicks,  \* ticks a response may have been requested at
    MaxResponses   \* bound: responses considered

WatchParameters ==
    /\ FirstTarget \in Ticks /\ LastTarget \in Ticks /\ FirstTarget <= LastTarget
    /\ (LastTarget - FirstTarget) % STREAM_COUNT = 0
    /\ SeenTicks \subseteq Ticks /\ RequestTicks \subseteq Ticks
    /\ MaxResponses \in Nat

VARIABLES slot, history

watchVars == <<slot, history>>

SignedTargets == {t \in FirstTarget .. LastTarget : (t - FirstTarget) % STREAM_COUNT = 0}

(* A fresh chain, planned up to its tail and not acknowledged yet. *)
WatchedSlot ==
    [state |-> Starting(FirstTarget), restartAt |-> 0,
     chain |-> [NoChain EXCEPT !.first = FirstTarget, !.last = LastTarget,
                               !.preimage = LastTarget,
                               !.calls = {IF t = FirstTarget THEN NewCall(t, "FirstCommit", NoTick)
                                          ELSE NewCall(t, "RevealAndCommit", t - STREAM_COUNT) :
                                          t \in SignedTargets}]]

WatchInit == slot = WatchedSlot /\ history = <<>>

Respond(seen, requested) ==
    /\ Len(history) < MaxResponses
    /\ IsPlanned(slot)
    /\ slot' = ApplyStatus(slot, seen, requested).slot
    /\ history' = Append(history, [seen |-> seen, requested |-> requested])

WatchNext ==
    \E seen \in SeenTicks \cup {NoTick}, requested \in RequestTicks : Respond(seen, requested)

WatchSpec == WatchInit /\ [][WatchNext]_watchVars

-----------------------------------------------------------------------------

Owned(r) == r.seen \in SignedTargets

(* The i-th response is the first to acknowledge so late a target. *)
Advances(h, i) ==
    /\ Owned(h[i])
    /\ \A j \in 1 .. i - 1 : Owned(h[j]) => h[j].seen < h[i].seen

SameEvidence(a, b) ==
    \/ a.seen = NoTick /\ b.seen = NoTick
    \/ ~Owned(a) /\ ~Owned(b) /\ NoTick \notin {a.seen, b.seen} /\ a.seen <= b.seen
    \/ Owned(a) /\ a.seen = b.seen

(* Three responses against the chain: same evidence, requested at strictly *)
(* later ticks, with no acknowledgement progress after the first of them,  *)
(* and the last one deciding.                                              *)
ThreeAgainst(h, i, j, k) ==
    /\ i < j /\ j < k
    /\ h[i].requested < h[j].requested /\ h[j].requested < h[k].requested
    /\ SameEvidence(h[i], h[j]) /\ SameEvidence(h[j], h[k])
    /\ \A m \in i + 1 .. k : ~Advances(h, m)

(* A chain is frozen only on three consistent, strictly later responses:   *)
(* no mix of absences, foreign writers and lags, no repeated request tick, *)
(* and nothing from before an acknowledgement progress counts.             *)
FreezeNeedsThree ==
    Tag(slot) = "Restarting" =>
        \E i, j \in 1 .. Len(history) : ThreeAgainst(history, i, j, Len(history))

(* The m-th response was requested later than every one before it. *)
Fresh(h, m) == \A l \in 1 .. m - 1 : h[l].requested < h[m].requested

(* It tells against the chain: the slot is gone or written by another, as  *)
(* of a request after the first target; or the latest acknowledged target  *)
(* is not the latest due.                                                  *)
TellsAgainst(h, m) ==
    \/ /\ ~Owned(h[m]) /\ h[m].requested > FirstTarget
    \/ /\ Owned(h[m])
       /\ \A l \in 1 .. m - 1 : Owned(h[l]) => h[l].seen <= h[m].seen
       /\ \E due \in SignedTargets : h[m].seen < due /\ due < h[m].requested

(* Nothing between two responses but answers as old as the first of them   *)
(* or older, late or repeated, and none that shows progress.               *)
QuietBetween(h, i, j) ==
    \A m \in i + 1 .. j - 1 : h[m].requested <= h[i].requested /\ ~Advances(h, m)

(* Three responses that say the same against the chain, each of them news, *)
(* and quiet between them.                                                 *)
ThreeInARow(h, i, j, k) ==
    /\ i < j /\ j < k
    /\ \A m \in {i, j, k} : Fresh(h, m) /\ TellsAgainst(h, m)
    /\ SameEvidence(h[i], h[j]) /\ SameEvidence(h[j], h[k])
    /\ QuietBetween(h, i, j) /\ QuietBetween(h, j, k)

(* Three in a row freeze the chain, whether they are absences, another     *)
(* writer's targets or the same lag: no late or repeated answer between    *)
(* them clears the suspicion or holds the freeze off.                      *)
ThreeInARowFreeze ==
    IsPlanned(slot) => \A i, j, k \in 1 .. Len(history) : ~ThreeInARow(history, i, j, k)

=============================================================================
