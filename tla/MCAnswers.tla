----------------------------- MODULE MCAnswers -----------------------------
(***************************************************************************)
(* What the backends make of a node's answers, in one run: a contract      *)
(* query through Bob, the body of one HTTP answer, the checks and the      *)
(* broadcasts through each adapter, the decoding of a provider's status,   *)
(* and what a chain makes of one status after the other.  The five share   *)
(* no state; the initial state says which of them moves, and the others    *)
(* stay where they begin.                                                  *)
(***************************************************************************)
EXTENDS HttpBody

CONSTANTS Deadline, Cut, WorkTimes, MaxClock, MaxRestarts,
          MaxU32, MaxDigests, Checked, Others,
          Streams, Tiers, Updates, MaxSlots,
          MaxTick, FirstTarget, LastTarget, SeenTicks, RequestTicks, MaxResponses

VARIABLES moving,
          clock, up, restarts, nextNonce, query, jobs, last,
          kind, truth, kept, check, presence, inclusion, submitted, accepted,
          held, answer, damaged, verdict, seen, slots,
          slot, history

bob == <<clock, up, restarts, nextNonce, query, jobs, last>>
node == <<kind, truth, kept, check, presence, inclusion, submitted, accepted>>
status == <<held, answer, damaged, verdict, seen, slots>>
chain == <<slot, history>>

Bob == INSTANCE BobQuery
Node == INSTANCE NodeSession
Codec == INSTANCE StatusCodec
Watch == INSTANCE StatusWatch

ASSUME AnswersAssumption ==
    /\ Bob!BobParameters /\ Node!SessionParameters /\ Codec!CodecParameters
    /\ Watch!WatchParameters /\ MaxTick \in Nat

AnswersInit ==
    /\ moving \in {"body", "bob", "node", "status", "chain"}
    /\ BodyInit /\ Bob!BobInit /\ Watch!WatchInit
    /\ Node!SessionInit
    /\ moving # "node" => kind = "rpc" /\ kept = {} /\ \A t \in Checked : truth[t] = {}
    /\ Codec!CodecInit
    /\ moving # "status" => \A k \in DOMAIN held : held[k] = Codec!NotHeld

AnswersNext ==
    \/ /\ moving = "body" /\ BodyNext
       /\ UNCHANGED <<moving, bob, node, status, chain>>
    \/ /\ moving = "bob" /\ Bob!BobNext
       /\ UNCHANGED <<moving, bodyVars, node, status, chain>>
    \/ /\ moving = "node" /\ Node!SessionNext
       /\ UNCHANGED <<moving, bodyVars, bob, status, chain>>
    \/ /\ moving = "status" /\ Codec!CodecNext
       /\ UNCHANGED <<moving, bodyVars, bob, node, chain>>
    \/ /\ moving = "chain" /\ Watch!WatchNext
       /\ UNCHANGED <<moving, bodyVars, bob, node, status>>

AnswersSpec ==
    AnswersInit
        /\ [][AnswersNext]_<<moving, bodyVars, bob, node, status, chain>>

-----------------------------------------------------------------------------
(* BobQuery: the data a query returns were computed for it. *)
DataIsFresh == Bob!DataIsFresh

(* BobQuery: each of the two timeouts of a query blames the right one; the *)
(* engine's cut, a call that hung, and the adapter's deadline, Bob's work. *)
TimeoutsBlameTheRightOne == Bob!CutBlamesTheCall /\ Bob!TimeoutBlamesBobOrTheCall

(* NodeSession: what is concluded of a tick, of a transaction in it and of *)
(* a broadcast is so.                                                      *)
ConclusionsAreTrue == Node!PresenceIsTrue /\ Node!InclusionIsTrue /\ Node!AcceptedWasSubmitted

(* StatusCodec: an honest status is read in full; in one that is accepted  *)
(* no entry hides another.                                                 *)
StatusIsReadOrRefused == Codec!HonestStatusIsRead /\ Codec!EveryEntryIsFound

(* StatusWatch: a chain is frozen on nothing less than three consistent,   *)
(* strictly later responses against it; and it is frozen when three in a   *)
(* row say the same, whatever stale answers come between them.             *)
FrozenExactlyOnEvidence == Watch!FreezeNeedsThree /\ Watch!ThreeInARowFreeze

=============================================================================
