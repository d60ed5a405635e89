---------------------------- MODULE NodeSession ----------------------------
(***************************************************************************)
(* The engine's delayed checks of target ticks and its broadcasts, through *)
(* each of the adapters, to a node whose answers may be late, lost, about  *)
(* another tick or call, or damaged.  What the client concludes is         *)
(* compared with what is the case.                                         *)
(*                                                                         *)
(* The node is external: it knows the ticks, it is not dishonest, and one  *)
(* answer has one fault.  Without a completeness marker a light node, and  *)
(* the others always, say only whether a tick had transactions.            *)
(***************************************************************************)
EXTENDS NodeAnswers

CONSTANTS
    Checked,    \* the target ticks
    Others      \* transactions of other clients

SessionParameters == AnswerParameters /\ Checked \subseteq Nat /\ IsFiniteSet(Others)

Own == "own"    \* our transaction for a tick
Kinds == {"rpc", "bob", "grpc"}

VARIABLES
    kind,        \* the backend
    truth,       \* the transactions of each tick
    kept,        \* target_digests: the ticks whose transaction digest is retained
    check,       \* the target of the running check, or None
    presence,    \* what is concluded of each tick
    inclusion,   \* and of our transaction in it
    submitted,   \* the targets whose transaction the node took
    accepted     \* the targets whose broadcast counts as accepted

world == <<kind, truth>>
checks == <<kept, check, presence, inclusion>>
sends == <<submitted, accepted>>
sessionVars == <<kind, truth, kept, check, presence, inclusion, submitted, accepted>>

Digest(name, tick) == <<name, tick>>

SessionInit ==
    /\ kind \in Kinds
    /\ truth \in [Checked -> {T \in SUBSET (Others \cup {Own}) : Cardinality(T) <= MaxDigests}]
    /\ kept \in SUBSET Checked
    /\ check = None
    /\ presence = [t \in Checked |-> "unverified"]
    /\ inclusion = [t \in Checked |-> "unverified"]
    /\ submitted = {} /\ accepted = {}

-----------------------------------------------------------------------------
(* The node's answers *)

Orders(tick) ==
    {d \in [1 .. Cardinality(truth[tick]) -> {Digest(x, tick) : x \in truth[tick]}] :
        \A i, j \in DOMAIN d : d[i] = d[j] => i = j}

Honest(tick, digests) ==
    [ok |-> TRUE, tick |-> tick, complete |-> TRUE, has |-> truth[tick] # {}, digests |-> digests]

(* One entry lost its bytes, was copied over another one, or is too many. *)
Damaged(digests) ==
    {Append(digests, Digest("extra", None))} \cup {[digests EXCEPT ![i] = b] : i \in DOMAIN digests, b \in {Zero, Short}}
        \cup {[digests EXCEPT ![i] = digests[j]] : i, j \in DOMAIN digests}

Faulty(r) ==
    {[r EXCEPT !.ok = FALSE], [r EXCEPT !.has = ~@], [r EXCEPT !.complete = FALSE],
     [r EXCEPT !.digests = <<>>], [r EXCEPT !.complete = FALSE, !.digests = <<>>]}
        \cup {[r EXCEPT !.digests = d] : d \in Damaged(r.digests) \ Orders(r.tick)}

QlnAnswers(tick) ==
    UNION {{Honest(tick, d)} \cup Faulty(Honest(tick, d)) : d \in Orders(tick)}

(* An RPC node says null of an empty tick; of no other than the asked one. *)
RpcAnswers(tick) ==
    {[present |-> TRUE, tick |-> u, hashes |-> Cardinality(truth[u])] : u \in Checked}
        \cup (IF truth[tick] = {} THEN {[present |-> FALSE, tick |-> None, hashes |-> 0]} ELSE {})

BobEvidence(tick) ==
    LET result(u, shape) == [shape |-> shape, transfers |-> Cardinality(truth[u])]
    IN  {BobTickData(r, result(tick, shape)) :
            r \in Answers \cup Failures, shape \in {"array", "transfers", "other"}}
        \cup {BobTickData(r, result(u, "array")) : r \in Strays, u \in Checked}

(* All the adapter may make of the answers to one request; the last one    *)
(* stands for every transport error and timeout.                           *)
EvidenceOf(tick) ==
    {NoEvidence} \cup
    CASE kind = "rpc" -> {RpcTickData(r, tick) : r \in RpcAnswers(tick)}
      [] kind = "bob" -> BobEvidence(tick)
      [] OTHER -> UNION {{QlnTickData(r, tick) : r \in QlnAnswers(u)} : u \in Checked}

-----------------------------------------------------------------------------
(* The client *)

(* A target is checked until an answer settles it. *)
StartCheck(t) ==
    /\ check = None /\ presence[t] = "unverified"
    /\ check' = t
    /\ UNCHANGED <<world, kept, presence, inclusion, sends>>

HarvestCheck ==
    /\ check # None
    /\ \E e \in EvidenceOf(check) :
          IF e.ok
          THEN /\ presence' = [presence EXCEPT ![check] = IF e.has THEN "nonempty" ELSE "empty"]
               /\ inclusion' = [inclusion EXCEPT ![check] =
                     IF check \in kept THEN Inclusion(e, Digest(Own, check)) ELSE "unknown"]
               /\ kept' = kept \ {check}
          ELSE UNCHANGED <<presence, inclusion, kept>>
    /\ check' = None
    /\ UNCHANGED <<world, sends>>

(* One broadcast and its answer.  A node that refuses says so; an answer   *)
(* may be lost, belong to another call or lack its id.                     *)
IdForms == {"text", "blank", "none"}

AcceptedBy(taken) ==
    CASE kind = "rpc" -> {RpcAccepts(r) : r \in [peers : IF taken THEN {1} ELSE {0, -1}, id : IdForms]}
      [] kind = "bob" -> {BobAccepts(r, ids) : r \in (IF taken THEN Answers ELSE Failures \cup Strays),
                                               ids \in IdForms \X IdForms}
      [] OTHER -> {QlnAccepts(r) : r \in [ok : {taken}, id : IdForms]}

Broadcast(t) ==
    /\ t \notin accepted
    /\ \E taken \in BOOLEAN, answered \in BOOLEAN :
          /\ submitted' = IF taken THEN submitted \cup {t} ELSE submitted
          /\ \E yes \in AcceptedBy(taken) :
                accepted' = IF answered /\ yes THEN accepted \cup {t} ELSE accepted
    /\ UNCHANGED <<world, checks>>

SessionNext ==
    \/ \E t \in Checked : StartCheck(t) \/ Broadcast(t)
    \/ HarvestCheck

SessionSpec == SessionInit /\ [][SessionNext]_sessionVars

-----------------------------------------------------------------------------
(* A tick is found empty, or not, only when it is: no answer about another *)
(* tick or call and no damaged or contradictory one settles a check.       *)
PresenceIsTrue ==
    \A t \in Checked : presence[t] # "unverified" => (presence[t] = "empty" <=> truth[t] = {})

(* A reveal is found missing or included only on the word of a complete,   *)
(* undamaged list of the tick itself that contradicts it in neither way.   *)
InclusionIsTrue ==
    \A t \in Checked :
        /\ inclusion[t] = "missing" => Own \notin truth[t]
        /\ inclusion[t] = "included" => Own \in truth[t]

(* A broadcast counts as accepted only if the node took the transaction.   *)
AcceptedWasSubmitted == accepted \subseteq submitted

=============================================================================
