---------------------------- MODULE NodeAnswers ----------------------------
(***************************************************************************)
(* What the three adapters make of a node's answers: tick metadata, the    *)
(* transactions of a tick, and the acceptance of a broadcast.  An answer   *)
(* is a record of the fields the code looks at; texts, encodings and       *)
(* error messages are left out.                                            *)
(***************************************************************************)
EXTENDS Integers, Sequences, FiniteSets, BobEnvelope

CONSTANTS
    MaxU32,       \* u32::MAX
    MaxDigests    \* the slots of a tick, 4096 in the code

AnswerParameters == MaxU32 \in Nat /\ MaxDigests \in Nat

None == -1

-----------------------------------------------------------------------------
(* Tick metadata *)

DEFAULT_TICK_DURATION_MS == 1000

Normalized(duration) == IF duration = 0 THEN DEFAULT_TICK_DURATION_MS ELSE duration

(* A JSON field: a number, a decimal text, something else, or no field.    *)
Unsigned(field) ==
    IF field.form \in {"number", "text"} /\ field.value >= 0 THEN field.value ELSE None

(* checked_u32_field, and optional_u32_field too. *)
CheckedU32(field) == IF Unsigned(field) <= MaxU32 THEN Unsigned(field) ELSE None

(* The first of Bob's names for the duration that holds a u32. *)
BobDuration(fields) ==
    LET usable == {k \in DOMAIN fields : CheckedU32(fields[k]) # None}
        first == CHOOSE k \in usable : \A j \in usable : k <= j
    IN  IF usable = {} THEN DEFAULT_TICK_DURATION_MS
        ELSE IF CheckedU32(fields[first]) = 0 THEN 1 ELSE CheckedU32(fields[first])

NoTickInfo == [epoch |-> None, tick |-> None, initialTick |-> None, duration |-> None]

(* The whole answer is refused when a required field is. *)
BobTickInfo(r, result) ==
    LET info == [epoch |-> CheckedU32(result.epoch), tick |-> CheckedU32(result.tick),
                 initialTick |-> CheckedU32(result.initialTick),
                 duration |-> BobDuration(result.durations)]
    IN  IF MatchesCall(r) /\ HasResult(r) /\ None \notin {info.epoch, info.tick, info.initialTick}
        THEN info ELSE NoTickInfo

RpcTickInfo(status) == [status EXCEPT !.duration = Normalized(@)]

NoFallback == [epoch |-> None, initialTick |-> 0]

(* Seeded bug: an initial tick is kept across epochs. *)
FallbackForever(status, fallback) ==
    CASE status.initialTick # 0 -> [epoch |-> status.epoch, initialTick |-> status.initialTick]
      [] status.initialTick = 0 /\ fallback.epoch = None ->
            [epoch |-> status.epoch, initialTick |-> status.tick]
      [] OTHER -> fallback

(* The light node's initial tick, or else the first tick seen since the    *)
(* adapter last saw another epoch.                                         *)
QlnFallback(status, fallback) ==
    CASE status.initialTick # 0 -> [epoch |-> status.epoch, initialTick |-> status.initialTick]
      [] status.initialTick = 0 /\ fallback.epoch # status.epoch ->
            [epoch |-> status.epoch, initialTick |-> status.tick]
      [] OTHER -> fallback

QlnTickInfo(status, fallback) ==
    [status EXCEPT !.initialTick = QlnFallback(status, fallback).initialTick,
                   !.duration = Normalized(@)]

-----------------------------------------------------------------------------
(* The transactions of a tick *)

(* complete: transaction_digests is Some. *)
Evidence(has, complete, digests) ==
    [ok |-> TRUE, has |-> has, complete |-> complete, digests |-> digests]
NoEvidence == [ok |-> FALSE, has |-> FALSE, complete |-> FALSE, digests |-> {}]
Presence(has) == Evidence(has, FALSE, {})

RpcTickData(r, tick) ==
    CASE r.present /\ r.tick # tick -> NoEvidence
      [] r.present /\ r.tick = tick -> Presence(r.hashes > 0)
      [] OTHER -> Presence(FALSE)

BobTickData(r, result) ==
    IF MatchesCall(r) /\ HasResult(r) /\ result.shape \in {"array", "transfers"}
    THEN Presence(result.transfers > 0) ELSE NoEvidence

(* A digest is any pair but these: zero bytes, and not thirty-two bytes. *)
Zero == <<"zero", 0>>
Short == <<"short", 0>>

WellListed(digests) ==
    /\ Len(digests) <= MaxDigests
    /\ \A i \in DOMAIN digests : digests[i] \notin {Zero, Short}
    /\ \A i, j \in DOMAIN digests : digests[i] = digests[j] => i = j

(* Seeded bug: the answer may be about another tick. *)
AboutAnyTick(r, tick) == r.ok

About(r, tick) == r.ok /\ r.tick = tick

FlagAgrees(r) == r.has <=> r.digests # <<>>

QlnTickData(r, tick) ==
    CASE About(r, tick) /\ ~r.complete /\ r.digests = <<>> -> Presence(r.has)
      [] About(r, tick) /\ r.complete /\ FlagAgrees(r) /\ WellListed(r.digests) ->
            Evidence(r.has, TRUE, {r.digests[i] : i \in DOMAIN r.digests})
      [] OTHER -> NoEvidence

(* TickTransactions::contains, as harvest_tick_check logs it. *)
Inclusion(evidence, digest) ==
    CASE ~evidence.complete -> "unknown"
      [] evidence.complete /\ digest \in evidence.digests -> "included"
      [] OTHER -> "missing"

-----------------------------------------------------------------------------
(* Broadcasts; an id is "text" unless it is blank, absent or no string.    *)

(* validate_transaction_id *)
ValidId(id) == id = "text"

RpcAccepts(r) == r.peers > 0 /\ ValidId(r.id)

(* extract_string_field: what the first alias with a string holds. *)
FirstString(fields) ==
    LET strings == {k \in DOMAIN fields : fields[k] \in {"text", "blank"}}
    IN  IF strings = {} THEN "none"
        ELSE fields[CHOOSE k \in strings : \A j \in strings : k <= j]

(* The result is the id, as the one alias, or has it under one of several. *)
BobAccepts(r, aliases) == MatchesCall(r) /\ HasResult(r) /\ ValidId(FirstString(aliases))

QlnAccepts(r) == r.ok /\ ValidId(r.id)

=============================================================================
