---------------------------- MODULE StatusCodec ----------------------------
(***************************************************************************)
(* GetProviderStatus on its way: the contract lists the slots a provider   *)
(* holds, the answer may lose its shape or one of its words, and the       *)
(* client decodes it entry by entry, refusing the whole answer at the      *)
(* first thing that cannot be.  The layout in bytes is left out: an entry  *)
(* is the words at one index of the answer's arrays.                       *)
(***************************************************************************)
EXTENDS Integers, Sequences, FiniteSets

CONSTANTS
    Streams,     \* the streams the provider may hold slots of
    Tiers,       \* and the tiers
    Updates,     \* last_update_tick values
    MaxSlots     \* MAX_PROVIDER_SLOTS

CodecParameters ==
    /\ Streams \subseteq 0 .. 2 /\ Tiers \subseteq 0 .. 9 /\ Updates \subseteq Nat
    /\ MaxSlots \in Nat /\ Cardinality(Streams) * Cardinality(Tiers) <= MaxSlots

Keys == Streams \X Tiers
NotHeld == -1

VARIABLES
    held,      \* what the contract has of each slot, or NotHeld
    answer,    \* the answer on its way
    damaged,   \* it is not what the contract sent
    verdict,   \* "waiting", "decoding", "ok" or "refused"
    seen,      \* seen_slots, as the set of its bits
    slots      \* the decoded slots

codecVars == <<held, answer, damaged, verdict, seen, slots>>

Entry(stream, tier, updated, contributed) ==
    [stream |-> stream, tier |-> tier, updated |-> updated, contributed |-> contributed]

NoAnswer == [whole |-> TRUE, count |-> 0, entries |-> <<>>]

CodecInit ==
    /\ held \in [Keys -> Updates \cup {NotHeld}]
    /\ answer = NoAnswer /\ damaged = FALSE
    /\ verdict = "waiting" /\ seen = {} /\ slots = <<>>

-----------------------------------------------------------------------------
(* The contract and the way *)

(* Streams in order; the slots of a stream in the order of its population. *)
Listings ==
    LET keys == {k \in Keys : held[k] # NotHeld}
    IN  {l \in [1 .. Cardinality(keys) -> keys] :
            \A i, j \in DOMAIN l : i < j => l[i][1] <= l[j][1] /\ l[i] # l[j]}

GetProviderStatus ==
    /\ verdict = "waiting" /\ answer = NoAnswer
    /\ \E l \in Listings :
          answer' = [whole |-> TRUE, count |-> Len(l),
                     entries |-> [i \in DOMAIN l |-> Entry(l[i][1], l[i][2], held[l[i]], 0)]]
    /\ verdict' = "decoding"
    /\ UNCHANGED <<held, damaged, seen, slots>>

(* One word is not what it was, or the answer has another size. *)
Damages(a) ==
    {[a EXCEPT !.whole = FALSE], [a EXCEPT !.count = @ + 1], [a EXCEPT !.count = MaxSlots + 1]}
        \cup {[a EXCEPT !.entries[i].stream = s] : i \in DOMAIN a.entries, s \in 0 .. 3}
        \cup {[a EXCEPT !.entries[i].tier = t] : i \in DOMAIN a.entries, t \in {0, 1, 9, 10}}
        \cup {[a EXCEPT !.entries[i].contributed = 2] : i \in DOMAIN a.entries}

Damage ==
    /\ verdict = "decoding" /\ slots = <<>> /\ ~damaged
    /\ answer' \in Damages(answer) \ {answer}
    /\ damaged' = TRUE
    /\ UNCHANGED <<held, verdict, seen, slots>>

-----------------------------------------------------------------------------
(* ProviderStatus::decode *)

(* What is not listed is zero. *)
EntryAt(a, i) == IF i \in DOMAIN a.entries THEN a.entries[i] ELSE Entry(0, 0, 0, 0)

SlotBit(entry) == entry.stream * 10 + entry.tier

(* Seeded bug: a slot may be listed again. *)
InRange(entry) == entry.stream <= 2 /\ entry.tier <= 9 /\ entry.contributed <= 1

Admissible(entry) ==
    /\ entry.stream <= 2 /\ entry.tier <= 9 /\ entry.contributed <= 1
    /\ SlotBit(entry) \notin seen

Refuse == verdict' = "refused" /\ slots' = <<>> /\ UNCHANGED seen

WellSized == answer.whole /\ answer.count <= MaxSlots

DecodeSlot ==
    /\ verdict = "decoding" /\ WellSized /\ Len(slots) < answer.count
    /\ LET entry == EntryAt(answer, Len(slots) + 1)
       IN  IF Admissible(entry)
           THEN /\ slots' = Append(slots, entry)
                /\ seen' = seen \cup {SlotBit(entry)}
                /\ UNCHANGED verdict
           ELSE Refuse
    /\ UNCHANGED <<held, answer, damaged>>

DecodeEnds ==
    /\ verdict = "decoding"
    /\ \/ ~WellSized /\ Refuse
       \/ WellSized /\ Len(slots) = answer.count /\ verdict' = "ok" /\ UNCHANGED <<seen, slots>>
    /\ UNCHANGED <<held, answer, damaged>>

CodecDone == verdict \in {"ok", "refused"} /\ UNCHANGED codecVars

CodecNext == GetProviderStatus \/ Damage \/ DecodeSlot \/ DecodeEnds \/ CodecDone

CodecSpec == CodecInit /\ [][CodecNext]_codecVars

(* ProviderStatus::slot: the first entry with the key. *)
Slot(key) ==
    LET found == {i \in DOMAIN slots : <<slots[i].stream, slots[i].tier>> = key}
    IN  IF found = {} THEN NotHeld
        ELSE slots[CHOOSE i \in found : \A j \in found : i <= j].updated

-----------------------------------------------------------------------------
(* The client reads off every slot what the contract has of it, whichever  *)
(* slots it holds and in whatever order they are listed; such an answer is *)
(* never refused.                                                          *)
HonestStatusIsRead ==
    ~damaged => /\ verdict # "refused"
                /\ verdict = "ok" => \A key \in Keys : Slot(key) = held[key]

(* No entry of an accepted answer hides another one: looking up its key    *)
(* finds it, so a contradictory answer is evidence of nothing.             *)
EveryEntryIsFound ==
    verdict = "ok" =>
        \A i \in 1 .. answer.count :
            LET e == EntryAt(answer, i) IN Slot(<<e.stream, e.tier>>) = e.updated

=============================================================================
