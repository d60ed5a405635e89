---------------------------- MODULE ContractRules ----------------------------
(***************************************************************************)
(* The rules of the Random contract for the ticks of one stream: what      *)
(* RevealAndCommit and END_TICK make of its population of providers.  The  *)
(* three streams share nothing but the code.                               *)
(*                                                                         *)
(* A 4096-bit value is a name, K12(v) = c is "v names the preimage of c",  *)
(* and the XOR of values is the symmetric difference of sets of names, so  *)
(* that the empty set is the zero entropy.                                 *)
(***************************************************************************)
EXTENDS Integers, Sequences, FiniteSets

CONSTANTS
    Providers,   \* identities that call the contract
    Tiers,       \* the collateral tiers they use, in the contract 0..9
    Values,      \* names of preimages
    None,        \* the zero value: no reveal, no commit
    Capacity     \* RANDOM_STREAM_CAPACITY

ASSUME ContractAssumption ==
    Tiers \subseteq 0 .. 9 /\ Capacity \in Nat \ {0} /\ IsFiniteSet(Providers)

(* What a call of the tier pays: the amounts of the switch. *)
Collateral(tier) ==
    <<1, 10, 100, 1000, 10000, 100000, 1000000, 10000000, 100000000, 1000000000>>[tier + 1]

Call == [provider : Providers, tier : Tiers,
         reveal : Values \cup {None}, commit : Values \cup {None}]

-----------------------------------------------------------------------------
(* RevealAndCommit *)

Owns(entry, call) == entry.provider = call.provider /\ entry.tier = call.tier

Enrolled(pool, call) == \E i \in DOMAIN pool : Owns(pool[i], call)

(* The scan stops at the first match. *)
IndexOf(pool, call) ==
    CHOOSE i \in DOMAIN pool : /\ Owns(pool[i], call)
                               /\ \A j \in DOMAIN pool : Owns(pool[j], call) => i <= j

(* Enrolled, not stale, the committed preimage, and not twice in a tick. *)
Fulfils(pool, call) ==
    /\ Enrolled(pool, call)
    /\ LET e == pool[IndexOf(pool, call)]
       IN  e.reveal = None /\ e.commit = call.reveal /\ ~e.acted

MayEnrol(pool, call) == ~Enrolled(pool, call) /\ Len(pool) # Capacity

Accepts(pool, call) ==
    CASE call.reveal # None -> Fulfils(pool, call)
      [] call.reveal = None /\ call.commit # None -> MayEnrol(pool, call)
      [] OTHER -> FALSE

(* Seeded bug: a leaving provider's collateral stays on the books. *)
RevealedKeepingLock(entry, call, tick) ==
    [entry EXCEPT !.reveal = call.reveal, !.commit = call.commit,
                  !.acted = TRUE, !.revealed = TRUE, !.updated = tick]

RevealedEntry(entry, call, tick) ==
    [entry EXCEPT !.reveal = call.reveal, !.commit = call.commit,
                  !.locked = IF call.commit = None THEN 0 ELSE Collateral(call.tier),
                  !.acted = TRUE, !.revealed = TRUE, !.updated = tick]

(* Enrolment does not write the contribution flag: a free place has it     *)
(* cleared, by the deletion that freed it or from the start.               *)
NewEntry(call, tick) ==
    [provider |-> call.provider, tier |-> call.tier, commit |-> call.commit,
     reveal |-> None, locked |-> Collateral(call.tier), acted |-> TRUE,
     revealed |-> FALSE, contributed |-> FALSE, updated |-> tick]

(* The population after the call; a refused call changes nothing. *)
RevealAndCommit(pool, call, tick) ==
    CASE ~Accepts(pool, call) -> pool
      [] Accepts(pool, call) /\ call.reveal = None -> Append(pool, NewEntry(call, tick))
      [] OTHER -> [pool EXCEPT ![IndexOf(pool, call)] = RevealedEntry(@, call, tick)]

(* What the call pays back: all of it when refused; the old lock on a      *)
(* reveal, and also the attached amount when the provider leaves.          *)
Refund(pool, call) ==
    CASE ~Accepts(pool, call) -> Collateral(call.tier)
      [] Accepts(pool, call) /\ call.reveal = None -> 0
      [] OTHER -> pool[IndexOf(pool, call)].locked
                      + (IF call.commit = None THEN Collateral(call.tier) ELSE 0)

-----------------------------------------------------------------------------
(* END_TICK *)

(* Seeded bug: the entry moved into the hole is forgotten. *)
CutAt(pool, i) == SubSeq(pool, 1, i - 1)

SwapDelete(pool, i) ==
    SubSeq([pool EXCEPT ![i] = pool[Len(pool)]], 1, Len(pool) - 1)

Xor(a, b) == (a \ b) \cup (b \ a)

NoPayments == [p \in Providers |-> 0]

(* END_TICK clears every contribution first; a visit sets its own.         *)
Fresh(entry) == [entry EXCEPT !.acted = FALSE, !.contributed = FALSE]

(* One visit of the walk when nobody revealed: stale entries are refunded. *)
VisitSilent(walk, i) ==
    LET e == walk.pool[i]
    IN  IF e.acted THEN [walk EXCEPT !.pool[i] = Fresh(e)]
        ELSE [walk EXCEPT !.pool = SwapDelete(walk.pool, i), !.paid[e.provider] = @ + e.locked]

(* Seeded bug: a no-show does not poison its tier. *)
VisitUnpoisoned(walk, i) ==
    LET e == walk.pool[i]
        mixed == [e EXCEPT !.acted = FALSE, !.revealed = FALSE, !.reveal = None,
                           !.contributed = e.revealed]
    IN  IF e.acted
        THEN [walk EXCEPT
                 !.pool = IF e.commit = None THEN SwapDelete(walk.pool, i) ELSE [walk.pool EXCEPT ![i] = mixed],
                 !.entropy[e.tier] = IF e.revealed THEN Xor(@, {e.reveal}) ELSE @]
        ELSE [walk EXCEPT !.pool = SwapDelete(walk.pool, i), !.burned = @ + e.locked]

(* One visit otherwise: participants are mixed in unless their tier is     *)
(* already poisoned, leavers removed, no-shows burned.                     *)
Visit(walk, i) ==
    LET e == walk.pool[i]
        mixes == e.revealed /\ e.tier \notin walk.poisoned
        rested == [e EXCEPT !.acted = FALSE, !.revealed = FALSE, !.reveal = None,
                            !.contributed = mixes]
    IN  IF e.acted
        THEN [walk EXCEPT
                 !.pool = IF e.commit = None THEN SwapDelete(walk.pool, i) ELSE [walk.pool EXCEPT ![i] = rested],
                 !.entropy[e.tier] = IF mixes THEN Xor(@, {e.reveal}) ELSE @]
        ELSE [walk EXCEPT !.pool = SwapDelete(walk.pool, i), !.burned = @ + e.locked,
                          !.poisoned = @ \cup {e.tier}]

(* The walk goes from the last entry to the first; after[i] is its state   *)
(* when the entries from i on were visited.                                *)
Walk(pool, silent) ==
    LET n == Len(pool)
        after[i \in 1 .. n + 1] ==
            IF i = n + 1
            THEN [pool |-> pool, entropy |-> [t \in Tiers |-> {}], poisoned |-> {},
                  burned |-> 0, paid |-> NoPayments]
            ELSE IF silent THEN VisitSilent(after[i + 1], i) ELSE Visit(after[i + 1], i)
    IN  after

(* `elsewhere': a provider that the model does not follow revealed.        *)
EndTick(pool, elsewhere) ==
    LET walk == Walk(pool, ~elsewhere /\ \A i \in DOMAIN pool : ~pool[i].revealed)[1]
    IN  [walk EXCEPT
            !.entropy = [t \in Tiers |-> IF t \in walk.poisoned THEN {} ELSE walk.entropy[t]]]

(* What GetProviderStatus reports of one provider's slot: the tick of its  *)
(* last accepted call, or -1 when it has none.                             *)
StatusOf(pool, provider, tier) ==
    LET held == {i \in DOMAIN pool : pool[i].provider = provider /\ pool[i].tier = tier}
    IN  IF held = {} THEN -1 ELSE pool[CHOOSE i \in held : \A j \in held : i <= j].updated

=============================================================================
