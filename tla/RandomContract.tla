--------------------------- MODULE RandomContract ---------------------------
(***************************************************************************)
(* The Random contract with its callers, over the ticks of one stream:     *)
(* calls in any order, END_TICK after them, money paid, locked, paid back  *)
(* and burned, and entropy sold on a trustee's word.                       *)
(***************************************************************************)
EXTENDS ContractRules, Functions

CONSTANT LastRound    \* bound: the ticks of the stream that are executed

ASSUME BoundAssumption == LastRound \in Nat \ {0}

VARIABLES
    pool,      \* the population of the stream
    entropy,   \* the entropy of its tiers, as of the last tick
    round,     \* the stream's ticks so far
    balance,   \* what each provider got back minus what it paid
    burned,    \* burnedAmount
    previous   \* history: who was enrolled when the last tick ended, and what they did

contractVars == <<pool, entropy, round, balance, burned, previous>>

ContractInit ==
    /\ pool = <<>> /\ entropy = [t \in Tiers |-> {}] /\ round = 1
    /\ balance = [p \in Providers |-> 0] /\ burned = 0 /\ previous = {}

Execute(call) ==
    /\ pool' = RevealAndCommit(pool, call, round)
    /\ balance' = [balance EXCEPT ![call.provider] =
                       @ - Collateral(call.tier) + Refund(pool, call)]
    /\ UNCHANGED <<entropy, round, burned, previous>>

CloseTick ==
    /\ round < LastRound
    /\ LET closed == EndTick(pool, FALSE)
       IN  /\ pool' = closed.pool /\ entropy' = closed.entropy
           /\ burned' = burned + closed.burned
           /\ balance' = [p \in Providers |-> balance[p] + closed.paid[p]]
    /\ previous' = {[provider |-> pool[i].provider, tier |-> pool[i].tier,
                      acted |-> pool[i].acted, revealed |-> pool[i].revealed] : i \in DOMAIN pool}
    /\ round' = round + 1

ContractDone == round = LastRound /\ UNCHANGED contractVars

ContractNext == (\E call \in Call : Execute(call)) \/ CloseTick \/ ContractDone

ContractSpec == ContractInit /\ [][ContractNext]_contractVars

(* BuyEntropy sells a stream's entropy with the word of a trustee whose    *)
(* flag it looks up by position.  It reads the stream that was last        *)
(* finished, which nobody touches before its next tick; here a purchase    *)
(* may come at any time, so more states are judged than buyers can see.    *)
(* The zero trustee, None, asks for nobody's word.                         *)
Sells(tier, trustee) ==
    /\ entropy[tier] # {}
    /\ trustee # None =>
           \E i \in DOMAIN pool : /\ pool[i].provider = trustee /\ pool[i].tier = tier
                                  /\ pool[i].contributed

(* What is locked for a provider. *)
LockedOf(p) ==
    SumFunction([i \in DOMAIN pool |-> IF pool[i].provider = p THEN pool[i].locked ELSE 0])

(* No collateral is paid back twice, lost on the books or paid to somebody *)
(* else, however providers enrol, reveal, leave and fall silent: what each *)
(* got back never exceeds what it paid less its lock, and what they all    *)
(* miss is what is locked or was burned.                                   *)
FundsConserved ==
    /\ \A p \in Providers : balance[p] + LockedOf(p) <= 0
    /\ SumFunction([p \in Providers |-> balance[p] + LockedOf(p)]) + burned = 0

(* END_TICK's swap-deletion keeps exactly the providers that acted and did *)
(* not leave, each with its own commit and lock.                           *)
SurvivorsKeepTheirEntry ==
    [][round' # round =>
          {[provider |-> pool'[i].provider, tier |-> pool'[i].tier,
            commit |-> pool'[i].commit, locked |-> pool'[i].locked] : i \in DOMAIN pool'}
          = {[provider |-> pool[i].provider, tier |-> pool[i].tier,
              commit |-> pool[i].commit, locked |-> pool[i].locked] :
                i \in {j \in DOMAIN pool : pool[j].acted /\ pool[j].commit # None}}]_contractVars

(* What END_TICK leaves for sale is honest: after entries moved into the   *)
(* places of those that left or stayed away, a contribution flag still     *)
(* vouches for a provider that revealed in that tick, and a tier from which *)
(* anybody stayed away has nothing to sell, whenever the walk met him.     *)
SoldEntropyIsHonest ==
    \A tier \in Tiers, trustee \in Providers \cup {None} : Sells(tier, trustee) =>
        /\ trustee # None =>
               \E e \in previous : e.provider = trustee /\ e.tier = tier /\ e.revealed
        /\ \A e \in previous : e.tier = tier => e.acted

=============================================================================
