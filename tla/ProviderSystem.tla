--------------------------- MODULE ProviderSystem ---------------------------
(***************************************************************************)
(* The provider and what it talks to: the engine, the network that takes   *)
(* its calls and executes them in their target ticks, and the Random       *)
(* contract that enrols, refunds or evicts it.                             *)
(*                                                                         *)
(* A call that a backend accepted while its target was at least three      *)
(* ticks away is executed; a call that was handed over later, failed, or   *)
(* whose task was aborted may have reached the network or not.  Status     *)
(* answers are the contract's own, up to StatusLag ticks old when they     *)
(* were asked for.  From FaultTicks on the network is prompt: it serves each  *)
(* tick, takes each call in time and answers each query.  The process may  *)
(* be killed and started again, which loses its chains and preimages.      *)
(***************************************************************************)
EXTENDS ProviderEngine, Sequences

CONSTANTS
    LastTick,    \* bound: the last tick the network reaches
    FaultTicks,  \* the network may misbehave before this tick
    StatusLag,   \* by how many ticks a status may be older than its request
    Runs,        \* bound: how often the process is started
    Recovery     \* the ticks after FaultTicks within which a chain is rebuilt

ASSUME SystemAssumption ==
    /\ LastTick \in Ticks /\ FaultTicks \in Nat /\ StatusLag \in Nat
    /\ Runs \in Nat \ {0} /\ Recovery \in Nat

(* A preimage is one process's secret for one target. *)
Preimage(r, target) == IF target = NoTick THEN NoTick ELSE r * (MaxTick + 1) + target

Contract == INSTANCE ContractRules
            WITH Providers <- {"provider"}, Tiers <- {0}, None <- NoTick,
                 Values <- Nat, Capacity <- 1

VARIABLES
    tick,      \* the network's current tick; the ticks before it were executed
    pool,      \* the provider's slot in the contract, per stream
    sent,      \* the calls handed to a backend and not executed yet
    landed,    \* those among them that the network surely has
    recent,    \* the contract's status after each of the last ticks, oldest first
    answers,   \* the statuses that the running query may return
    run,       \* which process this is
    faulty,    \* history: the network let a call down, or the process was killed
    burned,    \* history: a collateral was burned
    refused    \* history: the calls the contract refused

network == <<tick, pool, sent, landed, recent, answers, run, faulty, burned, refused>>
systemVars == <<vars, network>>

Prompt == tick >= FaultTicks

NoStatus == [s \in Streams |-> NoTick]

SystemInit ==
    /\ Init
    /\ tick = 0
    /\ pool = [s \in Streams |-> <<>>]
    /\ sent = {} /\ landed = {}
    /\ recent = [n \in 1 .. StatusLag + 1 |-> NoStatus]
    /\ answers = {}
    /\ run = 1
    /\ faulty = FALSE /\ burned = FALSE /\ refused = {}

Signed(c) == [run |-> run, target |-> c.target, kind |-> c.kind, reveal |-> c.reveal]

CallsOf(slotsNow) == UNION {slotsNow[s].chain.calls : s \in Streams}

(* Backend acceptance in time for the tick's transaction set. *)
InTime(target) == target - tick > TICK_DATA_PUBLICATION_LEAD_TICKS

-----------------------------------------------------------------------------
(* The engine's steps, with the network's side of each *)

SystemFetch ==
    /\ \/ \E i \in TickInfos, stopWindow \in StopWindows :
              i.tick = tick /\ TickOk(i, stopWindow)
       \/ TickFails
    /\ answers' = IF query' = NoQuery THEN {} ELSE answers
    /\ UNCHANGED <<tick, pool, sent, landed, recent, run, faulty, burned, refused>>

(* Every call is taken by the last tick at which that is early enough.     *)
Timely(results) == \A t \in InFlight : t - tick <= 3 => results[t] = "ok"

(* A prompt network answers a query before the next tick, too.             *)
SystemHarvest ==
    /\ \E results \in [InFlight -> TaskResults] :
           /\ Prompt => Timely(results)
           /\ faulty' = (faulty \/ ~Timely(results))
           /\ \/ /\ Prompt => (query = NoQuery \/ query.requested = tick)
                 /\ HarvestQueryPending(results)
              \/ ~Prompt /\ HarvestQueryFailed(results)
              \/ \E seen \in answers : HarvestQueryOk(results, seen)
    /\ landed' = landed \cup {Signed(c) : c \in {d \in CallsOf(slots') :
                                  d.state = "Accepted" /\ ~d.inflight /\ InTime(d.target)}}
    /\ answers' = IF query' = NoQuery THEN {} ELSE answers
    /\ UNCHANGED <<tick, pool, sent, recent, run, burned, refused>>

SystemPlanAndSend ==
    /\ IF Prompt THEN CycleDrain(TRUE) \/ CycleActive(TRUE) \/ CycleHold(TRUE) ELSE PlanAndSend
    /\ sent' = sent \cup {Signed(c) : c \in {d \in CallsOf(slots') : d.inflight}}
    /\ answers' = IF query' # query THEN {recent[n] : n \in DOMAIN recent} ELSE answers
    /\ UNCHANGED <<tick, pool, landed, recent, run, faulty, burned, refused>>

SystemQuiet ==
    /\ \/ ObserveNothing \/ ObserveRequest \/ ObserveError \/ ExitDrained \/ ExitTimedOut
       \/ Environment
    /\ answers' = IF query' = NoQuery THEN {} ELSE answers
    /\ UNCHANGED <<tick, pool, sent, landed, recent, run, faulty, burned, refused>>

(* The process is killed and started again. *)
Crash ==
    /\ pc = "head" /\ run < Runs /\ ~Prompt
    /\ slots' = [s \in Streams |-> InitSlot] /\ signed' = [s \in Streams |-> {}]
    /\ phase' = NoPhase /\ query' = NoQuery /\ info' = NoInfo
    /\ token' = FALSE /\ observer' = "running" /\ stopping' = FALSE /\ late' = FALSE
    /\ exit' = "none" /\ marks' = {} /\ pc' = "head"
    /\ run' = run + 1 /\ faulty' = TRUE /\ answers' = {}
    /\ UNCHANGED <<tick, pool, sent, landed, recent, burned, refused>>

-----------------------------------------------------------------------------
(* The network *)

ContractCall(c) ==
    [provider |-> "provider", tier |-> 0, reveal |-> Preimage(c.run, c.reveal),
     commit |-> IF c.kind = "TerminalReveal" THEN NoTick ELSE Preimage(c.run, c.target)]

(* The calls taken into a tick, in the order given. *)
Executed(before, order) ==
    LET after[n \in 0 .. Len(order)] ==
            IF n = 0 THEN before
            ELSE Contract!RevealAndCommit(after[n - 1], ContractCall(order[n]), tick)
    IN  after

Orders(S) == {f \in [1 .. Cardinality(S) -> S] : {f[n] : n \in DOMAIN f} = S}

Due == {c \in sent : c.target = tick}

(* The tick ends: its transaction set is executed, then END_TICK. *)
NetworkTick ==
    /\ pc \in {"head", "exited"} /\ tick < LastTick
    /\ Prompt => info.tick = tick \/ pc = "exited"
    /\ LET s == tick % STREAM_COUNT
       IN  IF s \notin Streams THEN UNCHANGED <<pool, burned, refused>>
           ELSE \E taken \in SUBSET Due : \E order \in Orders(taken) :
                    LET after == Executed(pool[s], order)
                        closed == Contract!EndTick(after[Len(order)], TRUE)
                    IN  /\ {c \in Due : c \in landed} \subseteq taken
                        /\ pool' = [pool EXCEPT ![s] = closed.pool]
                        /\ burned' = (burned \/ closed.burned > 0)
                        /\ refused' = refused \cup {order[n] : n \in {m \in DOMAIN order :
                               ~Contract!Accepts(after[m - 1], ContractCall(order[m]))}}
    /\ faulty' = (faulty \/ (info.tick # tick /\ pc # "exited"))
    /\ tick' = tick + 1
    /\ sent' = sent \ Due /\ landed' = landed \ Due
    /\ LET status == [s \in Streams |-> Contract!StatusOf(pool'[s], "provider", 0)]
       IN  /\ recent' = Append(Tail(recent), status)
           /\ answers' = IF query = NoQuery THEN {} ELSE answers \cup {status}
    /\ marks' = {}
    /\ UNCHANGED <<slots, phase, query, info, pc, shutdown, signed, run>>

SystemDone == tick = LastTick /\ UNCHANGED systemVars

SystemNext ==
    \/ SystemFetch \/ SystemHarvest \/ SystemPlanAndSend \/ SystemQuiet
    \/ Crash \/ NetworkTick \/ SystemDone

SystemSpec == SystemInit /\ [][SystemNext]_systemVars

-----------------------------------------------------------------------------

(* The contract holds the commit that the running chain reveals next.      *)
InStep(s) ==
    /\ Len(pool[s]) = 1
    /\ pool[s][1].commit = Preimage(run, LatestTargetBefore(slots[s].chain, tick))

(* No collateral is burned unless the network let a call down, the process *)
(* was killed, or a shutdown fails: not by a shutdown or an epoch drain at *)
(* any moment, by failed early attempts, nor by late or old status answers.*)
BurnHasCause == burned => faulty \/ exit = "err" \/ (token /\ ShutdownFailed)

(* A run that ended well leaves nothing behind: once the calls it handed   *)
(* over are executed the contract holds no slot of the provider.           *)
CleanExitLeavesNothing ==
    (exit = "ok" /\ sent = {} /\ ~faulty) => \A s \in Streams : pool[s] = <<>>

(* A healthy chain is kept: its commits and the contract's agree, and no   *)
(* status answer up to StatusLag ticks older than its request, in whatever *)
(* mixture with newer ones, makes the engine give it up.                   *)
HealthyChainKept ==
    (~faulty /\ pc # "exited") => \A s \in Streams :
        /\ Tag(slots[s]) # "Restarting"
        /\ (IsPlanned(slots[s]) /\ slots[s].chain.first < tick) => InStep(s)

(* A replacement chain starts only after the contract dropped the old one: *)
(* while one process runs no first commit is refused, whatever was lost.   *)
FirstCommitFindsSlotFree == run = 1 => \A c \in refused : c.kind # "FirstCommit"

(* After the last fault the engine is back in step with the contract       *)
(* within Recovery ticks, whatever was lost before, process included.      *)
RecoversInTime ==
    (tick >= FaultTicks + Recovery /\ pc = "head" /\ info.tick = tick /\ ~token /\ EpochActive) =>
        \A s \in Streams : Tag(slots[s]) = "Active" /\ InStep(s)

=============================================================================
