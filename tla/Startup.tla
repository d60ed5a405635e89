------------------------------ MODULE Startup ------------------------------
(***************************************************************************)
(* The life of the process around the engine: the seed is taken from the   *)
(* command line or read, validated, locked in memory and used once; the    *)
(* backend gets its endpoint; the observer of shutdown signals registers   *)
(* its handlers while the engine already runs.  Every step may fail.       *)
(*                                                                         *)
(* The wallet's own key, the operating system's copies of the arguments    *)
(* and allocations that a growing string released are external.            *)
(***************************************************************************)
EXTENDS Endpoints

CONSTANTS
    Roots,      \* the endpoints' bases without an operation path
    Tails,      \* queries and fragments, "" for none
    Signals     \* the signals handled, in the order of their registration

(* A root has a host, and its last piece is not that of an operation path. *)
ASSUME RootsAssumption ==
    /\ Roots \subseteq Seq(STRING)
    /\ \A r \in Roots : r # <<>> /\ r[Len(r)] \notin {"", "v1", "live", "query", "qubic"}

VARIABLES
    pc,          \* where the start is, or how the process ended
    source,      \* where the seed comes from
    secret,      \* what the operator gave: a "valid" seed, or not
    copies,      \* the client's copies of it: "absent", "live", "wiped" or "lost"
    locked,      \* the last copy is locked in memory
    kind,        \* the backend
    root,        \* the endpoint the operator means
    endpoint,    \* what it is given as, and later the normalized one
    registered,  \* how many signals have their handler
    arrived,     \* the signals that have been delivered to a handler
    observer     \* the shutdown observer: "waiting", "done" or "failed"

seedVars == <<source, secret, copies, locked>>
urlVars == <<kind, root, endpoint>>
signalVars == <<registered, arrived, observer>>
startVars == <<pc, seedVars, urlVars, signalVars>>

Places == {"argument", "input", "seed", "wrapper"}
Ends == {"refused", "stopped", "killed"}
Operations == {"tick-info", "getTickData", "querySmartContract", "broadcast-transaction"}

(* The forms an endpoint may be given in. *)
Forms(k, base) ==
    {base} \cup
    CASE k = "rpc" -> {base \o p : p \in {<<"">>, <<"v1">>, <<"live", "v1">>, <<"query", "v1", "">>}}
      [] k = "bob" -> {base \o p : p \in {<<"">>, <<"qubic">>, <<"qubic", "", "">>}}
      [] OTHER -> {base \o <<"">>}

StartInit ==
    /\ pc = "parsed"
    /\ source \in {"argument", "terminal", "pipe"}
    /\ secret \in {"valid", "invalid", "empty"}
    /\ copies = [p \in Places |-> IF p = "argument" /\ source = p THEN "live" ELSE "absent"]
    /\ locked = FALSE
    /\ kind \in {"rpc", "bob", "grpc"} /\ root \in Roots
    /\ \E form \in Forms(kind, root), s \in Tails : endpoint = Endpoint(form, s)
    /\ registered = 0 /\ arrived = {} /\ observer = "waiting"

Goes(from, to) == pc = from /\ pc' = to

-----------------------------------------------------------------------------
(* AppConfig::from_cli *)

(* The argument is taken out of the parsed command line, not copied. *)
TakeArgument ==
    /\ source = "argument" /\ Goes("parsed", "validate")
    /\ copies' = [copies EXCEPT !["argument"] = "absent", !["seed"] = "live"]
    /\ UNCHANGED <<source, secret, locked, urlVars, signalVars>>

(* A read may fail with part of the input in its buffer. *)
ReadInput ==
    /\ source # "argument" /\ pc = "parsed"
    /\ \/ pc' = "trim" /\ copies' = [copies EXCEPT !["input"] = "live"]
       \/ pc' = "refused" /\ copies' = [copies EXCEPT !["input"] = "wiped"]
    /\ UNCHANGED <<source, secret, locked, urlVars, signalVars>>

(* The trimmed copy, and the buffer wiped; an empty seed is refused. *)
TrimInput ==
    /\ Goes("trim", IF secret = "empty" THEN "refused" ELSE "validate")
    /\ copies' = [copies EXCEPT !["input"] = "wiped",
                                !["seed"] = IF secret = "empty" THEN "absent" ELSE "live"]

Trim == TrimInput /\ UNCHANGED <<source, secret, locked, urlVars, signalVars>>

(* Seed::new: an invalid seed is wiped; a valid one is moved and locked. *)
Validate ==
    /\ pc = "validate"
    /\ IF secret # "valid"
       THEN pc' = "refused" /\ copies' = [copies EXCEPT !["seed"] = "wiped"]
       ELSE pc' = "lock" /\ copies' = [copies EXCEPT !["seed"] = "absent", !["wrapper"] = "live"]
    /\ UNCHANGED <<source, secret, locked, urlVars, signalVars>>

(* LockedSeed::new: bytes that cannot be locked are wiped. *)
Lock ==
    /\ pc = "lock"
    /\ \/ pc' = "collateral" /\ locked' = TRUE /\ UNCHANGED copies
       \/ pc' = "refused" /\ copies' = [copies EXCEPT !["wrapper"] = "wiped"] /\ UNCHANGED locked
    /\ UNCHANGED <<source, secret, urlVars, signalVars>>

(* A collateral that is no tier is refused only now. *)
ValidateCollateral ==
    /\ pc = "collateral" /\ pc' \in {"configure", "drop_and_refuse"}
    /\ UNCHANGED <<seedVars, urlVars, signalVars>>

Configure ==
    /\ Goes("configure", "build")
    /\ endpoint' = NormalizeEndpoint(kind, endpoint)
    /\ UNCHANGED <<seedVars, kind, root, signalVars>>

-----------------------------------------------------------------------------
(* run *)

(* The wallet may refuse the seed, the light node's channel its endpoint.  *)
Build ==
    /\ pc = "build" /\ pc' \in {"drop_and_run", "drop_and_refuse"}
    /\ UNCHANGED <<seedVars, urlVars, signalVars>>

Dropping == pc \in {"drop_and_run", "drop_and_refuse"}

(* Seeded bug: the memory is unlocked before it is wiped. *)
DropUnlockingFirst ==
    /\ Dropping
    /\ IF locked THEN locked' = FALSE /\ UNCHANGED <<pc, copies>>
       ELSE /\ copies' = [copies EXCEPT !["wrapper"] = "wiped"] /\ UNCHANGED locked
            /\ pc' = IF pc = "drop_and_run" THEN "running" ELSE "refused"

(* Drop for LockedSeed: wiped, then unlocked. *)
DropSeed ==
    /\ Dropping
    /\ IF copies["wrapper"] = "live"
       THEN copies' = [copies EXCEPT !["wrapper"] = "wiped"] /\ UNCHANGED <<pc, locked>>
       ELSE /\ locked' = FALSE /\ UNCHANGED copies
            /\ pc' = IF pc = "drop_and_run" THEN "running" ELSE "refused"

Drop == DropSeed /\ UNCHANGED <<source, secret, urlVars, signalVars>>

(* wait_for_shutdown_signal *)
Register ==
    /\ pc = "running" /\ observer = "waiting" /\ registered < Len(Signals)
    /\ \/ registered' = registered + 1 /\ UNCHANGED observer
       \/ observer' = "failed" /\ UNCHANGED registered
    /\ UNCHANGED <<pc, seedVars, urlVars, arrived>>

(* Without a handler a signal ends the process; with one it is kept for it. *)
SignalArrives(k) ==
    /\ pc \notin Ends
    /\ IF k <= registered THEN arrived' = arrived \cup {k} /\ UNCHANGED pc
       ELSE pc' = "killed" /\ UNCHANGED arrived
    /\ UNCHANGED <<seedVars, urlVars, registered, observer>>

(* Seeded bug: only the first signal is waited for. *)
FirstSignal == 1 \in arrived

AnySignal == arrived # {}

ObserverEnds ==
    /\ pc = "running" /\ observer = "waiting" /\ registered = Len(Signals) /\ AnySignal
    /\ observer' = "done"
    /\ UNCHANGED <<pc, seedVars, urlVars, registered, arrived>>

(* ProviderEngine: run returns some time after its observer is done.       *)
EngineReturns ==
    /\ pc = "running" /\ observer # "waiting" /\ pc' = "stopped"
    /\ UNCHANGED <<seedVars, urlVars, signalVars>>

Ended == pc \in Ends /\ UNCHANGED startVars

StartNext ==
    \/ TakeArgument \/ ReadInput \/ Trim \/ Validate \/ Lock \/ ValidateCollateral \/ Configure \/ Build \/ Drop
    \/ Register \/ (\E k \in DOMAIN Signals : SignalArrives(k))
    \/ ObserverEnds \/ EngineReturns \/ Ended

(* Every step of the process is taken; nothing makes a signal arrive.      *)
StartFairness == WF_startVars(Register) /\ WF_startVars(ObserverEnds) /\ WF_startVars(EngineReturns)

StartSpec == StartInit /\ [][StartNext]_startVars /\ StartFairness

-----------------------------------------------------------------------------
(* Once the engine runs, or the start was refused at whatever step, every  *)
(* copy of the seed that the client made is gone, wiped where it held one. *)
SeedIsGone ==
    pc \in {"running", "refused", "stopped"} =>
        /\ \A p \in Places : copies[p] \in {"absent", "wiped"}
        /\ ~locked

(* A seed that was locked is readable in memory only while it is locked.   *)
NeverUnlockedBeforeWiped ==
    pc \notin {"parsed", "trim", "validate", "lock", "killed"} => (copies["wrapper"] = "live" => locked)

(* In whatever form an endpoint was given, every operation goes to the     *)
(* same URL, its query last.                                               *)
EveryFormReachesTheApi ==
    pc = "build" => \A op \in Operations :
        LET full == IF HasScheme(root) THEN root ELSE <<"http:", "">> \o root
        IN  UrlOf(kind, endpoint, op) = UrlOf(kind, Endpoint(full, endpoint.suffix), op)

(* A signal that found its handler ends the run, whichever it was, even    *)
(* one that came while the other handlers were being registered.           *)
SignalEndsTheRun == (pc = "running" /\ arrived # {}) ~> pc \in Ends

=============================================================================
