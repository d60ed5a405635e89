---------------------------- MODULE StreamLedger ----------------------------
(***************************************************************************)
(* What the engine promises about the calls it signs, without calls,       *)
(* acknowledgements, tasks or ticks: per stream a ledger of signed targets *)
(* that only grows until the slots are reset.  While a chain runs, its     *)
(* targets are three ticks apart; a new chain starts past the ledger's     *)
(* end; a frozen chain is never extended; a closing one got its terminal   *)
(* reveal, its last; a closed stream signs nothing any more.               *)
(***************************************************************************)
EXTENDS RandomSchedule

CONSTANT Streams

VARIABLES
    mode,    \* what each stream's ledger is open to
    last     \* the last target each stream signed, NoTick for none

ledgerVars == <<mode, last>>

Modes == {"idle", "running", "frozen", "closing", "closed"}

LedgerInit == mode = [s \in Streams |-> "idle"] /\ last = [s \in Streams |-> NoTick]

LedgerTypeOK == mode \in [Streams -> Modes] /\ last \in [Streams -> OptTicks]

(* Up to two more targets of a chain, as many as fit the send lead. *)
Extends(from, to) ==
    to \in {t \in {from, from + STREAM_COUNT, from + 2 * STREAM_COUNT} : t <= MaxTick}

Exhausted(to) == to + STREAM_COUNT > MaxTick

(* A chain is extended, and may be frozen or lost in the same cycle. *)
Extend(s) ==
    /\ mode[s] = "running"
    /\ Extends(last[s], last'[s])
    /\ mode'[s] \in {"running", "frozen", "idle"} \cup (IF Exhausted(last'[s]) THEN {"closed"} ELSE {})

(* A new chain, past everything signed before. *)
Start(s) ==
    /\ mode[s] \in {"idle", "frozen"}
    /\ \E first \in Ticks :
          /\ first % STREAM_COUNT = s
          /\ last[s] # NoTick => first >= last[s] + STREAM_COUNT
          /\ Extends(first, last'[s])
    /\ mode'[s] \in {"running", "idle"} \cup (IF Exhausted(last'[s]) THEN {"closed"} ELSE {})

(* A frozen chain has ended. *)
Thaw(s) == mode[s] = "frozen" /\ mode'[s] = "idle" /\ last'[s] = last[s]

(* The terminal reveal closes a running chain. *)
Close(s) ==
    /\ mode[s] = "running"
    /\ last'[s] = last[s] + STREAM_COUNT
    /\ mode'[s] \in {"closing", "closed"}

Finish(s) == mode[s] # "running" /\ mode'[s] = "closed" /\ last'[s] = last[s]

Stay(s) == mode'[s] = mode[s] /\ last'[s] = last[s]

Serve ==
    /\ mode' \in [Streams -> Modes] /\ last' \in [Streams -> OptTicks]
    /\ \A s \in Streams :
           Extend(s) \/ Start(s) \/ Thaw(s) \/ Close(s) \/ Finish(s) \/ Stay(s)

(* A new epoch, with fresh slots. *)
Reset == mode' = [s \in Streams |-> "idle"] /\ last' = [s \in Streams |-> NoTick]

(* The engine is gone. *)
Stop == mode' = [s \in Streams |-> "closed"] /\ UNCHANGED last

LedgerNext == Serve \/ Reset \/ Stop

LedgerSpec == LedgerInit /\ [][LedgerNext]_ledgerVars

=============================================================================
