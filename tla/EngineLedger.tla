---------------------------- MODULE EngineLedger ----------------------------
(***************************************************************************)
(* The engine implements the stream ledger: a slot's state is the mode of  *)
(* its ledger, and the highest target it signed since the last reset is    *)
(* the ledger's end.                                                       *)
(***************************************************************************)
EXTENDS ProviderEngine

LedgerMode(slot) ==
    CASE pc = "exited" -> "closed"
      [] pc # "exited" /\ Tag(slot) = "Waiting" -> "idle"
      [] pc # "exited" /\ IsPlanned(slot) -> "running"
      [] pc # "exited" /\ Tag(slot) = "Restarting" -> "frozen"
      [] pc # "exited" /\ Tag(slot) = "Draining" -> "closing"
      [] OTHER -> "closed"

LedgerEnd(targets) ==
    IF targets = {} THEN NoTick ELSE CHOOSE t \in targets : \A u \in targets : u <= t

Ledger == INSTANCE StreamLedger
          WITH mode <- [s \in Streams |-> LedgerMode(slots[s])],
               last <- [s \in Streams |-> LedgerEnd(signed[s])]

(* Every behaviour of the engine is one of the ledger: whatever ticks,     *)
(* statuses, task outcomes and shutdown requests come in, no stream signs  *)
(* on a frozen, closing or closed ledger, a chain grows by its own ticks   *)
(* only, and a replacement starts past the tail it replaces.               *)
ImplementsLedger == Ledger!LedgerSpec

=============================================================================
