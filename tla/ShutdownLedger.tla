--------------------------- MODULE ShutdownLedger ---------------------------
(***************************************************************************)
(* What a shutdown owes, next to the engine: the streams whose terminal    *)
(* reveal was scheduled in this epoch and not accepted since, and whether  *)
(* a drain failed after the loop took the shutdown request.  The engine    *)
(* reads neither.                                                          *)
(***************************************************************************)
EXTENDS ProviderEngine

VARIABLES
    owed,         \* history: streams with a scheduled, unaccepted terminal reveal
    drainFailed   \* history: a drain failed while the shutdown was under way

ledger == <<owed, drainFailed>>
ledgerVars == <<vars, ledger>>

LedgerInit == Init /\ owed = {} /\ drainFailed = FALSE

Record ==
    /\ owed' = ((IF WasReset THEN {} ELSE owed)
                   \cup {s \in Streams : Tag(slots'[s]) = "Draining"})
                   \ {s \in Streams : slots'[s].state = Drained("Accepted")}
    /\ drainFailed' = (drainFailed \/ (stopping' /\ \E s \in Streams :
                                          /\ slots'[s].state = Drained("Failed")
                                          /\ slots[s].state # slots'[s].state))

LedgerNext == Next /\ Record

LedgerSpec == LedgerInit /\ [][LedgerNext]_ledgerVars

(* run returns Ok only when every terminal reveal that it scheduled in the  *)
(* epoch it ends in was accepted by the backend: the message "All managed   *)
(* final reveal chains were submitted" is true.                             *)
CleanExitPaysAll == exit = "ok" => owed = {}

(* A failed prerequisite or terminal attempt makes the shutdown fail, also  *)
(* when other streams are still draining at that time.                      *)
FailedDrainFailsShutdown == exit = "ok" => ~drainFailed

=============================================================================
