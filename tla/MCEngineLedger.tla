--------------------------- MODULE MCEngineLedger ---------------------------
EXTENDS EngineLedger

CONSTANTS
    TickSet,    \* bound: the ticks a backend reports
    Epochs,     \* the epochs it reports, each with initial tick 0
    Reports     \* the last_update_ticks a status response may hold

MCTickInfos == [epoch : Epochs, tick : TickSet, initialTick : {0}]
MCStatusTicks == Reports
=============================================================================
