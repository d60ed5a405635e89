------------------------- MODULE MCMonitoredEngine -------------------------
EXTENDS MonitoredEngine

CONSTANTS
    LastTick,   \* bound: the highest tick a backend reports
    Epochs,     \* the epochs it reports, each starting at tick 0
    Reports     \* the last_update_ticks a status response may hold

MCTickInfos == [epoch : Epochs, tick : 0 .. LastTick, initialTick : {0}]
MCStatusTicks == Reports
=============================================================================
