-------------------------- MODULE MCProviderSystem --------------------------
EXTENDS ProviderSystem

MCTickInfos == [epoch : {1}, tick : 0 .. LastTick, initialTick : {0}]
=============================================================================
