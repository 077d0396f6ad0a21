------------------------------ MODULE MCClients ------------------------------
(***************************************************************************)
(* Two Python monitors over the adapter, and the markers one of them is    *)
(* called back with, each under its own load.                              *)
(***************************************************************************)
EXTENDS PyAdapter, MstxMonitor

TwoKinds == [m \in Monitors |-> m]

VARIABLE load

Alone == INSTANCE PyAdapter WITH Monitors <- {CHOOSE m \in Monitors : TRUE}, MaxStarts <- 2
Beside == INSTANCE PyAdapter WITH MaxResizes <- 0
clientsVars == <<load, adapterVars, monitorVars>>

ClientsInit == load \in {"alone", "beside", "markers"} /\ AdapterInit /\ MonitorInit

ClientsNext ==
    /\ UNCHANGED load
    /\ \/ load = "alone" /\ Alone!AdapterNext /\ UNCHANGED monitorVars
       \/ load = "beside" /\ Beside!AdapterNext /\ UNCHANGED monitorVars
       \/ load = "markers" /\ MonitorNext /\ UNCHANGED adapterVars

ClientsSpec == ClientsInit /\ [][ClientsNext]_clientsVars /\ AdapterFairness

=============================================================================
