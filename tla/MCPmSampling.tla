---------------------------- MODULE MCPmSampling ----------------------------
(* Four loads of one run, chosen in the initial state: two threads that     *)
(* enable, start, stop and disable sessions beside each other ("calls"),    *)
(* two that also decode ("decode"), one that uses two sessions in turn      *)
(* while ticks go on ("sessions"), and one session over ticks of a clock    *)
(* that also goes back ("ticks").  Only sets and bounds differ.             *)
EXTENDS PmSampling

Power == [metrics |-> {"power"}, keep |-> "oldest"]
Links == [metrics |-> {"hccs"}, keep |-> "latest"]
TwoConfigs == {Power, Links}
BackAndForth == {1, -1}
Control == {"SetConfig", "Start", "Stop", "Disable"}
Data == {"SetConfig", "Start", "Stop", "GetCounterDataSize", "DecodeData"}

VARIABLE load

Called == INSTANCE PmSampling WITH
  Workers <- {"d1"}, ClientOps <- Control, Configs <- {Power}, MaxTicks <- 0
Decoded == INSTANCE PmSampling WITH
  Workers <- {"d1"}, ClientOps <- Data, Addrs <- {"a1"}, Configs <- {Power},
  QueueCap <- 1, MaxSessions <- 1, MaxTicks <- 2, ClockSteps <- {1}
InTurn == INSTANCE PmSampling WITH
  Callers <- {"t1"}, ClientOps <- Control, Configs <- {Power}, QueueCap <- 1, MaxTicks <- 1, ClockSteps <- {1}
Ticked == INSTANCE PmSampling WITH
  Callers <- {"t1"}, ClientOps <- Data, Addrs <- {"a1"}, MaxSessions <- 1

LoadInit == Init /\ load \in {"calls", "decode", "sessions", "ticks"}
LoadNext ==
  /\ UNCHANGED load
  /\ \/ load = "calls" /\ Called!Next
     \/ load = "decode" /\ Decoded!Next
     \/ load = "sessions" /\ InTurn!Next
     \/ load = "ticks" /\ Ticked!Next

\* PmSampling's Fairness, for the load in which the threads are stopped
LoadFairness ==
  /\ WF_vars(load = "sessions" /\ InTurn!CallSteps("t1"))
  /\ WF_vars(load = "sessions" /\ (InTurn!LookUpNeeds \/ InTurn!BroadcastTick))
  /\ WF_vars(load = "sessions" /\ InTurn!CollectorMoves)
  /\ \A w \in Workers : /\ WF_vars(load = "sessions" /\ InTurn!WorkerTakesTick(w))
                        /\ WF_vars(load = "sessions" /\ InTurn!CollectDevice(w))

LoadSpec == LoadInit /\ [][LoadNext]_<<load, vars>> /\ LoadFairness

\* CallsReturn, under the load that states fairness
EveryCallReturns == load = "sessions" => CallsReturn

\* Ticks do not overlap, and every call returns
TicksAndCalls == TicksDontOverlap /\ EveryCallReturns
=============================================================================
