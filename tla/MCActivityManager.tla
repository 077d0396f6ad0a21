------------------------- MODULE MCActivityManager -------------------------
(* One run has two loads, chosen in the initial state: a recorder beside a  *)
(* client with the OVERHEAD kind on ("overhead"), and a program with one    *)
(* thread ("alone").  The sets of the configuration are the larger of the   *)
(* two; an actor a load does not have stays off.                            *)
EXTENDS ActivityManager

CONSTANTS c1, c2, r1, m1, m2

VARIABLE load

Overhead == INSTANCE ActivityManager WITH
  Recorders <- {r1}, Sizes <- {2, 3}, MaxCalls <- 2, MaxBuffers <- 4
Alone == INSTANCE ActivityManager WITH
  Recorders <- {c1}, Kinds <- {"data"}, Capacity <- 1, Sizes <- {1}

LoadInit == Init /\ load \in {"overhead", "alone"}
LoadNext ==
  /\ UNCHANGED load
  /\ \/ load = "overhead" /\ Overhead!Next
     \/ load = "alone" /\ Alone!Next

\* Fairness of the program with one thread
LoadFairness ==
  /\ \A a \in {c1} \cup Buffers : WF_vars(load = "alone" /\ Alone!Record(a))
  /\ WF_vars(load = "alone" /\ Alone!FlushAll(c1) /\ pc[c1] # "off")
  /\ WF_vars(load = "alone" /\ (Alone!JoinManager(c1) \/ Alone!ResetActivitySwitch(c1)))
  /\ WF_vars(load = "alone" /\ Alone!Run(m1))
  /\ \A b \in Buffers : WF_vars(load = "alone" /\ Alone!Work(b))

LoadSpec == LoadInit /\ [][LoadNext]_<<load, vars>> /\ LoadFairness

\* FlushDelivers and StopReturns in a program with one thread
AloneFlushDelivers == load = "alone" => FlushDelivers
AloneStopReturns == load = "alone" => StopReturns

\* The configurations of the other runs: one load, with the constants as given
OneInit == Init /\ load = "one"
OneSpec == OneInit /\ [][Next /\ UNCHANGED load]_<<load, vars>>
FairOneSpec == OneInit /\ [][Next /\ UNCHANGED load]_<<load, vars>> /\ Fairness
=============================================================================
