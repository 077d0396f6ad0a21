-------------------------- MODULE MCDevTaskManager --------------------------
(* Kinds of chip 910B: MARKER needs the TS_FW channel; COMMUNICATION needs  *)
(* it too, and STARS.  One run has two loads, chosen in the initial state:  *)
(* two API threads while nothing fails ("races"), and one API thread while  *)
(* the calls into the driver and CANN fail ("faults").                      *)
EXTENDS DevTaskManager

TwoKinds == <<{"TS_FW"}, {"TS_FW", "STARS"}>>

VARIABLE load

Faulty == INSTANCE DevTaskManager WITH
  AppThreads <- {"a1"}, Faults <- {"nopool", "nochannels", "invalid", "nostart", "nostop", "nocommand"}

Moves(l) == load = l /\ UNCHANGED load
LoadInit == Init /\ load \in {"races", "faults"}
LoadSpec == LoadInit /\ [][(Moves("races") /\ Next) \/ (Moves("faults") /\ Faulty!Next)]_<<load, vars>>

\* The faults of the configuration alone
RacesInit == Init /\ load = "races"
RacesSpec == RacesInit /\ [][Moves("races") /\ Next]_<<load, vars>>

\* EnabledKindsRun and IdleChannelReleased, where nothing fails
RacesEndRunning == load = "races" => EnabledKindsRun
RacesEndReleased == load = "races" => IdleChannelReleased

\* What the tasks leave when no call is under way: kinds that are collected
\* run, and channels no kind uses are released
RacesInv == CollectsWhileUsed /\ RacesEndRunning /\ RacesEndReleased

\* What the steps and the properties of the run read: the AICPU tasks and the
\* last command are only written
View == <<load, switchVars, lockVars, task_map_mtx, profSwitch, poolVars, taskVars, controlVars>>
=============================================================================
