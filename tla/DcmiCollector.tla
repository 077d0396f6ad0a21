---------------------------- MODULE DcmiCollector ----------------------------
(***************************************************************************)
(* The threads that sample the devices' performance metrics                *)
(* (csrc/pm_sampling/dcmi/dcmi_collector.cpp): one coordinator broadcasts  *)
(* a tick, one worker per device collects it and reports, and the          *)
(* coordinator waits until all have reported before the next tick.         *)
(* StartCollector and StopCollector, called when sessions start and stop,  *)
(* create and join the threads under mtx_.                                 *)
(*                                                                         *)
(* A critical section under tickMtx_ is one step.  A thread in a wait is   *)
(* in asleep until a notification takes it out: it then looks at its       *)
(* predicate again.                                                        *)
(***************************************************************************)
EXTENDS Integers, FiniteSets

CONSTANTS Callers,      \* threads that call StartCollector and StopCollector
          Workers,      \* the devices DcmiApi lists, one worker each
          Coordinator,  \* the coordinator thread
          Nobody        \* the holder of a free mutex

ASSUME CollectorAssumption ==
  /\ IsFiniteSet(Workers)
  /\ Coordinator \notin Workers
  /\ Nobody \notin Callers

VARIABLES running,      \* running_
          mtx,          \* holder of mtx_ between two steps of StopCollector
          call,         \* where each caller is in StartCollector or StopCollector
          coordinator,  \* where the coordinator is
          worker,       \* where each worker is
          seen,         \* seenGen of each worker
          asleep,       \* threads waiting for tickCv_ or doneCv_
          tickGen, doneGen, doneCount

collectorVars == <<running, mtx, call, coordinator, worker, seen, asleep,
                   tickGen, doneGen, doneCount>>

CollectorTypeOK ==
  /\ running \in BOOLEAN
  /\ mtx \in Callers \cup {Nobody}
  /\ call \in [Callers -> {"out", "start", "stop", "wake", "joinCoordinator", "joinWorkers"}]
  /\ coordinator \in {"none", "loop", "needs", "broadcast", "await", "bye", "done"}
  /\ \A w \in DOMAIN worker : worker[w] \in {"none", "wait", "collect", "report", "done"}
  /\ \A w \in DOMAIN seen : seen[w] \in Nat
  /\ asleep \subseteq Workers \cup {Coordinator}
  /\ tickGen \in Nat
  /\ doneGen \in Nat
  /\ doneCount \in 0 .. Cardinality(Workers)

CollectorInit ==
  /\ running = FALSE
  /\ mtx = Nobody
  /\ call = [t \in Callers |-> "out"]
  /\ coordinator = "none"
  /\ worker = [w \in Workers |-> "none"]
  /\ seen = [w \in Workers |-> 0]
  /\ asleep = {}
  /\ tickGen = 0
  /\ doneGen = 0
  /\ doneCount = 0

ThreadsUnchanged == UNCHANGED <<coordinator, worker, seen, asleep, tickGen, doneGen, doneCount>>

-----------------------------------------------------------------------------
(* StartCollector and StopCollector *)

\* Faulty variant: the progress of the last round is kept
ResetProgress_Keeps == UNCHANGED <<tickGen, doneGen, doneCount>>

\* What a stop in the middle of a tick left behind is cleared before a restart
ResetProgress == tickGen' = 0 /\ doneGen' = 0 /\ doneCount' = 0

\* Nothing to do when the threads run already
StartAgain(t) ==
  /\ call[t] = "start" /\ mtx = Nobody /\ running
  /\ call' = [call EXCEPT ![t] = "out"]
  /\ UNCHANGED <<running, mtx>> /\ ThreadsUnchanged

\* DcmiApi::Init fails
StartFails(t) ==
  /\ call[t] = "start" /\ mtx = Nobody /\ ~running
  /\ call' = [call EXCEPT ![t] = "out"]
  /\ UNCHANGED <<running, mtx>> /\ ThreadsUnchanged

StartThreads(t) ==
  /\ call[t] = "start" /\ mtx = Nobody /\ ~running
  /\ running' = TRUE
  /\ ResetProgress
  /\ coordinator' = "loop"
  /\ worker' = [w \in Workers |-> "wait"]
  /\ seen' = [w \in Workers |-> 0]
  /\ call' = [call EXCEPT ![t] = "out"]
  /\ UNCHANGED <<mtx, asleep>>

\* The demand is looked at, and the threads are joined, with mtx_ held
StopNotNeeded(t, demand) ==
  /\ call[t] = "stop" /\ mtx = Nobody /\ (~running \/ demand)
  /\ call' = [call EXCEPT ![t] = "out"]
  /\ UNCHANGED <<running, mtx>> /\ ThreadsUnchanged

StopThreads(t, demand) ==
  /\ call[t] = "stop" /\ mtx = Nobody /\ running /\ ~demand
  /\ mtx' = t
  /\ running' = FALSE
  /\ call' = [call EXCEPT ![t] = "wake"]
  /\ ThreadsUnchanged

\* Faulty variant: only the workers' condition variable is notified
WakeAll_WorkersOnly(t) ==
  /\ call[t] = "wake"
  /\ asleep' = asleep \cap {Coordinator}
  /\ call' = [call EXCEPT ![t] = "joinCoordinator"]
  /\ UNCHANGED <<running, mtx, coordinator, worker, seen, tickGen, doneGen, doneCount>>

WakeAll(t) ==
  /\ call[t] = "wake"
  /\ asleep' = {}
  /\ call' = [call EXCEPT ![t] = "joinCoordinator"]
  /\ UNCHANGED <<running, mtx, coordinator, worker, seen, tickGen, doneGen, doneCount>>

JoinCoordinator(t) ==
  /\ call[t] = "joinCoordinator" /\ coordinator = "done"
  /\ asleep' = asleep \ Workers
  /\ call' = [call EXCEPT ![t] = "joinWorkers"]
  /\ UNCHANGED <<running, mtx, coordinator, worker, seen, tickGen, doneGen, doneCount>>

JoinWorkers(t) ==
  /\ call[t] = "joinWorkers" /\ \A w \in Workers : worker[w] = "done"
  /\ coordinator' = "none"
  /\ worker' = [w \in Workers |-> "none"]
  /\ mtx' = Nobody
  /\ call' = [call EXCEPT ![t] = "out"]
  /\ UNCHANGED <<running, seen, asleep, tickGen, doneGen, doneCount>>

-----------------------------------------------------------------------------
(* CoordinatorLoop and CollectTick *)

\* due: PmSamplingManager::ShouldCollectDcmi allows a tick now
TickDue(due) ==
  /\ coordinator = "loop" /\ running /\ due
  /\ coordinator' = "needs"
  /\ UNCHANGED <<running, mtx, call, worker, seen, asleep, tickGen, doneGen, doneCount>>

LoopEnds ==
  /\ coordinator = "loop" /\ ~running
  /\ coordinator' = "bye"
  /\ UNCHANGED <<running, mtx, call, worker, seen, asleep, tickGen, doneGen, doneCount>>

\* A tick without devices ends before the broadcast
NeedsKnown ==
  /\ coordinator = "needs"
  /\ coordinator' = IF Workers = {} THEN "loop" ELSE "broadcast"
  /\ UNCHANGED <<running, mtx, call, worker, seen, asleep, tickGen, doneGen, doneCount>>

Broadcast ==
  /\ coordinator = "broadcast"
  /\ tickGen' = tickGen + 1
  /\ asleep' = asleep \ Workers
  /\ coordinator' = "await"
  /\ UNCHANGED <<running, mtx, call, worker, seen, doneGen, doneCount>>

\* doneCv_.wait: the predicate is true, or the thread sleeps
TickDone == ~running \/ doneGen >= tickGen

AwaitDone ==
  /\ coordinator = "await" /\ Coordinator \notin asleep
  /\ IF TickDone
       THEN coordinator' = "loop" /\ UNCHANGED asleep
       ELSE asleep' = asleep \cup {Coordinator} /\ UNCHANGED coordinator
  /\ UNCHANGED <<running, mtx, call, worker, seen, tickGen, doneGen, doneCount>>

SayGoodbye ==
  /\ coordinator = "bye"
  /\ asleep' = asleep \ Workers
  /\ coordinator' = "done"
  /\ UNCHANGED <<running, mtx, call, worker, seen, tickGen, doneGen, doneCount>>

-----------------------------------------------------------------------------
(* DeviceWorkerLoop *)

\* tickCv_.wait, and what follows it under the mutex
WorkerWaits(w) ==
  /\ worker[w] = "wait" /\ w \notin asleep
  /\ IF ~running THEN worker' = [worker EXCEPT ![w] = "done"] /\ UNCHANGED <<seen, asleep>>
     ELSE IF tickGen > seen[w]
       THEN /\ worker' = [worker EXCEPT ![w] = "collect"]
            /\ seen' = [seen EXCEPT ![w] = tickGen]
            /\ UNCHANGED asleep
       ELSE asleep' = asleep \cup {w} /\ UNCHANGED <<worker, seen>>
  /\ UNCHANGED <<running, mtx, call, coordinator, tickGen, doneGen, doneCount>>

\* CollectDevice: the sample goes to the manager (see PmSampling)
Collect(w) ==
  /\ worker[w] = "collect"
  /\ worker' = [worker EXCEPT ![w] = "report"]
  /\ UNCHANGED <<running, mtx, call, coordinator, seen, asleep, tickGen, doneGen, doneCount>>

\* The last worker to report ends the tick and wakes the coordinator
Report(w) ==
  /\ worker[w] = "report"
  /\ worker' = [worker EXCEPT ![w] = "wait"]
  /\ IF doneCount + 1 >= Cardinality(Workers)
       THEN doneCount' = 0 /\ doneGen' = seen[w] /\ asleep' = asleep \ {Coordinator}
       ELSE doneCount' = doneCount + 1 /\ UNCHANGED <<doneGen, asleep>>
  /\ UNCHANGED <<running, mtx, call, coordinator, seen, tickGen>>

-----------------------------------------------------------------------------
StopSteps(t) == WakeAll(t) \/ JoinCoordinator(t) \/ JoinWorkers(t)

\* Ticks do not overlap: a tick is broadcast only when every worker has
\* reported the one before, unless the threads are being stopped
\* (dcmi_collector.cpp:224 waits for all devices before the next tick).
TicksDontOverlap ==
  [][tickGen' = tickGen + 1 /\ running =>
       \A w \in DOMAIN worker : worker[w] = "wait" /\ seen[w] = tickGen]_collectorVars

=============================================================================
