-------------------------- MODULE PmSampling_proofs --------------------------
(***************************************************************************)
(* What TLAPS proves of PmSampling and of the collector's threads under    *)
(* it, for any devices, sessions, callers and queue sizes: that ticks do   *)
(* not overlap, that a running session is served, and that its samples are *)
(* its own, measured, and told of when some are lost.                      *)
(***************************************************************************)
EXTENDS PmSampling, FiniteSetTheorems, SequenceTheorems, TLAPS

(***************************************************************************)
(* The collector: types, the life of the threads and the barrier between   *)
(* two ticks.                                                              *)
(***************************************************************************)

Threads == {"none", "wait", "collect", "report", "done"}
Joining == {"wake", "joinCoordinator", "joinWorkers"}

CollectorTypes ==
  /\ CollectorTypeOK
  /\ worker \in [Workers -> Threads]
  /\ seen \in [Workers -> Nat]

\* While the flag is set all threads are in their loops and nobody holds mtx_;
\* whoever holds mtx_ between two steps is joining them.
Life ==
  /\ running => /\ mtx = Nobody
                /\ coordinator \in {"loop", "needs", "broadcast", "await"}
                /\ \A w \in Workers : worker[w] \in {"wait", "collect", "report"}
  /\ \A t \in Callers : mtx = t <=> call[t] \in Joining
  /\ coordinator = "broadcast" => Workers # {}

\* The workers that have reported the current tick.
Reported == {w \in Workers : worker[w] = "wait" /\ seen[w] = tickGen}

\* A tick is either done, and every worker has reported it, or under way, and
\* the coordinator waits for those that have not.
Barrier ==
  running =>
    /\ doneGen = tickGen \/ doneGen + 1 = tickGen
    /\ doneGen = tickGen => doneCount = 0 /\ \A w \in Workers : worker[w] = "wait" /\ seen[w] = tickGen
    /\ doneGen # tickGen =>
         /\ coordinator = "await"
         /\ doneCount = Cardinality(Reported) /\ doneCount < Cardinality(Workers)
         /\ \A w \in Workers : worker[w] # "wait" => seen[w] = tickGen

CollectorIInv == CollectorTypes /\ Life /\ Barrier

\* A call enters StartCollector or StopCollector.
Entering(t) ==
  /\ call[t] \notin Joining
  /\ \E p \in {"start", "stop"} : call' = [call EXCEPT ![t] = p]
  /\ UNCHANGED <<running, mtx>> /\ ThreadsUnchanged

----------------------------------------------------------------------------
LEMMA WorkersCounted ==
    /\ Cardinality(Workers) \in Nat
    /\ \A S \in SUBSET Workers : IsFiniteSet(S) /\ Cardinality(S) \in Nat /\ Cardinality(S) <= Cardinality(Workers)
    /\ \A S \in SUBSET Workers : Cardinality(S) = Cardinality(Workers) => S = Workers
    /\ \A S \in SUBSET Workers : \A w \in Workers \ S : Cardinality(S \cup {w}) = Cardinality(S) + 1
    /\ Cardinality({}) = 0
    /\ Workers # {} => Cardinality(Workers) > 0
<1>1. IsFiniteSet(Workers)
  BY CollectorAssumption
<1>2. Cardinality(Workers) \in Nat
  BY <1>1, FS_CardinalityType
<1>3. ASSUME NEW S \in SUBSET Workers
      PROVE  /\ IsFiniteSet(S) /\ Cardinality(S) \in Nat /\ Cardinality(S) <= Cardinality(Workers)
             /\ Cardinality(S) = Cardinality(Workers) => S = Workers
  <2>1. IsFiniteSet(S)
    BY <1>1, FS_Subset
  <2>2. Cardinality(S) <= Cardinality(Workers) /\ (Cardinality(S) = Cardinality(Workers) => S = Workers)
    BY <1>1, FS_Subset
  <2> QED BY <2>1, <2>2, FS_CardinalityType
<1>4. ASSUME NEW S \in SUBSET Workers, NEW w \in Workers \ S
      PROVE  Cardinality(S \cup {w}) = Cardinality(S) + 1
  BY <1>3, FS_AddElement
<1>5. Cardinality({}) = 0 /\ (Workers # {} => Cardinality(Workers) > 0)
  BY <1>1, <1>2, FS_EmptySet
<1> QED BY <1>2, <1>3, <1>4, <1>5

LEMMA CollectorInitially == CollectorInit => CollectorIInv
<1> SUFFICES ASSUME CollectorInit PROVE CollectorIInv
  OBVIOUS
<1>1. CollectorTypes
  <2>1. worker \in [Workers -> Threads] /\ seen \in [Workers -> Nat]
    BY DEF CollectorInit, Threads
  <2>2. call \in [Callers -> {"out", "start", "stop", "wake", "joinCoordinator", "joinWorkers"}]
    BY DEF CollectorInit
  <2>3. doneCount \in 0 .. Cardinality(Workers)
    BY WorkersCounted DEF CollectorInit
  <2>4. running \in BOOLEAN
    BY DEF CollectorInit
  <2> QED BY <2>1, <2>2, <2>3, <2>4 DEF CollectorInit, CollectorTypes, CollectorTypeOK, Threads
<1>2. Life
  BY CollectorAssumption DEF CollectorInit, Life, Joining
<1>3. Barrier
  BY DEF CollectorInit, Barrier
<1> QED BY <1>1, <1>2, <1>3 DEF CollectorIInv

LEMMA EnteringKeeps ==
    ASSUME CollectorIInv, NEW t \in Callers, Entering(t)
    PROVE  CollectorIInv'
<1> USE DEF CollectorIInv, Entering, ThreadsUnchanged
<1>1. CollectorTypes'
  BY DEF CollectorTypes, CollectorTypeOK
<1>2. Life'
  <2>1. \A u \in Callers : call'[u] \in Joining <=> call[u] \in Joining
    BY DEF CollectorTypes, CollectorTypeOK, Joining
  <2> QED BY <2>1 DEF Life
<1>3. Barrier'
  BY DEF Barrier, Reported
<1> QED BY <1>1, <1>2, <1>3

LEMMA NothingToDoKeeps ==
    ASSUME CollectorIInv, NEW t \in Callers, NEW demand,
           StartAgain(t) \/ StartFails(t) \/ StopNotNeeded(t, demand)
    PROVE  CollectorIInv'
<1> USE DEF CollectorIInv, ThreadsUnchanged
<1>1. call[t] \in {"start", "stop"} /\ call' = [call EXCEPT ![t] = "out"] /\ UNCHANGED <<running, mtx>> /\ ThreadsUnchanged
  BY DEF StartAgain, StartFails, StopNotNeeded
<1>2. CollectorTypes'
  BY <1>1 DEF CollectorTypes, CollectorTypeOK
<1>3. Life'
  <2>1. \A u \in Callers : call'[u] \in Joining <=> call[u] \in Joining
    BY <1>1 DEF CollectorTypes, CollectorTypeOK, Joining
  <2> QED BY <1>1, <2>1 DEF Life
<1>4. Barrier'
  BY <1>1 DEF Barrier, Reported
<1> QED BY <1>2, <1>3, <1>4

LEMMA StartThreadsKeeps ==
    ASSUME CollectorIInv, NEW t \in Callers, StartThreads(t)
    PROVE  CollectorIInv'
<1> USE DEF CollectorIInv, StartThreads, ResetProgress
<1>1. CollectorTypes'
  <2>1. worker' \in [Workers -> Threads] /\ seen' \in [Workers -> Nat]
    BY DEF Threads
  <2>2. call' \in [Callers -> {"out", "start", "stop", "wake", "joinCoordinator", "joinWorkers"}]
    BY DEF CollectorTypes, CollectorTypeOK
  <2>3. doneCount' \in 0 .. Cardinality(Workers)
    BY WorkersCounted
  <2> QED BY <2>1, <2>2, <2>3 DEF CollectorTypes, CollectorTypeOK, Threads
<1>2. Life'
  <2>1. \A u \in Callers : call'[u] \in Joining <=> call[u] \in Joining
    BY DEF CollectorTypes, CollectorTypeOK, Joining
  <2> QED BY <2>1 DEF Life
<1>3. Barrier'
  BY DEF Barrier
<1> QED BY <1>1, <1>2, <1>3

LEMMA StopThreadsKeeps ==
    ASSUME CollectorIInv, NEW t \in Callers, NEW demand, StopThreads(t, demand)
    PROVE  CollectorIInv'
<1> USE DEF CollectorIInv, StopThreads, ThreadsUnchanged
<1>1. CollectorTypes'
  BY DEF CollectorTypes, CollectorTypeOK
<1>2. Life'
  <2>1. \A u \in Callers : call'[u] \in Joining <=> u = t
    BY CollectorAssumption DEF CollectorTypes, CollectorTypeOK, Joining, Life
  <2> QED BY <2>1 DEF Life
<1>3. Barrier'
  BY DEF Barrier
<1> QED BY <1>1, <1>2, <1>3

LEMMA StopStepsKeep ==
    ASSUME CollectorIInv, NEW t \in Callers, StopSteps(t)
    PROVE  CollectorIInv'
<1> USE DEF CollectorIInv
<1>1. call[t] \in Joining /\ mtx = t /\ ~running /\ ~running' /\ t # Nobody
  BY CollectorAssumption DEF StopSteps, WakeAll, JoinCoordinator, JoinWorkers, Life, Joining
<1>2. Barrier'
  BY <1>1 DEF Barrier
<1>3. CASE WakeAll(t) \/ JoinCoordinator(t)
  <2> USE DEF WakeAll, JoinCoordinator
  <2>1. CollectorTypes'
    BY <1>3 DEF CollectorTypes, CollectorTypeOK
  <2>2. \A u \in Callers : call'[u] \in Joining <=> call[u] \in Joining
    BY <1>3 DEF CollectorTypes, CollectorTypeOK, Joining
  <2>3. Life'
    BY <1>1, <1>3, <2>2 DEF Life
  <2> QED BY <1>2, <2>1, <2>3
<1>4. CASE JoinWorkers(t)
  <2> USE DEF JoinWorkers
  <2>1. CollectorTypes'
    <3>1. worker' \in [Workers -> Threads]
      BY <1>4 DEF Threads
    <3> QED BY <1>4, <3>1 DEF CollectorTypes, CollectorTypeOK, Threads
  <2>2. \A u \in Callers : call'[u] \notin Joining
    BY <1>1, <1>4 DEF CollectorTypes, CollectorTypeOK, Joining, Life
  <2>3. Life'
    BY <1>1, <1>4, <2>2, CollectorAssumption DEF Life
  <2> QED BY <1>2, <2>1, <2>3
<1> QED BY <1>3, <1>4 DEF StopSteps

LEMMA TickDueKeeps ==
    ASSUME CollectorIInv, NEW due, TickDue(due) \/ LoopEnds \/ NeedsKnown \/ SayGoodbye
    PROVE  CollectorIInv'
<1> USE DEF CollectorIInv
<1>1. /\ UNCHANGED <<running, mtx, call, worker, seen, tickGen, doneGen, doneCount>>
      /\ asleep' \subseteq asleep
      /\ coordinator' \in {"loop", "needs", "broadcast", "bye", "done"}
      /\ running => coordinator \in {"loop", "needs"} /\ coordinator' \in {"loop", "needs", "broadcast"}
      /\ coordinator' = "broadcast" => Workers # {}
  BY DEF TickDue, LoopEnds, NeedsKnown, SayGoodbye, Life
<1>2. CollectorTypes'
  BY <1>1 DEF CollectorTypes, CollectorTypeOK
<1>3. Life'
  BY <1>1 DEF Life
<1>4. Barrier'
  BY <1>1 DEF Barrier
<1> QED BY <1>2, <1>3, <1>4

LEMMA BroadcastKeeps ==
    ASSUME CollectorIInv, Broadcast
    PROVE  CollectorIInv'
<1> USE DEF CollectorIInv, Broadcast
<1>1. CollectorTypes'
  BY DEF CollectorTypes, CollectorTypeOK
<1>2. Life'
  BY DEF Life
<1>3. Barrier'
  <2> SUFFICES ASSUME running PROVE Barrier'
    BY DEF Barrier
  <2>1. doneGen = tickGen /\ doneCount = 0 /\ \A w \in Workers : worker[w] = "wait" /\ seen[w] = tickGen
    BY DEF Barrier
  <2>2. tickGen \in Nat /\ doneGen \in Nat
    BY DEF CollectorTypes, CollectorTypeOK
  <2>3. Reported' = {}
    BY <2>1, <2>2 DEF Reported
  <2>4. Cardinality(Workers) > 0
    BY WorkersCounted DEF Life
  <2> QED BY <2>1, <2>2, <2>3, <2>4, WorkersCounted DEF Barrier
<1> QED BY <1>1, <1>2, <1>3

LEMMA AwaitDoneKeeps ==
    ASSUME CollectorIInv, AwaitDone
    PROVE  CollectorIInv'
<1> USE DEF CollectorIInv, AwaitDone
<1>1. CollectorTypes'
  BY DEF CollectorTypes, CollectorTypeOK
<1>2. Life'
  BY DEF Life
<1>3. Barrier'
  <2> SUFFICES ASSUME running PROVE Barrier'
    BY DEF Barrier
  <2>1. Reported' = Reported
    BY DEF Reported
  <2>2. tickGen \in Nat /\ doneGen \in Nat
    BY DEF CollectorTypes, CollectorTypeOK
  <2>3. CASE doneGen = tickGen
    BY <2>3 DEF Barrier
  <2>4. CASE doneGen # tickGen
    <3>1. ~TickDone /\ UNCHANGED coordinator
      BY <2>2, <2>4 DEF TickDone, Barrier
    <3> QED BY <2>1, <2>4, <3>1 DEF Barrier
  <2> QED BY <2>3, <2>4
<1> QED BY <1>1, <1>2, <1>3

LEMMA WorkerWaitsKeeps ==
    ASSUME CollectorIInv, NEW w \in Workers, WorkerWaits(w)
    PROVE  CollectorIInv'
<1> USE DEF CollectorIInv
<1>1. UNCHANGED <<running, mtx, call, coordinator, tickGen, doneGen, doneCount>> /\ worker[w] = "wait"
  BY DEF WorkerWaits
<1>2. CASE ~running
  <2>1. worker' = [worker EXCEPT ![w] = "done"] /\ UNCHANGED <<seen, asleep>>
    BY <1>2 DEF WorkerWaits
  <2>2. CollectorTypes'
    <3>1. worker' \in [Workers -> Threads]
      BY <2>1 DEF CollectorTypes, Threads
    <3> QED BY <1>1, <2>1, <3>1 DEF CollectorTypes, CollectorTypeOK, Threads
  <2> QED BY <1>1, <1>2, <2>2 DEF Life, Barrier
<1>3. CASE running /\ tickGen > seen[w]
  <2>1. /\ worker' = [worker EXCEPT ![w] = "collect"] /\ seen' = [seen EXCEPT ![w] = tickGen]
        /\ UNCHANGED asleep
    BY <1>3 DEF WorkerWaits
  <2>2. CollectorTypes'
    <3>1. worker' \in [Workers -> Threads] /\ seen' \in [Workers -> Nat]
      BY <2>1 DEF CollectorTypes, CollectorTypeOK, Threads
    <3> QED BY <1>1, <2>1, <3>1 DEF CollectorTypes, CollectorTypeOK, Threads
  <2>3. /\ worker'[w] = "collect" /\ seen'[w] = tickGen /\ tickGen # seen[w]
        /\ \A v \in Workers \ {w} : worker'[v] = worker[v] /\ seen'[v] = seen[v]
    BY <1>3, <2>1 DEF CollectorTypes, CollectorTypeOK
  <2>4. Life'
    BY <1>1, <1>3, <2>3 DEF Life
  <2>5. Reported' = Reported
    BY <1>1, <2>3 DEF Reported
  <2>6. Barrier'
    BY <1>1, <1>3, <2>3, <2>5 DEF Barrier
  <2> QED BY <2>2, <2>4, <2>6
<1>4. CASE running /\ ~(tickGen > seen[w])
  <2>1. UNCHANGED <<worker, seen>> /\ asleep' = asleep \cup {w}
    BY <1>4 DEF WorkerWaits
  <2>2. CollectorTypes'
    BY <1>1, <2>1 DEF CollectorTypes, CollectorTypeOK
  <2> QED BY <1>1, <2>1, <2>2 DEF Life, Barrier, Reported
<1> QED BY <1>2, <1>3, <1>4 DEF CollectorTypes, CollectorTypeOK

LEMMA CollectKeeps ==
    ASSUME CollectorIInv, NEW w \in Workers, Collect(w)
    PROVE  CollectorIInv'
<1> USE DEF CollectorIInv, Collect
<1>1. /\ worker[w] = "collect" /\ worker' \in [Workers -> Threads] /\ worker'[w] = "report"
      /\ \A v \in Workers \ {w} : worker'[v] = worker[v]
  BY DEF CollectorTypes, Threads
<1>2. CollectorTypes'
  BY <1>1 DEF CollectorTypes, CollectorTypeOK, Threads
<1>3. Life'
  BY <1>1 DEF Life
<1>4. Reported' = Reported
  BY <1>1 DEF Reported
<1>5. Barrier'
  BY <1>1, <1>4 DEF Barrier
<1> QED BY <1>2, <1>3, <1>5

LEMMA ReportKeeps ==
    ASSUME CollectorIInv, NEW w \in Workers, Report(w)
    PROVE  CollectorIInv'
<1> USE DEF CollectorIInv
<1>1. /\ worker[w] = "report" /\ worker' \in [Workers -> Threads] /\ worker'[w] = "wait"
      /\ \A v \in Workers \ {w} : worker'[v] = worker[v]
      /\ UNCHANGED <<running, mtx, call, coordinator, seen, tickGen>>
  BY DEF Report, CollectorTypes, Threads
<1>2. Cardinality(Workers) \in Nat /\ doneCount \in Nat /\ seen[w] \in Nat /\ tickGen \in Nat /\ doneGen \in Nat
  BY WorkersCounted DEF CollectorTypes, CollectorTypeOK
<1>3. CollectorTypes'
  <2>1. doneCount' \in 0 .. Cardinality(Workers) /\ doneGen' \in Nat /\ asleep' \subseteq asleep
    BY <1>2 DEF Report
  <2> QED BY <1>1, <2>1 DEF CollectorTypes, CollectorTypeOK, Threads
<1>4. Life'
  BY <1>1 DEF Life
<1>5. Barrier'
  <2> SUFFICES ASSUME running PROVE Barrier'
    BY <1>1 DEF Barrier
  <2>1. /\ doneGen # tickGen /\ doneGen + 1 = tickGen /\ seen[w] = tickGen /\ coordinator = "await"
        /\ doneCount = Cardinality(Reported) /\ doneCount < Cardinality(Workers)
        /\ \A v \in Workers : worker[v] # "wait" => seen[v] = tickGen
    BY <1>1 DEF Barrier
  <2>2. Reported' = Reported \cup {w} /\ w \notin Reported /\ Reported \subseteq Workers
    BY <1>1, <2>1 DEF Reported
  <2>3. Cardinality(Reported') = doneCount + 1
    BY <2>1, <2>2, WorkersCounted
  <2>4. CASE doneCount + 1 >= Cardinality(Workers)
    <3>1. Reported' = Workers
      BY <1>2, <2>1, <2>2, <2>3, <2>4, WorkersCounted
    <3>2. doneCount' = 0 /\ doneGen' = tickGen
      BY <2>1, <2>4 DEF Report
    <3>3. \A v \in Workers : worker'[v] = "wait" /\ seen'[v] = tickGen'
      BY <3>1 DEF Reported
    <3> QED BY <1>1, <3>2, <3>3 DEF Barrier
  <2>5. CASE ~(doneCount + 1 >= Cardinality(Workers))
    <3>1. doneCount' = doneCount + 1 /\ doneGen' = doneGen
      BY <2>5 DEF Report
    <3> QED BY <1>1, <1>2, <2>1, <2>3, <2>5, <3>1 DEF Barrier
  <2> QED BY <2>4, <2>5
<1> QED BY <1>3, <1>4, <1>5

(***************************************************************************)
(* The sessions: types, the place of each call and the manager's tables.   *)
(***************************************************************************)

States == {"Created", "Configured", "Running", "Stopped"}
AnyDev == Workers \cup {NoObj.dev}
Keeps == {"oldest"} \cup {c.keep : c \in Configs}
Windows == [start : Nat, end : Nat, first : BOOLEAN, metrics : SUBSET Groups, needs : SUBSET Groups]
Objects == [id : Nat, dev : AnyDev, state : States, metrics : SUBSET Groups, keep : Keeps,
            queue : Seq(Windows), overflowed : BOOLEAN, told : BOOLEAN, plan : SUBSET Groups]
Entries == [dev : AnyDev, alive : BOOLEAN]
Parsers == [metrics : SUBSET Groups, prev : Nat, emitted : BOOLEAN]
Works == [needs : SUBSET Groups, ts : Nat]

CallTypes ==
  /\ pc \in [Callers -> Places] /\ op \in [Callers -> Ops]
  /\ arg \in [Callers -> 0 .. MaxSessions] /\ held \in [Callers -> Addrs \cup {NoAddr}]
TableTypes ==
  /\ objects \in [Devices -> Addrs \cup {NoAddr}] /\ ptrIndex \in [Addrs -> Entries]
  /\ issued \in Seq(Addrs) /\ Len(issued) <= MaxSessions /\ crossed \subseteq Devices
ObjectTypes ==
  /\ obj \in [Addrs -> Objects] /\ \A a \in Addrs : Len(obj[a].queue) <= QueueCap
  /\ parsers \in [Devices -> Parsers]
TickTypes ==
  /\ needs \subseteq Groups /\ tickWork \in Works /\ work \in [Workers -> Works]
  /\ clock \in Nat \ {0}
Typed == CallTypes /\ TableTypes /\ ObjectTypes /\ TickTypes

\* Where a call can be, what it holds there and where it is in the collector.
PlacedAt(t) ==
  /\ pc[t] = "out" <=> held[t] = NoAddr
  /\ pc[t] = "out" <=> op[t] = "none"
  /\ pc[t] = "set" => op[t] \in {"SetConfig", "GetCounterDataSize"}
  /\ pc[t] \in {"run", "collector", "parser", "rollback"} => op[t] = "Start"
  /\ pc[t] = "check" => op[t] \in {"Stop", "Disable", "DecodeData"}
  /\ pc[t] \in {"flush", "stop", "leave"} => op[t] \in {"Stop", "Disable"}
  /\ pc[t] = "erase" => op[t] = "Disable"
  /\ pc[t] \in {"drain", "overflow"} => op[t] = "DecodeData"
  /\ call[t] = "start" <=> pc[t] = "collector"
  /\ call[t] \in {"stop"} \cup Joining => pc[t] = "leave"
Placed == \A t \in Callers : PlacedAt(t)

\* The tables agree: a registered session is alive and knows its device, a live
\* address is registered, and a call holds the session of a device.
Tables ==
  /\ \A d \in Devices : objects[d] # NoAddr =>
       obj[objects[d]].dev = d /\ ptrIndex[objects[d]] = [dev |-> d, alive |-> TRUE]
  /\ \A a \in Addrs : ptrIndex[a].alive => ptrIndex[a].dev \in Devices /\ objects[ptrIndex[a].dev] = a
  /\ \A t \in Callers : held[t] # NoAddr => obj[held[t]].dev \in Devices

\* t is in a call that controls the sessions of d.
InControl(t, d) == op[t] \in Controls /\ obj[held[t]].dev = d

\* Where calls have not overlapped, a controlling call is alone on its device
\* and holds its session, which is out of the table when the call is Disable.
Alone ==
  \A d \in Devices \ crossed : \A t \in Callers : InControl(t, d) =>
    /\ \A u \in Callers : InControl(u, d) => u = t
    /\ objects[d] = IF op[t] = "Disable" THEN NoAddr ELSE held[t]
    /\ pc[t] \in {"collector", "parser"} => obj[held[t]].state = "Running"

\* A session that runs has the collector's threads, or its Start is on the way
\* to start them or to take the state back.
Served ==
  \A a \in Addrs : Running(a) =>
    running \/ \E t \in Callers : held[t] = a /\ pc[t] \in {"collector", "rollback"}

\* The parser of a device is that of its running session, but for the calls
\* that are between the session's state and its parser; otherwise there is none.
Between(d) == \E t \in Callers : InControl(t, d) /\ pc[t] \in {"collector", "parser", "rollback", "stop"}
Disabling(d) == \E t \in Callers : InControl(t, d) /\ op[t] = "Disable"
Fed(d) == RunningOn(d) /\ ~Between(d)
FedAt(d) ==
  /\ Fed(d) => parsers[d].metrics = obj[objects[d]].metrics
  /\ ~Fed(d) /\ ~Disabling(d) => parsers[d] = NoParser
Feeds == \A d \in Devices \ crossed : FedAt(d)

ControlIInv == CollectorIInv /\ Typed /\ Placed /\ Tables

\* A turn of a call: the call goes on or returns, its object changes but for its
\* device, and so may the parser of that device, to one that has no base yet.
Turn(t) ==
  LET o == obj'[held[t]]
      d == obj[held[t]].dev
      q == parsers'[d] IN
  /\ pc[t] # "out" /\ pc'[t] \in Places
  /\ IF pc'[t] = "out" THEN Return(t) ELSE Goto(t, pc'[t])
  /\ obj' = [obj EXCEPT ![held[t]] = o] /\ o \in Objects /\ o.dev = d /\ Len(o.queue) <= QueueCap
  /\ parsers' = [parsers EXCEPT ![d] = q] /\ q \in Parsers /\ (q = parsers[d] \/ (q.prev = 0 /\ ~q.emitted))
  /\ TablesUnchanged /\ TicksUnchanged

----------------------------------------------------------------------------
LEMMA NoObjTyped == NoObj \in Objects /\ NoEntry \in Entries /\ NoParser \in Parsers /\ NoWork \in Works
<1>1. NoObj.dev \in AnyDev /\ NoEntry.dev \in AnyDev
  BY DEF AnyDev, NoObj, NoEntry
<1>2. NoObj \in Objects
  BY <1>1 DEF NoObj, Objects, States, Keeps
<1>3. NoEntry \in Entries
  BY <1>1 DEF NoEntry, Entries
<1>4. NoParser \in Parsers /\ NoWork \in Works
  BY DEF NoParser, Parsers, NoWork, Works
<1> QED BY <1>2, <1>3, <1>4

\* What a turn does, element by element.
LEMMA TurnChanges ==
    ASSUME Typed, Placed, Tables, NEW t \in Callers, Turn(t)
    PROVE  /\ held[t] \in Addrs /\ obj[held[t]].dev \in Devices /\ op[t] # "none"
           /\ op'[t] = (IF pc'[t] = "out" THEN "none" ELSE op[t])
           /\ held'[t] = (IF pc'[t] = "out" THEN NoAddr ELSE held[t])
           /\ \A u \in Callers \ {t} : pc'[u] = pc[u] /\ op'[u] = op[u] /\ held'[u] = held[u]
           /\ \A a \in Addrs \ {held[t]} : obj'[a] = obj[a]
           /\ \A a \in Addrs : obj'[a].dev = obj[a].dev
           /\ \A d \in Devices \ {obj[held[t]].dev} : parsers'[d] = parsers[d]
           /\ UNCHANGED <<objects, ptrIndex, issued, crossed, needs, tickWork, work, clock>>
           /\ Typed'
<1> USE DEF Typed
<1>1. held[t] \in Addrs /\ op[t] # "none"
  BY DEF Turn, CallTypes, Placed, PlacedAt
<1>2. obj[held[t]].dev \in Devices
  BY <1>1, SamplingAssumption DEF Tables
<1>3. /\ op'[t] = (IF pc'[t] = "out" THEN "none" ELSE op[t])
      /\ held'[t] = (IF pc'[t] = "out" THEN NoAddr ELSE held[t])
      /\ \A u \in Callers \ {t} : pc'[u] = pc[u] /\ op'[u] = op[u] /\ held'[u] = held[u]
      /\ CallTypes'
  <2>1. CASE pc'[t] = "out"
    <3>1. 0 \in 0 .. MaxSessions
      BY SamplingAssumption
    <3>2. /\ pc' = [pc EXCEPT ![t] = "out"] /\ op' = [op EXCEPT ![t] = "none"]
          /\ arg' = [arg EXCEPT ![t] = 0] /\ held' = [held EXCEPT ![t] = NoAddr]
      BY <2>1 DEF Turn, Return
    <3>3. "out" \in Places /\ "none" \in Ops
      BY DEF Places, Ops
    <3> QED BY <2>1, <3>1, <3>2, <3>3 DEF CallTypes
  <2>2. CASE pc'[t] # "out"
    <3>1. pc' = [pc EXCEPT ![t] = pc'[t]] /\ pc'[t] \in Places /\ UNCHANGED <<op, arg, held>>
      BY <2>2 DEF Turn, Goto
    <3> QED BY <2>2, <3>1 DEF CallTypes
  <2> QED BY <2>1, <2>2
<1>4. obj' \in [Addrs -> Objects] /\ \A a \in Addrs \ {held[t]} : obj'[a] = obj[a]
  BY <1>1 DEF Turn, ObjectTypes
<1>5. \A a \in Addrs : obj'[a].dev = obj[a].dev /\ Len(obj'[a].queue) <= QueueCap
  BY <1>4 DEF Turn, ObjectTypes
<1>6. parsers' \in [Devices -> Parsers] /\ \A d \in Devices \ {obj[held[t]].dev} : parsers'[d] = parsers[d]
  BY <1>2 DEF Turn, ObjectTypes
<1>7. ObjectTypes'
  BY <1>4, <1>5, <1>6 DEF ObjectTypes
<1>8. UNCHANGED <<objects, ptrIndex, issued, crossed, needs, tickWork, work, clock>>
  BY DEF Turn, TablesUnchanged, TicksUnchanged
<1>9. TableTypes' /\ TickTypes'
  BY <1>8 DEF TableTypes, TickTypes
<1> QED BY <1>1, <1>2, <1>3, <1>4, <1>5, <1>6, <1>7, <1>8, <1>9

LEMMA TurnTables ==
    ASSUME Typed, Placed, Tables, NEW t \in Callers, Turn(t)
    PROVE  Tables'
<1>1. /\ UNCHANGED <<objects, ptrIndex>> /\ \A a \in Addrs : obj'[a].dev = obj[a].dev
      /\ \A u \in Callers : held'[u] \in {held[u], NoAddr}
  BY TurnChanges
<1>2. \A d \in Devices : objects[d] # NoAddr => objects[d] \in Addrs
  BY DEF Typed, TableTypes
<1>3. \A u \in Callers : held[u] # NoAddr => held[u] \in Addrs
  BY DEF Typed, CallTypes
<1> QED BY <1>1, <1>2, <1>3 DEF Tables

LEMMA TurnPlaced ==
    ASSUME Typed, Placed, Tables, NEW t \in Callers, Turn(t),
           \A u \in Callers \ {t} : call'[u] = call[u], PlacedAt(t)'
    PROVE  Placed'
<1>1. \A u \in Callers \ {t} : pc'[u] = pc[u] /\ op'[u] = op[u] /\ held'[u] = held[u]
  BY TurnChanges
<1>2. \A u \in Callers \ {t} : PlacedAt(u)'
  BY <1>1 DEF Placed, PlacedAt
<1> QED BY <1>2 DEF Placed

LEMMA Kept ==
    ASSUME Typed, Placed, Tables, NEW t \in Callers, pc[t] # "out"
    PROVE  /\ held[t] \in Addrs /\ obj[held[t]] \in Objects /\ Len(obj[held[t]].queue) <= QueueCap
           /\ obj[held[t]].dev \in Devices /\ parsers[obj[held[t]].dev] \in Parsers
           /\ obj = [obj EXCEPT ![held[t]] = obj[held[t]]]
           /\ parsers = [parsers EXCEPT ![obj[held[t]].dev] = parsers[obj[held[t]].dev]]
<1>1. held[t] \in Addrs
  BY DEF Typed, CallTypes, Placed, PlacedAt
<1>2. obj[held[t]].dev \in Devices
  BY <1>1, SamplingAssumption DEF Tables
<1> QED BY <1>1, <1>2 DEF Typed, ObjectTypes

----------------------------------------------------------------------------
(* Every step of a call is a turn *)

\* A turn that leaves the parsers alone, and one that leaves the objects alone.
LEMMA ObjectTurn ==
    ASSUME Typed, Placed, Tables, NEW t \in Callers, pc[t] # "out",
           NEW o \in Objects, o.dev = obj[held[t]].dev, Len(o.queue) <= QueueCap,
           obj' = [obj EXCEPT ![held[t]] = o], UNCHANGED parsers,
           NEW p \in Places, IF p = "out" THEN Return(t) ELSE Goto(t, p),
           TablesUnchanged, TicksUnchanged
    PROVE  Turn(t) /\ pc'[t] = p /\ obj'[held[t]] = o
<1>1. obj'[held[t]] = o
  BY Kept DEF Typed, ObjectTypes
<1>2. pc'[t] = p
  BY DEF Typed, CallTypes, Return, Goto
<1> QED BY <1>1, <1>2, Kept DEF Turn

LEMMA ParserTurn ==
    ASSUME Typed, Placed, Tables, NEW t \in Callers, pc[t] # "out",
           NEW q \in Parsers, q.prev = 0, ~q.emitted,
           parsers' = [parsers EXCEPT ![obj[held[t]].dev] = q], UNCHANGED obj,
           NEW p \in Places, IF p = "out" THEN Return(t) ELSE Goto(t, p),
           TablesUnchanged, TicksUnchanged
    PROVE  Turn(t) /\ pc'[t] = p /\ parsers'[obj[held[t]].dev] = q
<1>1. parsers'[obj[held[t]].dev] = q
  BY Kept DEF Typed, ObjectTypes
<1>2. pc'[t] = p
  BY DEF Typed, CallTypes, Return, Goto
<1> QED BY <1>1, <1>2, Kept DEF Turn

LEMMA ConfigureTurn ==
    ASSUME Typed, Placed, Tables, NEW t \in Callers, NEW c \in Configs, Configure(t, c)
    PROVE  /\ Turn(t) /\ pc'[t] = "out" /\ UNCHANGED <<parsers, collectorVars>>
           /\ LET o == obj[held[t]] IN
              obj'[held[t]] = IF o.state = "Running" THEN o
                              ELSE [o EXCEPT !.metrics = c.metrics, !.keep = c.keep, !.state = "Configured",
                                             !.queue = IF o.state = "Stopped" THEN <<>> ELSE o.queue]
<1> DEFINE o == obj[held[t]]
           new == [o EXCEPT !.metrics = c.metrics, !.keep = c.keep, !.state = "Configured",
                            !.queue = IF o.state = "Stopped" THEN <<>> ELSE o.queue]
           next == IF o.state = "Running" THEN o ELSE new
<1>1. pc[t] = "set" /\ held[t] \in Addrs /\ o \in Objects /\ Len(o.queue) <= QueueCap
  BY Kept DEF Configure
<1>2. new \in Objects /\ new.dev = o.dev /\ Len(new.queue) <= QueueCap
  <2>1. c.metrics \in SUBSET Groups /\ c.keep \in Keeps /\ "Configured" \in States
    BY DEF Groups, Keeps, States
  <2>2. (IF o.state = "Stopped" THEN <<>> ELSE o.queue) \in Seq(Windows)
    BY <1>1 DEF Objects
  <2>3. Len(<<>>) <= QueueCap
    BY SamplingAssumption
  <2> QED BY <1>1, <2>1, <2>2, <2>3 DEF Objects
<1>3. next \in Objects /\ next.dev = o.dev /\ Len(next.queue) <= QueueCap
  BY <1>1, <1>2
<1>4. obj' = [obj EXCEPT ![held[t]] = next]
  <2>1. CASE o.state = "Running"
    BY <1>1, <2>1, Kept DEF Configure
  <2>2. CASE o.state # "Running"
    BY <1>1, <2>2 DEF Configure, Typed, ObjectTypes
  <2> QED BY <2>1, <2>2
<1>5. UNCHANGED <<parsers, collectorVars>> /\ Return(t) /\ TablesUnchanged /\ TicksUnchanged /\ "out" \in Places
  BY DEF Configure, ObjectOnly, Places
<1> HIDE DEF next
<1>6. Turn(t) /\ pc'[t] = "out" /\ obj'[held[t]] = next
  BY <1>1, <1>3, <1>4, <1>5, ObjectTurn
<1> QED BY <1>5, <1>6 DEF next

LEMMA SetImageInfoTurn ==
    ASSUME Typed, Placed, Tables, NEW t \in Callers, SetImageInfo(t)
    PROVE  /\ Turn(t) /\ pc'[t] = "out" /\ UNCHANGED <<parsers, collectorVars>>
           /\ obj'[held[t]] = [obj[held[t]] EXCEPT !.plan = obj[held[t]].metrics]
<1> DEFINE next == [obj[held[t]] EXCEPT !.plan = obj[held[t]].metrics]
<1>1. pc[t] = "set" /\ held[t] \in Addrs /\ obj[held[t]] \in Objects /\ Len(obj[held[t]].queue) <= QueueCap
  BY Kept DEF SetImageInfo
<1>2. next \in Objects /\ next.dev = obj[held[t]].dev /\ Len(next.queue) <= QueueCap
  BY <1>1 DEF Objects
<1>3. obj' = [obj EXCEPT ![held[t]] = next]
  BY <1>1 DEF SetImageInfo, Typed, ObjectTypes
<1>4. UNCHANGED <<parsers, collectorVars>> /\ Return(t) /\ TablesUnchanged /\ TicksUnchanged /\ "out" \in Places
  BY DEF SetImageInfo, ObjectOnly, Places
<1> HIDE DEF next
<1>5. Turn(t) /\ pc'[t] = "out" /\ obj'[held[t]] = next
  BY <1>1, <1>2, <1>3, <1>4, ObjectTurn
<1> QED BY <1>4, <1>5 DEF next

LEMMA DrainSamplesTurn ==
    ASSUME Typed, Placed, Tables, NEW t \in Callers, DrainSamples(t)
    PROVE  /\ Turn(t) /\ pc'[t] \in {"overflow", "out"} /\ UNCHANGED <<parsers, collectorVars>>
           /\ \E n \in 0 .. Len(obj[held[t]].queue) :
                obj'[held[t]] = [obj[held[t]] EXCEPT !.queue = SubSeq(obj[held[t]].queue, n + 1, Len(obj[held[t]].queue))]
<1> DEFINE o == obj[held[t]]
           n == IF Len(o.queue) < DecodeMax THEN Len(o.queue) ELSE DecodeMax
           rest == SubSeq(o.queue, n + 1, Len(o.queue))
           next == [o EXCEPT !.queue = rest]
<1>1. pc[t] = "drain" /\ held[t] \in Addrs /\ o \in Objects /\ Len(o.queue) <= QueueCap /\ o.queue \in Seq(Windows)
  BY Kept DEF DrainSamples, Objects
<1>2. n \in 0 .. Len(o.queue) /\ Len(o.queue) \in Nat
  BY <1>1, SamplingAssumption
<1>3. rest \in Seq(Windows) /\ Len(rest) <= QueueCap
  <2>1. \A i \in n + 1 .. Len(o.queue) : o.queue[i] \in Windows
    BY <1>1, <1>2
  <2>2. rest \in Seq(Windows) /\ Len(rest) = IF n + 1 <= Len(o.queue) THEN Len(o.queue) - (n + 1) + 1 ELSE 0
    BY <1>2, <2>1, SubSeqProperties
  <2> HIDE DEF n
  <2> QED BY <1>1, <1>2, <2>2, SamplingAssumption
<1>4. obj' = [obj EXCEPT ![held[t]] = next]
  BY <1>1 DEF DrainSamples, Typed, ObjectTypes
<1> HIDE DEF rest
<1>5. next \in Objects /\ next.dev = o.dev /\ Len(next.queue) <= QueueCap
  BY <1>1, <1>3 DEF Objects
<1>6. UNCHANGED <<parsers, collectorVars>> /\ (Return(t) \/ Goto(t, "overflow")) /\ TablesUnchanged /\ TicksUnchanged
  BY DEF DrainSamples, ObjectOnly
<1>7. \E p \in {"out", "overflow"} : IF p = "out" THEN Return(t) ELSE Goto(t, p)
  BY <1>6
<1>8. PICK p \in {"out", "overflow"} : IF p = "out" THEN Return(t) ELSE Goto(t, p)
  BY <1>7
<1> HIDE DEF next
<1>9. Turn(t) /\ pc'[t] = p /\ obj'[held[t]] = next
  BY <1>1, <1>4, <1>5, <1>6, <1>8, ObjectTurn DEF Places
<1> QED BY <1>2, <1>6, <1>9 DEF next, rest

LEMMA ConsumeOverflowTurn ==
    ASSUME Typed, Placed, Tables, NEW t \in Callers, ConsumeOverflow(t)
    PROVE  /\ Turn(t) /\ pc'[t] = "out" /\ UNCHANGED <<parsers, collectorVars>>
           /\ LET o == obj[held[t]] IN
              obj'[held[t]] = [o EXCEPT !.overflowed = FALSE, !.told = o.told \/ o.overflowed]
<1> DEFINE o == obj[held[t]]
           next == [o EXCEPT !.overflowed = FALSE, !.told = o.told \/ o.overflowed]
<1>1. pc[t] = "overflow" /\ held[t] \in Addrs /\ o \in Objects /\ Len(o.queue) <= QueueCap
  BY Kept DEF ConsumeOverflow
<1>2. next \in Objects /\ next.dev = o.dev /\ Len(next.queue) <= QueueCap
  <2>1. (o.told \/ o.overflowed) \in BOOLEAN
    OBVIOUS
  <2> HIDE DEF o
  <2> QED BY <1>1, <2>1 DEF Objects
<1>3. obj' = [obj EXCEPT ![held[t]] = next]
  BY <1>1 DEF ConsumeOverflow, Typed, ObjectTypes
<1>4. UNCHANGED <<parsers, collectorVars>> /\ Return(t) /\ TablesUnchanged /\ TicksUnchanged /\ "out" \in Places
  BY DEF ConsumeOverflow, ObjectOnly, Places
<1> HIDE DEF next
<1>5. Turn(t) /\ pc'[t] = "out" /\ obj'[held[t]] = next
  BY <1>1, <1>2, <1>3, <1>4, ObjectTurn
<1> QED BY <1>4, <1>5 DEF next

\* A turn that only goes on.
LEMMA PlaceTurn ==
    ASSUME Typed, Placed, Tables, NEW t \in Callers, pc[t] # "out", UNCHANGED <<obj, parsers>>,
           NEW p \in Places, IF p = "out" THEN Return(t) ELSE Goto(t, p),
           TablesUnchanged, TicksUnchanged
    PROVE  Turn(t) /\ pc'[t] = p
<1>1. obj' = [obj EXCEPT ![held[t]] = obj[held[t]]] /\ obj[held[t]] \in Objects /\ Len(obj[held[t]].queue) <= QueueCap
  BY Kept
<1> QED BY <1>1, ObjectTurn

LEMMA DecodeCheckedTurn ==
    ASSUME Typed, Placed, Tables, NEW t \in Callers, DecodeChecked(t)
    PROVE  Turn(t) /\ pc'[t] \in {"drain", "out"} /\ op[t] = "DecodeData" /\ UNCHANGED <<obj, parsers, collectorVars>>
<1>1. /\ pc[t] # "out" /\ op[t] = "DecodeData" /\ UNCHANGED <<obj, parsers, collectorVars>>
      /\ TablesUnchanged /\ TicksUnchanged /\ (Goto(t, "drain") \/ Return(t))
  BY DEF DecodeChecked, ObjectOnly
<1>2. "drain" \in Places /\ "out" \in Places
  BY DEF Places
<1>3. CASE Goto(t, "drain")
  BY <1>1, <1>2, <1>3, PlaceTurn
<1>4. CASE Return(t)
  BY <1>1, <1>2, <1>4, PlaceTurn
<1> QED BY <1>1, <1>3, <1>4

LEMMA CheckRunningTurn ==
    ASSUME Typed, Placed, Tables, NEW t \in Callers, CheckRunning(t)
    PROVE  /\ Turn(t) /\ UNCHANGED <<obj, parsers, collectorVars>>
           /\ \/ pc'[t] = "flush" /\ op[t] \in {"Stop", "Disable"} /\ obj[held[t]].state = "Running"
              \/ pc'[t] = "erase" /\ op[t] = "Disable"
              \/ pc'[t] = "out" /\ op[t] = "Stop"
<1>1. /\ pc[t] # "out" /\ op[t] \in {"Stop", "Disable"} /\ UNCHANGED <<obj, parsers, collectorVars>>
      /\ TablesUnchanged /\ TicksUnchanged
      /\ \/ Goto(t, "flush") /\ obj[held[t]].state = "Running"
         \/ Goto(t, "erase") /\ op[t] = "Disable"
         \/ Return(t) /\ op[t] = "Stop"
  BY DEF CheckRunning, ObjectOnly
<1>2. {"flush", "erase", "out"} \subseteq Places
  BY DEF Places
<1>3. CASE Goto(t, "flush") /\ obj[held[t]].state = "Running"
  BY <1>1, <1>2, <1>3, PlaceTurn
<1>4. CASE Goto(t, "erase") /\ op[t] = "Disable"
  BY <1>1, <1>2, <1>4, PlaceTurn
<1>5. CASE Return(t) /\ op[t] = "Stop"
  BY <1>1, <1>2, <1>5, PlaceTurn
<1> QED BY <1>1, <1>3, <1>4, <1>5

LEMMA StopCollectorsDoneTurn ==
    ASSUME Typed, Placed, Tables, NEW t \in Callers, StopCollectorsDone(t)
    PROVE  /\ Turn(t) /\ UNCHANGED <<obj, parsers, collectorVars>> /\ pc[t] = "leave" /\ call[t] = "out"
           /\ pc'[t] = IF op[t] = "Disable" THEN "erase" ELSE "out"
<1>1. /\ pc[t] = "leave" /\ call[t] = "out" /\ UNCHANGED <<obj, parsers, collectorVars>>
      /\ TablesUnchanged /\ TicksUnchanged
      /\ IF op[t] = "Disable" THEN Goto(t, "erase") ELSE Return(t)
  BY DEF StopCollectorsDone, ObjectOnly
<1>2. {"erase", "out"} \subseteq Places
  BY DEF Places
<1>3. CASE op[t] = "Disable"
  BY <1>1, <1>2, <1>3, PlaceTurn
<1>4. CASE op[t] # "Disable"
  BY <1>1, <1>2, <1>4, PlaceTurn
<1> QED BY <1>1, <1>3, <1>4

\* The three places of Start and Stop that change the session's state.
LEMMA StateTurn ==
    ASSUME Typed, Placed, Tables, NEW t \in Callers, pc[t] # "out", UNCHANGED parsers,
           NEW s \in States, obj' = [obj EXCEPT ![held[t]].state = s],
           NEW p \in Places, IF p = "out" THEN Return(t) ELSE Goto(t, p),
           TablesUnchanged, TicksUnchanged
    PROVE  Turn(t) /\ pc'[t] = p /\ obj'[held[t]] = [obj[held[t]] EXCEPT !.state = s]
<1> DEFINE next == [obj[held[t]] EXCEPT !.state = s]
<1>1. held[t] \in Addrs /\ obj[held[t]] \in Objects /\ Len(obj[held[t]].queue) <= QueueCap
  BY Kept
<1>2. next \in Objects /\ next.dev = obj[held[t]].dev /\ Len(next.queue) <= QueueCap
  BY <1>1 DEF Objects
<1>3. obj' = [obj EXCEPT ![held[t]] = next]
  BY <1>1 DEF Typed, ObjectTypes
<1> HIDE DEF next
<1>4. Turn(t) /\ pc'[t] = p /\ obj'[held[t]] = next
  BY <1>1, <1>2, <1>3, ObjectTurn
<1> QED BY <1>4 DEF next

LEMMA ObjectStartTurn ==
    ASSUME Typed, Placed, Tables, NEW t \in Callers, ObjectStart(t)
    PROVE  /\ Turn(t) /\ UNCHANGED parsers /\ pc[t] = "run"
           /\ UNCHANGED <<running, mtx>> /\ ThreadsUnchanged
           /\ \/ /\ pc'[t] = "collector" /\ obj[held[t]].state \in {"Configured", "Stopped"}
                 /\ obj'[held[t]] = [obj[held[t]] EXCEPT !.state = "Running"]
                 /\ call' = [call EXCEPT ![t] = "start"]
              \/ pc'[t] = "out" /\ UNCHANGED <<obj, call>>
<1> USE DEF ThreadsUnchanged
<1>1. /\ pc[t] = "run" /\ UNCHANGED <<parsers, running, mtx>> /\ ThreadsUnchanged /\ TablesUnchanged /\ TicksUnchanged
      /\ {"collector", "out"} \subseteq Places /\ "Running" \in States
  BY DEF ObjectStart, Places, States
<1>2. CASE obj[held[t]].state \in {"Configured", "Stopped"}
  <2>1. /\ obj' = [obj EXCEPT ![held[t]].state = "Running"] /\ call' = [call EXCEPT ![t] = "start"]
        /\ Goto(t, "collector")
    BY <1>2 DEF ObjectStart
  <2> QED BY <1>1, <1>2, <2>1, StateTurn
<1>3. CASE obj[held[t]].state \notin {"Configured", "Stopped"}
  <2>1. Return(t) /\ UNCHANGED <<obj, call>>
    BY <1>3 DEF ObjectStart
  <2> QED BY <1>1, <2>1, PlaceTurn
<1> QED BY <1>2, <1>3

LEMMA RollbackTurn ==
    ASSUME Typed, Placed, Tables, NEW t \in Callers, Rollback(t)
    PROVE  /\ Turn(t) /\ UNCHANGED <<parsers, collectorVars>> /\ pc[t] = "rollback" /\ pc'[t] = "out"
           /\ \E s \in States \ {"Running"} :
                /\ obj[held[t]].state = "Running" \/ s = obj[held[t]].state
                /\ obj'[held[t]] = [obj[held[t]] EXCEPT !.state = s]
           /\ obj'[held[t]].state \in {"Stopped", obj[held[t]].state}
<1> DEFINE s == IF obj[held[t]].state = "Running" THEN "Stopped" ELSE obj[held[t]].state
<1>1. pc[t] = "rollback" /\ held[t] \in Addrs /\ obj[held[t]] \in Objects
  BY Kept DEF Rollback
<1>2. s \in States \ {"Running"} /\ "out" \in Places
  BY <1>1 DEF Objects, States, Places
<1>3. obj' = [obj EXCEPT ![held[t]].state = s]
  BY <1>1 DEF Rollback, Typed, ObjectTypes
<1>4. UNCHANGED <<parsers, collectorVars>> /\ Return(t) /\ TablesUnchanged /\ TicksUnchanged
  BY DEF Rollback, ObjectOnly
<1>5. Turn(t) /\ pc'[t] = "out" /\ obj'[held[t]] = [obj[held[t]] EXCEPT !.state = s]
  BY <1>1, <1>2, <1>3, <1>4, StateTurn
<1>6. obj'[held[t]].state = s
  BY <1>1, <1>5 DEF Objects
<1> QED BY <1>1, <1>2, <1>4, <1>5, <1>6

LEMMA ObjectStopTurn ==
    ASSUME Typed, Placed, Tables, NEW t \in Callers, ObjectStop(t)
    PROVE  /\ Turn(t) /\ UNCHANGED <<parsers, running, mtx>> /\ ThreadsUnchanged /\ pc[t] = "stop" /\ pc'[t] = "leave"
           /\ call' = [call EXCEPT ![t] = "stop"]
           /\ \E s \in States \ {"Running"} :
                /\ obj[held[t]].state = "Running" \/ s = obj[held[t]].state
                /\ obj'[held[t]] = [obj[held[t]] EXCEPT !.state = s]
           /\ obj'[held[t]].state \in {"Stopped", obj[held[t]].state}
<1> USE DEF ThreadsUnchanged
<1> DEFINE s == IF obj[held[t]].state = "Running" THEN "Stopped" ELSE obj[held[t]].state
<1>1. pc[t] = "stop" /\ held[t] \in Addrs /\ obj[held[t]] \in Objects
  BY Kept DEF ObjectStop
<1>2. s \in States \ {"Running"} /\ "leave" \in Places
  BY <1>1 DEF Objects, States, Places
<1>3. obj' = [obj EXCEPT ![held[t]].state = s]
  BY <1>1 DEF ObjectStop, Typed, ObjectTypes
<1>4. /\ UNCHANGED <<parsers, running, mtx>> /\ ThreadsUnchanged /\ Goto(t, "leave") /\ TablesUnchanged /\ TicksUnchanged
      /\ call' = [call EXCEPT ![t] = "stop"]
  BY DEF ObjectStop
<1>5. Turn(t) /\ pc'[t] = "leave" /\ obj'[held[t]] = [obj[held[t]] EXCEPT !.state = s]
  BY <1>1, <1>2, <1>3, <1>4, StateTurn
<1>6. obj'[held[t]].state = s
  BY <1>1, <1>5 DEF Objects
<1> QED BY <1>1, <1>2, <1>4, <1>5, <1>6

LEMMA ParserTurns ==
    ASSUME Typed, Placed, Tables, NEW t \in Callers, MakeParser(t) \/ FlushParser(t) \/ EraseParser(t)
    PROVE  /\ Turn(t) /\ UNCHANGED <<obj, collectorVars>>
           /\ \/ /\ pc[t] = "parser" /\ pc'[t] = "out"
                 /\ parsers'[obj[held[t]].dev] = [NoParser EXCEPT !.metrics = obj[held[t]].metrics]
              \/ pc[t] = "flush" /\ pc'[t] = "stop" /\ parsers'[obj[held[t]].dev] = NoParser
              \/ pc[t] = "erase" /\ pc'[t] = "out" /\ parsers'[obj[held[t]].dev] = NoParser
<1> DEFINE q == [NoParser EXCEPT !.metrics = obj[held[t]].metrics]
<1>1. /\ UNCHANGED <<obj, collectorVars>> /\ TablesUnchanged /\ TicksUnchanged /\ pc[t] # "out"
      /\ {"stop", "out"} \subseteq Places
  BY DEF MakeParser, FlushParser, EraseParser, Places
<1>2. q \in Parsers /\ q.prev = 0 /\ ~q.emitted
  BY <1>1, Kept DEF Objects, NoParser, Parsers
<1>3. NoParser \in Parsers /\ NoParser.prev = 0 /\ ~NoParser.emitted
  BY DEF NoParser, Parsers
<1>4. CASE MakeParser(t)
  <2>1. pc[t] = "parser" /\ Return(t) /\ parsers' = [parsers EXCEPT ![obj[held[t]].dev] = q]
    BY <1>4 DEF MakeParser
  <2> HIDE DEF q
  <2>2. Turn(t) /\ pc'[t] = "out" /\ parsers'[obj[held[t]].dev] = q
    BY <1>1, <1>2, <2>1, ParserTurn
  <2> QED BY <1>1, <2>1, <2>2 DEF q
<1>5. CASE FlushParser(t)
  <2>1. pc[t] = "flush" /\ Goto(t, "stop") /\ parsers' = [parsers EXCEPT ![obj[held[t]].dev] = NoParser]
    BY <1>5 DEF FlushParser
  <2> QED BY <1>1, <1>3, <2>1, ParserTurn
<1>6. CASE EraseParser(t)
  <2>1. pc[t] = "erase" /\ Return(t) /\ parsers' = [parsers EXCEPT ![obj[held[t]].dev] = NoParser]
    BY <1>6 DEF EraseParser
  <2> QED BY <1>1, <1>3, <2>1, ParserTurn
<1> QED BY <1>4, <1>5, <1>6

LEMMA CollectorTurns ==
    ASSUME Typed, Placed, Tables, NEW t \in Callers, CollectorReady(t) \/ CollectorFails(t) \/ CollectorStops(t)
    PROVE  /\ Turn(t) /\ UNCHANGED <<obj, parsers>>
           /\ \/ pc[t] = "collector" /\ pc'[t] = "parser" /\ (StartAgain(t) \/ StartThreads(t))
              \/ pc[t] = "collector" /\ pc'[t] = "rollback" /\ StartFails(t)
              \/ /\ pc[t] = "leave" /\ pc'[t] = "leave"
                 /\ StopNotNeeded(t, HasDcmiDemand) \/ StopThreads(t, HasDcmiDemand) \/ StopSteps(t)
<1>1. /\ UNCHANGED <<obj, parsers>> /\ TablesUnchanged /\ TicksUnchanged /\ pc[t] # "out"
      /\ {"parser", "rollback", "leave"} \subseteq Places
  BY DEF CollectorReady, CollectorFails, CollectorStops, Places
<1>2. CASE CollectorReady(t)
  BY <1>1, <1>2, PlaceTurn DEF CollectorReady
<1>3. CASE CollectorFails(t)
  BY <1>1, <1>3, PlaceTurn DEF CollectorFails
<1>4. CASE CollectorStops(t)
  <2>1. /\ pc[t] = "leave" /\ UNCHANGED <<pc, op, arg, held>>
        /\ StopNotNeeded(t, HasDcmiDemand) \/ StopThreads(t, HasDcmiDemand) \/ StopSteps(t)
    BY <1>4 DEF CollectorStops
  <2>2. Goto(t, "leave")
    BY <2>1 DEF Goto, Typed, CallTypes
  <2> QED BY <1>1, <2>1, <2>2, PlaceTurn
<1> QED BY <1>2, <1>3, <1>4

----------------------------------------------------------------------------
(* Types, places, tables and the collector, under every step *)

LEMMA CallStepsControl ==
    ASSUME ControlIInv, NEW t \in Callers, CallSteps(t)
    PROVE  ControlIInv' /\ Turn(t)
<1> USE DEF ControlIInv
<1> DEFINE Same == UNCHANGED collectorVars
<1>0. /\ held[t] \in Addrs <=> pc[t] # "out"
      /\ call \in [Callers -> {"out", "start", "stop", "wake", "joinCoordinator", "joinWorkers"}]
  BY SamplingAssumption DEF Typed, CallTypes, Placed, PlacedAt, CollectorIInv, CollectorTypes, CollectorTypeOK
<1>1. ASSUME Turn(t), PlacedAt(t)', \A u \in Callers \ {t} : call'[u] = call[u]
      PROVE  Typed' /\ Placed' /\ Tables'
  BY <1>1, TurnChanges, TurnTables, TurnPlaced
<1>2. ASSUME Turn(t), UNCHANGED call, call[t] = "out",
             pc'[t] \in {"out", "drain", "overflow", "flush", "stop", "erase"},
             pc'[t] \in {"drain", "overflow"} => op[t] = "DecodeData",
             pc'[t] \in {"flush", "stop"} => op[t] \in {"Stop", "Disable"},
             pc'[t] = "erase" => op[t] = "Disable"
      PROVE  PlacedAt(t)'
  BY <1>2, TurnChanges, SamplingAssumption DEF PlacedAt, Joining
<1>3. UNCHANGED collectorVars => CollectorIInv'
  BY DEF collectorVars, CollectorIInv, CollectorTypes, CollectorTypeOK, Life, Barrier, Reported
<1>4. PlacedAt(t)
  BY DEF Placed
<1>5. CASE \/ \E c \in Configs : Configure(t, c)
           \/ SetImageInfo(t) \/ DecodeChecked(t) \/ DrainSamples(t) \/ ConsumeOverflow(t)
           \/ Rollback(t) \/ CheckRunning(t) \/ MakeParser(t) \/ FlushParser(t) \/ EraseParser(t)
  <2>1. pc[t] \in {"set", "check", "drain", "overflow", "rollback", "parser", "flush", "erase"}
    BY <1>5 DEF Configure, SetImageInfo, DecodeChecked, DrainSamples, ConsumeOverflow, Rollback, CheckRunning,
                MakeParser, FlushParser, EraseParser
  <2>2. call[t] = "out"
    BY <1>0, <1>4, <2>1 DEF PlacedAt, Joining
  <2>3. /\ Turn(t) /\ UNCHANGED collectorVars
        /\ pc'[t] \in {"out", "drain", "overflow", "flush", "stop", "erase"}
        /\ pc'[t] \in {"drain", "overflow"} => op[t] = "DecodeData"
        /\ pc'[t] \in {"flush", "stop"} => op[t] \in {"Stop", "Disable"}
        /\ pc'[t] = "erase" => op[t] = "Disable"
    <3>1. CASE (\E c \in Configs : Configure(t, c)) \/ SetImageInfo(t) \/ ConsumeOverflow(t) \/ Rollback(t)
      BY <3>1, ConfigureTurn, SetImageInfoTurn, ConsumeOverflowTurn, RollbackTurn
    <3>2. CASE DecodeChecked(t)
      BY <3>2, DecodeCheckedTurn
    <3>3. CASE DrainSamples(t)
      <4>1. op[t] = "DecodeData"
        BY <1>4, <3>3 DEF DrainSamples, PlacedAt
      <4> QED BY <3>3, <4>1, DrainSamplesTurn
    <3>4. CASE CheckRunning(t)
      BY <3>4, CheckRunningTurn
    <3>5. CASE MakeParser(t) \/ FlushParser(t) \/ EraseParser(t)
      BY <1>4, <3>5, ParserTurns DEF PlacedAt
    <3> QED BY <1>5, <3>1, <3>2, <3>3, <3>4, <3>5
  <2>4. UNCHANGED call
    BY <2>3 DEF collectorVars
  <2>5. PlacedAt(t)'
    BY <1>2, <2>2, <2>3, <2>4
  <2> QED BY <1>1, <1>3, <2>3, <2>4, <2>5
<1>6. CASE StopCollectorsDone(t)
  <2>1. /\ Turn(t) /\ UNCHANGED collectorVars /\ pc[t] = "leave" /\ call[t] = "out"
        /\ pc'[t] = IF op[t] = "Disable" THEN "erase" ELSE "out"
    BY <1>6, StopCollectorsDoneTurn
  <2>2. UNCHANGED call
    BY <2>1 DEF collectorVars
  <2>3. PlacedAt(t)'
    BY <1>2, <2>1, <2>2
  <2> QED BY <1>1, <1>3, <2>1, <2>2, <2>3
<1>7. CASE ObjectStart(t) \/ ObjectStop(t)
  <2>1. /\ Turn(t) /\ UNCHANGED <<running, mtx>> /\ ThreadsUnchanged /\ pc[t] \in {"run", "stop"}
        /\ \/ pc[t] = "run" /\ pc'[t] = "collector" /\ call' = [call EXCEPT ![t] = "start"]
           \/ pc[t] = "run" /\ pc'[t] = "out" /\ UNCHANGED call
           \/ pc[t] = "stop" /\ pc'[t] = "leave" /\ call' = [call EXCEPT ![t] = "stop"]
    BY <1>7, ObjectStartTurn, ObjectStopTurn
  <2>2. call[t] = "out"
    BY <1>0, <1>4, <2>1 DEF PlacedAt, Joining
  <2>3. CASE UNCHANGED call
    <3>1. UNCHANGED collectorVars
      BY <2>1, <2>3 DEF collectorVars, ThreadsUnchanged
    <3>2. pc'[t] = "out"
      BY <1>0, <2>1, <2>2, <2>3
    <3> QED BY <1>1, <1>2, <1>3, <2>1, <2>2, <2>3, <3>1, <3>2
  <2>4. CASE ~UNCHANGED call
    <3>1. CollectorIInv'
      <4>1. Entering(t)
        BY <2>1, <2>2, <2>4 DEF Entering, Joining
      <4> QED BY <4>1, EnteringKeeps
    <3>2. /\ call'[t] = (IF pc'[t] = "collector" THEN "start" ELSE "stop") /\ pc'[t] \in {"collector", "leave"}
          /\ \A u \in Callers \ {t} : call'[u] = call[u]
      BY <1>0, <2>1, <2>4
    <3>3. PlacedAt(t)'
      BY <1>0, <1>4, <2>1, <3>2, TurnChanges, SamplingAssumption DEF PlacedAt, Joining
    <3> QED BY <1>1, <2>1, <3>1, <3>2, <3>3
  <2> QED BY <2>3, <2>4
<1>8. CASE CollectorReady(t) \/ CollectorFails(t) \/ CollectorStops(t)
  <2>1. /\ Turn(t) /\ CollectorIInv'
        /\ \/ pc[t] = "collector" /\ pc'[t] \in {"parser", "rollback"} /\ call' = [call EXCEPT ![t] = "out"]
           \/ /\ pc[t] = "leave" /\ pc'[t] = "leave"
              /\ \E p \in {"out", "wake", "joinCoordinator", "joinWorkers"} : call' = [call EXCEPT ![t] = p]
    <3>1. CASE StartAgain(t) \/ StartThreads(t) \/ StartFails(t)
      <4>1. CollectorIInv'
        BY <3>1, NothingToDoKeeps, StartThreadsKeeps
      <4>2. call[t] = "start" /\ call' = [call EXCEPT ![t] = "out"]
        BY <3>1 DEF StartAgain, StartThreads, StartFails
      <4>3. pc[t] = "collector" /\ pc[t] # "leave"
        BY <1>4, <4>2 DEF PlacedAt
      <4>4. Turn(t) /\ pc'[t] \in {"parser", "rollback"}
        BY <1>8, <4>3, CollectorTurns
      <4> QED BY <4>1, <4>2, <4>3, <4>4
    <3>2. CASE pc[t] = "leave" /\ (StopNotNeeded(t, HasDcmiDemand) \/ StopThreads(t, HasDcmiDemand) \/ StopSteps(t))
      <4>1. CollectorIInv'
        BY <3>2, NothingToDoKeeps, StopThreadsKeeps, StopStepsKeep
      <4>2. \E p \in {"out", "wake", "joinCoordinator", "joinWorkers"} : call' = [call EXCEPT ![t] = p]
        BY <3>2 DEF StopNotNeeded, StopThreads, StopSteps, WakeAll, JoinCoordinator, JoinWorkers
      <4>3. Turn(t) /\ pc'[t] = "leave"
        BY <1>8, <3>2, CollectorTurns
      <4> QED BY <3>2, <4>1, <4>2, <4>3
    <3> QED BY <1>8, <3>1, <3>2, CollectorTurns
  <2>2. \A u \in Callers \ {t} : call'[u] = call[u]
    BY <1>0, <2>1
  <2>3. PlacedAt(t)'
    <3>1. call'[t] = "out" \/ (pc'[t] = "leave" /\ call'[t] \in {"wake", "joinCoordinator", "joinWorkers"})
      BY <1>0, <2>1
    <3>2. op'[t] = op[t] /\ held'[t] = held[t] /\ pc'[t] # "out"
      BY <2>1, TurnChanges
    <3>3. pc'[t] # "collector"
      BY <2>1
    <3>4. pc'[t] \in {"parser", "rollback"} \/ pc'[t] = pc[t]
      BY <2>1
    <3> QED BY <1>4, <2>1, <3>1, <3>2, <3>3, <3>4 DEF PlacedAt, Joining
  <2> QED BY <1>1, <2>1, <2>2, <2>3
<1> QED BY <1>5, <1>6, <1>7, <1>8 DEF CallSteps

\* Where the calls begin.
Beginnings == {<<"SetConfig", "set">>, <<"Start", "run">>, <<"Stop", "check">>, <<"GetCounterDataSize", "set">>,
               <<"DecodeData", "check">>, <<"Disable", "check">>}
Begins(t) ==
  \E n \in 1 .. MaxSessions, b \in Beginnings :
    /\ Begin(t, n, b[1], b[2])
    /\ IF b[1] = "Disable"
         THEN /\ ptrIndex' = [ptrIndex EXCEPT ![issued[n]].alive = FALSE]
              /\ objects' = [objects EXCEPT ![ptrIndex[issued[n]].dev] = NoAddr]
         ELSE TablesKept

LEMMA CallsBegin ==
    ASSUME NEW t \in Callers, NEW n \in 1 .. MaxSessions,
           SetConfig(t, n) \/ Start(t, n) \/ Stop(t, n) \/ Disable(t, n) \/ GetCounterDataSize(t, n) \/ DecodeData(t, n)
    PROVE  Begins(t)
<1>1. CASE SetConfig(t, n)
  <2>1. <<"SetConfig", "set">> \in Beginnings
    BY DEF Beginnings
  <2> QED BY <1>1, <2>1 DEF SetConfig, Begins
<1>2. CASE Start(t, n)
  <2>1. <<"Start", "run">> \in Beginnings
    BY DEF Beginnings
  <2> QED BY <1>2, <2>1 DEF Start, Begins
<1>3. CASE Stop(t, n)
  <2>1. <<"Stop", "check">> \in Beginnings
    BY DEF Beginnings
  <2> QED BY <1>3, <2>1 DEF Stop, Begins
<1>4. CASE Disable(t, n)
  <2>1. <<"Disable", "check">> \in Beginnings
    BY DEF Beginnings
  <2> QED BY <1>4, <2>1 DEF Disable, Begins
<1>5. CASE GetCounterDataSize(t, n)
  <2>1. <<"GetCounterDataSize", "set">> \in Beginnings
    BY DEF Beginnings
  <2> QED BY <1>5, <2>1 DEF GetCounterDataSize, Begins
<1>6. CASE DecodeData(t, n)
  <2>1. <<"DecodeData", "check">> \in Beginnings
    BY DEF Beginnings
  <2> QED BY <1>6, <2>1 DEF DecodeData, Begins
<1> QED BY <1>1, <1>2, <1>3, <1>4, <1>5, <1>6

\* What a beginning call changes, element by element: it holds a registered
\* session, and Disable takes the session out of the tables.
LEMMA BeginsChanges ==
    ASSUME ControlIInv, NEW t \in Callers, Begins(t)
    PROVE  /\ pc[t] = "out" /\ op[t] = "none" /\ held[t] = NoAddr /\ call[t] = "out"
           /\ held'[t] \in Addrs /\ <<op'[t], pc'[t]>> \in Beginnings
           /\ obj[held'[t]].dev \in Devices /\ objects[obj[held'[t]].dev] = held'[t]
           /\ \A u \in Callers \ {t} : pc'[u] = pc[u] /\ op'[u] = op[u] /\ held'[u] = held[u]
           /\ UNCHANGED <<obj, parsers, issued, needs, tickWork, work, clock, collectorVars>>
           /\ crossed' = IF op'[t] \in Controls /\ Controlled(obj[held'[t]].dev)
                           THEN crossed \cup {obj[held'[t]].dev} ELSE crossed
           /\ \A d \in Devices \ {obj[held'[t]].dev} : objects'[d] = objects[d]
           /\ objects'[obj[held'[t]].dev] = IF op'[t] = "Disable" THEN NoAddr ELSE held'[t]
           /\ \A a \in Addrs \ {held'[t]} : ptrIndex'[a] = ptrIndex[a]
           /\ op'[t] = "Disable" => ~ptrIndex'[held'[t]].alive
           /\ op'[t] # "Disable" => UNCHANGED ptrIndex
           /\ Typed'
<1> USE DEF ControlIInv, Typed
<1>1. PICK n \in 1 .. MaxSessions, b \in Beginnings :
        /\ Begin(t, n, b[1], b[2])
        /\ IF b[1] = "Disable"
             THEN /\ ptrIndex' = [ptrIndex EXCEPT ![issued[n]].alive = FALSE]
                  /\ objects' = [objects EXCEPT ![ptrIndex[issued[n]].dev] = NoAddr]
             ELSE TablesKept
  BY DEF Begins
<1> DEFINE a == issued[n]
           d == obj[a].dev
<1>2. a \in Addrs /\ n \in 1 .. Len(issued)
  BY <1>1 DEF Begin, TableTypes
<1>3. LiveObject(n) = a /\ ptrIndex[a].alive /\ objects[ptrIndex[a].dev] = a /\ a # NoAddr
  BY <1>1, <1>2, SamplingAssumption DEF Begin, LiveObject
<1>4. ptrIndex[a].dev \in Devices /\ d = ptrIndex[a].dev
  BY <1>2, <1>3 DEF Tables
<1>5. b[1] \in Ops \ {"none"} /\ b[2] \in Places \ {"out"} /\ b = <<b[1], b[2]>>
  BY DEF Beginnings, Ops, Places
<1>6. /\ pc' = [pc EXCEPT ![t] = b[2]] /\ op' = [op EXCEPT ![t] = b[1]] /\ arg' = [arg EXCEPT ![t] = n]
      /\ held' = [held EXCEPT ![t] = a] /\ pc[t] = "out"
      /\ crossed' = IF b[1] \in Controls /\ Controlled(d) THEN crossed \cup {d} ELSE crossed
      /\ UNCHANGED <<obj, parsers, issued, needs, tickWork, work, clock, collectorVars>>
  BY <1>1, <1>3 DEF Begin, TicksUnchanged
<1>7. /\ pc'[t] = b[2] /\ op'[t] = b[1] /\ held'[t] = a
      /\ \A u \in Callers \ {t} : pc'[u] = pc[u] /\ op'[u] = op[u] /\ held'[u] = held[u]
  BY <1>6 DEF CallTypes
<1>8. CallTypes'
  <2>1. n \in 0 .. MaxSessions
    OBVIOUS
  <2> QED BY <1>2, <1>5, <1>6, <2>1 DEF CallTypes
<1>9. op[t] = "none" /\ held[t] = NoAddr /\ call[t] = "out"
  BY <1>6 DEF Placed, PlacedAt, Joining, CollectorIInv, CollectorTypes, CollectorTypeOK
<1>10. /\ \A e \in Devices \ {d} : objects'[e] = objects[e]
       /\ objects'[d] = IF b[1] = "Disable" THEN NoAddr ELSE a
       /\ \A c \in Addrs \ {a} : ptrIndex'[c] = ptrIndex[c]
       /\ b[1] = "Disable" => ~ptrIndex'[a].alive
       /\ b[1] # "Disable" => UNCHANGED ptrIndex
       /\ objects' \in [Devices -> Addrs \cup {NoAddr}] /\ ptrIndex' \in [Addrs -> Entries]
  <2>1. CASE b[1] = "Disable"
    <3>1. objects' = [objects EXCEPT ![d] = NoAddr]
      BY <1>1, <1>4, <2>1
    <3>2. ptrIndex' = [ptrIndex EXCEPT ![a] = [ptrIndex[a] EXCEPT !.alive = FALSE]]
      BY <1>1, <1>2, <2>1 DEF TableTypes
    <3>3. ptrIndex[a] \in Entries /\ [ptrIndex[a] EXCEPT !.alive = FALSE] \in Entries
      BY <1>2 DEF TableTypes, Entries
    <3>4. ~[ptrIndex[a] EXCEPT !.alive = FALSE].alive
      BY <3>3 DEF Entries
    <3> QED BY <1>2, <1>4, <2>1, <3>1, <3>2, <3>3, <3>4 DEF TableTypes
  <2>2. CASE b[1] # "Disable"
    <3>1. UNCHANGED <<objects, ptrIndex>>
      BY <1>1, <2>2 DEF TablesKept
    <3> QED BY <1>3, <1>4, <2>2, <3>1 DEF TableTypes
  <2> QED BY <2>1, <2>2
<1>11. TableTypes' /\ ObjectTypes' /\ TickTypes'
  BY <1>4, <1>6, <1>10 DEF TableTypes, ObjectTypes, TickTypes
<1>12. <<op'[t], pc'[t]>> \in Beginnings
  BY <1>5, <1>7
<1>13. held'[t] = a /\ obj[held'[t]].dev = d /\ objects[d] = a /\ d \in Devices
  BY <1>3, <1>4, <1>7
<1> HIDE DEF a, d
<1>14. crossed' = IF op'[t] \in Controls /\ Controlled(d) THEN crossed \cup {d} ELSE crossed
  BY <1>6, <1>7
<1>15. /\ objects'[d] = IF op'[t] = "Disable" THEN NoAddr ELSE a
       /\ op'[t] = "Disable" => ~ptrIndex'[a].alive
       /\ op'[t] # "Disable" => UNCHANGED ptrIndex
  BY <1>7, <1>10
<1>16. Typed'
  BY <1>8, <1>11 DEF Typed
<1> QED BY <1>2, <1>6, <1>7, <1>9, <1>10, <1>12, <1>13, <1>14, <1>15, <1>16

LEMMA BeginsControl ==
    ASSUME ControlIInv, NEW t \in Callers, Begins(t)
    PROVE  ControlIInv'
<1> DEFINE a == held'[t]
           d == obj[a].dev
<1>1. /\ a \in Addrs /\ <<op'[t], pc'[t]>> \in Beginnings /\ d \in Devices /\ objects[d] = a /\ call[t] = "out"
      /\ held[t] = NoAddr
      /\ \A u \in Callers \ {t} : pc'[u] = pc[u] /\ op'[u] = op[u] /\ held'[u] = held[u]
      /\ UNCHANGED <<obj, collectorVars>> /\ Typed'
      /\ \A e \in Devices \ {d} : objects'[e] = objects[e]
      /\ objects'[d] = IF op'[t] = "Disable" THEN NoAddr ELSE a
      /\ \A c \in Addrs \ {a} : ptrIndex'[c] = ptrIndex[c]
      /\ op'[t] = "Disable" => ~ptrIndex'[a].alive
      /\ op'[t] # "Disable" => UNCHANGED ptrIndex
  BY BeginsChanges
<1>2. CollectorIInv' /\ UNCHANGED call
  BY <1>1 DEF ControlIInv, collectorVars, CollectorIInv, CollectorTypes, CollectorTypeOK, Life, Barrier, Reported
<1>3. Placed'
  <2>1. \A u \in Callers \ {t} : PlacedAt(u)'
    BY <1>1, <1>2 DEF ControlIInv, Placed, PlacedAt
  <2>2. PlacedAt(t)'
    BY <1>1, <1>2, SamplingAssumption DEF PlacedAt, Beginnings, Joining
  <2> QED BY <2>1, <2>2 DEF Placed
<1>4. Tables'
  <2>1. \A e \in Devices : objects'[e] # NoAddr =>
          obj'[objects'[e]].dev = e /\ ptrIndex'[objects'[e]] = [dev |-> e, alive |-> TRUE]
    <3> SUFFICES ASSUME NEW e \in Devices, objects'[e] # NoAddr
                 PROVE  obj'[objects'[e]].dev = e /\ ptrIndex'[objects'[e]] = [dev |-> e, alive |-> TRUE]
      OBVIOUS
    <3>1. objects'[e] = objects[e] /\ objects[e] \in Addrs
      BY <1>1 DEF ControlIInv, Typed, TableTypes
    <3>2. obj[objects[e]].dev = e /\ ptrIndex[objects[e]] = [dev |-> e, alive |-> TRUE]
      BY <3>1 DEF ControlIInv, Tables
    <3>3. CASE objects[e] # a
      BY <1>1, <3>1, <3>2, <3>3
    <3>4. CASE objects[e] = a
      <4>1. op'[t] # "Disable"
        BY <1>1, <3>1, <3>2, <3>4
      <4> QED BY <1>1, <3>1, <3>2, <4>1
    <3> QED BY <3>3, <3>4
  <2>2. \A c \in Addrs : ptrIndex'[c].alive => ptrIndex'[c].dev \in Devices /\ objects'[ptrIndex'[c].dev] = c
    <3> SUFFICES ASSUME NEW c \in Addrs, ptrIndex'[c].alive
                 PROVE  ptrIndex'[c].dev \in Devices /\ objects'[ptrIndex'[c].dev] = c
      OBVIOUS
    <3>1. ptrIndex'[c] = ptrIndex[c]
      BY <1>1
    <3>2. ptrIndex[c].dev \in Devices /\ objects[ptrIndex[c].dev] = c
      BY <3>1 DEF ControlIInv, Tables
    <3>3. CASE c = a
      <4>1. op'[t] # "Disable"
        BY <1>1, <3>3
      <4> QED BY <1>1, <3>1, <3>2, <4>1
    <3>4. CASE c # a
      <4>1. ptrIndex[c].dev # d
        BY <1>1, <3>2, <3>4
      <4> QED BY <1>1, <3>1, <3>2, <4>1
    <3> QED BY <3>3, <3>4
  <2>3. \A u \in Callers : held'[u] # NoAddr => obj'[held'[u]].dev \in Devices
    BY <1>1 DEF ControlIInv, Tables
  <2> QED BY <2>1, <2>2, <2>3 DEF Tables
<1> QED BY <1>1, <1>2, <1>3, <1>4 DEF ControlIInv

\* What Enable changes, element by element: a new session of d at a.
NewSession(d, a) ==
  /\ objects[d] = NoAddr /\ objects'[d] = a
  /\ \A e \in Devices \ {d} : objects'[e] = objects[e] /\ objects[e] # a
  /\ \A u \in Callers : held[u] # a
  /\ obj'[a].dev = d /\ obj'[a].state = "Created" /\ obj'[a].queue = <<>>
  /\ \A b \in Addrs \ {a} : obj'[b] = obj[b] /\ ptrIndex'[b] = ptrIndex[b]
  /\ ptrIndex'[a] = [dev |-> d, alive |-> TRUE]
  /\ crossed' = IF Controlled(d) THEN crossed \cup {d} ELSE crossed
  /\ UNCHANGED <<parsers, pc, op, arg, held, needs, tickWork, work, clock, collectorVars>>

LEMMA EnableChanges ==
    ASSUME ControlIInv, NEW t \in Callers, NEW d \in Devices, NEW a \in Addrs, Enable(t, d, a)
    PROVE  NewSession(d, a) /\ Typed'
<1> USE DEF ControlIInv, Typed
<1> DEFINE new == [NoObj EXCEPT !.id = Len(issued) + 1, !.dev = d]
<1>1. /\ objects' = [objects EXCEPT ![d] = a] /\ obj' = [obj EXCEPT ![a] = new]
      /\ ptrIndex' = [ptrIndex EXCEPT ![a] = [dev |-> d, alive |-> TRUE]]
      /\ issued' = Append(issued, a) /\ Len(issued) < MaxSessions /\ objects[d] = NoAddr /\ ~InUse(a)
      /\ crossed' = IF Controlled(d) THEN crossed \cup {d} ELSE crossed
      /\ UNCHANGED <<parsers, pc, op, arg, held, needs, tickWork, work, clock, collectorVars>>
  BY DEF Enable, TicksUnchanged
<1>2. (\A e \in Devices : objects[e] # a) /\ \A u \in Callers : held[u] # a
  BY <1>1 DEF InUse, Registered
<1>3. Len(issued) + 1 \in Nat /\ d \in AnyDev
  BY SamplingAssumption DEF TableTypes, AnyDev
<1>4. new \in Objects /\ new.dev = d /\ new.state = "Created" /\ new.queue = <<>>
  BY <1>3, NoObjTyped DEF NoObj, Objects
<1> HIDE DEF new
<1>5. /\ obj' \in [Addrs -> Objects] /\ obj'[a] = new /\ \A b \in Addrs \ {a} : obj'[b] = obj[b]
  BY <1>1, <1>4 DEF ObjectTypes
<1>6. \A b \in Addrs : Len(obj'[b].queue) <= QueueCap
  <2>1. Len(<<>>) <= QueueCap
    BY SamplingAssumption
  <2> QED BY <1>4, <1>5, <2>1 DEF ObjectTypes
<1>7. /\ ptrIndex' \in [Addrs -> Entries] /\ ptrIndex'[a] = [dev |-> d, alive |-> TRUE]
      /\ \A b \in Addrs \ {a} : ptrIndex'[b] = ptrIndex[b]
  BY <1>1, <1>3 DEF TableTypes, Entries
<1>8. objects' \in [Devices -> Addrs \cup {NoAddr}] /\ objects'[d] = a /\ \A e \in Devices \ {d} : objects'[e] = objects[e]
  BY <1>1 DEF TableTypes
<1>9. issued' \in Seq(Addrs) /\ Len(issued') <= MaxSessions
  <2>1. Len(issued') = Len(issued) + 1 /\ Len(issued) \in Nat /\ issued' \in Seq(Addrs)
    BY <1>1 DEF TableTypes
  <2> QED BY <1>1, <2>1, SamplingAssumption
<1>10. CallTypes' /\ TickTypes' /\ ObjectTypes' /\ TableTypes'
  BY <1>1, <1>5, <1>6, <1>7, <1>8, <1>9 DEF CallTypes, TickTypes, ObjectTypes, TableTypes
<1>11. Typed'
  BY <1>10
<1> QED BY <1>1, <1>2, <1>4, <1>5, <1>7, <1>8, <1>11 DEF NewSession

LEMMA EnableControl ==
    ASSUME ControlIInv, NEW t \in Callers, NEW d \in Devices, NEW a \in Addrs, Enable(t, d, a)
    PROVE  ControlIInv'
<1>0. /\ objects[d] = NoAddr /\ objects'[d] = a /\ \A e \in Devices \ {d} : objects'[e] = objects[e] /\ objects[e] # a
      /\ \A u \in Callers : held[u] # a
      /\ obj'[a].dev = d /\ ptrIndex'[a] = [dev |-> d, alive |-> TRUE]
      /\ \A b \in Addrs \ {a} : obj'[b] = obj[b] /\ ptrIndex'[b] = ptrIndex[b]
  BY EnableChanges DEF NewSession
<1>1. /\ UNCHANGED <<pc, op, held>> /\ UNCHANGED collectorVars
      /\ Typed'
  BY EnableChanges DEF NewSession
<1>2. CollectorIInv' /\ UNCHANGED call
  BY <1>0, <1>1 DEF ControlIInv, collectorVars, CollectorIInv, CollectorTypes, CollectorTypeOK, Life, Barrier, Reported
<1>3. Placed'
  BY <1>0, <1>1, <1>2 DEF ControlIInv, Placed, PlacedAt
<1>4. Tables'
  <2>1. ASSUME NEW e \in Devices, objects'[e] # NoAddr
        PROVE  obj'[objects'[e]].dev = e /\ ptrIndex'[objects'[e]] = [dev |-> e, alive |-> TRUE]
    <3>1. CASE e = d
      BY <1>0, <1>1, <3>1
    <3>2. CASE e # d
      <4>1. objects'[e] = objects[e] /\ objects[e] \in Addrs \ {a}
        BY <1>0, <1>1, <2>1, <3>2 DEF ControlIInv, Typed, TableTypes
      <4>2. obj[objects[e]].dev = e /\ ptrIndex[objects[e]] = [dev |-> e, alive |-> TRUE]
        BY <4>1, SamplingAssumption DEF ControlIInv, Tables
      <4> QED BY <1>0, <4>1, <4>2
    <3> QED BY <3>1, <3>2
  <2>2. ASSUME NEW c \in Addrs, ptrIndex'[c].alive
        PROVE  ptrIndex'[c].dev \in Devices /\ objects'[ptrIndex'[c].dev] = c
    <3>1. CASE c = a
      BY <1>0, <1>1, <3>1
    <3>2. CASE c # a
      <4>1. ptrIndex[c].alive /\ ptrIndex'[c] = ptrIndex[c]
        BY <1>0, <1>1, <2>2, <3>2
      <4>2. ptrIndex[c].dev \in Devices /\ objects[ptrIndex[c].dev] = c
        BY <4>1 DEF ControlIInv, Tables
      <4>3. ptrIndex[c].dev # d
        BY <1>0, <1>1, <4>2, SamplingAssumption
      <4> QED BY <1>0, <1>1, <4>1, <4>2, <4>3
    <3> QED BY <3>1, <3>2
  <2>3. \A u \in Callers : held'[u] # NoAddr => obj'[held'[u]].dev \in Devices
    <3>1. \A u \in Callers : held[u] # NoAddr => held[u] \in Addrs \ {a}
      BY <1>0, <1>1 DEF ControlIInv, Typed, CallTypes
    <3> QED BY <1>0, <1>1, <3>1 DEF ControlIInv, Tables
  <2> QED BY <2>1, <2>2, <2>3 DEF Tables
<1> QED BY <1>0, <1>1, <1>2, <1>3, <1>4 DEF ControlIInv

----------------------------------------------------------------------------
(* The collector's threads *)

\* What a queue does with a sample: it takes it at its end, or it is full and
\* drops the sample or its oldest.
LEMMA EnqueueChanges ==
    ASSUME NEW o \in Objects, Len(o.queue) <= QueueCap, NEW s \in Windows
    PROVE  LET n == Enqueue(o, s) IN
           /\ n \in Objects /\ Len(n.queue) <= QueueCap
           /\ n.dev = o.dev /\ n.state = o.state /\ n.metrics = o.metrics /\ n.keep = o.keep /\ n.told = o.told
           /\ o.overflowed => n.overflowed
           /\ \/ Len(o.queue) < QueueCap /\ n.queue = Append(o.queue, s)
              \/ Len(o.queue) = QueueCap /\ o.keep = "oldest" /\ n.queue = o.queue /\ n.overflowed
              \/ Len(o.queue) = QueueCap /\ o.keep # "oldest" /\ n.queue = Append(Tail(o.queue), s)
<1>1. o.queue \in Seq(Windows) /\ Len(o.queue) \in Nat /\ QueueCap \in Nat \ {0}
  BY SamplingAssumption DEF Objects
<1>2. CASE Len(o.queue) < QueueCap
  <2> DEFINE q == Append(o.queue, s)
  <2>1. q \in Seq(Windows) /\ Len(q) = Len(o.queue) + 1
    BY <1>1
  <2>2. Enqueue(o, s) = [o EXCEPT !.queue = q]
    BY <1>2 DEF Enqueue, Objects
  <2>3. Len(q) <= QueueCap
    BY <1>1, <1>2, <2>1
  <2> HIDE DEF q
  <2>4. /\ [o EXCEPT !.queue = q] \in Objects /\ [o EXCEPT !.queue = q].queue = q
        /\ [o EXCEPT !.queue = q].dev = o.dev /\ [o EXCEPT !.queue = q].state = o.state
        /\ [o EXCEPT !.queue = q].metrics = o.metrics /\ [o EXCEPT !.queue = q].keep = o.keep
        /\ [o EXCEPT !.queue = q].told = o.told /\ [o EXCEPT !.queue = q].overflowed = o.overflowed
    BY <2>1 DEF Objects
  <2> QED BY <1>2, <2>2, <2>3, <2>4 DEF q
<1>3. CASE ~(Len(o.queue) < QueueCap) /\ o.keep = "oldest"
  <2>1. Enqueue(o, s) = [o EXCEPT !.overflowed = TRUE]
    BY <1>3 DEF Enqueue
  <2>2. Len(o.queue) = QueueCap
    BY <1>1, <1>3
  <2> QED BY <1>3, <2>1, <2>2 DEF Objects
<1>4. CASE ~(Len(o.queue) < QueueCap) /\ o.keep # "oldest"
  <2> DEFINE q == Append(Tail(o.queue), s)
  <2>1. Len(o.queue) = QueueCap /\ o.queue # <<>>
    BY <1>1, <1>4
  <2>2. q \in Seq(Windows) /\ Len(q) = Len(o.queue)
    <3>1. Tail(o.queue) \in Seq(Windows) /\ Len(Tail(o.queue)) = Len(o.queue) - 1
      BY <1>1, <2>1, HeadTailProperties
    <3> QED BY <1>1, <3>1
  <2>3. Enqueue(o, s) = [o EXCEPT !.overflowed = TRUE, !.queue = q]
    BY <1>4 DEF Enqueue, Objects
  <2> HIDE DEF q
  <2>4. LET n == [o EXCEPT !.overflowed = TRUE, !.queue = q] IN
        /\ n \in Objects /\ n.queue = q /\ n.dev = o.dev /\ n.state = o.state
        /\ n.metrics = o.metrics /\ n.keep = o.keep /\ n.told = o.told /\ n.overflowed
    BY <2>2 DEF Objects
  <2> QED BY <1>4, <2>1, <2>2, <2>3, <2>4 DEF q
<1> QED BY <1>2, <1>3, <1>4

\* The window a worker's sample ends, and whether it is a window at all.
Window(w) == [start |-> parsers[w].prev, end |-> work[w].ts, first |-> ~parsers[w].emitted,
              metrics |-> parsers[w].metrics, needs |-> work[w].needs]
Ends(w) ==
  /\ parsers[w].metrics # {} /\ parsers[w].prev # 0 /\ work[w].ts >= parsers[w].prev
  /\ objects[w] # NoAddr /\ obj[objects[w]].state = "Running"
Takes(o) == Len(o.queue) < QueueCap \/ o.keep # "oldest"

\* What CollectDevice changes, element by element.
Sampled(w) ==
  /\ UNCHANGED <<objects, ptrIndex, issued, crossed, pc, op, arg, held, needs, tickWork, clock>>
  /\ \A a \in Addrs : obj'[a] = obj[a] \/ (w \in Devices /\ a = objects[w] /\ Ends(w))
  /\ w \in Devices /\ Ends(w) => objects[w] \in Addrs /\ obj'[objects[w]] = Enqueue(obj[objects[w]], Window(w))
  /\ \A d \in Devices \ {w} : parsers'[d] = parsers[d]
  /\ w \in Devices => parsers'[w].metrics = parsers[w].metrics
  /\ w \in Devices /\ parsers[w].metrics = {} => parsers'[w] = parsers[w]
  /\ w \in Devices /\ parsers[w].metrics # {} =>
       /\ parsers'[w].prev = work[w].ts
       /\ parsers'[w].emitted =>
            /\ parsers[w].prev # 0 /\ work[w].ts >= parsers[w].prev
            /\ parsers[w].emitted \/ (Ends(w) /\ Takes(obj[objects[w]]))
  /\ \A v \in Workers \ {w} : work'[v] = work[v]

LEMMA CollectDeviceChanges ==
    ASSUME ControlIInv, NEW w \in Workers, CollectDevice(w)
    PROVE  Sampled(w) /\ Typed' /\ Collect(w)
<1> USE DEF ControlIInv, Typed
<1> DEFINE p == parsers[w]
           a == objects[w]
           base == p.prev = 0 \/ work[w].ts < p.prev
           emits == ~base /\ a # NoAddr /\ obj[a].state = "Running"
           out == ~base /\ (p.emitted \/ (emits /\ Takes(obj[a])))
<1>1. /\ Collect(w) /\ OnDcmiSample(w) /\ work' = [work EXCEPT ![w] = NoWork]
      /\ UNCHANGED <<objects, ptrIndex, issued, crossed, pc, op, arg, held, needs, tickWork, clock>>
  BY DEF CollectDevice, TablesUnchanged
<1>2. work' \in [Workers -> Works] /\ \A v \in Workers \ {w} : work'[v] = work[v]
  BY <1>1, NoObjTyped DEF TickTypes
<1>3. CASE w \notin Devices \/ p.metrics = {}
  <2>1. UNCHANGED <<parsers, obj>>
    BY <1>1, <1>3 DEF OnDcmiSample
  <2>2. Typed'
    BY <1>1, <1>2, <2>1 DEF CallTypes, TableTypes, ObjectTypes, TickTypes
  <2> QED BY <1>1, <1>2, <1>3, <2>1, <2>2 DEF Sampled, Ends
<1>4. CASE w \in Devices /\ p.metrics # {}
  <2>1. p \in Parsers /\ work[w] \in Works /\ a \in Addrs \cup {NoAddr}
    BY <1>4 DEF ObjectTypes, TickTypes, TableTypes
  <2>2. /\ parsers' = [parsers EXCEPT ![w] = [p EXCEPT !.prev = work[w].ts, !.emitted = out]]
        /\ obj' = IF emits THEN [obj EXCEPT ![a] = Enqueue(obj[a], Window(w))] ELSE obj
    <3>1. parsers' = [parsers EXCEPT ![w].prev = work[w].ts, ![w].emitted = out]
      BY <1>1, <1>4 DEF OnDcmiSample, Takes
    <3>2. obj' = IF emits THEN [obj EXCEPT ![a] = Enqueue(obj[a], Window(w))] ELSE obj
      BY <1>1, <1>4 DEF OnDcmiSample, Window, ObjectTypes
    <3> HIDE DEF out, emits
    <3> QED BY <1>4, <3>1, <3>2 DEF ObjectTypes
  <2>3. emits <=> Ends(w)
    BY <1>4, <2>1 DEF Ends, Parsers, Works
  <2>4. out => p.prev # 0 /\ work[w].ts >= p.prev /\ (p.emitted \/ (Ends(w) /\ Takes(obj[a])))
    BY <2>1, <2>3 DEF Parsers, Works
  <2>5. out \in BOOLEAN
    OBVIOUS
  <2> HIDE DEF out, emits
  <2>6. [p EXCEPT !.prev = work[w].ts, !.emitted = out] \in Parsers
    BY <2>1, <2>5 DEF Parsers, Works
  <2>7. /\ parsers' \in [Devices -> Parsers] /\ \A d \in Devices \ {w} : parsers'[d] = parsers[d]
        /\ parsers'[w] = [p EXCEPT !.prev = work[w].ts, !.emitted = out]
    BY <1>4, <2>2, <2>6 DEF ObjectTypes
  <2>8. parsers'[w].metrics = p.metrics /\ parsers'[w].prev = work[w].ts /\ parsers'[w].emitted = out
    BY <2>1, <2>7 DEF Parsers
  <2>9. Window(w) \in Windows
    <3>1. (~p.emitted) \in BOOLEAN
      OBVIOUS
    <3> QED BY <2>1, <3>1 DEF Window, Windows, Parsers, Works
  <2>10. /\ obj' \in [Addrs -> Objects] /\ \A b \in Addrs : Len(obj'[b].queue) <= QueueCap
         /\ \A b \in Addrs : obj'[b] = obj[b] \/ (b = a /\ Ends(w))
         /\ Ends(w) => a \in Addrs /\ obj'[a] = Enqueue(obj[a], Window(w))
    <3>1. CASE Ends(w)
      <4>1. a \in Addrs /\ obj' = [obj EXCEPT ![a] = Enqueue(obj[a], Window(w))]
        BY <2>1, <2>2, <2>3, <3>1 DEF Ends
      <4>2. obj[a] \in Objects /\ Len(obj[a].queue) <= QueueCap
        BY <4>1 DEF ObjectTypes
      <4>3. Enqueue(obj[a], Window(w)) \in Objects /\ Len(Enqueue(obj[a], Window(w)).queue) <= QueueCap
        BY <2>9, <4>2, EnqueueChanges
      <4> QED BY <3>1, <4>1, <4>3 DEF ObjectTypes
    <3>2. CASE ~Ends(w)
      BY <2>2, <2>3, <3>2 DEF ObjectTypes
    <3> QED BY <3>1, <3>2
  <2>11. Typed'
    BY <1>1, <1>2, <2>7, <2>10 DEF CallTypes, TableTypes, ObjectTypes, TickTypes
  <2> QED BY <1>1, <1>2, <1>4, <2>4, <2>7, <2>8, <2>10, <2>11 DEF Sampled
<1> QED BY <1>3, <1>4

LEMMA CollectDeviceControl ==
    ASSUME ControlIInv, NEW w \in Workers, CollectDevice(w)
    PROVE  ControlIInv'
<1>1. Sampled(w) /\ Typed' /\ Collect(w)
  BY CollectDeviceChanges
<1>2. CollectorIInv' /\ UNCHANGED call
  BY <1>1, CollectKeeps DEF ControlIInv, Collect
<1>3. UNCHANGED <<objects, ptrIndex, pc, op, held>>
  BY <1>1 DEF Sampled
<1>4. \A a \in Addrs : obj'[a].dev = obj[a].dev
  <2>1. \A a \in Addrs : obj[a] \in Objects /\ Len(obj[a].queue) <= QueueCap
    BY DEF ControlIInv, Typed, ObjectTypes
  <2>2. w \in Devices => Window(w) \in Windows
    <3>1. w \in Devices => parsers[w] \in Parsers /\ work[w] \in Works /\ (~parsers[w].emitted) \in BOOLEAN
      BY DEF ControlIInv, Typed, ObjectTypes, TickTypes
    <3> QED BY <3>1 DEF Window, Windows, Parsers, Works
  <2>3. \A a \in Addrs : obj'[a] = obj[a] \/ (w \in Devices /\ obj'[a] = Enqueue(obj[a], Window(w)))
    BY <1>1 DEF Sampled
  <2> QED BY <2>1, <2>2, <2>3, EnqueueChanges
<1>5. Placed'
  BY <1>2, <1>3 DEF ControlIInv, Placed, PlacedAt
<1>6. Tables'
  <2>1. \A d \in Devices : objects[d] # NoAddr => objects[d] \in Addrs
    BY DEF ControlIInv, Typed, TableTypes
  <2>2. \A u \in Callers : held[u] # NoAddr => held[u] \in Addrs
    BY DEF ControlIInv, Typed, CallTypes
  <2> QED BY <1>3, <1>4, <2>1, <2>2 DEF ControlIInv, Tables
<1> QED BY <1>1, <1>2, <1>5, <1>6 DEF ControlIInv

\* The steps of the collector's threads that touch no session.
TickSteps ==
  \/ CoordinatorTicks \/ LookUpNeeds \/ BroadcastTick \/ CollectorMoves
  \/ \E w \in Workers : WorkerTakesTick(w)

LEMMA TickStepsControl ==
    ASSUME ControlIInv, TickSteps
    PROVE  ControlIInv' /\ SessionsUnchanged /\ UNCHANGED <<call, running>>
<1> USE DEF ControlIInv
<1>1. SessionsUnchanged
  BY DEF TickSteps, CoordinatorTicks, LookUpNeeds, BroadcastTick, CollectorMoves, WorkerTakesTick
<1>2. CollectorIInv' /\ UNCHANGED <<call, running>>
  <2>1. CASE CoordinatorTicks
    BY <2>1, TickDueKeeps DEF CoordinatorTicks, TickDue
  <2>2. CASE LookUpNeeds
    BY <2>2, TickDueKeeps DEF LookUpNeeds, NeedsKnown
  <2>3. CASE BroadcastTick
    BY <2>3, BroadcastKeeps DEF BroadcastTick, Broadcast
  <2>4. CASE CollectorMoves
    <3>1. CASE LoopEnds \/ SayGoodbye
      BY <3>1, TickDueKeeps DEF LoopEnds, SayGoodbye
    <3>2. CASE AwaitDone
      BY <3>2, AwaitDoneKeeps DEF AwaitDone
    <3>3. CASE \E w \in Workers : Report(w)
      BY <3>3, ReportKeeps DEF Report
    <3> QED BY <2>4, <3>1, <3>2, <3>3 DEF CollectorMoves
  <2>5. CASE \E w \in Workers : WorkerTakesTick(w)
    BY <2>5, WorkerWaitsKeeps DEF WorkerTakesTick, WorkerWaits
  <2> QED BY <2>1, <2>2, <2>3, <2>4, <2>5 DEF TickSteps
<1>3. TickTypes'
  <2>1. CASE CoordinatorTicks \/ CollectorMoves
    <3>1. UNCHANGED <<needs, tickWork, work, clock>>
      BY <2>1 DEF CoordinatorTicks, CollectorMoves, TicksUnchanged
    <3> QED BY <3>1 DEF Typed, TickTypes
  <2>2. CASE LookUpNeeds
    <3>1. UNCHANGED <<tickWork, work, clock>> /\ needs' = CollectNeeds
      BY <2>2 DEF LookUpNeeds
    <3>2. CollectNeeds \subseteq Groups
      <4>1. \A a \in Addrs : obj[a].metrics \subseteq Groups
        BY DEF Typed, ObjectTypes, Objects
      <4> QED BY <4>1 DEF CollectNeeds
    <3> QED BY <3>1, <3>2 DEF Typed, TickTypes
  <2>3. CASE BroadcastTick
    <3>1. UNCHANGED <<needs, work>>
      BY <2>3 DEF BroadcastTick
    <3>2. PICK step \in ClockSteps : /\ clock + step > 0 /\ clock' = clock + step
                                     /\ tickWork' = [needs |-> needs, ts |-> clock + step]
      BY <2>3 DEF BroadcastTick
    <3>3. clock + step \in Nat \ {0}
      BY <3>2, SamplingAssumption DEF Typed, TickTypes
    <3> QED BY <3>1, <3>2, <3>3 DEF Typed, TickTypes, Works
  <2>4. ASSUME NEW w \in Workers, WorkerTakesTick(w)
        PROVE  TickTypes'
    <3>1. UNCHANGED <<needs, tickWork, clock>> /\ work' = IF worker'[w] = "collect" THEN [work EXCEPT ![w] = tickWork] ELSE work
      BY <2>4 DEF WorkerTakesTick
    <3> QED BY <3>1 DEF Typed, TickTypes
  <2> QED BY <2>1, <2>2, <2>3, <2>4 DEF TickSteps
<1>4. Typed'
  BY <1>1, <1>3 DEF SessionsUnchanged, TablesUnchanged, Typed, CallTypes, TableTypes, ObjectTypes
<1>5. Placed' /\ Tables'
  BY <1>1, <1>2 DEF SessionsUnchanged, TablesUnchanged, Placed, PlacedAt, Tables
<1> QED BY <1>1, <1>2, <1>4, <1>5

LEMMA ControlInitially == Init => ControlIInv
<1> SUFFICES ASSUME Init PROVE ControlIInv
  OBVIOUS
<1> USE DEF Init
<1>1. CollectorIInv
  BY CollectorInitially
<1>2. CallTypes
  <2>1. 0 \in 0 .. MaxSessions
    BY SamplingAssumption
  <2> QED BY <2>1 DEF CallTypes, Places, Ops
<1>3. TableTypes
  BY NoObjTyped, SamplingAssumption DEF TableTypes
<1>4. ObjectTypes
  <2>1. Len(NoObj.queue) <= QueueCap
    BY SamplingAssumption DEF NoObj
  <2> QED BY <2>1, NoObjTyped DEF ObjectTypes
<1>5. TickTypes
  BY NoObjTyped DEF TickTypes
<1>6. Placed
  BY DEF Placed, PlacedAt, CollectorInit, Joining
<1>7. Tables
  BY DEF Tables, NoEntry
<1> QED BY <1>1, <1>2, <1>3, <1>4, <1>5, <1>6, <1>7 DEF ControlIInv, Typed

\* The steps by what they are, as the invariants take them.
Steps ==
  \/ \E t \in Callers : Begins(t) \/ CallSteps(t)
  \/ \E t \in Callers, d \in Devices, a \in Addrs : Enable(t, d, a)
  \/ TickSteps \/ \E w \in Workers : CollectDevice(w)

LEMMA NextSteps == Next => Steps
<1> SUFFICES ASSUME Next PROVE Steps
  OBVIOUS
<1>1. CASE \E t \in Callers, n \in 1 .. MaxSessions :
             \/ SetConfig(t, n) \/ Start(t, n) \/ Stop(t, n) \/ Disable(t, n)
             \/ GetCounterDataSize(t, n) \/ DecodeData(t, n)
  BY <1>1, CallsBegin DEF Steps
<1>2. CASE \E t \in Callers, d \in Devices, a \in Addrs : Enable(t, d, a)
  BY <1>2 DEF Steps
<1>3. CASE \E t \in Callers : CallSteps(t)
  BY <1>3 DEF Steps
<1>4. CASE CoordinatorTicks \/ CollectorSteps
  BY <1>4 DEF Steps, CollectorSteps, TickSteps
<1> QED BY <1>1, <1>2, <1>3, <1>4 DEF Next

LEMMA ControlStutters == ControlIInv /\ UNCHANGED vars => ControlIInv'
<1> SUFFICES ASSUME ControlIInv, UNCHANGED vars PROVE ControlIInv'
  OBVIOUS
<1> USE DEF vars, samplingVars, collectorVars, ControlIInv
<1>1. CollectorIInv'
  BY DEF CollectorIInv, CollectorTypes, CollectorTypeOK, Life, Barrier, Reported
<1>2. Typed'
  BY DEF Typed, CallTypes, TableTypes, ObjectTypes, TickTypes
<1>3. Placed' /\ Tables'
  BY DEF Placed, PlacedAt, Tables
<1> QED BY <1>1, <1>2, <1>3

LEMMA ControlSteps == ControlIInv /\ Steps => ControlIInv'
<1> SUFFICES ASSUME ControlIInv, Steps PROVE ControlIInv'
  OBVIOUS
<1>1. ASSUME NEW t \in Callers, Begins(t) PROVE ControlIInv'
  BY <1>1, BeginsControl
<1>2. ASSUME NEW t \in Callers, CallSteps(t) PROVE ControlIInv'
  BY <1>2, CallStepsControl
<1>3. ASSUME NEW t \in Callers, NEW d \in Devices, NEW a \in Addrs, Enable(t, d, a) PROVE ControlIInv'
  BY <1>3, EnableControl
<1>4. ASSUME TickSteps PROVE ControlIInv'
  BY <1>4, TickStepsControl
<1>5. ASSUME NEW w \in Workers, CollectDevice(w) PROVE ControlIInv'
  BY <1>5, CollectDeviceControl
<1> QED BY <1>1, <1>2, <1>3, <1>4, <1>5 DEF Steps

\* The collector's invariant, with the types, the places of the calls and the
\* tables, is inductive.
THEOREM ControlInductive == Spec => []ControlIInv
<1>1. ControlIInv /\ [Next]_vars => ControlIInv'
  BY NextSteps, ControlSteps, ControlStutters
<1> QED BY <1>1, ControlInitially, PTL DEF Spec

\* Who sets the tick's number.
LEMMA TickGenChanges ==
    ASSUME ControlIInv, Steps
    PROVE  UNCHANGED tickGen \/ tickGen' = 0 \/ coordinator = "broadcast"
<1> USE DEF ThreadsUnchanged, collectorVars
<1>1. ASSUME NEW t \in Callers, Begins(t) PROVE UNCHANGED tickGen
  BY <1>1, BeginsChanges
<1>2. ASSUME NEW t \in Callers, CallSteps(t) PROVE UNCHANGED tickGen \/ tickGen' = 0
  <2>1. CASE CollectorReady(t)
    BY <2>1 DEF CollectorReady, StartAgain, StartThreads, ResetProgress
  <2>2. CASE CollectorFails(t)
    BY <2>2 DEF CollectorFails, StartFails
  <2>3. CASE CollectorStops(t)
    BY <2>3 DEF CollectorStops, StopNotNeeded, StopThreads, StopSteps, WakeAll, JoinCoordinator, JoinWorkers
  <2>4. CASE ObjectStart(t) \/ ObjectStop(t)
    BY <2>4 DEF ObjectStart, ObjectStop
  <2>5. CASE MakeParser(t) \/ FlushParser(t) \/ EraseParser(t)
    BY <2>5 DEF MakeParser, FlushParser, EraseParser
  <2>6. CASE \/ \E c \in Configs : Configure(t, c)
             \/ SetImageInfo(t) \/ DecodeChecked(t) \/ DrainSamples(t) \/ ConsumeOverflow(t)
             \/ Rollback(t) \/ CheckRunning(t) \/ StopCollectorsDone(t)
    <3>1. ObjectOnly(t)
      BY <2>6 DEF Configure, SetImageInfo, DecodeChecked, DrainSamples, ConsumeOverflow, Rollback, CheckRunning,
                  StopCollectorsDone
    <3> QED BY <3>1 DEF ObjectOnly
  <2> QED BY <1>2, <2>1, <2>2, <2>3, <2>4, <2>5, <2>6 DEF CallSteps
<1>3. ASSUME NEW t \in Callers, NEW d \in Devices, NEW a \in Addrs, Enable(t, d, a) PROVE UNCHANGED tickGen
  BY <1>3 DEF Enable
<1>4. ASSUME TickSteps PROVE UNCHANGED tickGen \/ coordinator = "broadcast"
  BY <1>4 DEF TickSteps, CoordinatorTicks, TickDue, LookUpNeeds, NeedsKnown, BroadcastTick, Broadcast,
              CollectorMoves, LoopEnds, AwaitDone, SayGoodbye, Report, WorkerTakesTick, WorkerWaits
<1>5. ASSUME NEW w \in Workers, CollectDevice(w) PROVE UNCHANGED tickGen
  BY <1>5 DEF CollectDevice, Collect
<1> QED BY <1>1, <1>2, <1>3, <1>4, <1>5 DEF Steps

\* A tick is broadcast only when every worker has reported the one before.
THEOREM TicksDontOverlapCorrect == Spec => TicksDontOverlap
<1> DEFINE Each == tickGen' = tickGen + 1 /\ running =>
                     \A w \in DOMAIN worker : worker[w] = "wait" /\ seen[w] = tickGen
<1>1. ASSUME ControlIInv, [Next]_vars PROVE [Each]_collectorVars
  <2> SUFFICES ASSUME ~UNCHANGED collectorVars, tickGen' = tickGen + 1, running PROVE Each
    OBVIOUS
  <2>1. tickGen \in Nat /\ DOMAIN worker = Workers
    BY <1>1 DEF ControlIInv, CollectorIInv, CollectorTypes, CollectorTypeOK
  <2>2. coordinator = "broadcast"
    <3>1. tickGen' # tickGen /\ tickGen' # 0
      BY <2>1
    <3> QED BY <3>1, <1>1, NextSteps, TickGenChanges DEF vars, collectorVars
  <2> QED BY <1>1, <2>1, <2>2 DEF ControlIInv, CollectorIInv, Barrier
<1>2. ControlIInv /\ [Next]_vars => [Each]_collectorVars
  BY <1>1
<1> QED BY <1>2, ControlInductive, PTL DEF Spec, TicksDontOverlap

(***************************************************************************)
(* The sessions and what serves them.                                      *)
(***************************************************************************)

SessionIInv == ControlIInv /\ Alone /\ Served /\ Feeds

\* Steps that leave calls, tables and the sessions' states and metrics alone.
StatesKept ==
  /\ UNCHANGED <<objects, pc, op, held, crossed, running>>
  /\ \A a \in Addrs : obj'[a].dev = obj[a].dev /\ obj'[a].state = obj[a].state /\ obj'[a].metrics = obj[a].metrics
  /\ \A d \in Devices : /\ parsers'[d].metrics = parsers[d].metrics
                        /\ parsers[d] = NoParser => parsers'[d] = NoParser

LEMMA CollectDeviceStates ==
    ASSUME ControlIInv, NEW w \in Workers, CollectDevice(w)
    PROVE  StatesKept
<1>1. Sampled(w) /\ UNCHANGED running
  BY CollectDeviceChanges DEF Collect
<1>2. \A a \in Addrs : obj[a] \in Objects /\ Len(obj[a].queue) <= QueueCap
  BY DEF ControlIInv, Typed, ObjectTypes
<1>3. w \in Devices => Window(w) \in Windows
  <2>1. w \in Devices => parsers[w] \in Parsers /\ work[w] \in Works /\ (~parsers[w].emitted) \in BOOLEAN
    BY DEF ControlIInv, Typed, ObjectTypes, TickTypes
  <2> QED BY <2>1 DEF Window, Windows, Parsers, Works
<1>4. \A a \in Addrs : obj'[a] = obj[a] \/ (w \in Devices /\ obj'[a] = Enqueue(obj[a], Window(w)))
  BY <1>1 DEF Sampled
<1>5. \A a \in Addrs : obj'[a].dev = obj[a].dev /\ obj'[a].state = obj[a].state /\ obj'[a].metrics = obj[a].metrics
  BY <1>2, <1>3, <1>4, EnqueueChanges
<1>6. ASSUME NEW d \in Devices
      PROVE  parsers'[d].metrics = parsers[d].metrics /\ (parsers[d] = NoParser => parsers'[d] = NoParser)
  <2>1. parsers[d] = NoParser => parsers[d].metrics = {}
    BY DEF NoParser
  <2> QED BY <1>1, <2>1 DEF Sampled
<1> QED BY <1>1, <1>5, <1>6 DEF StatesKept, Sampled

LEMMA StatesKeptKeeps ==
    ASSUME SessionIInv, StatesKept
    PROVE  Alone' /\ Served' /\ Feeds'
<1> USE DEF SessionIInv, StatesKept
<1>1. \A t \in Callers : op[t] \in Controls => held[t] \in Addrs
  BY DEF ControlIInv, Typed, CallTypes, Placed, PlacedAt, Controls
<1>2. \A d \in Devices : objects[d] # NoAddr => objects[d] \in Addrs
  BY DEF ControlIInv, Typed, TableTypes
<1>3. \A d, t : t \in Callers => (InControl(t, d)' <=> InControl(t, d))
  BY <1>1 DEF InControl
<1>4. Alone'
  BY <1>1, <1>3 DEF Alone, InControl
<1>5. Served'
  BY DEF Served, Running, Registered
<1>6. Feeds'
  <2> SUFFICES ASSUME NEW d \in Devices \ crossed PROVE FedAt(d)'
    BY DEF Feeds
  <2>1. (Between(d)' <=> Between(d)) /\ (Disabling(d)' <=> Disabling(d))
    BY <1>3 DEF Between, Disabling
  <2>2. RunningOn(d)' <=> RunningOn(d)
    BY <1>2 DEF RunningOn
  <2>3. Fed(d) => objects[d] \in Addrs
    BY <1>2 DEF Fed, RunningOn
  <2>4. FedAt(d)
    BY DEF Feeds
  <2>5. Fed(d)' <=> Fed(d)
    BY <2>1, <2>2 DEF Fed
  <2> HIDE DEF StatesKept
  <2>8. /\ UNCHANGED objects /\ parsers'[d].metrics = parsers[d].metrics
        /\ parsers[d] = NoParser => parsers'[d] = NoParser
    BY DEF StatesKept
  <2>9. Fed(d) => obj'[objects[d]].metrics = obj[objects[d]].metrics
    BY <2>3 DEF StatesKept
  <2>6. Fed(d) => parsers'[d].metrics = obj'[objects'[d]].metrics
    BY <2>4, <2>8, <2>9 DEF FedAt
  <2>7. ~Fed(d) /\ ~Disabling(d) => parsers'[d] = NoParser
    BY <2>4, <2>8 DEF FedAt
  <2> QED BY <2>1, <2>5, <2>6, <2>7 DEF FedAt
<1> QED BY <1>4, <1>5, <1>6

LEMMA TickStepsStates ==
    ASSUME ControlIInv, TickSteps
    PROVE  StatesKept
BY TickStepsControl DEF SessionsUnchanged, TablesUnchanged, StatesKept

----------------------------------------------------------------------------
(* A session is alone with its call *)

LEMMA TurnAlone ==
    ASSUME ControlIInv, Alone, NEW t \in Callers, Turn(t),
           op[t] \notin Controls => obj'[held[t]].state = obj[held[t]].state,
           pc'[t] \in {"collector", "parser"} /\ obj[held[t]].dev \notin crossed => obj'[held[t]].state = "Running"
    PROVE  Alone'
<1>1. /\ held[t] \in Addrs /\ op'[t] \in {op[t], "none"} /\ held'[t] = (IF pc'[t] = "out" THEN NoAddr ELSE held[t])
      /\ op'[t] = (IF pc'[t] = "out" THEN "none" ELSE op[t])
      /\ \A u \in Callers \ {t} : pc'[u] = pc[u] /\ op'[u] = op[u] /\ held'[u] = held[u]
      /\ \A a \in Addrs \ {held[t]} : obj'[a] = obj[a]
      /\ \A a \in Addrs : obj'[a].dev = obj[a].dev
      /\ UNCHANGED <<objects, crossed>>
  BY TurnChanges DEF ControlIInv
<1>2. \A u \in Callers : op[u] \in Controls => held[u] \in Addrs
  BY DEF ControlIInv, Typed, CallTypes, Placed, PlacedAt, Controls
<1>3. "none" \notin Controls
  BY DEF Controls
<1>4. ASSUME NEW u \in Callers, NEW d \in Devices, InControl(u, d)'
      PROVE  InControl(u, d) /\ held'[u] = held[u] /\ op'[u] = op[u] /\ (u = t => pc'[t] # "out")
  <2>1. CASE u = t
    BY <1>1, <1>3, <1>4, <2>1 DEF InControl
  <2>2. CASE u # t
    BY <1>1, <1>2, <1>4, <2>2 DEF InControl
  <2> QED BY <2>1, <2>2
<1> SUFFICES ASSUME NEW d \in Devices \ crossed, NEW u \in Callers, InControl(u, d)'
             PROVE  /\ \A v \in Callers : InControl(v, d)' => v = u
                    /\ objects[d] = IF op'[u] = "Disable" THEN NoAddr ELSE held'[u]
                    /\ pc'[u] \in {"collector", "parser"} => obj'[held'[u]].state = "Running"
  BY <1>1 DEF Alone
<1>5. InControl(u, d) /\ held'[u] = held[u] /\ op'[u] = op[u]
  BY <1>4
<1>6. /\ \A v \in Callers : InControl(v, d) => v = u
      /\ objects[d] = IF op[u] = "Disable" THEN NoAddr ELSE held[u]
      /\ pc[u] \in {"collector", "parser"} => obj[held[u]].state = "Running"
  BY <1>5 DEF Alone
<1>7. pc'[u] \in {"collector", "parser"} => obj'[held'[u]].state = "Running"
  <2>1. CASE u = t
    <3>1. obj[held[t]].dev = d
      BY <1>5, <2>1 DEF InControl
    <3> QED BY <1>5, <2>1, <3>1
  <2>2. CASE u # t /\ held[u] # held[t]
    <3>1. held[u] \in Addrs
      BY <1>2, <1>5 DEF InControl
    <3> QED BY <1>1, <1>5, <1>6, <2>2, <3>1
  <2>3. CASE u # t /\ held[u] = held[t]
    <3>1. ~InControl(t, d) /\ obj[held[t]].dev = d
      BY <1>5, <1>6, <2>3 DEF InControl
    <3>2. op[t] \notin Controls
      BY <3>1 DEF InControl
    <3> QED BY <1>1, <1>5, <1>6, <2>3, <3>2
  <2> QED BY <2>1, <2>2, <2>3
<1> QED BY <1>4, <1>5, <1>6, <1>7

LEMMA BeginsAlone ==
    ASSUME SessionIInv, NEW t \in Callers, Begins(t)
    PROVE  Alone'
<1> USE DEF SessionIInv
<1> DEFINE a == held'[t]
           e == obj[a].dev
<1>1. /\ op[t] = "none" /\ a \in Addrs /\ <<op'[t], pc'[t]>> \in Beginnings /\ e \in Devices /\ objects[e] = a
      /\ \A u \in Callers \ {t} : pc'[u] = pc[u] /\ op'[u] = op[u] /\ held'[u] = held[u]
      /\ UNCHANGED obj
      /\ crossed' = IF op'[t] \in Controls /\ Controlled(e) THEN crossed \cup {e} ELSE crossed
      /\ \A d \in Devices \ {e} : objects'[d] = objects[d]
      /\ objects'[e] = IF op'[t] = "Disable" THEN NoAddr ELSE a
  BY BeginsChanges
<1>2. pc'[t] \notin {"collector", "parser"}
  BY <1>1 DEF Beginnings
<1>3. \A u \in Callers \ {t} : \A d : InControl(u, d)' <=> InControl(u, d)
  BY <1>1 DEF InControl
<1>4. \A d : InControl(t, d)' <=> op'[t] \in Controls /\ d = e
  BY <1>1 DEF InControl
<1> HIDE DEF a, e
<1> SUFFICES ASSUME NEW d \in Devices, d \notin crossed', NEW u \in Callers, InControl(u, d)'
             PROVE  /\ \A v \in Callers : InControl(v, d)' => v = u
                    /\ objects'[d] = IF op'[u] = "Disable" THEN NoAddr ELSE held'[u]
                    /\ pc'[u] \in {"collector", "parser"} => obj'[held'[u]].state = "Running"
  BY DEF Alone
<1>5. d \notin crossed
  BY <1>1
<1>6. CASE op'[t] \in Controls /\ d = e
  <2>1. ~Controlled(e)
    BY <1>1, <1>6
  <2>2. \A v \in Callers : ~InControl(v, d)
    BY <1>6, <2>1 DEF Controlled, InControl
  <2>3. u = t /\ \A v \in Callers : InControl(v, d)' => v = t
    BY <1>3, <2>2
  <2> QED BY <1>1, <1>2, <1>6, <2>3 DEF a
<1>7. CASE ~(op'[t] \in Controls /\ d = e)
  <2>1. u # t /\ InControl(u, d)
    BY <1>3, <1>4, <1>7
  <2>2. \A v \in Callers : InControl(v, d)' => v # t /\ InControl(v, d)
    BY <1>3, <1>4, <1>7
  <2>3. objects'[d] = objects[d]
    BY <1>1, <1>7 DEF Controls
  <2> QED BY <1>1, <1>5, <2>1, <2>2, <2>3 DEF Alone
<1> QED BY <1>6, <1>7

LEMMA EnableAlone ==
    ASSUME SessionIInv, NEW t \in Callers, NEW e \in Devices, NEW a \in Addrs, Enable(t, e, a)
    PROVE  Alone'
<1> USE DEF SessionIInv
<1>1. NewSession(e, a)
  BY EnableChanges
<1>2. \A u \in Callers : op[u] \in Controls => held[u] \in Addrs \ {a}
  BY <1>1 DEF NewSession, ControlIInv, Typed, CallTypes, Placed, PlacedAt, Controls
<1>3. \A u \in Callers : \A d : InControl(u, d)' <=> InControl(u, d)
  BY <1>1, <1>2 DEF NewSession, InControl
<1> SUFFICES ASSUME NEW d \in Devices, d \notin crossed', NEW u \in Callers, InControl(u, d)'
             PROVE  /\ \A v \in Callers : InControl(v, d)' => v = u
                    /\ objects'[d] = IF op'[u] = "Disable" THEN NoAddr ELSE held'[u]
                    /\ pc'[u] \in {"collector", "parser"} => obj'[held'[u]].state = "Running"
  BY DEF Alone
<1>4. d \notin crossed
  BY <1>1 DEF NewSession
<1>5. InControl(u, d) /\ \A v \in Callers : InControl(v, d)' => InControl(v, d)
  BY <1>3
<1>6. d # e
  <2>1. Controlled(d)
    BY <1>5 DEF Controlled, InControl
  <2> QED BY <1>1, <2>1 DEF NewSession
<1>7. objects'[d] = objects[d] /\ op'[u] = op[u] /\ held'[u] = held[u] /\ pc'[u] = pc[u]
  BY <1>1, <1>6 DEF NewSession
<1>8. obj'[held[u]] = obj[held[u]]
  BY <1>1, <1>2, <1>5 DEF NewSession, InControl
<1> QED BY <1>4, <1>5, <1>7, <1>8 DEF Alone

----------------------------------------------------------------------------
(* A running session has the threads *)

LEMMA TurnServed ==
    ASSUME ControlIInv, Served, NEW t \in Callers, Turn(t),
           running /\ ~running' => ~HasDcmiDemand,
           pc[t] \in {"collector", "rollback"} =>
             running' \/ pc'[t] \in {"collector", "rollback"} \/ obj'[held[t]].state # "Running",
           obj'[held[t]].state = "Running" => obj[held[t]].state = "Running" \/ pc'[t] = "collector"
    PROVE  Served'
<1>1. /\ held[t] \in Addrs /\ held'[t] = (IF pc'[t] = "out" THEN NoAddr ELSE held[t])
      /\ \A u \in Callers \ {t} : pc'[u] = pc[u] /\ held'[u] = held[u]
      /\ \A a \in Addrs \ {held[t]} : obj'[a] = obj[a]
      /\ UNCHANGED objects
  BY TurnChanges DEF ControlIInv
<1> SUFFICES ASSUME NEW a \in Addrs, Running(a)', ~running'
             PROVE  \E u \in Callers : held'[u] = a /\ pc'[u] \in {"collector", "rollback"}
  BY DEF Served
<1>2. Registered(a) /\ obj'[a].state = "Running"
  BY <1>1 DEF Running, Registered
<1>3. CASE obj[a].state = "Running"
  <2>1. Running(a)
    BY <1>2, <1>3 DEF Running
  <2>2. HasDcmiDemand
    BY <1>2, <1>3 DEF HasDcmiDemand
  <2>3. ~running
    BY <2>2
  <2>4. PICK u \in Callers : held[u] = a /\ pc[u] \in {"collector", "rollback"}
    BY <2>1, <2>3 DEF Served
  <2>5. CASE u # t
    BY <1>1, <2>4, <2>5
  <2>6. CASE u = t
    BY <1>1, <1>2, <2>4, <2>6
  <2> QED BY <2>5, <2>6
<1>4. CASE obj[a].state # "Running"
  <2>1. a = held[t]
    BY <1>1, <1>2, <1>4
  <2>2. pc'[t] = "collector" /\ held'[t] = a
    BY <1>1, <1>2, <1>4, <2>1
  <2> QED BY <2>2
<1> QED BY <1>3, <1>4

LEMMA BeginsServed ==
    ASSUME SessionIInv, NEW t \in Callers, Begins(t)
    PROVE  Served'
<1> USE DEF SessionIInv
<1>1. /\ held[t] = NoAddr /\ \A u \in Callers \ {t} : pc'[u] = pc[u] /\ held'[u] = held[u]
      /\ UNCHANGED obj /\ UNCHANGED collectorVars
      /\ \A d \in Devices : objects'[d] \in {objects[d], NoAddr}
  BY BeginsChanges
<1>2. UNCHANGED running
  BY <1>1 DEF collectorVars
<1>3. \A a \in Addrs : a # NoAddr
  BY SamplingAssumption
<1>4. \A a \in Addrs : Running(a)' => Running(a)
  BY <1>1, <1>3 DEF Running, Registered
<1> QED BY <1>1, <1>2, <1>3, <1>4 DEF Served

LEMMA EnableServed ==
    ASSUME SessionIInv, NEW t \in Callers, NEW e \in Devices, NEW a \in Addrs, Enable(t, e, a)
    PROVE  Served'
<1> USE DEF SessionIInv
<1>1. NewSession(e, a)
  BY EnableChanges
<1>2. UNCHANGED <<running, held, pc>>
  BY <1>1 DEF NewSession, collectorVars
<1>3. \A b \in Addrs : Running(b)' => Running(b)
  <2> SUFFICES ASSUME NEW b \in Addrs, Running(b)' PROVE Running(b)
    OBVIOUS
  <2>1. b # a
    BY <1>1 DEF NewSession, Running
  <2>2. PICK d \in Devices : objects'[d] = b
    BY DEF Running, Registered
  <2>3. objects[d] = b
    BY <1>1, <2>1, <2>2 DEF NewSession
  <2> QED BY <1>1, <2>1, <2>3 DEF NewSession, Running, Registered
<1> QED BY <1>2, <1>3 DEF Served

----------------------------------------------------------------------------
(* A running session has its parser *)

AtBetween == {"collector", "parser", "rollback", "stop"}

\* What the alone call makes of its own device.
OwnKept(t) ==
  LET d == obj[held[t]].dev
      fed == obj[held[t]].state = "Running" /\ pc[t] \notin AtBetween
      fed_ == obj'[held[t]].state = "Running" /\ pc'[t] \notin AtBetween IN
  (IF fed THEN parsers[d].metrics = obj[held[t]].metrics ELSE parsers[d] = NoParser) =>
    IF fed_ THEN parsers'[d].metrics = obj'[held[t]].metrics ELSE parsers'[d] = NoParser

LEMMA TurnFeeds ==
    ASSUME ControlIInv, Alone, Feeds, NEW t \in Callers, Turn(t),
           op[t] \notin Controls => /\ obj'[held[t]].state = obj[held[t]].state
                                    /\ obj'[held[t]].metrics = obj[held[t]].metrics /\ UNCHANGED parsers,
           op[t] = "Disable" /\ pc'[t] = "out" => parsers'[obj[held[t]].dev] = NoParser,
           op[t] \in Controls \ {"Disable"} /\ obj[held[t]].dev \notin crossed => OwnKept(t)
    PROVE  Feeds'
<1> DEFINE e == obj[held[t]].dev
<1>1. /\ held[t] \in Addrs /\ e \in Devices
      /\ op'[t] = (IF pc'[t] = "out" THEN "none" ELSE op[t])
      /\ held'[t] = (IF pc'[t] = "out" THEN NoAddr ELSE held[t])
      /\ \A u \in Callers \ {t} : pc'[u] = pc[u] /\ op'[u] = op[u] /\ held'[u] = held[u]
      /\ \A a \in Addrs \ {held[t]} : obj'[a] = obj[a]
      /\ \A a \in Addrs : obj'[a].dev = obj[a].dev
      /\ \A d \in Devices \ {e} : parsers'[d] = parsers[d]
      /\ UNCHANGED <<objects, crossed>>
  BY TurnChanges DEF ControlIInv
<1>2. \A u \in Callers : op[u] \in Controls => held[u] \in Addrs
  BY DEF ControlIInv, Typed, CallTypes, Placed, PlacedAt, Controls
<1>3. \A u \in Callers \ {t} : \A d : InControl(u, d)' <=> InControl(u, d)
  BY <1>1, <1>2 DEF InControl
<1>4. \A d : InControl(t, d)' <=> InControl(t, d) /\ pc'[t] # "out"
  BY <1>1 DEF InControl, Controls
<1>5. \A d : InControl(t, d) <=> op[t] \in Controls /\ d = e
  BY DEF InControl
<1>6. \A d \in Devices : objects[d] # NoAddr => objects[d] \in Addrs /\ obj[objects[d]].dev = d
  <2>1. \A d \in Devices : objects[d] # NoAddr => objects[d] \in Addrs
    BY DEF ControlIInv, Typed, TableTypes
  <2>2. \A d \in Devices : objects[d] # NoAddr => obj[objects[d]].dev = d
    BY DEF ControlIInv, Tables
  <2> QED BY <2>1, <2>2
<1> HIDE DEF e
<1> SUFFICES ASSUME NEW d \in Devices \ crossed PROVE FedAt(d)'
  BY <1>1 DEF Feeds
<1>7. FedAt(d)
  BY DEF Feeds
<1>8. CASE d # e \/ op[t] \notin Controls
  <2>1. ~InControl(t, d) /\ ~InControl(t, d)'
    BY <1>4, <1>5, <1>8
  <2>2. (Between(d)' <=> Between(d)) /\ (Disabling(d)' <=> Disabling(d))
    BY <1>1, <1>3, <2>1 DEF Between, Disabling
  <2>3. parsers'[d] = parsers[d]
    BY <1>1, <1>8
  <2>4. objects[d] # NoAddr => /\ obj'[objects[d]].state = obj[objects[d]].state
                               /\ obj'[objects[d]].metrics = obj[objects[d]].metrics
    BY <1>1, <1>6, <1>8 DEF e
  <2>5. Fed(d)' <=> Fed(d)
    BY <1>1, <2>2, <2>4 DEF Fed, RunningOn
  <2>6. Fed(d) => objects[d] # NoAddr
    BY DEF Fed, RunningOn
  <2>7. Fed(d) => parsers'[d].metrics = obj'[objects'[d]].metrics
    BY <1>1, <1>7, <2>3, <2>4, <2>6 DEF FedAt
  <2>8. ~Fed(d) /\ ~Disabling(d) => parsers'[d] = NoParser
    BY <1>7, <2>3 DEF FedAt
  <2> QED BY <2>2, <2>5, <2>7, <2>8 DEF FedAt
<1>9. CASE d = e /\ op[t] \in Controls
  <2>1. InControl(t, d) /\ \A u \in Callers : InControl(u, d) => u = t
    BY <1>5, <1>9 DEF Alone
  <2>2. objects[d] = IF op[t] = "Disable" THEN NoAddr ELSE held[t]
    BY <2>1 DEF Alone
  <2>3. \A u \in Callers \ {t} : ~InControl(u, d)'
    BY <1>3, <2>1
  <2>4. CASE op[t] = "Disable"
    <3>1. ~Fed(d)'
      BY <1>1, <2>2, <2>4 DEF Fed, RunningOn
    <3>2. CASE pc'[t] = "out"
      BY <1>9, <2>4, <3>1, <3>2 DEF FedAt, e
    <3>3. CASE pc'[t] # "out"
      <4>1. Disabling(d)'
        BY <1>1, <1>4, <2>1, <2>4, <3>3 DEF Disabling
      <4> QED BY <3>1, <4>1 DEF FedAt
    <3> QED BY <3>2, <3>3
  <2>5. CASE op[t] # "Disable"
    <3>1. (Between(d) <=> pc[t] \in AtBetween) /\ ~Disabling(d)
      BY <2>1, <2>5 DEF Between, Disabling, AtBetween
    <3>2. (Between(d)' <=> pc'[t] \in AtBetween) /\ ~Disabling(d)'
      BY <1>1, <1>4, <2>1, <2>3, <2>5 DEF Between, Disabling, AtBetween
    <3>3. held[t] # NoAddr /\ objects[d] = held[t] /\ objects'[d] = held[t]
      BY <1>1, <2>2, <2>5, SamplingAssumption
    <3>4. Fed(d) <=> obj[held[t]].state = "Running" /\ pc[t] \notin AtBetween
      BY <3>1, <3>3 DEF Fed, RunningOn
    <3>5. Fed(d)' <=> obj'[held[t]].state = "Running" /\ pc'[t] \notin AtBetween
      BY <3>2, <3>3 DEF Fed, RunningOn
    <3>6. OwnKept(t)
      BY <1>9, <2>5 DEF e
    <3>7. IF Fed(d) THEN parsers[d].metrics = obj[held[t]].metrics ELSE parsers[d] = NoParser
      BY <1>7, <3>1, <3>3 DEF FedAt
    <3>8. IF Fed(d)' THEN parsers'[d].metrics = obj'[held[t]].metrics ELSE parsers'[d] = NoParser
      BY <1>9, <3>4, <3>5, <3>6, <3>7 DEF OwnKept, e
    <3> QED BY <3>2, <3>3, <3>8 DEF FedAt
  <2> QED BY <2>4, <2>5
<1> QED BY <1>8, <1>9

LEMMA BeginsFeeds ==
    ASSUME SessionIInv, NEW t \in Callers, Begins(t)
    PROVE  Feeds'
<1> USE DEF SessionIInv
<1> DEFINE a == held'[t]
           e == obj[a].dev
<1>1. /\ op[t] = "none" /\ a \in Addrs /\ <<op'[t], pc'[t]>> \in Beginnings /\ e \in Devices /\ objects[e] = a
      /\ \A u \in Callers \ {t} : pc'[u] = pc[u] /\ op'[u] = op[u] /\ held'[u] = held[u]
      /\ UNCHANGED <<obj, parsers>>
      /\ crossed' = IF op'[t] \in Controls /\ Controlled(e) THEN crossed \cup {e} ELSE crossed
      /\ \A d \in Devices \ {e} : objects'[d] = objects[d]
      /\ objects'[e] = IF op'[t] = "Disable" THEN NoAddr ELSE a
  BY BeginsChanges
<1>2. pc'[t] \notin AtBetween /\ op[t] \notin Controls
  BY <1>1 DEF Beginnings, AtBetween, Controls
<1>3. \A u \in Callers \ {t} : \A d : InControl(u, d)' <=> InControl(u, d)
  BY <1>1 DEF InControl
<1>4. \A d : ~InControl(t, d) /\ (InControl(t, d)' <=> op'[t] \in Controls /\ d = e)
  BY <1>1, <1>2 DEF InControl
<1> HIDE DEF a, e
<1> SUFFICES ASSUME NEW d \in Devices, d \notin crossed' PROVE FedAt(d)'
  BY DEF Feeds
<1>5. d \notin crossed /\ FedAt(d)
  BY <1>1 DEF Feeds
<1>6. Between(d)' <=> Between(d)
  BY <1>1, <1>2, <1>3, <1>4 DEF Between, AtBetween
<1>7. CASE op'[t] = "Disable" /\ d = e
  <2>1. ~Fed(d)'
    BY <1>1, <1>7 DEF Fed, RunningOn
  <2>2. Disabling(d)'
    BY <1>4, <1>7 DEF Disabling, Controls
  <2> QED BY <2>1, <2>2 DEF FedAt
<1>8. CASE ~(op'[t] = "Disable" /\ d = e)
  <2>1. objects'[d] = objects[d]
    BY <1>1, <1>8
  <2>2. Disabling(d)' <=> Disabling(d)
    BY <1>1, <1>3, <1>4, <1>8 DEF Disabling
  <2>3. Fed(d)' <=> Fed(d)
    BY <1>1, <1>6, <2>1 DEF Fed, RunningOn
  <2> QED BY <1>1, <1>5, <2>1, <2>2, <2>3 DEF FedAt
<1> QED BY <1>7, <1>8

LEMMA EnableFeeds ==
    ASSUME SessionIInv, NEW t \in Callers, NEW e \in Devices, NEW a \in Addrs, Enable(t, e, a)
    PROVE  Feeds'
<1> USE DEF SessionIInv
<1>1. NewSession(e, a)
  BY EnableChanges
<1>2. \A u \in Callers : op[u] \in Controls => held[u] \in Addrs \ {a}
  BY <1>1 DEF NewSession, ControlIInv, Typed, CallTypes, Placed, PlacedAt, Controls
<1>3. \A u \in Callers : \A d : InControl(u, d)' <=> InControl(u, d)
  BY <1>1, <1>2 DEF NewSession, InControl
<1> SUFFICES ASSUME NEW d \in Devices, d \notin crossed' PROVE FedAt(d)'
  BY DEF Feeds
<1>4. d \notin crossed /\ FedAt(d)
  BY <1>1 DEF NewSession, Feeds
<1>5. (Between(d)' <=> Between(d)) /\ (Disabling(d)' <=> Disabling(d)) /\ UNCHANGED parsers
  BY <1>1, <1>3 DEF NewSession, Between, Disabling
<1>6. CASE d = e
  <2>1. ~Fed(d)' /\ ~Fed(d)
    BY <1>1, <1>6 DEF NewSession, Fed, RunningOn
  <2>2. ~Disabling(d)
    <3>1. ~Controlled(d)
      BY <1>1, <1>6 DEF NewSession
    <3> QED BY <3>1 DEF Controlled, Disabling, InControl
  <2> QED BY <1>4, <1>5, <2>1, <2>2 DEF FedAt
<1>7. CASE d # e
  <2>1. objects'[d] = objects[d] /\ objects[d] # a
    BY <1>1, <1>7 DEF NewSession
  <2>2. objects[d] # NoAddr => obj'[objects[d]] = obj[objects[d]]
    BY <1>1, <2>1 DEF NewSession, ControlIInv, Typed, TableTypes
  <2>3. Fed(d)' <=> Fed(d)
    BY <1>5, <2>1, <2>2 DEF Fed, RunningOn
  <2>4. Fed(d) => objects[d] # NoAddr
    BY DEF Fed, RunningOn
  <2> QED BY <1>4, <1>5, <2>1, <2>2, <2>3, <2>4 DEF FedAt
<1> QED BY <1>6, <1>7

----------------------------------------------------------------------------
(* Every step of a call keeps the sessions served and fed *)

\* What TurnAlone, TurnServed and TurnFeeds ask of a turn.
Sound(t) ==
  LET o == obj[held[t]]
      o_ == obj'[held[t]] IN
  /\ op[t] \notin Controls => o_.state = o.state /\ o_.metrics = o.metrics /\ UNCHANGED parsers
  /\ pc'[t] \in {"collector", "parser"} /\ o.dev \notin crossed => o_.state = "Running"
  /\ running /\ ~running' => ~HasDcmiDemand
  /\ pc[t] \in {"collector", "rollback"} =>
       running' \/ pc'[t] \in {"collector", "rollback"} \/ o_.state # "Running"
  /\ o_.state = "Running" => o.state = "Running" \/ pc'[t] = "collector"
  /\ op[t] = "Disable" /\ pc'[t] = "out" => parsers'[o.dev] = NoParser
  /\ op[t] \in Controls \ {"Disable"} /\ o.dev \notin crossed => OwnKept(t)

LEMMA SoundKeeps ==
    ASSUME SessionIInv, NEW t \in Callers, Turn(t), Sound(t)
    PROVE  Alone' /\ Served' /\ Feeds'
<1>1. Alone'
  BY TurnAlone DEF SessionIInv, Sound
<1>2. Served'
  BY TurnServed DEF SessionIInv, Sound
<1>3. Feeds'
  BY TurnFeeds DEF SessionIInv, Sound
<1> QED BY <1>1, <1>2, <1>3

LEMMA ConfigureSound ==
    ASSUME SessionIInv, NEW t \in Callers, NEW c \in Configs, Configure(t, c)
    PROVE  Sound(t)
<1>1. pc[t] = "set" /\ op[t] = "SetConfig"
  BY DEF Configure
<1>2. Typed /\ Placed /\ Tables
  BY DEF SessionIInv, ControlIInv
<1>3. pc'[t] = "out" /\ UNCHANGED <<parsers, collectorVars>>
  BY <1>2, ConfigureTurn
<1>4. obj'[held[t]] = obj[held[t]] \/ (obj[held[t]].state # "Running" /\ obj'[held[t]].state # "Running")
  <2>1. obj[held[t]] \in Objects
    BY <1>1, <1>2, Kept
  <2> DEFINE o == obj[held[t]]
             new == [o EXCEPT !.metrics = c.metrics, !.keep = c.keep, !.state = "Configured",
                              !.queue = IF o.state = "Stopped" THEN <<>> ELSE o.queue]
  <2>2. obj'[held[t]] = IF o.state = "Running" THEN o ELSE new
    BY <1>2, ConfigureTurn
  <2>3. new.state = "Configured"
    BY <2>1 DEF Objects
  <2> QED BY <2>2, <2>3
<1>5. OwnKept(t)
  BY <1>1, <1>3, <1>4 DEF OwnKept, AtBetween
<1>6. UNCHANGED running /\ op[t] \in Controls
  BY <1>1, <1>3 DEF collectorVars, Controls
<1> QED BY <1>1, <1>3, <1>4, <1>5, <1>6 DEF Sound

\* The calls that read a session's samples.
LEMMA ReadSound ==
    ASSUME SessionIInv, NEW t \in Callers,
           SetImageInfo(t) \/ DecodeChecked(t) \/ DrainSamples(t) \/ ConsumeOverflow(t)
    PROVE  Sound(t)
<1>1. Typed /\ Placed /\ Tables
  BY DEF SessionIInv, ControlIInv
<1>2. /\ pc[t] \in {"set", "check", "drain", "overflow"} /\ op[t] \in {"GetCounterDataSize", "DecodeData"}
      /\ obj[held[t]] \in Objects
  BY <1>1, Kept DEF Placed, PlacedAt, SetImageInfo, DecodeChecked, DrainSamples, ConsumeOverflow
<1>3. /\ pc'[t] \in {"out", "drain", "overflow"} /\ UNCHANGED <<parsers, collectorVars>>
      /\ obj'[held[t]].state = obj[held[t]].state /\ obj'[held[t]].metrics = obj[held[t]].metrics
  <2>1. CASE SetImageInfo(t)
    BY <1>1, <1>2, <2>1, SetImageInfoTurn DEF Objects
  <2>2. CASE DecodeChecked(t)
    BY <1>1, <2>2, DecodeCheckedTurn
  <2>3. CASE DrainSamples(t)
    BY <1>1, <1>2, <2>3, DrainSamplesTurn DEF Objects
  <2>4. CASE ConsumeOverflow(t)
    <3> DEFINE o == obj[held[t]]
               next == [o EXCEPT !.overflowed = FALSE, !.told = o.told \/ o.overflowed]
    <3>1. pc'[t] = "out" /\ UNCHANGED <<parsers, collectorVars>> /\ obj'[held[t]] = next
      BY <1>1, <2>4, ConsumeOverflowTurn
    <3>2. next.state = o.state /\ next.metrics = o.metrics
      BY <1>2 DEF Objects
    <3> QED BY <3>1, <3>2
  <2> QED BY <2>1, <2>2, <2>3, <2>4
<1> QED BY <1>2, <1>3 DEF Sound, Controls, collectorVars

LEMMA StartSound ==
    ASSUME SessionIInv, NEW t \in Callers,
           ObjectStart(t) \/ CollectorReady(t) \/ CollectorFails(t) \/ Rollback(t) \/ MakeParser(t)
    PROVE  Sound(t)
<1> USE DEF SessionIInv, ControlIInv
<1>1. /\ pc[t] \in {"run", "collector", "rollback", "parser"} /\ op[t] = "Start"
      /\ obj[held[t]] \in Objects /\ obj[held[t]].dev \in Devices
  BY Kept DEF Placed, PlacedAt, ObjectStart, CollectorReady, CollectorFails, Rollback, MakeParser
<1>2. pc[t] \in {"collector", "parser"} /\ obj[held[t]].dev \notin crossed => obj[held[t]].state = "Running"
  BY <1>1 DEF Alone, InControl, Controls
<1>3. CASE ObjectStart(t)
  <2>1. /\ pc[t] = "run" /\ UNCHANGED <<parsers, running>>
        /\ \/ /\ pc'[t] = "collector" /\ obj[held[t]].state # "Running" /\ obj'[held[t]].state = "Running"
           \/ pc'[t] = "out" /\ UNCHANGED obj
    BY <1>1, <1>3, ObjectStartTurn DEF Objects
  <2>2. OwnKept(t)
    BY <2>1 DEF OwnKept, AtBetween
  <2> QED BY <1>1, <2>1, <2>2 DEF Sound, Controls
<1>4. CASE CollectorReady(t) \/ CollectorFails(t)
  <2>1. pc[t] = "collector"
    BY <1>4 DEF CollectorReady, CollectorFails
  <2>2. /\ UNCHANGED <<obj, parsers>>
        /\ \/ pc'[t] = "parser" /\ (StartAgain(t) \/ StartThreads(t))
           \/ pc'[t] = "rollback" /\ StartFails(t)
    BY <1>4, <2>1, CollectorTurns
  <2>4. (pc'[t] = "parser" /\ running') \/ (pc'[t] = "rollback" /\ UNCHANGED running)
    BY <2>2 DEF StartAgain, StartThreads, StartFails
  <2>3. OwnKept(t)
    BY <2>1, <2>2 DEF OwnKept, AtBetween
  <2> QED BY <1>1, <1>2, <2>1, <2>2, <2>3, <2>4 DEF Sound, Controls
<1>5. CASE Rollback(t)
  <2>1. pc[t] = "rollback" /\ pc'[t] = "out" /\ UNCHANGED <<parsers, collectorVars>> /\ obj'[held[t]].state # "Running"
    BY <1>1, <1>5, RollbackTurn DEF Objects
  <2>2. OwnKept(t)
    BY <2>1 DEF OwnKept, AtBetween
  <2> QED BY <1>1, <2>1, <2>2 DEF Sound, Controls, collectorVars
<1>6. CASE MakeParser(t)
  <2>1. pc[t] = "parser"
    BY <1>6 DEF MakeParser
  <2>2. /\ pc'[t] = "out" /\ UNCHANGED <<obj, collectorVars>>
        /\ parsers'[obj[held[t]].dev] = [NoParser EXCEPT !.metrics = obj[held[t]].metrics]
    BY <1>6, <2>1, ParserTurns
  <2>3. parsers'[obj[held[t]].dev].metrics = obj[held[t]].metrics
    BY <2>2 DEF NoParser
  <2>4. obj[held[t]].dev \notin crossed => OwnKept(t)
    BY <1>2, <2>1, <2>2, <2>3 DEF OwnKept, AtBetween
  <2> QED BY <1>1, <2>1, <2>2, <2>4 DEF Sound, Controls, collectorVars
<1> QED BY <1>3, <1>4, <1>5, <1>6

LEMMA StopSound ==
    ASSUME SessionIInv, NEW t \in Callers,
           \/ CheckRunning(t) \/ FlushParser(t) \/ ObjectStop(t) \/ CollectorStops(t)
           \/ StopCollectorsDone(t) \/ EraseParser(t)
    PROVE  Sound(t)
<1> USE DEF SessionIInv, ControlIInv
<1>1. /\ pc[t] \in {"check", "flush", "stop", "leave", "erase"} /\ op[t] \in {"Stop", "Disable"}
      /\ pc[t] = "erase" => op[t] = "Disable"
      /\ obj[held[t]] \in Objects /\ obj[held[t]].dev \in Devices
  BY Kept DEF Placed, PlacedAt, CheckRunning, FlushParser, ObjectStop, CollectorStops, StopCollectorsDone, EraseParser
<1>2. CASE CheckRunning(t) \/ StopCollectorsDone(t)
  <2>1. UNCHANGED <<obj, parsers, collectorVars>> /\ pc[t] \in {"check", "leave"}
    BY <1>2, CheckRunningTurn, StopCollectorsDoneTurn DEF CheckRunning, StopCollectorsDone
  <2>2. pc'[t] \in {"flush", "erase", "out"} /\ (pc'[t] = "out" => op[t] = "Stop")
    BY <1>1, <1>2, CheckRunningTurn, StopCollectorsDoneTurn
  <2>3. OwnKept(t)
    BY <2>1, <2>2 DEF OwnKept, AtBetween
  <2> QED BY <1>1, <2>1, <2>2, <2>3 DEF Sound, Controls, collectorVars
<1>3. CASE FlushParser(t) \/ EraseParser(t)
  <2>1. pc[t] \in {"flush", "erase"} /\ UNCHANGED <<obj, collectorVars>> /\ parsers'[obj[held[t]].dev] = NoParser
    BY <1>3, ParserTurns DEF FlushParser, EraseParser
  <2>2. (pc[t] = "flush" /\ pc'[t] = "stop") \/ (pc[t] = "erase" /\ pc'[t] = "out")
    BY <1>3, <2>1, ParserTurns
  <2>3. op[t] # "Disable" => OwnKept(t)
    BY <1>1, <2>1, <2>2 DEF OwnKept, AtBetween
  <2> QED BY <1>1, <2>1, <2>2, <2>3 DEF Sound, Controls, collectorVars
<1>4. CASE ObjectStop(t)
  <2>1. pc[t] = "stop" /\ pc'[t] = "leave" /\ UNCHANGED <<parsers, running>> /\ obj'[held[t]].state # "Running"
    BY <1>1, <1>4, ObjectStopTurn DEF Objects
  <2>2. OwnKept(t)
    BY <2>1 DEF OwnKept, AtBetween
  <2> QED BY <1>1, <2>1, <2>2 DEF Sound, Controls
<1>5. CASE CollectorStops(t)
  <2>1. pc[t] = "leave"
    BY <1>5 DEF CollectorStops
  <2>2. /\ pc'[t] = "leave" /\ UNCHANGED <<obj, parsers>>
        /\ StopNotNeeded(t, HasDcmiDemand) \/ StopThreads(t, HasDcmiDemand) \/ StopSteps(t)
    BY <1>5, <2>1, CollectorTurns
  <2>3. running /\ ~running' => ~HasDcmiDemand
    BY <2>2 DEF StopNotNeeded, StopThreads, StopSteps, WakeAll, JoinCoordinator, JoinWorkers
  <2>4. OwnKept(t)
    BY <2>1, <2>2 DEF OwnKept, AtBetween
  <2> QED BY <1>1, <2>1, <2>2, <2>3, <2>4 DEF Sound, Controls
<1> QED BY <1>2, <1>3, <1>4, <1>5

LEMMA CallStepsSession ==
    ASSUME SessionIInv, NEW t \in Callers, CallSteps(t)
    PROVE  SessionIInv' /\ Turn(t)
<1>1. ControlIInv' /\ Turn(t)
  BY CallStepsControl DEF SessionIInv
<1>2. Sound(t)
  BY ConfigureSound, ReadSound, StartSound, StopSound DEF CallSteps
<1>3. Alone' /\ Served' /\ Feeds'
  BY <1>1, <1>2, SoundKeeps
<1> QED BY <1>1, <1>3 DEF SessionIInv

LEMMA SessionInitially == Init => SessionIInv
<1> SUFFICES ASSUME Init PROVE SessionIInv
  OBVIOUS
<1>1. ControlIInv
  BY ControlInitially
<1>2. \A d : \A t \in Callers : ~InControl(t, d)
  BY DEF Init, InControl, Controls
<1>3. Alone
  BY <1>2 DEF Alone
<1>4. Served
  BY SamplingAssumption DEF Init, Served, Running, Registered
<1>5. Feeds
  BY DEF Init, Feeds, FedAt, Fed, RunningOn
<1> QED BY <1>1, <1>3, <1>4, <1>5 DEF SessionIInv

LEMMA SessionStutters == SessionIInv /\ UNCHANGED vars => SessionIInv'
<1> SUFFICES ASSUME SessionIInv, UNCHANGED vars PROVE SessionIInv'
  OBVIOUS
<1>1. ControlIInv'
  BY ControlStutters DEF SessionIInv
<1>2. StatesKept
  BY DEF StatesKept, vars, samplingVars, collectorVars
<1> QED BY <1>1, <1>2, StatesKeptKeeps DEF SessionIInv

LEMMA SessionSteps == SessionIInv /\ Steps => SessionIInv'
<1> SUFFICES ASSUME SessionIInv, Steps PROVE SessionIInv'
  OBVIOUS
<1>1. ControlIInv /\ ControlIInv'
  BY ControlSteps DEF SessionIInv
<1>2. ASSUME NEW t \in Callers, Begins(t) PROVE SessionIInv'
  BY <1>1, <1>2, BeginsAlone, BeginsServed, BeginsFeeds DEF SessionIInv
<1>3. ASSUME NEW t \in Callers, CallSteps(t) PROVE SessionIInv'
  BY <1>3, CallStepsSession
<1>4. ASSUME NEW t \in Callers, NEW d \in Devices, NEW a \in Addrs, Enable(t, d, a) PROVE SessionIInv'
  BY <1>1, <1>4, EnableAlone, EnableServed, EnableFeeds DEF SessionIInv
<1>5. ASSUME TickSteps PROVE SessionIInv'
  BY <1>1, <1>5, TickStepsStates, StatesKeptKeeps DEF SessionIInv
<1>6. ASSUME NEW w \in Workers, CollectDevice(w) PROVE SessionIInv'
  BY <1>1, <1>6, CollectDeviceStates, StatesKeptKeeps DEF SessionIInv
<1> QED BY <1>2, <1>3, <1>4, <1>5, <1>6 DEF Steps

\* With who controls a session, what it waits for and whose parser its device
\* has, the invariant is inductive.
THEOREM SamplingInductive == Spec => []SessionIInv
<1>1. SessionIInv /\ [Next]_vars => SessionIInv'
  BY NextSteps, SessionSteps, SessionStutters
<1> QED BY <1>1, SessionInitially, PTL DEF Spec

\* A running session has its collector once its calls have returned, and its
\* parser where the calls on its device have not overlapped.
THEOREM SessionsCorrect == Spec => []SessionsInv
<1>1. SessionIInv => TypeOK
  BY DEF SessionIInv, ControlIInv, CollectorIInv, CollectorTypes, Typed, CallTypes, TableTypes, ObjectTypes, Objects,
         States, TickTypes, TypeOK
<1>2. SessionIInv => CollectorServes
  <2> SUFFICES ASSUME SessionIInv, NEW d \in Devices, RunningOn(d), ~Calling(d) PROVE running
    BY DEF CollectorServes
  <2> DEFINE a == objects[d]
  <2>1. a \in Addrs /\ a # NoAddr /\ obj[a].dev = d /\ Running(a)
    <3>1. a # NoAddr /\ obj[a].state = "Running"
      BY DEF RunningOn
    <3>2. a \in Addrs
      BY <3>1 DEF SessionIInv, ControlIInv, Typed, TableTypes
    <3>3. obj[a].dev = d
      BY <3>1 DEF SessionIInv, ControlIInv, Tables
    <3> QED BY <3>1, <3>2, <3>3 DEF Running, Registered
  <2>2. \A t \in Callers : held[t] # a
    BY <2>1 DEF Calling, SessionIInv, ControlIInv, Typed, CallTypes
  <2> QED BY <2>1, <2>2 DEF SessionIInv, Served
<1>3. SessionIInv => SessionHasParser
  <2> SUFFICES ASSUME SessionIInv, NEW d \in Devices, Settled(d), RunningOn(d)
               PROVE  parsers[d].metrics = obj[objects[d]].metrics
    BY DEF SessionHasParser
  <2>1. \A t \in Callers : ~InControl(t, d)
    BY DEF Settled, Calling, InControl, Controls, SessionIInv, ControlIInv, Typed, CallTypes, Placed, PlacedAt
  <2>2. Fed(d) /\ d \notin crossed
    BY <2>1 DEF Fed, Between, Settled
  <2> QED BY <2>2 DEF SessionIInv, Feeds, FedAt
<1> QED BY <1>1, <1>2, <1>3, SamplingInductive, PTL DEF SessionsInv

(***************************************************************************)
(* The samples of a session.                                               *)
(***************************************************************************)

\* The client has been or will be told that a queue has dropped windows.
Told(o) == o.keep = "oldest" /\ (o.overflowed \/ o.told)

\* A window may follow what ends at e in the queue of o.
Follows(o, s, e) == s.first \/ s.start = e \/ (s.start > e /\ Told(o))

Own(o) == \A i \in 1 .. Len(o.queue) :
            o.queue[i].metrics = o.metrics /\ o.queue[i].metrics \subseteq o.queue[i].needs
Linked(o) == \A i \in 1 .. Len(o.queue) - 1 : Follows(o, o.queue[i + 1], o.queue[i].end)

\* The last window of the queue ends where the next one will start, or before
\* and the client is told.
Reaches(o, x) ==
  o.queue # <<>> =>
    LET e == o.queue[Len(o.queue)].end IN e = x \/ (x > e /\ Told(o))
Chain(o, p) == Own(o) /\ Linked(o) /\ (p.metrics # {} /\ p.emitted => Reaches(o, p.prev))

\* The tick under way asks for what the parser of d measures, wherever its
\* needs are on their way to the worker of d.
AskedAt(d) ==
  parsers[d].metrics # {} /\ parsers[d].prev # 0 =>
    /\ coordinator = "broadcast" => parsers[d].metrics \subseteq needs
    /\ coordinator = "await" /\ seen[d] # tickGen => parsers[d].metrics \subseteq tickWork.needs
    /\ worker[d] = "collect" => parsers[d].metrics \subseteq work[d].needs

\* A session that has not been started since it was configured has no samples.
Unused == \A a \in Addrs : obj[a].state \in {"Created", "Configured"} => obj[a].queue = <<>>

SampledAt(d) == objects[d] # NoAddr => Chain(obj[objects[d]], parsers[d]) /\ AskedAt(d)
SampleIInv == SessionIInv /\ Unused /\ \A d \in Devices \ crossed : SampledAt(d)

LEMMA EmptyChain ==
    ASSUME NEW o, o.queue = <<>>, NEW p
    PROVE  Chain(o, p)
BY DEF Chain, Own, Linked, Reaches

\* Samples drained from the front leave the rest a chain.
LEMMA ShorterChain ==
    ASSUME NEW o \in Objects, NEW o_ \in Objects, NEW p \in Parsers, NEW p_ \in Parsers,
           Chain(o, p), p_ = p \/ ~p_.emitted,
           o_.metrics = o.metrics, Told(o) => Told(o_),
           NEW n \in 0 .. Len(o.queue), o_.queue = SubSeq(o.queue, n + 1, Len(o.queue))
    PROVE  Chain(o_, p_)
<1> DEFINE q == o.queue
           r == o_.queue
<1>1. q \in Seq(Windows) /\ Len(q) \in Nat /\ n \in Nat /\ n <= Len(q)
  BY DEF Objects
<1>2. /\ Len(r) = Len(q) - n
      /\ \A i \in 1 .. Len(r) : r[i] = q[n + i]
  <2>1. \A i \in n + 1 .. Len(q) : q[i] \in Windows
    BY <1>1
  <2>2. /\ Len(SubSeq(q, n + 1, Len(q))) = IF n + 1 <= Len(q) THEN Len(q) - (n + 1) + 1 ELSE 0
        /\ \A i \in 1 .. Len(q) - (n + 1) + 1 : SubSeq(q, n + 1, Len(q))[i] = q[n + 1 + i - 1]
    BY <1>1, <2>1, SubSeqProperties
  <2>3. Len(r) = Len(q) - n
    BY <1>1, <2>2
  <2> HIDE DEF q, r
  <2>4. \A i \in 1 .. Len(r) : n + 1 + i - 1 = n + i
    BY <1>1, <2>3
  <2> QED BY <1>1, <2>2, <2>3, <2>4 DEF q, r
<1> HIDE DEF q, r
<1>3. Own(o_)
  <2> SUFFICES ASSUME NEW i \in 1 .. Len(r) PROVE r[i].metrics = o_.metrics /\ r[i].metrics \subseteq r[i].needs
    BY DEF Own, r
  <2>1. n + i \in 1 .. Len(q) /\ r[i] = q[n + i]
    BY <1>1, <1>2
  <2>2. q[n + i].metrics = o.metrics /\ q[n + i].metrics \subseteq q[n + i].needs
    BY <2>1 DEF Chain, Own, q
  <2> QED BY <2>1, <2>2
<1>4. Linked(o_)
  <2> SUFFICES ASSUME NEW i \in 1 .. Len(r) - 1 PROVE Follows(o_, r[i + 1], r[i].end)
    BY DEF Linked, r
  <2>1. n + i \in 1 .. Len(q) - 1 /\ i \in 1 .. Len(r) /\ i + 1 \in 1 .. Len(r) /\ n + (i + 1) = (n + i) + 1
    BY <1>1, <1>2
  <2>2. r[i] = q[n + i] /\ r[i + 1] = q[(n + i) + 1]
    BY <1>2, <2>1
  <2>3. Follows(o, q[(n + i) + 1], q[n + i].end)
    BY <2>1 DEF Chain, Linked, q
  <2> QED BY <2>2, <2>3 DEF Follows
<1>5. p_.metrics # {} /\ p_.emitted => Reaches(o_, p_.prev)
  <2> SUFFICES ASSUME p_.metrics # {}, p_.emitted, r # <<>>
               PROVE  LET e == r[Len(r)].end IN e = p_.prev \/ (p_.prev > e /\ Told(o_))
    BY DEF Reaches, r
  <2>1. p_ = p /\ Reaches(o, p.prev)
    BY DEF Chain
  <2>2. Len(r) # 0
    <3>1. r \in Seq(Windows)
      BY DEF r, Objects
    <3> QED BY <3>1
  <2>3. r[Len(r)] = q[Len(q)] /\ q # <<>>
    <3>1. Len(r) \in 1 .. Len(r) /\ n + Len(r) = Len(q) /\ Len(q) # 0
      BY <1>1, <1>2, <2>2
    <3> QED BY <1>1, <1>2, <3>1
  <2> QED BY <2>1, <2>3 DEF Reaches, q
<1> QED BY <1>3, <1>4, <1>5 DEF Chain

LEMMA SameChain ==
    ASSUME NEW o \in Objects, NEW o_ \in Objects, NEW p \in Parsers, NEW p_ \in Parsers,
           Chain(o, p), p_ = p \/ ~p_.emitted,
           o_.metrics = o.metrics, Told(o) => Told(o_), o_.queue = o.queue
    PROVE  Chain(o_, p_)
<1>1. Own(o_) /\ Linked(o_)
  BY DEF Chain, Own, Linked, Follows
<1>2. p_.metrics # {} /\ p_.emitted => Reaches(o_, p_.prev)
  BY DEF Chain, Reaches
<1> QED BY <1>1, <1>2 DEF Chain

\* A window that starts at the parser's base is taken at the queue's end.
LEMMA AppendedChain ==
    ASSUME NEW o \in Objects, NEW o_ \in Objects, NEW p \in Parsers, NEW p_ \in Parsers, NEW s \in Windows,
           Chain(o, p), p.metrics # {}, p_.prev = s.end,
           s.metrics = o.metrics, s.metrics \subseteq s.needs, s.start = p.prev, ~p.emitted => s.first,
           o_.metrics = o.metrics, Told(o) => Told(o_), o_.queue = Append(o.queue, s)
    PROVE  Chain(o_, p_)
<1> DEFINE q == o.queue
           r == o_.queue
<1>1. q \in Seq(Windows) /\ Len(q) \in Nat
  BY DEF Objects
<1>2. Len(r) = Len(q) + 1 /\ r[Len(q) + 1] = s /\ \A i \in 1 .. Len(q) : r[i] = q[i]
  BY <1>1
<1> HIDE DEF q, r
<1>3. Own(o_)
  <2> SUFFICES ASSUME NEW i \in 1 .. Len(r) PROVE r[i].metrics = o_.metrics /\ r[i].metrics \subseteq r[i].needs
    BY DEF Own, r
  <2>1. CASE i = Len(q) + 1
    BY <1>2, <2>1
  <2>2. CASE i # Len(q) + 1
    <3>1. i \in 1 .. Len(q)
      BY <1>1, <1>2, <2>2
    <3>2. q[i].metrics = o.metrics /\ q[i].metrics \subseteq q[i].needs
      BY <3>1 DEF Chain, Own, q
    <3> QED BY <1>2, <3>1, <3>2
  <2> QED BY <2>1, <2>2
<1>4. Linked(o_)
  <2> SUFFICES ASSUME NEW i \in 1 .. Len(r) - 1 PROVE Follows(o_, r[i + 1], r[i].end)
    BY DEF Linked, r
  <2>1. i \in 1 .. Len(q) /\ r[i] = q[i]
    BY <1>1, <1>2
  <2>2. CASE i = Len(q)
    <3>1. r[i + 1] = s
      BY <1>2, <2>2
    <3>2. ~p.emitted => Follows(o_, s, q[i].end)
      BY DEF Follows
    <3>3. p.emitted => Follows(o_, s, q[i].end)
      <4>1. q # <<>>
        BY <1>1, <2>1
      <4>2. p.emitted => Reaches(o, p.prev)
        BY DEF Chain
      <4> QED BY <2>2, <4>1, <4>2 DEF Reaches, Follows, q
    <3> QED BY <2>1, <3>1, <3>2, <3>3
  <2>3. CASE i # Len(q)
    <3>1. i \in 1 .. Len(q) - 1 /\ i + 1 \in 1 .. Len(q)
      BY <1>1, <2>1, <2>3
    <3>2. Follows(o, q[i + 1], q[i].end)
      BY <3>1 DEF Chain, Linked, q
    <3>3. r[i + 1] = q[i + 1]
      BY <1>2, <3>1
    <3> QED BY <2>1, <3>2, <3>3 DEF Follows
  <2> QED BY <2>2, <2>3
<1>5. Reaches(o_, p_.prev)
  BY <1>2 DEF Reaches, r
<1> QED BY <1>3, <1>4, <1>5 DEF Chain

\* A full queue that keeps its oldest windows drops the new one, and says so.
LEMMA DroppedChain ==
    ASSUME NEW o \in Objects, NEW o_ \in Objects, NEW p \in Parsers, NEW p_ \in Parsers,
           Chain(o, p), p.metrics # {}, p_.prev >= p.prev, p_.emitted => p.emitted,
           o_.metrics = o.metrics, Told(o_), o_.queue = o.queue
    PROVE  Chain(o_, p_)
<1>1. Own(o_) /\ Linked(o_)
  BY DEF Chain, Own, Linked, Follows
<1>2. p_.metrics # {} /\ p_.emitted => Reaches(o_, p_.prev)
  <2> SUFFICES ASSUME p_.emitted, o.queue # <<>>
               PROVE  LET e == o.queue[Len(o.queue)].end IN e = p_.prev \/ (p_.prev > e /\ Told(o_))
    BY DEF Reaches
  <2> DEFINE e == o.queue[Len(o.queue)].end
  <2>1. e = p.prev \/ p.prev > e
    BY DEF Chain, Reaches
  <2>2. e \in Nat /\ p.prev \in Nat /\ p_.prev \in Nat
    <3>1. o.queue \in Seq(Windows)
      BY DEF Objects
    <3>2. Len(o.queue) \in 1 .. Len(o.queue)
      BY <3>1
    <3>3. o.queue[Len(o.queue)] \in Windows
      BY <3>1, <3>2
    <3> QED BY <3>3 DEF Windows, Parsers
  <2> QED BY <2>1, <2>2
<1> QED BY <1>1, <1>2 DEF Chain

\* What the queue does with a window of its own metrics that was measured.
LEMMA EnqueuedChain ==
    ASSUME NEW o \in Objects, Len(o.queue) <= QueueCap, NEW p \in Parsers, NEW p_ \in Parsers, NEW s \in Windows,
           Chain(o, p), p.metrics # {}, p_.prev = s.end, s.end >= s.start, p_.emitted => p.emitted \/ Takes(o),
           s.metrics = o.metrics, s.metrics \subseteq s.needs, s.start = p.prev, ~p.emitted => s.first
    PROVE  Chain(Enqueue(o, s), p_)
<1> DEFINE n == Enqueue(o, s)
<1>1. /\ n \in Objects /\ n.metrics = o.metrics /\ n.keep = o.keep /\ n.told = o.told
      /\ o.overflowed => n.overflowed
      /\ \/ Len(o.queue) < QueueCap /\ n.queue = Append(o.queue, s)
         \/ Len(o.queue) = QueueCap /\ o.keep = "oldest" /\ n.queue = o.queue /\ n.overflowed
         \/ Len(o.queue) = QueueCap /\ o.keep # "oldest" /\ n.queue = Append(Tail(o.queue), s)
  BY EnqueueChanges
<1> HIDE DEF n
<1>2. Told(o) => Told(n)
  BY <1>1 DEF Told
<1>3. CASE Len(o.queue) < QueueCap /\ n.queue = Append(o.queue, s)
  BY <1>1, <1>2, <1>3, AppendedChain DEF n
<1>4. CASE Len(o.queue) = QueueCap /\ o.keep = "oldest" /\ n.queue = o.queue /\ n.overflowed
  <2>1. p_.emitted => p.emitted
    BY <1>4, SamplingAssumption DEF Takes
  <2>2. Told(n)
    BY <1>1, <1>4 DEF Told
  <2>3. p_.prev >= p.prev
    OBVIOUS
  <2> QED BY <1>1, <1>4, <2>1, <2>2, <2>3, DroppedChain DEF n
<1>5. CASE Len(o.queue) = QueueCap /\ o.keep # "oldest" /\ n.queue = Append(Tail(o.queue), s)
  <2> DEFINE m == [o EXCEPT !.queue = Tail(o.queue)]
  <2>1. o.queue \in Seq(Windows) /\ Len(o.queue) >= 1
    BY <1>5, SamplingAssumption DEF Objects
  <2>2. Tail(o.queue) \in Seq(Windows) /\ Tail(o.queue) = SubSeq(o.queue, 1 + 1, Len(o.queue))
    <3>1. o.queue # <<>>
      BY <2>1
    <3>2. Tail(o.queue) \in Seq(Windows)
      BY <2>1, <3>1, HeadTailProperties
    <3>3. Tail(o.queue) = SubSeq(o.queue, 2, Len(o.queue))
      BY <2>1, <3>1
    <3> QED BY <3>2, <3>3
  <2>3. m \in Objects /\ m.metrics = o.metrics /\ m.queue = Tail(o.queue) /\ (Told(m) <=> Told(o))
    BY <2>2 DEF Objects, Told
  <2>4. 1 \in 0 .. Len(o.queue)
    BY <2>1
  <2> HIDE DEF m
  <2>5. Chain(m, p)
    BY <2>2, <2>3, <2>4, ShorterChain
  <2> QED BY <1>1, <1>2, <1>5, <2>3, <2>5, AppendedChain DEF n
<1> QED BY <1>1, <1>3, <1>4, <1>5 DEF n

----------------------------------------------------------------------------
(* The steps of the calls *)

\* What a turn leaves of its session's samples: nothing, or the last of them.
QueueTurn(o, o_) ==
  /\ o_.state \in {"Created", "Configured"} => o_.queue = <<>>
  /\ \/ o_.queue = <<>>
     \/ /\ o_.metrics = o.metrics /\ (Told(o) => Told(o_))
        /\ \/ o_.queue = o.queue
           \/ \E n \in 0 .. Len(o.queue) : o_.queue = SubSeq(o.queue, n + 1, Len(o.queue))

LEMMA QueueTurns ==
    ASSUME SessionIInv, Unused, NEW t \in Callers, CallSteps(t)
    PROVE  QueueTurn(obj[held[t]], obj'[held[t]])
<1> DEFINE o == obj[held[t]]
           o_ == obj'[held[t]]
<1>1. Typed /\ Placed /\ Tables
  BY DEF SessionIInv, ControlIInv
<1>2. pc[t] # "out"
  BY CallStepsSession DEF Turn
<1>3. o \in Objects /\ (o.state \in {"Created", "Configured"} => o.queue = <<>>)
  BY <1>1, <1>2, Kept DEF Unused
<1>4. ASSUME NEW c \in Configs, Configure(t, c) PROVE QueueTurn(o, o_)
  <2> DEFINE new == [o EXCEPT !.metrics = c.metrics, !.keep = c.keep, !.state = "Configured",
                              !.queue = IF o.state = "Stopped" THEN <<>> ELSE o.queue]
  <2>1. o_ = IF o.state = "Running" THEN o ELSE new
    BY <1>1, <1>4, ConfigureTurn
  <2>2. o.state = "Running" \/ o.state = "Stopped" \/ o.queue = <<>>
    BY <1>3 DEF Objects, States
  <2>3. new.queue = IF o.state = "Stopped" THEN <<>> ELSE o.queue
    BY <1>3 DEF Objects
  <2> HIDE DEF new, o
  <2>4. CASE o.state = "Running"
    BY <2>1, <2>4 DEF QueueTurn
  <2>5. CASE o.state # "Running"
    BY <2>1, <2>2, <2>3, <2>5 DEF QueueTurn
  <2> QED BY <2>4, <2>5 DEF o
<1>5. CASE SetImageInfo(t)
  <2>1. o_ = [o EXCEPT !.plan = o.metrics]
    BY <1>1, <1>5, SetImageInfoTurn
  <2>2. /\ o_.state = o.state /\ o_.queue = o.queue /\ o_.metrics = o.metrics
        /\ o_.keep = o.keep /\ o_.told = o.told /\ o_.overflowed = o.overflowed
    BY <1>3, <2>1 DEF Objects
  <2> HIDE DEF o, o_
  <2>3. Told(o) => Told(o_)
    BY <2>2 DEF Told
  <2> QED BY <1>3, <2>2, <2>3 DEF QueueTurn, o, o_
<1>6. CASE DrainSamples(t)
  <2>1. PICK n \in 0 .. Len(o.queue) : o_ = [o EXCEPT !.queue = SubSeq(o.queue, n + 1, Len(o.queue))]
    BY <1>1, <1>6, DrainSamplesTurn
  <2> DEFINE r == SubSeq(o.queue, n + 1, Len(o.queue))
  <2>2. o.queue = <<>> => r = <<>>
    OBVIOUS
  <2> HIDE DEF r
  <2>3. o_.state = o.state /\ o_.metrics = o.metrics /\ o_.queue = r /\ (Told(o) => Told(o_))
    BY <1>3, <2>1 DEF Objects, Told, r
  <2>4. o.state \in {"Created", "Configured"} => r = <<>>
    BY <1>3, <2>2
  <2> HIDE DEF o, o_
  <2> QED BY <2>3, <2>4 DEF QueueTurn, r, o, o_
<1>7. CASE ConsumeOverflow(t)
  <2> DEFINE next == [o EXCEPT !.overflowed = FALSE, !.told = o.told \/ o.overflowed]
  <2>1. o_ = next
    BY <1>1, <1>7, ConsumeOverflowTurn
  <2>2. next.state = o.state /\ next.metrics = o.metrics /\ next.queue = o.queue /\ next.keep = o.keep
    BY <1>3 DEF Objects
  <2>3. next.told = (o.told \/ o.overflowed)
    BY <1>3 DEF Objects
  <2> HIDE DEF next, o
  <2>4. Told(o) => Told(next)
    BY <2>2, <2>3 DEF Told
  <2> QED BY <1>3, <2>1, <2>2, <2>4 DEF QueueTurn, o
<1>8. ASSUME NEW s \in States \ {"Created", "Configured"}, o_ = [o EXCEPT !.state = s] PROVE QueueTurn(o, o_)
  BY <1>3, <1>8 DEF QueueTurn, Objects, Told
<1>9. CASE UNCHANGED obj
  BY <1>3, <1>9 DEF QueueTurn
<1>10. CASE ObjectStart(t)
  BY <1>1, <1>8, <1>9, <1>10, ObjectStartTurn DEF States
<1>11. CASE Rollback(t) \/ ObjectStop(t)
  <2>1. PICK s \in States \ {"Running"} : /\ o.state = "Running" \/ s = o.state
                                          /\ o_ = [o EXCEPT !.state = s]
    BY <1>1, <1>11, RollbackTurn, ObjectStopTurn
  <2>2. /\ o_.state = s /\ o_.queue = o.queue /\ o_.metrics = o.metrics
        /\ o_.keep = o.keep /\ o_.told = o.told /\ o_.overflowed = o.overflowed
    BY <1>3, <2>1 DEF Objects
  <2>3. s = "Stopped" \/ s = o.state
    <3>1. o_.state \in {"Stopped", o.state}
      BY <1>1, <1>11, RollbackTurn, ObjectStopTurn
    <3> QED BY <2>2, <3>1
  <2> QED BY <1>3, <2>2, <2>3 DEF QueueTurn, Told
<1>12. CASE DecodeChecked(t) \/ CheckRunning(t) \/ StopCollectorsDone(t)
  BY <1>9, <1>12 DEF DecodeChecked, CheckRunning, StopCollectorsDone
<1>13. CASE \/ CollectorReady(t) \/ CollectorFails(t) \/ CollectorStops(t)
            \/ MakeParser(t) \/ FlushParser(t) \/ EraseParser(t)
  BY <1>9, <1>13 DEF CollectorReady, CollectorFails, CollectorStops, MakeParser, FlushParser, EraseParser
<1> QED BY <1>4, <1>5, <1>6, <1>7, <1>10, <1>11, <1>12, <1>13 DEF CallSteps

\* Calls start threads at the beginning of their loops and take them away, and
\* do nothing else to them.
ThreadsTurn ==
  \/ UNCHANGED <<coordinator, worker, seen, tickGen>>
  \/ coordinator' \in {"loop", "none"} /\ \A w \in Workers : worker'[w] \in {"wait", "none"}

LEMMA CallThreads ==
    ASSUME NEW t \in Callers, CallSteps(t)
    PROVE  ThreadsTurn
<1> USE DEF ThreadsUnchanged, collectorVars
<1>1. CASE CollectorReady(t)
  BY <1>1 DEF CollectorReady, StartAgain, StartThreads, ThreadsTurn
<1>2. CASE CollectorFails(t)
  BY <1>2 DEF CollectorFails, StartFails, ThreadsTurn
<1>3. CASE CollectorStops(t)
  BY <1>3 DEF CollectorStops, StopNotNeeded, StopThreads, StopSteps, WakeAll, JoinCoordinator, JoinWorkers, ThreadsTurn
<1>4. CASE ObjectStart(t) \/ ObjectStop(t)
  BY <1>4 DEF ObjectStart, ObjectStop, ThreadsTurn
<1>5. CASE MakeParser(t) \/ FlushParser(t) \/ EraseParser(t)
  BY <1>5 DEF MakeParser, FlushParser, EraseParser, ThreadsTurn
<1>6. CASE \/ \E c \in Configs : Configure(t, c)
           \/ SetImageInfo(t) \/ DecodeChecked(t) \/ DrainSamples(t) \/ ConsumeOverflow(t)
           \/ Rollback(t) \/ CheckRunning(t) \/ StopCollectorsDone(t)
  <2>1. ObjectOnly(t)
    BY <1>6 DEF Configure, SetImageInfo, DecodeChecked, DrainSamples, ConsumeOverflow, Rollback, CheckRunning,
                StopCollectorsDone
  <2> QED BY <2>1 DEF ObjectOnly, ThreadsTurn
<1> QED BY <1>1, <1>2, <1>3, <1>4, <1>5, <1>6 DEF CallSteps

LEMMA CallStepsSamples ==
    ASSUME SampleIInv, NEW t \in Callers, CallSteps(t)
    PROVE  SampleIInv'
<1> USE DEF SampleIInv
<1> DEFINE e == obj[held[t]].dev
<1>1. SessionIInv' /\ Turn(t) /\ ThreadsTurn /\ QueueTurn(obj[held[t]], obj'[held[t]])
  BY CallStepsSession, CallThreads, QueueTurns
<1>2. /\ held[t] \in Addrs /\ \A a \in Addrs \ {held[t]} : obj'[a] = obj[a]
      /\ \A d \in Devices \ {e} : parsers'[d] = parsers[d]
      /\ UNCHANGED <<objects, crossed, needs, tickWork, work>> /\ Typed'
  BY <1>1, TurnChanges DEF SessionIInv, ControlIInv
<1>3. \A d \in Devices : parsers'[d] = parsers[d] \/ (parsers'[d].prev = 0 /\ ~parsers'[d].emitted)
  BY <1>1, <1>2 DEF Turn
<1>4. Unused'
  BY <1>1, <1>2 DEF Unused, QueueTurn
<1>5. ASSUME NEW d \in Devices \ crossed, objects[d] # NoAddr
      PROVE  Chain(obj'[objects[d]], parsers'[d]) /\ AskedAt(d)'
  <2> DEFINE a == objects[d]
  <2>1. a \in Addrs /\ obj[a] \in Objects /\ obj'[a] \in Objects /\ parsers[d] \in Parsers /\ parsers'[d] \in Parsers
    BY <1>2, <1>5 DEF SessionIInv, ControlIInv, Typed, TableTypes, ObjectTypes
  <2>2. Chain(obj[a], parsers[d]) /\ AskedAt(d) /\ (parsers'[d] = parsers[d] \/ ~parsers'[d].emitted)
    BY <1>3, <1>5 DEF SampledAt
  <2>3. obj'[a] = obj[a] \/ QueueTurn(obj[a], obj'[a])
    BY <1>1, <1>2, <2>1
  <2>4. Chain(obj'[a], parsers'[d])
    <3> HIDE DEF a
    <3>1. CASE obj'[a].queue = <<>>
      BY <3>1, EmptyChain
    <3>2. CASE obj'[a].queue # <<>>
      <4>1. /\ obj'[a].metrics = obj[a].metrics /\ (Told(obj[a]) => Told(obj'[a]))
            /\ \/ obj'[a].queue = obj[a].queue
               \/ \E n \in 0 .. Len(obj[a].queue) : obj'[a].queue = SubSeq(obj[a].queue, n + 1, Len(obj[a].queue))
        BY <2>3, <3>2 DEF QueueTurn
      <4>2. CASE obj'[a].queue = obj[a].queue
        BY <2>1, <2>2, <4>1, <4>2, SameChain
      <4>3. CASE \E n \in 0 .. Len(obj[a].queue) : obj'[a].queue = SubSeq(obj[a].queue, n + 1, Len(obj[a].queue))
        BY <2>1, <2>2, <4>1, <4>3, ShorterChain
      <4> QED BY <4>1, <4>2, <4>3
    <3> QED BY <3>1, <3>2
  <2>5. AskedAt(d)'
    <3> SUFFICES ASSUME parsers'[d] = parsers[d] PROVE AskedAt(d)'
      BY <1>3 DEF AskedAt
    <3>1. d \in Workers
      BY SamplingAssumption
    <3> QED BY <1>1, <1>2, <2>2, <3>1 DEF AskedAt, ThreadsTurn
  <2> QED BY <2>4, <2>5
<1>6. \A d \in Devices \ crossed' : SampledAt(d)'
  BY <1>2, <1>5 DEF SampledAt
<1> QED BY <1>1, <1>4, <1>6

LEMMA BeginsSamples ==
    ASSUME SampleIInv, NEW t \in Callers, Begins(t)
    PROVE  Unused' /\ \A d \in Devices \ crossed' : SampledAt(d)'
<1> USE DEF SampleIInv
<1>1. /\ UNCHANGED <<obj, parsers, needs, tickWork, work, collectorVars>> /\ crossed \subseteq crossed'
      /\ \A d \in Devices : objects'[d] \in {objects[d], NoAddr}
  BY BeginsChanges DEF SessionIInv
<1>2. UNCHANGED <<coordinator, worker, seen, tickGen>>
  BY <1>1 DEF collectorVars
<1>3. Unused'
  BY <1>1 DEF Unused
<1>4. ASSUME NEW d \in Devices, d \notin crossed' PROVE SampledAt(d)'
  <2>1. SampledAt(d) /\ (AskedAt(d) => AskedAt(d)')
    BY <1>1, <1>2, <1>4 DEF AskedAt
  <2> QED BY <1>1, <2>1 DEF SampledAt
<1> QED BY <1>3, <1>4

----------------------------------------------------------------------------
(* A session's parser, and what it was asked *)

\* Where there is a parser, the session runs, the parser is its own, and the
\* threads run.
LEMMA LiveRuns ==
    ASSUME SessionIInv, NEW d \in Devices \ crossed, objects[d] # NoAddr, parsers[d].metrics # {}
    PROVE  /\ objects[d] \in Addrs /\ Running(objects[d]) /\ running
           /\ parsers[d].metrics = obj[objects[d]].metrics
<1> DEFINE a == objects[d]
<1>1. a \in Addrs /\ obj[a].dev = d
  <2>1. a \in Addrs
    BY DEF SessionIInv, ControlIInv, Typed, TableTypes
  <2>2. obj[a].dev = d
    BY DEF SessionIInv, ControlIInv, Tables
  <2> QED BY <2>1, <2>2
<1>2. ~Disabling(d)
  <2> SUFFICES ASSUME NEW t \in Callers, InControl(t, d), op[t] = "Disable" PROVE FALSE
    BY DEF Disabling
  <2> QED BY DEF SessionIInv, Alone
<1>3. Fed(d) /\ parsers[d].metrics = obj[a].metrics
  <2>1. FedAt(d)
    BY DEF SessionIInv, Feeds
  <2> QED BY <1>2, <2>1 DEF FedAt, NoParser
<1>4. Running(a) /\ ~Between(d)
  BY <1>3 DEF Fed, RunningOn, Running, Registered
<1>5. \A t \in Callers : held[t] = a => pc[t] \notin {"collector", "rollback"}
  <2> SUFFICES ASSUME NEW t \in Callers, held[t] = a, pc[t] \in {"collector", "rollback"} PROVE FALSE
    OBVIOUS
  <2>1. op[t] = "Start"
    BY DEF SessionIInv, ControlIInv, Placed, PlacedAt
  <2> QED BY <1>1, <1>4, <2>1 DEF Between, InControl, Controls
<1>6. running
  BY <1>1, <1>4, <1>5 DEF SessionIInv, Served
<1> QED BY <1>1, <1>3, <1>4, <1>6

LEMMA EnableSamples ==
    ASSUME SampleIInv, NEW t \in Callers, NEW e \in Devices, NEW a \in Addrs, Enable(t, e, a)
    PROVE  Unused' /\ \A d \in Devices \ crossed' : SampledAt(d)'
<1> USE DEF SampleIInv
<1>1. NewSession(e, a)
  BY EnableChanges DEF SessionIInv
<1>2. UNCHANGED <<parsers, needs, tickWork, work, coordinator, worker, seen, tickGen>>
  BY <1>1 DEF NewSession, collectorVars
<1>3. Unused'
  BY <1>1 DEF Unused, NewSession
<1>4. ASSUME NEW d \in Devices, d \notin crossed', objects'[d] # NoAddr PROVE SampledAt(d)'
  <2>0. d \notin crossed
    BY <1>1, <1>4 DEF NewSession
  <2>1. CASE d = e
    <3>1. objects[e] = NoAddr /\ objects'[e] = a /\ obj'[a].queue = <<>> /\ ~Controlled(e)
      BY <1>1, <1>4, <2>1 DEF NewSession
    <3>2. ~Fed(e) /\ ~Disabling(e)
      BY <3>1 DEF Fed, RunningOn, Disabling, InControl, Controlled
    <3>3. parsers[e] = NoParser
      BY <2>0, <2>1, <3>2 DEF SessionIInv, Feeds, FedAt
    <3>4. AskedAt(e)'
      BY <1>2, <3>3 DEF AskedAt, NoParser
    <3> QED BY <2>1, <3>1, <3>4, EmptyChain DEF SampledAt
  <2>2. CASE d # e
    <3>1. objects'[d] = objects[d] /\ objects[d] # a
      BY <1>1, <2>2 DEF NewSession
    <3>2. objects[d] \in Addrs
      BY <1>4, <3>1 DEF SessionIInv, ControlIInv, Typed, TableTypes
    <3>3. obj'[objects[d]] = obj[objects[d]]
      BY <1>1, <3>1, <3>2 DEF NewSession
    <3>4. Chain(obj[objects[d]], parsers[d]) /\ AskedAt(d)
      BY <1>4, <2>0, <3>1 DEF SampledAt
    <3>5. AskedAt(d)'
      BY <1>2, <3>4 DEF AskedAt
    <3> QED BY <1>2, <3>1, <3>3, <3>4, <3>5 DEF SampledAt
  <2> QED BY <2>1, <2>2
<1> QED BY <1>3, <1>4 DEF SampledAt

LEMMA TickStepsSamples ==
    ASSUME SampleIInv, TickSteps
    PROVE  Unused' /\ \A d \in Devices \ crossed' : SampledAt(d)'
<1> USE DEF SampleIInv
<1>1. UNCHANGED <<objects, obj, parsers, crossed>>
  BY TickStepsControl DEF SessionIInv, SessionsUnchanged, TablesUnchanged
<1>2. Unused'
  BY <1>1 DEF Unused
<1> SUFFICES ASSUME NEW d \in Devices \ crossed, objects[d] # NoAddr PROVE AskedAt(d)'
  BY <1>1, <1>2 DEF SampledAt
<1> SUFFICES ASSUME parsers[d].metrics # {}, parsers[d].prev # 0
             PROVE  /\ coordinator' = "broadcast" => parsers[d].metrics \subseteq needs'
                    /\ coordinator' = "await" /\ seen'[d] # tickGen' => parsers[d].metrics \subseteq tickWork'.needs
                    /\ worker'[d] = "collect" => parsers[d].metrics \subseteq work'[d].needs
  BY <1>1 DEF AskedAt
<1>3. /\ coordinator = "broadcast" => parsers[d].metrics \subseteq needs
      /\ coordinator = "await" /\ seen[d] # tickGen => parsers[d].metrics \subseteq tickWork.needs
      /\ worker[d] = "collect" => parsers[d].metrics \subseteq work[d].needs
  BY DEF SampledAt, AskedAt
<1>4. objects[d] \in Addrs /\ Running(objects[d]) /\ running /\ parsers[d].metrics = obj[objects[d]].metrics
  BY LiveRuns
<1>5. /\ d \in Workers /\ worker \in [Workers -> Threads] /\ seen \in [Workers -> Nat] /\ tickGen \in Nat
      /\ work \in [Workers -> Works]
  BY SamplingAssumption DEF SessionIInv, ControlIInv, CollectorIInv, CollectorTypes, CollectorTypeOK, Typed, TickTypes
<1>6. CASE CoordinatorTicks
  BY <1>3, <1>6 DEF CoordinatorTicks, TickDue, TicksUnchanged
<1>7. CASE LookUpNeeds
  <2>1. parsers[d].metrics \subseteq CollectNeeds
    BY <1>4 DEF CollectNeeds
  <2> QED BY <1>3, <1>7, <2>1 DEF LookUpNeeds, NeedsKnown
<1>8. CASE BroadcastTick
  <2>1. /\ coordinator = "broadcast" /\ coordinator' = "await" /\ tickWork'.needs = needs
        /\ UNCHANGED <<worker, work>>
    BY <1>8 DEF BroadcastTick, Broadcast
  <2> QED BY <1>3, <2>1
<1>9. CASE CollectorMoves
  <2>1. UNCHANGED <<needs, tickWork, work, seen, tickGen>>
    BY <1>9 DEF CollectorMoves, TicksUnchanged, LoopEnds, AwaitDone, SayGoodbye, Report
  <2>2. coordinator' = coordinator \/ coordinator' \notin {"broadcast", "await"}
    BY <1>9 DEF CollectorMoves, LoopEnds, AwaitDone, SayGoodbye, Report
  <2>3. worker'[d] = worker[d] \/ worker'[d] # "collect"
    BY <1>5, <1>9 DEF CollectorMoves, LoopEnds, AwaitDone, SayGoodbye, Report
  <2> QED BY <1>3, <2>1, <2>2, <2>3
<1>10. ASSUME NEW w \in Workers, WorkerTakesTick(w)
       PROVE  /\ coordinator' = "broadcast" => parsers[d].metrics \subseteq needs'
              /\ coordinator' = "await" /\ seen'[d] # tickGen' => parsers[d].metrics \subseteq tickWork'.needs
              /\ worker'[d] = "collect" => parsers[d].metrics \subseteq work'[d].needs
  <2>1. /\ WorkerWaits(w) /\ work' = (IF worker'[w] = "collect" THEN [work EXCEPT ![w] = tickWork] ELSE work)
        /\ UNCHANGED <<needs, tickWork, coordinator, tickGen>>
    BY <1>10 DEF WorkerTakesTick, WorkerWaits
  <2>2. CASE d # w
    <3>1. worker'[d] = worker[d] /\ seen'[d] = seen[d]
      BY <1>5, <2>1, <2>2 DEF WorkerWaits
    <3>2. work'[d] = work[d]
      BY <1>5, <2>1, <2>2
    <3> QED BY <1>3, <2>1, <3>1, <3>2
  <2>3. CASE d = w
    <3>1. CASE tickGen > seen[d]
      <4>1. worker'[d] = "collect" /\ seen'[d] = tickGen
        BY <1>4, <1>5, <2>1, <2>3, <3>1 DEF WorkerWaits
      <4>2. work'[d] = tickWork
        BY <1>5, <2>1, <2>3, <4>1
      <4>3. coordinator = "await" /\ seen[d] # tickGen
        BY <1>4, <1>5, <3>1 DEF SessionIInv, ControlIInv, CollectorIInv, Barrier
      <4> QED BY <1>3, <2>1, <4>1, <4>2, <4>3
    <3>2. CASE ~(tickGen > seen[d])
      <4>1. UNCHANGED <<worker, seen>> /\ worker[d] = "wait"
        BY <1>4, <2>1, <2>3, <3>2 DEF WorkerWaits
      <4> QED BY <1>3, <2>1, <2>3, <4>1
    <3> QED BY <3>1, <3>2
  <2> QED BY <2>2, <2>3
<1> QED BY <1>6, <1>7, <1>8, <1>9, <1>10 DEF TickSteps

\* A worker's sample becomes the base of its session's next window, and one more
\* window of the session unless it was a base itself.
LEMMA CollectDeviceSamples ==
    ASSUME SampleIInv, NEW w \in Workers, CollectDevice(w)
    PROVE  Unused' /\ \A d \in Devices \ crossed' : SampledAt(d)'
<1> USE DEF SampleIInv
<1>1. Sampled(w) /\ Typed' /\ Collect(w)
  BY CollectDeviceChanges DEF SessionIInv
<1>2. /\ UNCHANGED <<objects, crossed, needs, tickWork, coordinator, seen, tickGen>>
      /\ worker' = [worker EXCEPT ![w] = "report"] /\ worker[w] = "collect"
      /\ \A v \in Workers \ {w} : work'[v] = work[v]
  BY <1>1 DEF Sampled, Collect
<1>3. worker \in [Workers -> Threads] /\ Devices \subseteq Workers
  BY SamplingAssumption DEF SessionIInv, ControlIInv, CollectorIInv, CollectorTypes
<1>4. \A d \in Devices : objects[d] # NoAddr => objects[d] \in Addrs /\ obj[objects[d]].dev = d
  <2>1. \A d \in Devices : objects[d] # NoAddr => objects[d] \in Addrs
    BY DEF SessionIInv, ControlIInv, Typed, TableTypes
  <2>2. \A d \in Devices : objects[d] # NoAddr => obj[objects[d]].dev = d
    BY DEF SessionIInv, ControlIInv, Tables
  <2> QED BY <2>1, <2>2
<1>5. Unused'
  <2> SUFFICES ASSUME NEW a \in Addrs, obj'[a].state \in {"Created", "Configured"} PROVE obj'[a].queue = <<>>
    BY DEF Unused
  <2>1. obj'[a].state = obj[a].state
    BY CollectDeviceStates DEF StatesKept, SessionIInv
  <2>2. obj'[a] = obj[a]
    BY <1>1, <2>1 DEF Sampled, Ends
  <2> QED BY <2>2 DEF Unused
<1>6. ASSUME NEW d \in Devices \ crossed, d # w, objects[d] # NoAddr
      PROVE  Chain(obj'[objects[d]], parsers'[d]) /\ AskedAt(d)'
  <2>1. parsers'[d] = parsers[d] /\ work'[d] = work[d] /\ worker'[d] = worker[d]
    BY <1>1, <1>2, <1>3, <1>6 DEF Sampled
  <2>2. w \in Devices => objects[d] # objects[w]
    BY <1>4, <1>6
  <2>3. obj'[objects[d]] = obj[objects[d]]
    BY <1>1, <1>4, <1>6, <2>2 DEF Sampled
  <2>4. Chain(obj[objects[d]], parsers[d]) /\ AskedAt(d)
    BY <1>6 DEF SampledAt
  <2> QED BY <1>2, <2>1, <2>3, <2>4 DEF AskedAt
<1>7. ASSUME w \in Devices \ crossed, objects[w] # NoAddr
      PROVE  Chain(obj'[objects[w]], parsers'[w]) /\ AskedAt(w)'
  <2> DEFINE a == objects[w]
             o == obj[a]
             p == parsers[w]
             p_ == parsers'[w]
             s == Window(w)
  <2>1. /\ a \in Addrs /\ o \in Objects /\ Len(o.queue) <= QueueCap /\ p \in Parsers /\ p_ \in Parsers
        /\ work[w] \in Works /\ Chain(o, p) /\ AskedAt(w)
    BY <1>1, <1>4, <1>7 DEF SessionIInv, ControlIInv, Typed, ObjectTypes, TickTypes, SampledAt
  <2>2. CASE p.metrics = {}
    <3>1. p_ = p
      BY <1>1, <1>7, <2>2 DEF Sampled
    <3>2. obj'[a] = o
      BY <1>1, <2>1, <2>2 DEF Sampled, Ends
    <3> QED BY <2>1, <2>2, <3>1, <3>2 DEF AskedAt
  <2>3. CASE p.metrics # {}
    <3>1. running /\ Running(a) /\ p.metrics = o.metrics
      BY <1>7, <2>3, LiveRuns
    <3>2. AskedAt(w)'
      <4>1. coordinator = "await" /\ seen[w] = tickGen
        BY <1>2, <3>1 DEF SessionIInv, ControlIInv, CollectorIInv, Barrier
      <4>2. worker'[w] = "report"
        BY <1>2, <1>3
      <4> QED BY <1>2, <4>1, <4>2 DEF AskedAt
    <3>3. Chain(obj'[a], p_)
      <4>1. /\ p_.metrics = p.metrics /\ p_.prev = work[w].ts
            /\ p_.emitted => /\ p.prev # 0 /\ work[w].ts >= p.prev
                             /\ p.emitted \/ (Ends(w) /\ Takes(o))
        BY <1>1, <1>7, <2>3 DEF Sampled
      <4>2. CASE ~Ends(w)
        <5>1. obj'[a] = o
          BY <1>1, <2>1, <4>2 DEF Sampled
        <5>2. ~p_.emitted
          BY <1>7, <2>3, <3>1, <4>1, <4>2 DEF Ends, Running
        <5> HIDE DEF o, p, p_, a
        <5> QED BY <2>1, <5>1, <5>2, SameChain
      <4>3. CASE Ends(w)
        <5>1. obj'[a] = Enqueue(o, s)
          BY <1>1, <1>7, <4>3 DEF Sampled
        <5>2. p.prev # 0 /\ work[w].ts >= p.prev
          BY <4>3 DEF Ends
        <5>3. p.metrics \subseteq work[w].needs
          BY <1>2, <2>1, <2>3, <5>2 DEF AskedAt
        <5>4. /\ s.start = p.prev /\ s.end = work[w].ts /\ s.metrics = p.metrics /\ s.needs = work[w].needs
              /\ ~p.emitted => s.first
          BY DEF Window
        <5>5. s \in Windows
          <6>1. (~p.emitted) \in BOOLEAN
            OBVIOUS
          <6> QED BY <2>1, <6>1 DEF Window, Windows, Parsers, Works
        <5>6. p_.emitted => p.emitted \/ Takes(o)
          BY <4>1
        <5> HIDE DEF o, p, p_, a, s
        <5>7. Chain(Enqueue(o, s), p_)
          BY <2>1, <2>3, <3>1, <4>1, <5>2, <5>3, <5>4, <5>5, <5>6, EnqueuedChain
        <5> QED BY <5>1, <5>7
      <4> QED BY <4>2, <4>3
    <3> QED BY <3>2, <3>3
  <2> QED BY <2>2, <2>3
<1> QED BY <1>2, <1>5, <1>6, <1>7 DEF SampledAt

----------------------------------------------------------------------------
LEMMA SampleInitially == Init => SampleIInv
<1> SUFFICES ASSUME Init PROVE SampleIInv
  OBVIOUS
<1>1. SessionIInv
  BY SessionInitially
<1>2. Unused
  BY DEF Init, Unused, NoObj
<1>3. \A d \in Devices : objects[d] = NoAddr
  BY DEF Init
<1> QED BY <1>1, <1>2, <1>3 DEF SampleIInv, SampledAt

LEMMA SampleStutters == SampleIInv /\ UNCHANGED vars => SampleIInv'
<1> SUFFICES ASSUME SampleIInv, UNCHANGED vars PROVE SampleIInv'
  OBVIOUS
<1>1. SessionIInv'
  BY SessionStutters DEF SampleIInv
<1>2. UNCHANGED <<objects, obj, parsers, crossed, needs, tickWork, work, coordinator, worker, seen, tickGen>>
  BY DEF vars, samplingVars, collectorVars
<1>3. Unused' /\ \A d \in Devices \ crossed' : SampledAt(d)'
  BY <1>2 DEF SampleIInv, Unused, SampledAt, AskedAt
<1> QED BY <1>1, <1>3 DEF SampleIInv

LEMMA SampleSteps == SampleIInv /\ Steps => SampleIInv'
<1> SUFFICES ASSUME SampleIInv, Steps PROVE SampleIInv'
  OBVIOUS
<1>1. SessionIInv'
  BY SessionSteps DEF SampleIInv
<1>2. ASSUME NEW t \in Callers, Begins(t) PROVE SampleIInv'
  BY <1>1, <1>2, BeginsSamples DEF SampleIInv
<1>3. ASSUME NEW t \in Callers, CallSteps(t) PROVE SampleIInv'
  BY <1>3, CallStepsSamples
<1>4. ASSUME NEW t \in Callers, NEW d \in Devices, NEW a \in Addrs, Enable(t, d, a) PROVE SampleIInv'
  BY <1>1, <1>4, EnableSamples DEF SampleIInv
<1>5. ASSUME TickSteps PROVE SampleIInv'
  BY <1>1, <1>5, TickStepsSamples DEF SampleIInv
<1>6. ASSUME NEW w \in Workers, CollectDevice(w) PROVE SampleIInv'
  BY <1>1, <1>6, CollectDeviceSamples DEF SampleIInv
<1> QED BY <1>2, <1>3, <1>4, <1>5, <1>6 DEF Steps

\* With what the tick under way was asked, and where the queue of a session has
\* got to, the invariant of the samples is inductive.
THEOREM SamplesInductive == Spec => []SampleIInv
<1>1. SampleIInv /\ [Next]_vars => SampleIInv'
  BY NextSteps, SampleSteps, SampleStutters
<1> QED BY <1>1, SampleInitially, PTL DEF Spec

\* The samples of a session have its metrics, which the device was asked for;
\* they follow each other, and the client is told of the windows that are lost.
THEOREM SamplesCorrect == Spec => []SamplesInv
<1>1. ASSUME SampleIInv, NEW d \in Devices \ crossed, objects[d] # NoAddr
      PROVE  /\ obj[objects[d]] \in Objects
             /\ Own(obj[objects[d]]) /\ Linked(obj[objects[d]])
  <2>1. objects[d] \in Addrs
    BY <1>1 DEF SampleIInv, SessionIInv, ControlIInv, Typed, TableTypes
  <2> QED BY <1>1, <2>1 DEF SampleIInv, SessionIInv, ControlIInv, Typed, ObjectTypes, SampledAt, Chain
<1>2. SampleIInv => OwnSamples /\ WindowsMeasured
  <2> SUFFICES ASSUME SampleIInv, NEW d \in Devices \ crossed, NEW s \in Samples(d)
               PROVE  s.metrics = obj[objects[d]].metrics /\ s.metrics \subseteq s.needs
    BY DEF OwnSamples, WindowsMeasured
  <2> DEFINE o == obj[objects[d]]
  <2>1. objects[d] # NoAddr /\ \E i \in DOMAIN o.queue : s = o.queue[i]
    BY DEF Samples, Range
  <2>2. o \in Objects /\ Own(o)
    BY <1>1, <2>1
  <2>3. DOMAIN o.queue = 1 .. Len(o.queue)
    BY <2>2 DEF Objects
  <2> QED BY <2>1, <2>2, <2>3 DEF Own
<1>3. SampleIInv => GapsReported
  <2> SUFFICES ASSUME SampleIInv, NEW d \in Devices \ crossed, objects[d] # NoAddr,
                      NEW i \in 1 .. Len(obj[objects[d]].queue) - 1
               PROVE  LET o == obj[objects[d]] IN
                      \/ o.queue[i + 1].first
                      \/ o.queue[i + 1].start = o.queue[i].end
                      \/ o.queue[i + 1].start > o.queue[i].end /\ o.keep = "oldest" /\ (o.overflowed \/ o.told)
    BY DEF GapsReported
  <2>1. Follows(obj[objects[d]], obj[objects[d]].queue[i + 1], obj[objects[d]].queue[i].end)
    BY <1>1 DEF Linked
  <2> QED BY <2>1 DEF Follows, Told
<1> QED BY <1>2, <1>3, SamplesInductive, PTL DEF SamplesInv
=============================================================================
