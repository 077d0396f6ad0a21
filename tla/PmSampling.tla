------------------------------ MODULE PmSampling ------------------------------
(***************************************************************************)
(* PM sampling sessions: the public calls (mspti_pm_sampling_api.cpp), the *)
(* manager's tables of sessions, handles and parsers                       *)
(* (pm_sampling_manager.cpp), the session objects (pm_sampling_object.cpp) *)
(* and the parsers (pm_sampling_parser.cpp), composed with the collector's *)
(* threads (DcmiCollector).                                                *)
(*                                                                         *)
(* A session object lives at an address; an address is free again once no  *)
(* table and no call holds the object.  Handles are numbered in the order  *)
(* Enable returned them: issued[n] is the address handle n stands for, and *)
(* obj[a].id the number of the session at a, so that a stale handle can be *)
(* told from a live one with the same address.                             *)
(***************************************************************************)
EXTENDS DcmiCollector, Sequences, Functions

CONSTANTS Devices,      \* devices that CheckDeviceOnline accepts
          Addrs,        \* addresses of session objects
          Configs,      \* [metrics, keep]: interface groups and append mode
          QueueCap,     \* MaxQueueSamples
          DecodeMax,    \* maxSamples of an image
          ClientOps,    \* the calls the client makes
          ClockSteps,   \* how the host's clock moves from one tick to the next
          MaxSessions, MaxTicks, \* bounds on what the model explores
          NoAddr

ASSUME SamplingAssumption ==
  /\ QueueCap \in Nat \ {0} /\ DecodeMax \in Nat \ {0}
  /\ MaxSessions \in Nat /\ MaxTicks \in Nat
  /\ NoAddr \notin Addrs
  /\ Devices \subseteq Workers
  /\ ClockSteps \subseteq Int

VARIABLES objects,      \* objects_: the session of each device
          ptrIndex,     \* ptrIndex_: device and liveness by address
          obj,          \* the objects at the addresses
          parsers,      \* parsers_: the parser of each device
          issued,       \* handles returned so far
          pc, op,       \* where each caller is, and in which call
          arg, held,    \* the handle it was given, the object it holds
          needs,        \* what CollectNeeds has returned for this tick
          tickWork,     \* tickWork_: needs and time stamp of the current tick
          work,         \* each worker's copy of it
          ticks, clock, \* ticks broadcast so far, time of the last one
          crossed       \* devices whose sessions' calls have overlapped

samplingVars == <<objects, ptrIndex, obj, parsers, issued, pc, op, arg, held,
                  needs, tickWork, work, ticks, clock, crossed>>
vars == <<samplingVars, collectorVars>>

NoParser == [metrics |-> {}, prev |-> 0, emitted |-> FALSE]
NoWork == [needs |-> {}, ts |-> 0]
NoObj == [id |-> 0, dev |-> CHOOSE d \in Workers : TRUE, state |-> "Created", metrics |-> {}, keep |-> "oldest",
          queue |-> <<>>, overflowed |-> FALSE, told |-> FALSE, plan |-> {}]
NoEntry == [dev |-> CHOOSE d \in Workers : TRUE, alive |-> FALSE]

Groups == UNION {c.metrics : c \in Configs}
Places == {"out", "set", "run", "collector", "parser", "rollback", "check", "flush", "stop",
           "leave", "erase", "drain", "overflow"}
Ops == {"none", "SetConfig", "Start", "Stop", "Disable", "GetCounterDataSize", "DecodeData"}

TypeOK ==
  /\ CollectorTypeOK
  /\ objects \in [Devices -> Addrs \cup {NoAddr}]
  /\ \A a \in Addrs : obj[a].state \in {"Created", "Configured", "Running", "Stopped"}
  /\ \A a \in Addrs : Len(obj[a].queue) <= QueueCap
  /\ pc \in [Callers -> Places]
  /\ op \in [Callers -> Ops]
  /\ held \in [Callers -> Addrs \cup {NoAddr}]
  /\ arg \in [Callers -> 0 .. MaxSessions]
  /\ needs \subseteq Groups

Init ==
  /\ CollectorInit
  /\ objects = [d \in Devices |-> NoAddr]
  /\ ptrIndex = [a \in Addrs |-> NoEntry]
  /\ obj = [a \in Addrs |-> NoObj]
  /\ parsers = [d \in Devices |-> NoParser]
  /\ issued = <<>>
  /\ pc = [t \in Callers |-> "out"]
  /\ op = [t \in Callers |-> "none"]
  /\ arg = [t \in Callers |-> 0]
  /\ held = [t \in Callers |-> NoAddr]
  /\ needs = {}
  /\ tickWork = NoWork
  /\ work = [w \in Workers |-> NoWork]
  /\ ticks = 0
  /\ clock = 1
  /\ crossed = {}

Registered(a) == \E d \in Devices : objects[d] = a
Running(a) == Registered(a) /\ obj[a].state = "Running"

\* Faulty variant: the test is inverted
HasDcmiDemand_Inverted == \E a \in Addrs : Registered(a) /\ obj[a].state \in {"Created", "Configured"}

\* HasDcmiDemand: a session that was started and is not disabled, stopped or not
HasDcmiDemand == \E a \in Addrs : Registered(a) /\ obj[a].state \in {"Running", "Stopped"}

\* Faulty variant: only the configured sessions that have not been started
CollectNeeds_Configured == UNION {obj[a].metrics : a \in {b \in Addrs : obj[b].state = "Configured"}}

\* CollectNeeds: the interface groups of the running sessions
CollectNeeds == UNION {obj[a].metrics : a \in {b \in Addrs : Running(b)}}

TablesUnchanged == UNCHANGED <<objects, ptrIndex, issued, crossed>>
TicksUnchanged == UNCHANGED <<needs, tickWork, work, ticks, clock>>

\* A call ends and lets its object go
Return(t) ==
  /\ pc' = [pc EXCEPT ![t] = "out"]
  /\ op' = [op EXCEPT ![t] = "none"]
  /\ arg' = [arg EXCEPT ![t] = 0]
  /\ held' = [held EXCEPT ![t] = NoAddr]

Goto(t, p) == pc' = [pc EXCEPT ![t] = p] /\ UNCHANGED <<op, arg, held>>

-----------------------------------------------------------------------------
(* Handles: Enable, GetLiveObject *)

InUse(a) == Registered(a) \/ \E t \in Callers : held[t] = a

\* The calls that change a session, and the devices one of them is at work on.
\* crossed remembers where a second one came before the first had returned.
Controls == {"SetConfig", "Start", "Stop", "Disable"}
Controlled(d) == \E t \in Callers : op[t] \in Controls /\ obj[held[t]].dev = d

Enable(t, d, a) ==
  /\ pc[t] = "out" /\ objects[d] = NoAddr /\ ~InUse(a)
  /\ Len(issued) < MaxSessions
  /\ objects' = [objects EXCEPT ![d] = a]
  /\ obj' = [obj EXCEPT ![a] = [NoObj EXCEPT !.id = Len(issued) + 1, !.dev = d]]
  /\ ptrIndex' = [ptrIndex EXCEPT ![a] = [dev |-> d, alive |-> TRUE]]
  /\ issued' = Append(issued, a)
  /\ crossed' = IF Controlled(d) THEN crossed \cup {d} ELSE crossed
  /\ UNCHANGED <<parsers, pc, op, arg, held, collectorVars>> /\ TicksUnchanged

\* The object a handle stands for, or none: only the pointer's value is compared
LiveObject(n) ==
  LET a == issued[n] IN
  IF ptrIndex[a].alive /\ objects[ptrIndex[a].dev] = a THEN a ELSE NoAddr

\* A call with handle n finds its object and goes on to p
Begin(t, n, o, p) ==
  /\ pc[t] = "out" /\ o \in ClientOps /\ n \in 1 .. Len(issued) /\ LiveObject(n) # NoAddr
  /\ pc' = [pc EXCEPT ![t] = p]
  /\ op' = [op EXCEPT ![t] = o]
  /\ arg' = [arg EXCEPT ![t] = n]
  /\ held' = [held EXCEPT ![t] = LiveObject(n)]
  /\ crossed' = IF o \in Controls /\ Controlled(obj[LiveObject(n)].dev)
                  THEN crossed \cup {obj[LiveObject(n)].dev} ELSE crossed
  /\ UNCHANGED <<obj, parsers, issued, collectorVars>> /\ TicksUnchanged

TablesKept == UNCHANGED <<objects, ptrIndex>>
SetConfig(t, n) == Begin(t, n, "SetConfig", "set") /\ TablesKept
Start(t, n) == Begin(t, n, "Start", "run") /\ TablesKept
Stop(t, n) == Begin(t, n, "Stop", "check") /\ TablesKept
GetCounterDataSize(t, n) == Begin(t, n, "GetCounterDataSize", "set") /\ TablesKept
DecodeData(t, n) == Begin(t, n, "DecodeData", "check") /\ TablesKept

\* Disable claims the session: no other call can find it from then on
Disable(t, n) ==
  /\ Begin(t, n, "Disable", "check")
  /\ ptrIndex' = [ptrIndex EXCEPT ![issued[n]].alive = FALSE]
  /\ objects' = [objects EXCEPT ![ptrIndex[issued[n]].dev] = NoAddr]

-----------------------------------------------------------------------------
(* The session object: SetConfig, GetCounterDataSize, DecodeData *)

ObjectOnly(t) == TablesUnchanged /\ TicksUnchanged /\ UNCHANGED <<parsers, collectorVars>>

\* Faulty variant: a reconfigured session keeps its samples
Configure_KeepsQueue(t, c) ==
  LET a == held[t] IN
  /\ pc[t] = "set" /\ op[t] = "SetConfig"
  /\ obj' = IF obj[a].state = "Running" THEN obj
            ELSE [obj EXCEPT ![a].metrics = c.metrics, ![a].keep = c.keep, ![a].state = "Configured"]
  /\ Return(t) /\ ObjectOnly(t)

Configure(t, c) ==
  LET a == held[t] IN
  /\ pc[t] = "set" /\ op[t] = "SetConfig"
  /\ obj' = IF obj[a].state = "Running" THEN obj
            ELSE [obj EXCEPT ![a].metrics = c.metrics, ![a].keep = c.keep,
                             ![a].state = "Configured",
                             ![a].queue = IF obj[a].state = "Stopped" THEN <<>> ELSE @]
  /\ Return(t) /\ ObjectOnly(t)

SetImageInfo(t) ==
  /\ pc[t] = "set" /\ op[t] = "GetCounterDataSize"
  /\ obj' = [obj EXCEPT ![held[t]].plan = obj[held[t]].metrics]
  /\ Return(t) /\ ObjectOnly(t)

\* The state, the plan and the metrics are looked at before anything is consumed
CanDecode(a) == obj[a].state \in {"Running", "Stopped"} /\ obj[a].plan # {} /\ obj[a].plan = obj[a].metrics

DecodeChecked(t) ==
  /\ pc[t] = "check" /\ op[t] = "DecodeData"
  /\ IF CanDecode(held[t]) THEN Goto(t, "drain") ELSE Return(t)
  /\ UNCHANGED obj /\ ObjectOnly(t)

\* DrainSamples, then WriteSamples, which refuses samples of other metrics
DrainSamples(t) ==
  LET a == held[t]
      n == IF Len(obj[a].queue) < DecodeMax THEN Len(obj[a].queue) ELSE DecodeMax IN
  /\ pc[t] = "drain"
  /\ obj' = [obj EXCEPT ![a].queue = SubSeq(@, n + 1, Len(@))]
  /\ IF \A i \in 1 .. n : obj[a].queue[i].metrics \subseteq obj[a].plan
       THEN Goto(t, "overflow") ELSE Return(t)
  /\ ObjectOnly(t)

ConsumeOverflow(t) ==
  /\ pc[t] = "overflow"
  /\ obj' = [obj EXCEPT ![held[t]].overflowed = FALSE, ![held[t]].told = @ \/ obj[held[t]].overflowed]
  /\ Return(t) /\ ObjectOnly(t)

-----------------------------------------------------------------------------
(* StartCollectors *)

\* The session is Running before the threads are started
ObjectStart(t) ==
  LET a == held[t] IN
  /\ pc[t] = "run"
  /\ IF obj[a].state \in {"Configured", "Stopped"}
       THEN /\ obj' = [obj EXCEPT ![a].state = "Running"]
            /\ call' = [call EXCEPT ![t] = "start"]
            /\ Goto(t, "collector")
       ELSE Return(t) /\ UNCHANGED <<obj, call>>
  /\ TablesUnchanged /\ TicksUnchanged
  /\ UNCHANGED <<parsers, running, mtx, coordinator, worker, seen, asleep, tickGen, doneGen, doneCount>>

CollectorReady(t) ==
  /\ pc[t] = "collector"
  /\ StartAgain(t) \/ StartThreads(t)
  /\ Goto(t, "parser")
  /\ TablesUnchanged /\ TicksUnchanged /\ UNCHANGED <<obj, parsers>>

CollectorFails(t) ==
  /\ pc[t] = "collector"
  /\ StartFails(t)
  /\ Goto(t, "rollback")
  /\ TablesUnchanged /\ TicksUnchanged /\ UNCHANGED <<obj, parsers>>

\* Faulty variant: a session whose collector did not start stays Running
Rollback_Stays(t) ==
  /\ pc[t] = "rollback"
  /\ UNCHANGED obj
  /\ Return(t) /\ ObjectOnly(t)

\* A session that was stopped meanwhile stays as it is
Rollback(t) ==
  /\ pc[t] = "rollback"
  /\ obj' = [obj EXCEPT ![held[t]].state = IF @ = "Running" THEN "Stopped" ELSE @]
  /\ Return(t) /\ ObjectOnly(t)

MakeParser(t) ==
  LET a == held[t] IN
  /\ pc[t] = "parser"
  /\ parsers' = [parsers EXCEPT ![obj[a].dev] = [NoParser EXCEPT !.metrics = obj[a].metrics]]
  /\ Return(t)
  /\ TablesUnchanged /\ TicksUnchanged /\ UNCHANGED <<obj, collectorVars>>

-----------------------------------------------------------------------------
(* StopCollectors, called by Stop and by Disable *)

\* Both look at the state first; only a running session is stopped
CheckRunning(t) ==
  /\ pc[t] = "check" /\ op[t] \in {"Stop", "Disable"}
  /\ \/ obj[held[t]].state = "Running" /\ Goto(t, "flush")
     \/ obj[held[t]].state # "Running" /\ op[t] = "Disable" /\ Goto(t, "erase")
     \/ obj[held[t]].state # "Running" /\ op[t] = "Stop" /\ Return(t)
  /\ UNCHANGED obj /\ ObjectOnly(t)

FlushParser(t) ==
  /\ pc[t] = "flush"
  /\ parsers' = [parsers EXCEPT ![obj[held[t]].dev] = NoParser]
  /\ Goto(t, "stop")
  /\ TablesUnchanged /\ TicksUnchanged /\ UNCHANGED <<obj, collectorVars>>

ObjectStop(t) ==
  /\ pc[t] = "stop"
  /\ obj' = [obj EXCEPT ![held[t]].state = IF @ = "Running" THEN "Stopped" ELSE @]
  /\ call' = [call EXCEPT ![t] = "stop"]
  /\ Goto(t, "leave")
  /\ TablesUnchanged /\ TicksUnchanged
  /\ UNCHANGED <<parsers, running, mtx, coordinator, worker, seen, asleep, tickGen, doneGen, doneCount>>

CollectorStops(t) ==
  /\ pc[t] = "leave"
  /\ StopNotNeeded(t, HasDcmiDemand) \/ StopThreads(t, HasDcmiDemand) \/ StopSteps(t)
  /\ TablesUnchanged /\ TicksUnchanged /\ UNCHANGED <<obj, parsers, pc, op, arg, held>>

StopCollectorsDone(t) ==
  /\ pc[t] = "leave" /\ call[t] = "out"
  /\ IF op[t] = "Disable" THEN Goto(t, "erase") ELSE Return(t)
  /\ UNCHANGED obj /\ ObjectOnly(t)

\* Disable takes the parser of the device out, whoever it belongs to
EraseParser(t) ==
  /\ pc[t] = "erase"
  /\ parsers' = [parsers EXCEPT ![obj[held[t]].dev] = NoParser]
  /\ Return(t)
  /\ TablesUnchanged /\ TicksUnchanged /\ UNCHANGED <<obj, collectorVars>>

-----------------------------------------------------------------------------
(* The collector's threads at work *)

SessionsUnchanged == UNCHANGED <<obj, parsers, pc, op, arg, held>> /\ TablesUnchanged

\* ShouldCollectDcmi: some session runs, and its interval has passed
ShouldCollectDcmi == ticks < MaxTicks /\ \E a \in Addrs : Running(a)

CoordinatorTicks == TickDue(ShouldCollectDcmi) /\ SessionsUnchanged /\ TicksUnchanged

LookUpNeeds ==
  /\ NeedsKnown
  /\ needs' = CollectNeeds
  /\ SessionsUnchanged /\ UNCHANGED <<tickWork, work, ticks, clock>>

BroadcastTick ==
  /\ Broadcast
  /\ \E step \in ClockSteps :
       /\ clock + step > 0
       /\ clock' = clock + step
       /\ tickWork' = [needs |-> needs, ts |-> clock + step]
  /\ ticks' = ticks + 1
  /\ SessionsUnchanged /\ UNCHANGED <<needs, work>>

WorkerTakesTick(w) ==
  /\ WorkerWaits(w)
  /\ work' = IF worker'[w] = "collect" THEN [work EXCEPT ![w] = tickWork] ELSE work
  /\ SessionsUnchanged /\ UNCHANGED <<needs, tickWork, ticks, clock>>

\* Faulty variant: the newest sample of a full queue is replaced
Enqueue_Newest(o, s) ==
  IF Len(o.queue) < QueueCap THEN [o EXCEPT !.queue = Append(@, s)]
  ELSE IF o.keep = "oldest" THEN [o EXCEPT !.overflowed = TRUE]
  ELSE [o EXCEPT !.overflowed = TRUE, !.queue = Append(SubSeq(@, 1, Len(@) - 1), s)]

\* Faulty variant: the queue grows by one more
Enqueue_OffByOne(o, s) ==
  IF Len(o.queue) <= QueueCap THEN [o EXCEPT !.queue = Append(@, s)] ELSE [o EXCEPT !.overflowed = TRUE]

\* EnqueueSample: a full queue keeps its oldest or its latest samples
Enqueue(o, s) ==
  IF Len(o.queue) < QueueCap THEN [o EXCEPT !.queue = Append(@, s)]
  ELSE IF o.keep = "oldest" THEN [o EXCEPT !.overflowed = TRUE]
  ELSE [o EXCEPT !.overflowed = TRUE, !.queue = Append(Tail(@), s)]

\* OnDcmiSample under the manager's lock: the first sample of a parser, and one
\* from before the last, only become the base of the next window.  emitted tells
\* whether the session's queue has taken a window since the base.
OnDcmiSample(w) ==
  LET p == parsers[w]
      a == objects[w]
      base == p.prev = 0 \/ work[w].ts < p.prev
      window == [start |-> p.prev, end |-> work[w].ts, first |-> ~p.emitted,
                 metrics |-> p.metrics, needs |-> work[w].needs]
      emits == ~base /\ a # NoAddr /\ obj[a].state = "Running"
      taken == Len(obj[a].queue) < QueueCap \/ obj[a].keep # "oldest" IN
  IF w \notin Devices \/ p.metrics = {} THEN UNCHANGED <<parsers, obj>>
  ELSE /\ parsers' = [parsers EXCEPT ![w].prev = work[w].ts,
                                    ![w].emitted = ~base /\ (p.emitted \/ (emits /\ taken))]
       /\ obj' = IF emits THEN [obj EXCEPT ![a] = Enqueue(@, window)] ELSE obj

CollectDevice(w) ==
  /\ Collect(w)
  /\ OnDcmiSample(w)
  /\ work' = [work EXCEPT ![w] = NoWork]
  /\ UNCHANGED <<pc, op, arg, held, needs, tickWork, ticks, clock>> /\ TablesUnchanged

CollectorMoves ==
  /\ LoopEnds \/ AwaitDone \/ SayGoodbye \/ \E w \in Workers : Report(w)
  /\ SessionsUnchanged /\ TicksUnchanged

-----------------------------------------------------------------------------
CallSteps(t) ==
  \/ \E c \in Configs : Configure(t, c)
  \/ SetImageInfo(t) \/ DecodeChecked(t) \/ DrainSamples(t) \/ ConsumeOverflow(t)
  \/ ObjectStart(t) \/ CollectorReady(t) \/ CollectorFails(t) \/ Rollback(t) \/ MakeParser(t)
  \/ CheckRunning(t) \/ FlushParser(t) \/ ObjectStop(t) \/ CollectorStops(t)
  \/ StopCollectorsDone(t) \/ EraseParser(t)

CollectorSteps ==
  \/ LookUpNeeds \/ BroadcastTick \/ CollectorMoves
  \/ \E w \in Workers : WorkerTakesTick(w) \/ CollectDevice(w)

Next ==
  \/ \E t \in Callers, n \in 1 .. MaxSessions :
       \/ SetConfig(t, n) \/ Start(t, n) \/ Stop(t, n) \/ Disable(t, n)
       \/ GetCounterDataSize(t, n) \/ DecodeData(t, n)
  \/ \E t \in Callers, d \in Devices, a \in Addrs : Enable(t, d, a)
  \/ \E t \in Callers : CallSteps(t)
  \/ CoordinatorTicks \/ CollectorSteps

\* Threads run on; the client's calls and the ticks' interval promise nothing
Fairness ==
  /\ \A t \in Callers : WF_vars(CallSteps(t))
  /\ WF_vars(LookUpNeeds \/ BroadcastTick) /\ WF_vars(CollectorMoves)
  /\ \A w \in Workers : WF_vars(WorkerTakesTick(w)) /\ WF_vars(CollectDevice(w))

Spec == Init /\ [][Next]_vars /\ Fairness

-----------------------------------------------------------------------------
Calling(d) == \E t \in DOMAIN held : held[t] # NoAddr /\ obj[held[t]].dev = d

\* Sessions on which no call is under way, and whose calls never overlapped
Settled(d) == objects[d] # NoAddr /\ ~Calling(d) /\ d \notin crossed
RunningOn(d) == objects[d] # NoAddr /\ obj[objects[d]].state = "Running"

\* A running session has its collector: whoever started or stopped it, and
\* whichever demand a concurrent StopCollector saw, the threads run once the
\* calls on the session have returned (pm_sampling_manager.cpp:138-139).
CollectorServes ==
  \A d \in Devices : RunningOn(d) /\ ~Calling(d) => running

\* A running session has a parser of its own metrics, without which its samples
\* are dropped, as long as the calls that change its device's sessions do not
\* overlap.
SessionHasParser ==
  \A d \in Devices : Settled(d) /\ RunningOn(d) => parsers[d].metrics = obj[objects[d]].metrics

Samples(d) == IF objects[d] = NoAddr THEN {} ELSE Range(obj[objects[d]].queue)

\* The samples a session holds have its own metrics, so that WriteSamples never
\* refuses what DrainSamples has already taken out (pm_sampling_object.cpp:70).
OwnSamples ==
  \A d \in Devices \ crossed : \A s \in Samples(d) : s.metrics = obj[objects[d]].metrics

\* What a sample reports was read from the device: the tick that ends its window
\* asked for every interface its metrics need.
WindowsMeasured ==
  \A d \in Devices \ crossed : \A s \in Samples(d) : s.metrics \subseteq s.needs

\* The windows a queue has taken since a base, a start or a step back of the
\* clock, follow each other without overlap, and a hole between two of them is
\* one the client is told of: the queue kept its oldest samples.
GapsReported ==
  \A d \in Devices \ crossed : objects[d] # NoAddr =>
    LET o == obj[objects[d]] IN
    \A i \in 1 .. Len(o.queue) - 1 :
      \/ o.queue[i + 1].first
      \/ o.queue[i + 1].start = o.queue[i].end
      \/ o.queue[i + 1].start > o.queue[i].end /\ o.keep = "oldest" /\ (o.overflowed \/ o.told)

\* Every call returns, StopCollector's joins under mtx_ included: they wait for
\* threads that call back into the manager (dcmi_collector.cpp:120-144).
CallsReturn == \A t \in Callers : pc[t] # "out" ~> pc[t] = "out"

\* What the comment at pm_sampling_manager.cpp:138-139 is after: no session is
\* Running and silently without data once its calls have returned.
NoSilentSession ==
  \A d \in Devices : RunningOn(d) /\ ~Calling(d) => parsers[d].metrics = obj[objects[d]].metrics

(* The collector and the parsers serve the sessions that are Running.        *)
SessionsInv == TypeOK /\ CollectorServes /\ SessionHasParser

(* A session's samples are its own, measured, and told of when some are lost. *)
SamplesInv == OwnSamples /\ WindowsMeasured /\ GapsReported
=============================================================================
