---------------------------- MODULE Communication ----------------------------
(***************************************************************************)
(* The parsers of collective operations.  A host thread reports, for each  *)
(* task of an operation, the task's track and the call that launched it    *)
(* (CannTrackCache), then the launch of the whole operation, and at some   *)
(* point what is said of it besides (the "info").  Each task registers a   *)
(* callback with DeviceTaskCalculator, which the consumer of the device's  *)
(* channel runs when the task has ended; CommunicationCalculator counts    *)
(* the aging tasks and records the operation with its last task.           *)
(***************************************************************************)
EXTENDS HostGate, Sequences, SequencesExt, FiniteSets, FiniteSetsExt

CONSTANTS
    Threads,    \* host threads
    Consumers,  \* the devices' consumer threads
    CommKeys,   \* dstKeys
    HomeOf,     \* the device of a key
    CommGraphKeys, \* the keys whose tasks belong to a graph
    FftsKeys,   \* keys whose tasks have sub tasks
    MaxOps,     \* a bound: operations
    MaxTasks,   \* a bound: tasks of one operation
    MaxReruns   \* a bound: runs of graphs' tasks

ASSUME CommAssumption ==
    /\ HomeOf \in [CommKeys -> Consumers] /\ FftsKeys \subseteq CommKeys /\ CommGraphKeys \subseteq CommKeys
    /\ MaxOps \in Nat /\ MaxTasks \in Nat /\ MaxReruns \in Nat

VARIABLES
    ops,        \* the operations so far: thread, whether aging, the keys of its tasks, its last Clear, race
    caller,     \* a host thread: where it is
    cache,      \* threadCaches_: lastTask, lastCommunication and nodeLaunchId of a thread
    queue,      \* assembleTaskQueue_
    tasks,      \* assembleTasks_ and completeFunc_, by key
    task2Op,    \* communicationTask2Op_
    events,     \* eventId2Communication_
    infos,      \* communicationOpInfoQueue_
    keptInfo,   \* taskId2AdditionInfo_
    count,      \* pendingCommunicationCount_
    taskRuns,   \* the task of every run
    logs,       \* the records each consumer has still to see
    worker,     \* a consumer inside ReportStarsSocLog
    reports,    \* what was handed to Record, in order
    clearing,   \* what Clear empties next
    clears,     \* Clears so far
    debt        \* tasks whose count a Clear took away, less those it took without their count

commVars == <<ops, caller, cache, queue, tasks, task2Op, events, infos, keptInfo, count, taskRuns,
              logs, worker, reports, clearing, clears, debt>>

Nothing == <<0, 0>>
OpIds == 1 .. MaxOps
Tasks == OpIds \X (1 .. MaxTasks)
MaxCommRuns == MaxOps * MaxTasks + MaxReruns
Never == MaxCommRuns + 1                      \* UINT64_MAX, as a start time
EventIds == Threads \X (0 .. MaxOps)
NewCache == [lastTask |-> Nothing, lastComm |-> Nothing, nodeLaunchId |-> 0]
IdleCaller(t) == [pc |-> "idle", op |-> 0, event |-> <<t, 0>>, cached |-> TRUE, informs |-> FALSE]
KeyOf(t) == ops[t[1]].keys[t[2]]
AgingOp(o) == ops[o].aging
LastTask(o) == <<o, Len(ops[o].keys)>>

DeviceTasks == [task: Tasks, start: 0 .. MaxCommRuns, subs: SUBSET (1 .. MaxCommRuns)]
TaskRefs == [event: EventIds, isLast: BOOLEAN, aging: BOOLEAN, counted: BOOLEAN]
OpDescs == [op: OpIds, aging: BOOLEAN, start: 0 .. Never]

(* Every variable keeps its type; what is recorded has been described.       *)
CommTypeOK ==
    /\ GateTypeOK
    /\ \A o \in DOMAIN ops : ops[o] \in [thread: Threads, aging: BOOLEAN, keys: Seq(CommKeys), informed: BOOLEAN, raced: BOOLEAN]
    /\ caller \in [Threads -> [pc: {"idle", "track", "api", "check", "count", "register", "enter", "node", "append", "mark"},
                              op: {0} \cup OpIds, event: EventIds, cached: BOOLEAN, informs: BOOLEAN]]
    /\ \A t \in Threads : /\ cache[t].lastTask \in {Nothing} \cup Tasks
                          /\ cache[t].lastComm \in {Nothing} \cup Tasks /\ cache[t].nodeLaunchId \in 0 .. MaxOps
    /\ queue \in Seq(Tasks)
    /\ \A k \in DOMAIN tasks : tasks[k] \in DeviceTasks
    /\ \A k \in DOMAIN task2Op : task2Op[k] \in TaskRefs
    /\ \A e \in DOMAIN events : events[e] \in OpDescs
    /\ infos \in [Threads -> SUBSET OpIds] /\ DOMAIN keptInfo \subseteq CommKeys
    /\ \A i \in DOMAIN reports : reports[i].op \in OpIds /\ reports[i].info \in OpIds
    /\ count \in Int /\ clears \in 0 .. MaxSessions /\ debt \in Int
    /\ clearing \in {"tasks", "infos", "count"}
    /\ worker \in [Consumers -> {"idle", "deal", "assemble"}]

CommInit ==
    /\ GateInit
    /\ ops = <<>> /\ caller = [t \in Threads |-> IdleCaller(t)] /\ cache = [t \in Threads |-> NewCache]
    /\ queue = <<>> /\ tasks = <<>> /\ task2Op = <<>> /\ events = <<>>
    /\ infos = [t \in Threads |-> {}] /\ keptInfo = <<>> /\ count = 0
    /\ taskRuns = <<>> /\ logs = [c \in Consumers |-> <<>>] /\ worker = [c \in Consumers |-> "idle"]
    /\ reports = <<>> /\ clearing = "tasks" /\ clears = 0 /\ debt = 0

IsHostReportAllowed == gate.switch /\ ~RefusesReport

Put(f, x, y) == [z \in DOMAIN f \cup {x} |-> IF z = x THEN y ELSE f[z]]
Drop(f, x) == [z \in DOMAIN f \ {x} |-> f[z]]
Raced(os) == [o \in DOMAIN ops |-> [ops[o] EXCEPT !.raced = @ \/ o \in os]]

----------------------------------------------------------------------------
(* The host thread.  The runtime reports the track of a task, then the call  *)
(* that launched it, and after the last task the call that launched the      *)
(* operation.  An operation is raced when one of these is refused, or when   *)
(* a Clear or the device is ahead of them; and so is one that such an        *)
(* operation's tasks, of an earlier session, share the launch id with.       *)
OpBegins(t, aging) ==
    /\ caller[t].pc = "idle" /\ Len(ops) < MaxOps
    /\ ops' = Append(ops, [thread |-> t, aging |-> aging, keys |-> <<>>, informed |-> FALSE, raced |-> FALSE])
    /\ caller' = [caller EXCEPT ![t] = [IdleCaller(t) EXCEPT !.pc = "track", !.op = Len(ops) + 1]]
    /\ UNCHANGED <<gate, cache, queue, tasks, task2Op, events, infos, keptInfo, count, taskRuns, logs, worker, reports, clearing, clears, debt>>

Times(task) == Cardinality({n \in DOMAIN taskRuns : taskRuns[n] = task})

(* Operations that use a key while another one is still being reported, or a *)
(* record of it is outstanding.                                              *)
Outstanding(p, k) ==
    \E j \in DOMAIN ops[p].keys :
        /\ ops[p].keys[j] = k
        /\ \/ ~AgingOp(p) \/ \E t \in Threads : caller[t].op = p \/ Times(<<p, j>>) = 0
           \/ \E i \in DOMAIN logs[HomeOf[k]] : taskRuns[logs[HomeOf[k]][i].run] = <<p, j>>
Sharing(o, k) ==
    IF k \in DOMAIN task2Op \/ k \in Range(ops[o].keys) \/ \E p \in DOMAIN ops \ {o} : Outstanding(p, k)
    THEN {o} \cup {p \in DOMAIN ops : k \in Range(ops[p].keys)} ELSE {}

(* AppendTsTrack: the thread's last track; the task will run in any case.    *)
TaskTrack(t, k) ==
    LET o == caller[t].op IN
    /\ caller[t].pc = "track" /\ ~caller[t].informs
    /\ (k \in CommGraphKeys) = ~AgingOp(o)
    /\ ops' = [Raced(Sharing(o, k)) EXCEPT ![o].keys = Append(@, k),
                                          ![o].raced = @ \/ ~IsHostReportAllowed \/ Sharing(o, k) # {}]
    /\ cache' = IF IsHostReportAllowed THEN [cache EXCEPT ![t].lastTask = <<o, Len(ops[o].keys) + 1>>] ELSE cache
    /\ caller' = [caller EXCEPT ![t].pc = "api"]
    /\ UNCHANGED <<gate, queue, tasks, task2Op, events, infos, keptInfo, count, taskRuns, logs, worker, reports, clearing, clears, debt>>

(* AppendCommunication: the call's own track must be the thread's last one.  *)
(* It goes on with the cache it has found, which StopTask may take from the  *)
(* map meanwhile.                                                            *)
InTrackRange(t) == cache[t].lastTask = <<caller[t].op, Len(ops[caller[t].op].keys)>>

CommunicationApi(t) ==
    /\ caller[t].pc = "api"
    /\ IF IsHostReportAllowed /\ InTrackRange(t)
       THEN /\ caller' = [caller EXCEPT ![t].pc = "check", ![t].cached = TRUE, ![t].event = <<t, cache[t].nodeLaunchId>>]
            /\ UNCHANGED ops
       ELSE caller' = [caller EXCEPT ![t].pc = "node"] /\ ops' = Raced({caller[t].op})
    /\ UNCHANGED <<gate, cache, queue, tasks, task2Op, events, infos, keptInfo, count, taskRuns, logs, worker, reports, clearing, clears, debt>>

Remembers(t) ==
    IF caller[t].cached THEN [cache EXCEPT ![t].lastComm = <<caller[t].op, Len(ops[caller[t].op].keys)>>] ELSE cache

(* AppendCommunicationTask: the gate,                                        *)
AppendIsAllowed_Unchecked == TRUE
AppendIsAllowed == IsHostReportAllowed

AppendChecks(t) ==
    /\ caller[t].pc = "check"
    /\ IF AppendIsAllowed
       THEN /\ caller' = [caller EXCEPT ![t].pc = IF AgingOp(caller[t].op) THEN "count" ELSE "register"]
            /\ UNCHANGED <<cache, ops>>
       ELSE /\ caller' = [caller EXCEPT ![t].pc = "node"]
            /\ cache' = Remembers(t)
            /\ ops' = Raced({caller[t].op})
    /\ UNCHANGED <<gate, queue, tasks, task2Op, events, infos, keptInfo, count, taskRuns, logs, worker, reports, clearing, clears, debt>>

(* then the count of an aging task,                                          *)
AppendCounts(t) ==
    /\ caller[t].pc = "count"
    /\ count' = count + 1
    /\ caller' = [caller EXCEPT ![t].pc = "register"]
    /\ UNCHANGED <<gate, ops, cache, queue, tasks, task2Op, events, infos, keptInfo, taskRuns, logs, worker, reports, clearing, clears, debt>>

(* then the callback,                                                        *)
RegisterCallBack(t) ==
    /\ caller[t].pc = "register"
    /\ queue' = Append(queue, <<caller[t].op, Len(ops[caller[t].op].keys)>>)
    /\ caller' = [caller EXCEPT ![t].pc = "enter"]
    /\ UNCHANGED <<gate, ops, cache, tasks, task2Op, events, infos, keptInfo, count, taskRuns, logs, worker, reports, clearing, clears, debt>>

(* and the entry last, over an older one whose count it gives back.          *)
GivesBack_Never(k) == FALSE
GivesBack(k) == k \in DOMAIN task2Op /\ task2Op[k].counted

EntersTask(t, more) ==
    LET o == caller[t].op k == Last(ops[o].keys) IN
    /\ caller[t].pc = "enter"
    /\ count' = IF GivesBack(k) THEN count - 1 ELSE count
    /\ task2Op' = Put(task2Op, k, [event |-> caller[t].event, isLast |-> FALSE, aging |-> AgingOp(o), counted |-> AgingOp(o)])
    /\ cache' = Remembers(t)
    /\ caller' = [caller EXCEPT ![t].pc = IF more /\ Len(ops[o].keys) < MaxTasks THEN "track" ELSE "node"]
    /\ UNCHANGED <<gate, ops, queue, tasks, events, infos, keptInfo, taskRuns, logs, worker, reports, clearing, clears, debt>>

(* AppendCompactInfo, some time within the operation: the gate, and the      *)
(* insertion under communicationOpInfoMutex_.                                *)
AppendCompactInfo(t) ==
    LET o == caller[t].op IN
    /\ caller[t].pc \in {"track", "node"} /\ ~ops[o].informed
    /\ ops' = [ops EXCEPT ![o].informed = TRUE, ![o].raced = @ \/ ~IsHostReportAllowed]
    /\ caller' = [caller EXCEPT ![t].informs = IsHostReportAllowed]
    /\ UNCHANGED <<gate, cache, queue, tasks, task2Op, events, infos, keptInfo, count, taskRuns, logs, worker, reports, clearing, clears, debt>>

InsertsInfo(t) ==
    /\ caller[t].informs
    /\ caller' = [caller EXCEPT ![t].informs = FALSE]
    /\ infos' = [infos EXCEPT ![t] = @ \cup {caller[t].op}]
    /\ UNCHANGED <<gate, ops, cache, queue, tasks, task2Op, events, keptInfo, count, taskRuns, logs, worker, reports, clearing, clears, debt>>

(* AppendNodeLunch: the launch takes the id its tasks have been entered      *)
(* under, if the thread's last task is one of its own.                       *)
NodeLaunch(t) ==
    LET o == caller[t].op IN
    /\ caller[t].pc = "node" /\ ops[o].informed /\ ~caller[t].informs
    /\ IF IsHostReportAllowed /\ cache[t].lastComm[1] = o
       THEN /\ caller' = [caller EXCEPT ![t].pc = "append", ![t].event = <<t, cache[t].nodeLaunchId>>]
            /\ cache' = [cache EXCEPT ![t].nodeLaunchId = @ + 1]
            /\ UNCHANGED ops
       ELSE caller' = [caller EXCEPT ![t] = IdleCaller(t)] /\ ops' = Raced({o}) /\ UNCHANGED cache
    /\ UNCHANGED <<gate, queue, tasks, task2Op, events, infos, keptInfo, count, taskRuns, logs, worker, reports, clearing, clears, debt>>

(* AppendApi2TaskInfo: the gate, and under hcclTaskMutex_ the operation's    *)
(* entry under its id, its last task known as the last if the device has not *)
(* been faster.                                                              *)
MarksLast_First(o) == LET k == ops[o].keys[1]
                      IN  IF k \in DOMAIN task2Op THEN [task2Op EXCEPT ![k].isLast = TRUE] ELSE task2Op
MarksLast_Never(o) == task2Op
MarksLast(o) == LET k == Last(ops[o].keys)
                IN  IF k \in DOMAIN task2Op THEN [task2Op EXCEPT ![k].isLast = TRUE] ELSE task2Op

AppendApi2TaskInfo(t) ==
    /\ caller[t].pc = "append"
    /\ IF IsHostReportAllowed
       THEN caller' = [caller EXCEPT ![t].pc = "mark"] /\ UNCHANGED ops
       ELSE caller' = [caller EXCEPT ![t] = IdleCaller(t)] /\ ops' = Raced({caller[t].op})
    /\ UNCHANGED <<gate, cache, queue, tasks, task2Op, events, infos, keptInfo, count, taskRuns, logs, worker, reports, clearing, clears, debt>>

InsertsOp(t) ==
    LET o == caller[t].op e == caller[t].event IN
    /\ caller[t].pc = "mark"
    /\ caller' = [caller EXCEPT ![t] = IdleCaller(t)]
    /\ task2Op' = MarksLast(o)
    /\ events' = Put(events, e, [op |-> o, aging |-> AgingOp(o), start |-> Never])
    /\ ops' = IF e \in DOMAIN events THEN Raced({o, events[e].op}) ELSE ops
    /\ UNCHANGED <<gate, cache, queue, tasks, infos, keptInfo, count, taskRuns, logs, worker, reports, clearing, clears, debt>>

----------------------------------------------------------------------------
(* The device runs the tasks of a key in their order, those of a graph       *)
(* again and again, one replay of the operation after the other.             *)
Launched(o) == \A t \in Threads : caller[t].op # o \/ caller[t].pc \in {"idle", "append", "mark"}

Ready(o, i) ==
    LET k == ops[o].keys[i] IN
    /\ IF AgingOp(o) THEN Times(<<o, i>>) = 0
       ELSE /\ Launched(o)
            /\ \A j \in DOMAIN ops[o].keys : Times(<<o, j>>) = Times(<<o, i>>) + (IF j < i THEN 1 ELSE 0)
    /\ \A p \in 1 .. o : \A j \in DOMAIN ops[p].keys :
          ops[p].keys[j] = k /\ (p < o \/ j < i) => Times(<<p, j>>) > 0

RunsCommTask(o, i) ==
    LET k == ops[o].keys[i] n == Len(taskRuns) + 1
        log(kind) == [key |-> k, kind |-> kind, run |-> n]
    IN
    /\ Ready(o, i)
    /\ ~AgingOp(o) => Cardinality({m \in DOMAIN taskRuns : ~AgingOp(taskRuns[m][1])}) < MaxReruns
    /\ taskRuns' = Append(taskRuns, <<o, i>>)
    /\ logs' = [logs EXCEPT ![HomeOf[k]] =
                   @ \o <<log("BEGIN")>> \o (IF k \in FftsKeys THEN <<log("SUB")>> ELSE <<>>) \o <<log("END")>>]
    /\ UNCHANGED <<gate, ops, caller, cache, queue, tasks, task2Op, events, infos, keptInfo, count, worker, reports, clearing, clears, debt>>

(* ReportStarsSocLog: the switch,                                            *)
LogChecks(c) ==
    /\ worker[c] = "idle" /\ logs[c] # <<>>
    /\ IF IsActivityKindEnable
       THEN worker' = [worker EXCEPT ![c] = "deal"] /\ UNCHANGED <<logs, ops>>
       ELSE /\ logs' = [logs EXCEPT ![c] = Tail(@)]
            /\ ops' = Raced({taskRuns[Head(logs[c]).run][1]}) /\ UNCHANGED worker
    /\ UNCHANGED <<gate, caller, cache, queue, tasks, task2Op, events, infos, keptInfo, count, taskRuns, reports, clearing, clears, debt>>

(* DealCacheDeviceTask: the tasks registered since, where their key is free, *)
LogDeals(c) ==
    LET at(k) == SelectSeq(queue, LAMBDA task : KeyOf(task) = k)
        new == {KeyOf(task) : task \in Range(queue)} \ DOMAIN tasks
    IN
    /\ worker[c] = "deal"
    /\ worker' = [worker EXCEPT ![c] = "assemble"]
    /\ queue' = <<>>
    /\ tasks' = [k \in DOMAIN tasks \cup new |->
                    IF k \in new THEN [task |-> at(k)[1], start |-> 0, subs |-> {}] ELSE tasks[k]]
    /\ UNCHANGED <<gate, ops, caller, cache, task2Op, events, infos, keptInfo, count, taskRuns, logs, reports, clearing, clears, debt>>

(* AssembleTasksTimeWithSocLog and AssembleSubTasksTimeWithFftsLog, *)
Assembled(log) ==
    CASE log.kind = "BEGIN" -> [tasks EXCEPT ![log.key].start = log.run]
      [] log.kind = "SUB" -> [tasks EXCEPT ![log.key].subs = @ \cup {log.run}]
      [] OTHER -> IF AgingOp(tasks[log.key].task[1]) THEN Drop(tasks, log.key) ELSE tasks

StartOf(k) == IF tasks[k].subs # {} THEN Min(tasks[k].subs) ELSE tasks[k].start
EndOf(k, log) == IF tasks[k].subs # {} THEN Max(tasks[k].subs) ELSE log.run

(* and the callback, CommunicationCalculator::Record, within the same hold   *)
(* of the record.  ReportCommunication finds what is said of the operation   *)
(* among the thread's, or, for a graph, where its first replay has left it.  *)
InfoOf(e, k, aging) ==
    IF ~aging /\ k \in DOMAIN keptInfo THEN keptInfo[k]
    ELSE IF events[e].op \in infos[e[1]] THEN events[e].op ELSE 0

Earlier(a, b) == IF a < b THEN a ELSE b

Reported(e, k, log, aging) ==
    [op |-> events[e].op, info |-> InfoOf(e, k, aging), key |-> k,
     start |-> Earlier(events[e].start, StartOf(k)), end |-> EndOf(k, log), raced |-> ops[events[e].op].raced]

ReleasesCount_Twice(entry, aging) == aging
ReleasesCount(entry, aging) == aging /\ entry.counted

(* A task whose operation is not known yet: an aging one goes.               *)
RecordEarly(k, aging) ==
    /\ IF aging
       THEN /\ task2Op' = Drop(task2Op, k)
            /\ count' = IF ReleasesCount(task2Op[k], aging) THEN count - 1 ELSE count
       ELSE UNCHANGED <<task2Op, count>>
    /\ UNCHANGED <<events, reports, infos, keptInfo>>

RecordTask(k, log, aging) ==
    LET e == task2Op[k].event IN
    /\ task2Op' = [task2Op EXCEPT ![k].counted = @ /\ ~aging]
    /\ count' = IF ReleasesCount(task2Op[k], aging) THEN count - 1 ELSE count
    /\ events' = [events EXCEPT ![e].aging = aging, ![e].start = Earlier(@, StartOf(k))]
    /\ UNCHANGED <<reports, infos, keptInfo>>

(* Without what is said of it an operation is not recorded.                  *)
Described_Always(info) == TRUE
Described(info) == info # 0

RecordLast(k, log, aging) ==
    LET e == task2Op[k].event info == InfoOf(e, k, aging) IN
    /\ reports' = IF Described(info) THEN Append(reports, Reported(e, k, log, aging)) ELSE reports
    /\ infos' = IF ~aging /\ k \in DOMAIN keptInfo THEN infos ELSE [infos EXCEPT ![e[1]] = @ \ {info}]
    /\ keptInfo' = IF ~aging /\ k \notin DOMAIN keptInfo /\ info # 0 THEN Put(keptInfo, k, info) ELSE keptInfo
    /\ count' = IF ReleasesCount(task2Op[k], aging) THEN count - 1 ELSE count
    /\ IF aging
       THEN events' = Drop(events, e) /\ task2Op' = Drop(task2Op, k)
       ELSE events' = [events EXCEPT ![e].aging = FALSE, ![e].start = Never] /\ UNCHANGED task2Op

LogAssembles(c) ==
    LET log == Head(logs[c]) k == log.key own == taskRuns[log.run] IN
    /\ worker[c] = "assemble"
    /\ worker' = [worker EXCEPT ![c] = "idle"]
    /\ logs' = [logs EXCEPT ![c] = Tail(@)]
    /\ IF k \notin DOMAIN tasks
       THEN ops' = Raced({own[1]}) /\ UNCHANGED <<tasks, task2Op, count, events, reports, infos, keptInfo>>
       ELSE LET aging == AgingOp(tasks[k].task[1]) IN
            /\ tasks' = Assembled(log)
            /\ IF log.kind # "END" \/ k \notin DOMAIN task2Op
               THEN /\ ops' = IF log.kind = "END" \/ tasks[k].task # own THEN Raced({own[1]}) ELSE ops
                    /\ UNCHANGED <<task2Op, count, events, reports, infos, keptInfo>>
               ELSE /\ ops' = CASE task2Op[k].event \notin DOMAIN events \/ tasks[k].task # own -> Raced({own[1]})
                               [] ops[own[1]].raced -> Raced({events[task2Op[k].event].op})
                               [] OTHER -> ops
                    /\ IF task2Op[k].event \notin DOMAIN events THEN RecordEarly(k, aging)
                       ELSE IF task2Op[k].isLast THEN RecordLast(k, log, aging)
                       ELSE RecordTask(k, log, aging)
    /\ UNCHANGED <<gate, caller, cache, queue, taskRuns, clearing, clears, debt>>

----------------------------------------------------------------------------
(* StopTask empties the threads' caches; a thread inside goes on with its    *)
(* own.                                                                      *)
StopTask ==
    /\ StopsAnalysis
    /\ cache' = [t \in DOMAIN cache |-> NewCache]
    /\ caller' = [t \in DOMAIN caller |-> [caller[t] EXCEPT !.cached = FALSE]]
    /\ UNCHANGED <<ops, queue, tasks, task2Op, events, infos, keptInfo, count, taskRuns, logs, worker, reports, clearing, clears, debt>>

(* Clear: the aging tasks with the operations that have no task that stays,  *)
InFlight == {t \in Threads : caller[t].pc \in {"register", "enter"} /\ AgingOp(caller[t].op)}
Counted(entries) == Cardinality({k \in DOMAIN entries : entries[k].counted})
Done(o) == \E i \in DOMAIN reports : reports[i].op = o

ClearsTasks ==
    LET left == [k \in {q \in DOMAIN task2Op : ~task2Op[q].aging} |-> task2Op[k]]
        live == {left[k].event : k \in DOMAIN left}
    IN
    /\ At("clear") /\ clearing = "tasks" /\ clearing' = "infos"
    /\ task2Op' = left
    /\ events' = [e \in {d \in DOMAIN events : d \in live \/ ~events[d].aging} |-> events[e]]
    /\ debt' = debt - (Counted(task2Op) - Counted(left))
    /\ ops' = Raced({o \in DOMAIN ops : ~Done(o) /\ (AgingOp(o) \/ ~Launched(o))})
    /\ UNCHANGED <<gate, caller, cache, queue, tasks, infos, keptInfo, count, taskRuns, logs, worker, reports, clears>>

(* the aging infos under the other lock,                                     *)
ClearsInfos ==
    /\ At("clear") /\ clearing = "infos" /\ clearing' = "count"
    /\ infos' = [t \in DOMAIN infos |-> {o \in infos[t] : ~AgingOp(o)}]
    /\ UNCHANGED <<gate, ops, caller, cache, queue, tasks, task2Op, events, keptInfo, count, taskRuns, logs, worker, reports, clears, debt>>

(* and the count under none.                                                 *)
ClearsCount ==
    /\ clearing = "count" /\ clearing' = "tasks"
    /\ ClearsParser
    /\ count' = 0 /\ clears' = clears + 1
    /\ debt' = Counted(task2Op) + Cardinality(InFlight)
    /\ UNCHANGED <<ops, caller, cache, queue, tasks, task2Op, events, infos, keptInfo, taskRuns, logs, worker, reports>>

CommClears == ClearsTasks \/ ClearsInfos \/ ClearsCount

CommQuiet == \A t \in Threads : caller[t].pc \notin {"count", "register", "enter"}

CommSession ==
    /\ \/ Register
       \/ \E devices \in BOOLEAN : UnRegister(devices)
       \/ RetryReads(count, CommQuiet)
       \/ DrainEnds
       \/ SwitchesOff
       \/ ReopensGate
    /\ UNCHANGED commVars

CallerSteps(t) ==
    \/ \E k \in CommKeys : TaskTrack(t, k)
    \/ CommunicationApi(t)
    \/ AppendChecks(t)
    \/ AppendCounts(t)
    \/ RegisterCallBack(t)
    \/ \E more \in BOOLEAN : EntersTask(t, more)
    \/ AppendCompactInfo(t)
    \/ InsertsInfo(t)
    \/ NodeLaunch(t)
    \/ AppendApi2TaskInfo(t)
    \/ InsertsOp(t)

CommDeviceSteps ==
    \/ \E o \in DOMAIN ops : \E i \in DOMAIN ops[o].keys : RunsCommTask(o, i)
    \/ \E c \in Consumers : LogChecks(c) \/ LogDeals(c) \/ LogAssembles(c)

CommWork ==
    \/ \E t \in Threads : CallerSteps(t) \/ \E aging \in BOOLEAN : OpBegins(t, aging)
    \/ CommDeviceSteps

CommNext == CommSession \/ StopTask \/ CommClears \/ CommWork

----------------------------------------------------------------------------
(* An operation that the device did not overtake and no session's end cut is *)
(* recorded with the end of its last task, the earliest start of the tasks   *)
(* since its last record, and what was said of this operation.  The sub      *)
(* tasks of a graph are left out: they are never forgotten.                  *)
CommOwn ==
    \A i \in DOMAIN reports :
        LET r == reports[i]
            before == {reports[j].end : j \in {j \in 1 .. i - 1 : reports[j].op = r.op}}
            mine == {n \in DOMAIN taskRuns : taskRuns[n][1] = r.op /\ n <= r.end /\ \A b \in before : n > b}
        IN  ~r.raced /\ (AgingOp(r.op) \/ r.key \notin FftsKeys) =>
                /\ taskRuns[r.end] = LastTask(r.op)
                /\ r.start = Min(mine)
                /\ r.info = r.op

(* The count UnRegister waits for is the number of entries that hold one and *)
(* of threads between the raising and their entry, less those a Clear has    *)
(* put in debt, which the count alone is ahead of while it is under way.     *)
CommCountExact == count = Counted(task2Op) + Cardinality(InFlight) - debt

(* When UnRegister has read zero with no thread under way and no debt, Clear *)
(* takes no task away that is still waited for.                              *)
CommDrainSound == At("clear") /\ gate.zero /\ debt = 0 => \A k \in DOMAIN task2Op : ~task2Op[k].counted

(* Once every thread is idle and every record has been seen, an operation    *)
(* launched and run within the session is recorded as often as it was run.   *)
Replays(o) == Times(LastTask(o))
CommComplete ==
    (/\ At("on") /\ \A t \in Threads : caller[t].pc = "idle"
     /\ \A c \in DOMAIN logs : logs[c] = <<>>)
    => \A o \in DOMAIN ops :
          ~ops[o].raced /\ (\A j \in DOMAIN ops[o].keys : Times(<<o, j>>) = Replays(o)) =>
              Cardinality({i \in DOMAIN reports : reports[i].op = o}) = Replays(o)

(* The count never falls below zero, as the entries' flag is there to ensure. *)
CommCountNatural == count >= 0

(* The consumers of two devices are not inside the assembly together, which  *)
(* takes no lock.                                                            *)
AssemblyExclusive == \A c, d \in Consumers : worker[c] = "assemble" /\ worker[d] = "assemble" => c = d

(* The same of communication operations and their tasks.                     *)
CommInv == CommTypeOK /\ CommOwn /\ CommCountExact /\ CommDrainSound /\ CommComplete
=============================================================================
