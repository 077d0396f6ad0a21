---------------------------- MODULE KernelParser ----------------------------
(***************************************************************************)
(* KernelParser: the host threads report the kernels they launch, the      *)
(* devices' consumer threads report when a task began and ended, and the   *)
(* two are paired by the task's key.  Each report tells whether the task   *)
(* is aging: such a task runs once and is counted until it is paired; a    *)
(* task of a graph stays for good and is paired with every run of its key. *)
(* Every launch has a number, and so has every run on the device: a time   *)
(* is the number of the run that it was taken from.                        *)
(***************************************************************************)
EXTENDS HostGate, Sequences, SequencesExt, FiniteSets

CONSTANTS
    HostThreads,   \* threads that launch
    Devices,       \* each with a consumer thread of its SOC_LOG channel
    Keys,          \* dstKeys: a device, a stream and a task id
    DeviceOf,      \* the device of a key
    MaxLaunches,   \* a bound: launches
    MaxGraphs,     \* a bound: launches of graphs' tasks
    MaxReplays,    \* a bound: runs of graphs' tasks
    MaxLost        \* a bound: records the driver's buffer loses

ASSUME KernelAssumption ==
    /\ DeviceOf \in [Keys -> Devices]
    /\ MaxLaunches \in Nat /\ MaxGraphs \in Nat /\ MaxReplays \in Nat /\ MaxLost \in Nat

VARIABLES
    launched,    \* the key of every launch
    unaging,     \* the launches reported with an agingFlag other than 1
    host,        \* a thread inside ReportRtTaskTrack
    hostTasks,   \* the aging tasks of hostTasks_, by key: only the order within a key matters
    hostGraphs,  \* the first task of a graph in hostTasks_ of every key, or 0
    kernels,     \* kernel_map_: the launches that wait under a key
    graph,       \* unaging_kernel_map_: the launch that stays under a key, or 0
    staged,      \* device_kernel_map_: the run whose BEGIN waits under a key, or 0
    pending,     \* pendingKernelCount_
    runs,        \* the launch of every run
    channel,     \* the records each device's consumer has still to see
    consumer,    \* a consumer inside ReportSocLog
    lost,        \* records lost so far
    recorded,    \* what was handed to ActivityManager::Record
    epoch,       \* Clears so far
    wiped,       \* launches removed by a Clear before they were counted
    drift,       \* counts raised for a launch a Clear had removed
    crossed,     \* keys with a launch or a record that one side did not see in time
    stale        \* keys with a BEGIN staged by a consumer that a Clear overtook, or lost after the END before it

kernelVars == <<launched, unaging, host, hostTasks, hostGraphs, kernels, graph, staged, pending,
                runs, channel, consumer, lost, recorded, epoch, wiped, drift, crossed, stale>>

None == 0
Launches == 1 .. MaxLaunches
Runs == 1 .. (MaxLaunches + MaxReplays)
IdleHost == [pc |-> "idle", launch |-> None, epoch |-> 0]
IdleConsumer == [pc |-> "idle", epoch |-> 0]
SocLogs == [key: Keys, funcType: {"BEGIN", "END"}, run: Runs]
Aging(l) == l \notin unaging

(* Every variable keeps its type; the pending count may be below zero.       *)
KernelTypeOK ==
    /\ GateTypeOK
    /\ launched \in Seq(Keys) /\ Len(launched) <= MaxLaunches /\ unaging \subseteq DOMAIN launched
    /\ host \in [HostThreads ->
          [pc: {"idle", "gate", "push", "count"}, launch: {None} \cup Launches, epoch: 0 .. MaxSessions]]
    /\ hostTasks \in [Keys -> Seq(Launches)] /\ kernels \in [Keys -> Seq(Launches)]
    /\ hostGraphs \in [Keys -> {None} \cup Launches]
    /\ graph \in [Keys -> {None} \cup Launches] /\ staged \in [Keys -> {None} \cup Runs]
    /\ pending \in Int /\ runs \in Seq(Launches)
    /\ channel \in [Devices -> Seq(SocLogs)]
    /\ consumer \in [Devices -> [pc: {"idle", "parse"}, epoch: 0 .. MaxSessions]]
    /\ lost \in 0 .. MaxLost
    /\ recorded \subseteq [launch: Launches, start: Runs, end: Runs, crossed: BOOLEAN, stale: BOOLEAN]
    /\ epoch \in 0 .. MaxSessions /\ wiped \subseteq Launches /\ drift \in Nat
    /\ crossed \subseteq Keys /\ stale \subseteq Keys

KernelInit ==
    /\ GateInit
    /\ launched = <<>> /\ unaging = {} /\ runs = <<>> /\ pending = 0
    /\ host = [t \in HostThreads |-> IdleHost]
    /\ hostTasks = [k \in Keys |-> <<>>] /\ kernels = [k \in Keys |-> <<>>]
    /\ hostGraphs = [k \in Keys |-> None]
    /\ graph = [k \in Keys |-> None] /\ staged = [k \in Keys |-> None]
    /\ channel = [d \in Devices |-> <<>>] /\ consumer = [d \in Devices |-> IdleConsumer]
    /\ lost = 0 /\ recorded = {} /\ epoch = 0 /\ wiped = {} /\ drift = 0 /\ crossed = {} /\ stale = {}

----------------------------------------------------------------------------
(* ReportRtTaskTrack *)

(* A launch; the device will run it whether its report is let in or not.     *)
ReportChecksSwitch(t, k, aging) ==
    /\ host[t].pc = "idle" /\ Len(launched) < MaxLaunches
    /\ aging \/ Cardinality(unaging) < MaxGraphs
    /\ launched' = Append(launched, k)
    /\ unaging' = IF aging THEN unaging ELSE unaging \cup {Len(launched) + 1}
    /\ IF IsActivityKindEnable
       THEN /\ host' = [host EXCEPT ![t] = [pc |-> "gate", launch |-> Len(launched) + 1, epoch |-> epoch]]
            /\ UNCHANGED crossed
       ELSE crossed' = crossed \cup {k} /\ UNCHANGED host
    /\ UNCHANGED <<gate, hostTasks, hostGraphs, kernels, graph, staged, pending, runs, channel,
                   consumer, lost, recorded, epoch, wiped, drift, stale>>

(* The gate, and the task types whose name does not begin with KERNEL.       *)
ReportChecksGate(t, isKernel) ==
    /\ host[t].pc = "gate"
    /\ IF RefusesReport \/ ~isKernel
       THEN host' = [host EXCEPT ![t] = IdleHost] /\ crossed' = crossed \cup {launched[host[t].launch]}
       ELSE host' = [host EXCEPT ![t].pc = "push"] /\ UNCHANGED crossed
    /\ UNCHANGED <<gate, launched, unaging, hostTasks, hostGraphs, kernels, graph, staged, pending, runs,
                   channel, consumer, lost, recorded, epoch, wiped, drift, stale>>

(* An earlier launch of the key is still on its way.                         *)
Overtakes(l) ==
    \E n \in 1 .. l - 1 :
        /\ launched[n] = launched[l]
        /\ \E u \in HostThreads : host[u].launch = n /\ host[u].pc \in {"gate", "push"}

(* Under hostTaskMutex_.                                                     *)
ReportPushes(t) ==
    LET l == host[t].launch k == launched[l] IN
    /\ host[t].pc = "push"
    /\ IF Aging(l)
       THEN hostTasks' = [hostTasks EXCEPT ![k] = Append(@, l)] /\ UNCHANGED hostGraphs
       ELSE hostGraphs' = [hostGraphs EXCEPT ![k] = IF @ = None THEN l ELSE @] /\ UNCHANGED hostTasks
    /\ host' = [host EXCEPT ![t] = IF Aging(l) THEN [@ EXCEPT !.pc = "count"] ELSE IdleHost]
    /\ crossed' = IF host[t].epoch # epoch \/ Overtakes(l) THEN crossed \cup {k} ELSE crossed
    /\ UNCHANGED <<gate, launched, unaging, kernels, graph, staged, pending, runs, channel, consumer,
                   lost, recorded, epoch, wiped, drift, stale>>

(* Only then is an aging launch counted.                                     *)
ReportCounts(t) ==
    /\ host[t].pc = "count"
    /\ pending' = pending + 1
    /\ drift' = drift + (IF host[t].launch \in wiped THEN 1 ELSE 0)
    /\ host' = [host EXCEPT ![t] = IdleHost]
    /\ UNCHANGED <<gate, launched, unaging, hostTasks, hostGraphs, kernels, graph, staged, runs, channel,
                   consumer, lost, recorded, epoch, wiped, crossed, stale>>

----------------------------------------------------------------------------
(* The device: it runs the launches of a key in their order, those of a      *)
(* graph any number of times or never, and its records reach the consumer    *)
(* in order.                                                                 *)
RunsTask(l) ==
    LET k == launched[l] n == Len(runs) + 1 IN
    /\ IF Aging(l) THEN l \notin Range(runs) ELSE Cardinality({m \in DOMAIN runs : ~Aging(runs[m])}) < MaxReplays
    /\ \A m \in 1 .. l - 1 : launched[m] = k /\ Aging(m) => m \in Range(runs)
    /\ runs' = Append(runs, l)
    /\ channel' = [channel EXCEPT ![DeviceOf[k]] = @ \o <<[key |-> k, funcType |-> "BEGIN", run |-> n],
                                                        [key |-> k, funcType |-> "END", run |-> n]>>]
    /\ UNCHANGED <<gate, launched, unaging, host, hostTasks, hostGraphs, kernels, graph, staged, pending,
                   consumer, lost, recorded, epoch, wiped, drift, crossed, stale>>

LosesRecord(d) ==
    /\ lost < MaxLost /\ channel[d] # <<>> /\ consumer[d].pc = "idle"
    /\ lost' = lost + 1
    /\ channel' = [channel EXCEPT ![d] = Tail(@)]
    /\ LET log == Head(channel[d]) IN
       /\ crossed' = crossed \cup {log.key}
       /\ stale' = IF log.funcType = "BEGIN" /\ staged[log.key] # None THEN stale \cup {log.key} ELSE stale
    /\ UNCHANGED <<gate, launched, unaging, host, hostTasks, hostGraphs, kernels, graph, staged, pending,
                   runs, consumer, recorded, epoch, wiped, drift>>

(* ReportSocLog looks at the switch before it takes the lock; a record that  *)
(* finds the switch off is gone.                                             *)
SocLogChecks(d) ==
    /\ consumer[d].pc = "idle" /\ channel[d] # <<>>
    /\ IF IsActivityKindEnable
       THEN /\ consumer' = [consumer EXCEPT ![d] = [pc |-> "parse", epoch |-> epoch]]
            /\ UNCHANGED <<channel, crossed>>
       ELSE /\ channel' = [channel EXCEPT ![d] = Tail(@)]
            /\ crossed' = crossed \cup {Head(channel[d]).key}
            /\ UNCHANGED consumer
    /\ UNCHANGED <<gate, launched, unaging, host, hostTasks, hostGraphs, kernels, graph, staged, pending,
                   runs, lost, recorded, epoch, wiped, drift, stale>>

(* DealCacheHostTask: the maps once hostTasks_ has been moved into them, the *)
(* aging tasks behind the others of their key, a graph's only where there is *)
(* none.                                                                     *)
QueueOf(k) == kernels[k] \o hostTasks[k]
GraphOf(k) == IF graph[k] = None THEN hostGraphs[k] ELSE graph[k]

(* A key with a graph's task is that task's, whatever else waits under it.   *)
IsGraphTask(k) == GraphOf(k) # None
IsCounted_All(k) == TRUE
IsCounted(k) == ~IsGraphTask(k)
Known_Queued(k) == QueueOf(k) # <<>>
Known(k) == QueueOf(k) # <<>> \/ IsGraphTask(k)
Unstaged_Forgotten(q) == q
Unstaged(q) == [k \in DOMAIN q |-> None]

(* ParseDeviceTask stages a BEGIN, over the one before it if that has had no *)
(* END, and lets an END without a BEGIN go.                                  *)
Staging_First(k, log) == IF staged[k] = None THEN log.run ELSE staged[k]
Staging(k, log) == log.run
Pairs_WithoutBegin(k, log) == Known(k) /\ log.funcType = "END"
Pairs(k, log) == Known(k) /\ log.funcType = "END" /\ staged[k] # None

(* The record made of a kernel and the staged run's times.                   *)
Paired(l, k, log) ==
    [launch |-> l, start |-> staged[k], end |-> log.run,
     crossed |-> k \in crossed, stale |-> k \in stale]

Emptied(q) == [k \in DOMAIN q |-> <<>>]
Popped_Last(k) == [q \in DOMAIN kernels |-> IF q = k THEN Front(QueueOf(q)) ELSE QueueOf(q)]
Popped(k) == [q \in DOMAIN kernels |-> IF q = k THEN Tail(QueueOf(q)) ELSE QueueOf(q)]

(* The rest of ReportSocLog is one step under hostTaskMutex_.                *)
SocLogParses(d) ==
    LET log == Head(channel[d]) k == log.key
        late == consumer[d].epoch # epoch
        pairs == Pairs(k, log)
    IN
    /\ consumer[d].pc = "parse"
    /\ consumer' = [consumer EXCEPT ![d] = IdleConsumer]
    /\ channel' = [channel EXCEPT ![d] = Tail(@)]
    /\ hostTasks' = Emptied(hostTasks) /\ hostGraphs' = [q \in DOMAIN hostGraphs |-> None]
    /\ graph' = [q \in DOMAIN graph |-> GraphOf(q)]
    /\ staged' = IF ~Known(k) THEN staged
                 ELSE [staged EXCEPT ![k] = IF log.funcType = "BEGIN" THEN Staging(k, log) ELSE None]
    /\ kernels' = IF pairs /\ ~IsGraphTask(k) THEN Popped(k) ELSE [q \in DOMAIN kernels |-> QueueOf(q)]
    /\ pending' = IF pairs /\ IsCounted(k) THEN pending - 1 ELSE pending
    /\ recorded' = IF pairs
                   THEN recorded \cup {Paired(IF IsGraphTask(k) THEN GraphOf(k) ELSE Head(QueueOf(k)), k, log)}
                   ELSE recorded
    /\ crossed' = IF late \/ (QueueOf(k) = <<>> /\ ~IsGraphTask(k)) THEN crossed \cup {k} ELSE crossed
    /\ stale' = IF late /\ Known(k) /\ log.funcType = "BEGIN" THEN stale \cup {k} ELSE stale
    /\ UNCHANGED <<gate, launched, unaging, host, runs, lost, epoch, wiped, drift>>

----------------------------------------------------------------------------
(* Clear, also under the lock; the graphs' launches stay for all sessions to *)
(* come, but for those no record has moved out of hostTasks_.                *)
Unfinished ==
    {k \in Keys : staged[k] # None \/ kernels[k] # <<>> \/ hostTasks[k] # <<>> \/ hostGraphs[k] # None}

KernelClears ==
    /\ ClearsParser
    /\ hostTasks' = Emptied(hostTasks) /\ hostGraphs' = [k \in DOMAIN hostGraphs |-> None]
    /\ kernels' = Emptied(kernels) /\ staged' = Unstaged(staged) /\ pending' = 0
    /\ epoch' = epoch + 1 /\ drift' = 0
    /\ wiped' = wiped \cup {host[t].launch : t \in {u \in HostThreads : host[u].pc = "count"}}
    /\ crossed' = crossed \cup Unfinished
    /\ UNCHANGED <<launched, unaging, host, graph, runs, channel, consumer, lost, recorded, stale>>

Quiet == \A t \in HostThreads : host[t].pc \notin {"push", "count"}

KernelSession ==
    /\ \/ Register
       \/ \E devices \in BOOLEAN : UnRegister(devices)
       \/ RetryReads(pending, Quiet)
       \/ DrainEnds
       \/ StopsAnalysis
       \/ SwitchesOff
       \/ ReopensGate
    /\ UNCHANGED kernelVars

HostSteps(t) ==
    \/ \E isKernel \in BOOLEAN : ReportChecksGate(t, isKernel)
    \/ ReportPushes(t)
    \/ ReportCounts(t)
DeviceSteps ==
    \/ \E l \in DOMAIN launched : RunsTask(l)
    \/ \E d \in Devices : SocLogChecks(d) \/ SocLogParses(d)

KernelNext ==
    \/ KernelSession
    \/ KernelClears
    \/ \E t \in HostThreads :
          \/ \E k \in Keys, aging \in BOOLEAN : ReportChecksSwitch(t, k, aging)
          \/ HostSteps(t)
    \/ DeviceSteps
    \/ \E d \in Devices : LosesRecord(d)

KernelSpec == KernelInit /\ [][KernelNext]_<<gate, kernelVars>>

----------------------------------------------------------------------------
(* The first task of a graph under a key: it keeps every run of the key that *)
(* is seen after it, those of later launches the key is used for included.   *)
Claims(g, l) ==
    /\ g \in unaging /\ launched[g] = launched[l]
    /\ \A m \in 1 .. g - 1 : launched[m] = launched[g] => Aging(m)

(* A kernel whose key no launch or record crossed, by coming before or after *)
(* its partner's session, is recorded with the times of its own run, unless  *)
(* a graph's task had the key: all its runs are recorded as that task's.     *)
KernelOwnTimes ==
    \A r \in recorded : ~r.crossed =>
        (runs[r.end] = r.launch \/ Claims(r.launch, runs[r.end])) /\ r.start = r.end

(* A record's start and end come from one run, whatever a lost record or the *)
(* end of a session left half done, unless a consumer let in before a Clear  *)
(* staged a BEGIN after it, or an END and the next BEGIN of a key were lost. *)
PairsOneRun == \A r \in recorded : ~r.stale => r.start = r.end

AgingEntries == [n \in DOMAIN launched |->
    \E k \in Keys : n \in Range(hostTasks[k]) \/ n \in Range(kernels[k])]
Waiting == {n \in DOMAIN launched : Aging(n) /\ AgingEntries[n]}
Uncounted == {t \in HostThreads : host[t].pc = "count" /\ host[t].launch \notin wiped}

(* The count UnRegister waits for is the number of aging launches that have  *)
(* no record yet, less those a thread has still to count, plus those it      *)
(* counted after a Clear had taken them away.                                *)
PendingExact == pending = Cardinality(Waiting) - Cardinality(Uncounted) + drift

(* When UnRegister has read zero with no report under way, Clear takes no    *)
(* launch away: the gate let none in after the reading.                      *)
DrainSound == At("clear") /\ gate.zero => Waiting = {}

(* Once every report has returned and every record has been seen, each run   *)
(* of a key that no session's border, refusal or loss touched has its        *)
(* record, its own launch's or that of the graph's task with the key.        *)
KernelComplete ==
    (/\ At("on") /\ \A t \in HostThreads : host[t].pc = "idle"
     /\ \A d \in DOMAIN channel : channel[d] = <<>>)
    => \A n \in DOMAIN runs :
          launched[runs[n]] \notin crossed =>
              \E r \in recorded : r.end = n /\ (r.launch = runs[n] \/ Claims(r.launch, runs[n]))

(* The count is zero once UnRegister has returned and every report with it,  *)
(* as the tests of the parser expect.                                        *)
PendingRests == At("off") /\ (\A t \in HostThreads : host[t].pc = "idle") => pending = 0

(* The invariants of kernels: each gets its own run's times, once, counts    *)
(* are exact, a drain that reports success leaves none, and none is lost.    *)
KernelInv == KernelTypeOK /\ KernelOwnTimes /\ PairsOneRun /\ PendingExact /\ DrainSound /\ KernelComplete
=============================================================================
