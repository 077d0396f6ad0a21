---------------------------- MODULE DevTaskManager -------------------------
(***************************************************************************)
(* Which device jobs run for which activity kinds: the device side of      *)
(* csrc/activity/activity_manager.cpp (Register, UnRegister, SetDevice,    *)
(* ResetDevice, ResetAllDevice, Detach), csrc/activity/ascend/             *)
(* dev_task_manager.cpp, and the reference counts of dev_prof_task.cpp.    *)
(*                                                                         *)
(* One device, which is online.  A kind needs the driver channels          *)
(* ChannelsOf[kind]; several kinds share a channel, and ref_cnts_ of the   *)
(* channel counts them so that the first starts the driver's job and the   *)
(* last stops it.  App threads call the MSPTI API; runtime threads run the *)
(* device-state callback of CANN (MsprofDeviceStateImpl) and hold none of  *)
(* the API's locks.  The pool that holds the readers lives as long as the  *)
(* session (CallbackManager::Init, TeardownLocked), whatever jobs run.     *)
(***************************************************************************)
EXTENDS Integers, FiniteSets

CONSTANTS
    MaxKind,        \* the kinds are 1 .. MaxKind, in the order of the enum
    Channels,       \* driver channels: PROF_CHANNEL_TS_FW, ..._STARS_SOC_LOG
    ChannelsOf,     \* kindToChannel_map_ of the chip
    ConfigKinds,    \* kinds that have an entry in datatype_config_map_
    TaskTimeKinds,  \* those whose entry holds PROF_TASK_TIME
    CountMod,       \* the counts are unsigned: 2^32 in the code
    AppThreads,     \* threads calling the MSPTI API
    RuntimeThreads, \* threads running the device-state callback
    Faults          \* which calls into the driver and CANN may fail

Kinds == 1 .. MaxKind
AllFaults ==
    {"nopool", "nochannels", "invalid", "noreader", "nostart", "nostop", "nocommand"}

ASSUME KindAssumption ==
    /\ MaxKind \in Nat
    /\ ChannelsOf \in [Kinds -> SUBSET Channels]
    /\ TaskTimeKinds \subseteq ConfigKinds /\ ConfigKinds \subseteq Kinds
ASSUME CountAssumption == CountMod \in Nat /\ MaxKind < CountMod
ASSUME ThreadAssumption ==
    /\ AppThreads \cap RuntimeThreads = {}
    /\ "none" \notin AppThreads \cup RuntimeThreads
ASSUME FaultAssumption == Faults \subseteq AllFaults

Threads == AppThreads \cup RuntimeThreads
NoEntry == -1   \* ref_cnts_ has no entry for the channel

VARIABLES
    device,     \* the device is in devices_
    enabled,    \* activity_switch_
    seen,       \* append_only_activity_switch_
    manager,    \* the ActivityManager thread runs (thread_run_)
    session,    \* holder of session_mutex_
    subscriber, \* holder of subscriber_mutex_
    devices_mtx, task_map_mtx,      \* their holders
    profSwitch, \* the kinds whose configuration is in profSwitch_
    aicpu,      \* aicpu_task_map_ has the device
    task_map,   \* the kinds task_map_ has for the device
    ref_cnts,   \* the counts of DevProfTaskTsFw and DevProfTaskStars
    tracing,    \* init_: a tracing session runs
    pool,       \* drvChannelPoll_ is there
    reader,     \* channels with a ChannelReader in the pool
    started,    \* channels whose driver job is running
    pc, call,   \* control of each thread, and the API call it is in
    kind,       \* the argument of Register, and the loop's kindIndex
    commanded,  \* history: the last command accepted started PROF_TASK_TIME
    failed,     \* history: channels whose last first enabling failed
    unread,     \* history: jobs that found no pool, or outlived it
    lapsed      \* history: kinds last stopped by ResetAllDevice

switchVars  == <<device, enabled, seen, manager>>
lockVars    == <<session, subscriber, devices_mtx>>
cannVars    == <<profSwitch, aicpu, commanded>>
poolVars    == <<tracing, pool>>
taskVars    == <<task_map, ref_cnts, reader, started, failed, unread, lapsed>>
controlVars == <<pc, call, kind>>
vars == <<switchVars, lockVars, task_map_mtx, cannVars, poolVars, taskVars, controlVars>>
----------------------------------------------------------------------------
Users(c) == {k \in task_map : c \in ChannelsOf[k]}

\* The kinds argument of StartDevProfTask and StopDevProfTask: Register passes
\* a local array, the others the live arrays of atomics.
KindsOf(t) ==
    CASE call[t] = "Register"  -> {kind[t][1]}
      [] call[t] = "SetDevice" -> enabled
      [] OTHER                 -> seen

Init ==
    /\ device = FALSE /\ enabled = {} /\ seen = {} /\ manager = FALSE
    /\ session = "none" /\ subscriber = "none"
    /\ devices_mtx = "none" /\ task_map_mtx = "none"
    /\ profSwitch = {} /\ aicpu = FALSE /\ commanded = FALSE
    /\ task_map = {} /\ ref_cnts = [c \in Channels |-> NoEntry]
    /\ tracing = FALSE /\ pool = FALSE
    /\ reader = {} /\ started = {} /\ failed = {} /\ unread = {} /\ lapsed = {}
    /\ pc = [t \in Threads |-> "idle"]
    /\ call = [t \in Threads |-> "none"]
    /\ kind = [t \in Threads |-> <<0, 0>>]

Goto(t, p) == pc' = [pc EXCEPT ![t] = p] /\ UNCHANGED <<call, kind>>
Idle(t) ==
    /\ pc' = [pc EXCEPT ![t] = "idle"]
    /\ call' = [call EXCEPT ![t] = "none"]
    /\ kind' = [kind EXCEPT ![t] = <<0, 0>>]
Begin(t, c, k, p) ==
    /\ pc' = [pc EXCEPT ![t] = p]
    /\ call' = [call EXCEPT ![t] = c]
    /\ kind' = [kind EXCEPT ![t] = <<k, 0>>]

\* The call returns.  Register gives back session_mutex_; ResetAllDevice gives
\* back devices_mtx_, and Detach session_mutex_, before it stops the manager.
\* msptiUnsubscribe goes on with CallbackManager::UnInit.
Return(t) ==
    /\ session' = IF session = t THEN "none" ELSE session
    /\ devices_mtx' = IF devices_mtx = t THEN "none" ELSE devices_mtx
    /\ UNCHANGED subscriber
    /\ CASE call[t] = "Detach"      -> Goto(t, "stopManager")
         [] call[t] = "Unsubscribe" -> Goto(t, "teardown")
         [] OTHER                   -> Idle(t)
----------------------------------------------------------------------------
(* The reference counts.  A task's own thread runs StopTask, but Stop joins *)
(* it, and both run under task_map_mtx_: one step for all tasks of a kind.  *)
Count(c) == IF ref_cnts[c] = NoEntry THEN 0 ELSE ref_cnts[c]
First(c) == Count(c) = 0

\* Faulty: stops on every disabling that finds an entry.
Last_Any(c) == ref_cnts[c] # NoEntry

\* Faulty: the count is compared before the decrement.
Last_Before(c) == ref_cnts[c] = 0

\* refCnt == 0 after the decrement.
Last(c) == ref_cnts[c] = 1

\* The channels of C whose AddReader finds the pool: while msptiSubscribe makes
\* it, those of a kind may come before and after.
Pooled(C) ==
    IF pool THEN {C} ELSE IF \E t \in AppThreads : pc[t] = "making" THEN SUBSET C ELSE {{}}

\* What an AddReader or ProfDrvStart that fails leaves of the first enabling.
\* AddReader cannot fail where there is no pool, or where it already has a reader.
StartOutcomes(C, P) ==
    {out \in [C -> {"ok"} \cup (Faults \cap {"invalid", "noreader", "nostart"})] :
        \A c \in C : out[c] = "noreader" => c \in P \ reader}

\* The first enabling of c gets as far as a reader.
Reads(C, out) == {c \in C : First(c) /\ out[c] \in {"ok", "nostart"}}
Runs(C, out) == {c \in C : First(c) /\ out[c] = "ok"}

\* Faulty: a channel that is not valid yet is not counted.
StartTasks_InvalidUncounted(C, out, P) ==
    /\ ref_cnts' = [c \in Channels |->
         IF c \notin C THEN ref_cnts[c]
         ELSE IF First(c) /\ out[c] \in {"noreader", "invalid"} THEN NoEntry
         ELSE (Count(c) + 1) % CountMod]
    /\ reader' = reader \cup Reads(P, out)
    /\ started' = started \cup Runs(C, out)
    /\ failed' = (failed \ Runs(C, out)) \cup {c \in C : First(c) /\ out[c] # "ok"}
    /\ unread' = (unread \ Reads(P, out)) \cup Runs(C \ P, out)

\* StartTask of the channels C, those of P with a pool: AddReader succeeds
\* without one and adds no reader.
StartTasks(C, out, P) ==
    /\ ref_cnts' = [c \in Channels |->
         IF c \notin C THEN ref_cnts[c]
         ELSE IF First(c) /\ out[c] = "noreader" THEN NoEntry
         ELSE (Count(c) + 1) % CountMod]
    /\ reader' = reader \cup Reads(P, out)
    /\ started' = started \cup Runs(C, out)
    /\ failed' = (failed \ Runs(C, out)) \cup {c \in C : First(c) /\ out[c] # "ok"}
    /\ unread' = (unread \ Reads(P, out)) \cup Runs(C \ P, out)

\* Faulty: the reader is removed although ProfStop failed.
StopTasks_RemoveAnyway(C, out) ==
    /\ ref_cnts' = [c \in Channels |->
         IF c \notin C \/ ref_cnts[c] = NoEntry THEN ref_cnts[c]
         ELSE (ref_cnts[c] - 1) % CountMod]
    /\ started' = started \ {c \in C : Last(c) /\ out[c] = "ok"}
    /\ reader' = reader \ {c \in C : Last(c)}
    /\ unread' = unread \ {c \in C : Last(c) /\ out[c] = "ok"}
    /\ UNCHANGED failed

\* StopTask of the channels C: a ProfStop that fails leaves job and reader.
StopTasks(C, out) ==
    /\ ref_cnts' = [c \in Channels |->
         IF c \notin C \/ ref_cnts[c] = NoEntry THEN ref_cnts[c]
         ELSE (ref_cnts[c] - 1) % CountMod]
    /\ started' = started \ {c \in C : Last(c) /\ out[c] = "ok"}
    /\ reader' = reader \ {c \in C : Last(c) /\ out[c] = "ok"}
    /\ unread' = unread \ {c \in C : Last(c) /\ out[c] = "ok"}
    /\ UNCHANGED failed
----------------------------------------------------------------------------
(* StartDevProfTask: the CANN command with the AICPU tasks, then the kinds. *)
\* The driver does not tell its channels: nothing starts, and Register ignores it.
GetAllChannelsFails(t) ==
    /\ pc[t] = "startCann" /\ "nochannels" \in Faults
    /\ Return(t)
    /\ UNCHANGED <<poolVars, switchVars, task_map_mtx, cannVars, taskVars>>

\* Faulty: the lookup in datatype_config_map_ is forgotten.
ConfigOf_All(K) == K

ConfigOf(K) == K \cap ConfigKinds

StartCANNProfTask(t) ==
    /\ pc[t] = "startCann"
    /\ profSwitch' = profSwitch \cup ConfigOf(KindsOf(t))
    /\ Goto(t, CASE profSwitch' = {} -> "startLock"
                 [] profSwitch' \cap TaskTimeKinds # {} -> "startAicpu"
                 [] OTHER -> "command")
    /\ UNCHANGED <<poolVars, switchVars, lockVars, task_map_mtx, aicpu, commanded, taskVars>>

StartAicpuProfTask(t) ==
    /\ pc[t] = "startAicpu" /\ task_map_mtx = "none"
    /\ aicpu' = TRUE
    /\ Goto(t, "commandAicpu")
    /\ UNCHANGED <<poolVars, switchVars, lockVars, task_map_mtx, profSwitch, commanded, taskVars>>

CommandAccepted(t) ==
    /\ pc[t] \in {"command", "commandAicpu"}
    /\ commanded' = (profSwitch \cap TaskTimeKinds # {})
    /\ Goto(t, "startLock")
    /\ UNCHANGED <<poolVars, switchVars, lockVars, task_map_mtx, profSwitch, aicpu, taskVars>>

\* StartDevProfTask gives up before the kinds, and Register ignores it.
CommandRefused(t) ==
    /\ pc[t] \in {"command", "commandAicpu"} /\ "nocommand" \in Faults
    /\ IF pc[t] = "commandAicpu"
       THEN Goto(t, "undoAicpu") /\ UNCHANGED lockVars
       ELSE Return(t)
    /\ UNCHANGED <<poolVars, switchVars, task_map_mtx, cannVars, taskVars>>

UndoAicpu(t) ==
    /\ pc[t] = "undoAicpu" /\ task_map_mtx = "none"
    /\ aicpu' = FALSE
    /\ Return(t)
    /\ UNCHANGED <<poolVars, switchVars, task_map_mtx, profSwitch, commanded, taskVars>>

\* task_map_mtx_ is held for the whole loop over the kinds.
LockTaskMap(t) ==
    /\ pc[t] \in {"startLock", "stopLock"} /\ task_map_mtx = "none"
    /\ task_map_mtx' = t
    /\ pc' = [pc EXCEPT ![t] = IF @ = "startLock" THEN "start" ELSE "stop"]
    /\ kind' = [kind EXCEPT ![t][2] = 1]
    /\ UNCHANGED <<poolVars, switchVars, lockVars, cannVars, taskVars, call>>

NextKind(t) ==
    /\ kind' = [kind EXCEPT ![t][2] = @ + 1]
    /\ UNCHANGED <<pc, call, lockVars, task_map_mtx>>

StartsTasksOf(C) ==
    \E P \in Pooled(C) : \E out \in StartOutcomes(C, P) : StartTasks(C, out, P)

\* Faulty: the loop is left once it has started a kind.
StartKind_Returns(t) ==
    LET k == kind[t][2] IN
    /\ pc[t] = "start" /\ k \in Kinds
    /\ IF k \in KindsOf(t) \ task_map
       THEN /\ task_map' = task_map \cup {k}
            /\ StartsTasksOf(ChannelsOf[k])
            /\ lapsed' = lapsed \ {k}
            /\ task_map_mtx' = "none" /\ Return(t)
       ELSE UNCHANGED taskVars /\ NextKind(t)
    /\ UNCHANGED <<poolVars, switchVars, cannVars>>

StartKind(t) ==
    LET k == kind[t][2] IN
    /\ pc[t] = "start" /\ k \in Kinds
    /\ IF k \in KindsOf(t) \ task_map
       THEN /\ task_map' = task_map \cup {k}
            /\ StartsTasksOf(ChannelsOf[k])
            /\ lapsed' = lapsed \ {k}
       ELSE UNCHANGED taskVars
    /\ NextKind(t)
    /\ UNCHANGED <<poolVars, switchVars, cannVars>>

StopKind(t) ==
    LET k == kind[t][2] IN
    /\ pc[t] = "stop" /\ k \in Kinds
    /\ IF k \in KindsOf(t) \cap task_map
       THEN /\ task_map' = task_map \ {k}
            /\ \E out \in [ChannelsOf[k] -> {"ok"} \cup (Faults \cap {"nostop"})] :
                 StopTasks(ChannelsOf[k], out)
            /\ lapsed' = IF call[t] = "ResetDevice" THEN lapsed ELSE lapsed \cup {k}
       ELSE UNCHANGED taskVars
    /\ NextKind(t)
    /\ UNCHANGED <<poolVars, switchVars, cannVars>>

UnlockTaskMap(t) ==
    /\ pc[t] \in {"start", "stop"} /\ kind[t][2] \notin Kinds
    /\ task_map_mtx' = "none"
    /\ Return(t)
    /\ UNCHANGED <<poolVars, switchVars, cannVars, taskVars>>

(* StopDevProfTask: the CANN command and the AICPU tasks, then the kinds.  *)
StopCANNProfTask(t) ==
    /\ pc[t] = "stopCann"
    /\ \/ /\ profSwitch = {}
          /\ Goto(t, "stopLock") /\ UNCHANGED <<lockVars, commanded>>
       \/ /\ profSwitch # {}
          /\ commanded' = FALSE
          /\ Goto(t, IF profSwitch \cap TaskTimeKinds # {} THEN "stopAicpu" ELSE "stopLock")
          /\ UNCHANGED lockVars
       \/ /\ profSwitch # {} /\ "nocommand" \in Faults
          /\ Return(t) /\ UNCHANGED commanded
    /\ UNCHANGED <<poolVars, switchVars, task_map_mtx, profSwitch, aicpu, taskVars>>

StopAicpuProfTask(t) ==
    /\ pc[t] = "stopAicpu" /\ task_map_mtx = "none"
    /\ aicpu' = FALSE
    /\ Goto(t, "stopLock")
    /\ UNCHANGED <<poolVars, switchVars, lockVars, task_map_mtx, profSwitch, commanded, taskVars>>
----------------------------------------------------------------------------
(* The API, called by app threads.  msptiFinalize asks its caller to call  *)
(* no other API meanwhile.                                                 *)
Quiet == \A a \in AppThreads : call[a] # "Detach"

\* msptiSubscribe: CallbackManager::Init, under subscriber_mutex_.  Its steps but
\* the making of the pool are seen by none that does not hold the mutex.
Subscribe(t) ==
    /\ pc[t] = "idle" /\ Quiet /\ subscriber = "none" /\ ~tracing
    /\ tracing' = TRUE
    /\ \/ /\ ~pool
          /\ subscriber' = t /\ Begin(t, "Subscribe", 0, "making")
          /\ UNCHANGED manager
       \/ /\ pool \/ "nopool" \in Faults
          /\ manager' = TRUE /\ UNCHANGED <<subscriber, controlVars>>
    /\ UNCHANGED <<device, enabled, seen, session, devices_mtx, task_map_mtx, cannVars, pool, taskVars>>

PoolMade(t) ==
    /\ pc[t] = "making"
    /\ pool' = TRUE /\ manager' = TRUE
    /\ subscriber' = "none" /\ Idle(t)
    /\ UNCHANGED <<device, enabled, seen, session, devices_mtx, task_map_mtx, cannVars, tracing, taskVars>>

Register(t, k) ==
    /\ pc[t] = "idle" /\ session = "none" /\ Quiet
    /\ session' = t
    /\ enabled' = enabled \cup {k} /\ seen' = seen \cup {k}
    /\ Begin(t, "Register", k, "snapshot")
    /\ UNCHANGED <<poolVars, device, manager, subscriber, devices_mtx, task_map_mtx, cannVars, taskVars>>

\* GetAllValidDevice, a copy taken under devices_mtx_.
GetAllValidDevice(t) ==
    /\ pc[t] = "snapshot" /\ devices_mtx = "none"
    /\ IF device THEN Goto(t, "startCann") /\ UNCHANGED lockVars ELSE Return(t)
    /\ UNCHANGED <<poolVars, switchVars, task_map_mtx, cannVars, taskVars>>

\* The drain is another module's matter; the device tasks stay.
UnRegister(t, k) ==
    /\ pc[t] = "idle" /\ session = "none" /\ Quiet
    /\ enabled' = enabled \ {k}
    /\ UNCHANGED <<poolVars, device, seen, manager, lockVars, task_map_mtx, cannVars, taskVars, controlVars>>

RegisterCallbacks(t) ==
    /\ pc[t] = "idle" /\ session = "none" /\ Quiet
    /\ manager' = TRUE
    /\ UNCHANGED <<poolVars, device, enabled, seen, lockVars, task_map_mtx, cannVars, taskVars, controlVars>>

\* msptiUnsubscribe starts with ResetAllDevice, without session_mutex_.
Unsubscribe(t) ==
    /\ pc[t] = "idle" /\ Quiet
    /\ Begin(t, "Unsubscribe", 0, "resetAll")
    /\ UNCHANGED <<poolVars, switchVars, lockVars, task_map_mtx, cannVars, taskVars>>

Detach(t) ==
    /\ \A a \in AppThreads : pc[a] = "idle"
    /\ subscriber' = t /\ session' = t
    /\ Begin(t, "Detach", 0, "resetAll")
    /\ UNCHANGED <<poolVars, switchVars, devices_mtx, task_map_mtx, cannVars, taskVars>>

\* devices_mtx_ is held while each device's tasks stop; devices_ is not changed.
ResetAllDevice(t) ==
    /\ pc[t] = "resetAll" /\ devices_mtx = "none"
    /\ IF device
       THEN /\ devices_mtx' = t /\ UNCHANGED <<session, subscriber>>
            /\ Goto(t, "stopCann")
       ELSE Return(t)
    /\ UNCHANGED <<poolVars, switchVars, task_map_mtx, cannVars, taskVars>>

\* msptiUnsubscribe and msptiFinalize go on with TeardownLocked, under
\* subscriber_mutex_: with the pool every reader goes, whatever jobs still run.
\* Without a session nothing is left to do; nor for a handle that msptiUnsubscribe
\* finds is not the subscriber's.
TeardownLocked(t) ==
    /\ pc[t] = "teardown" /\ subscriber \in {"none", t}
    /\ \/ /\ tracing /\ tracing' = FALSE
          /\ pool' = FALSE /\ reader' = {} /\ unread' = started
          /\ subscriber' = t /\ Goto(t, "stopManager")
       \/ /\ ~tracing \/ call[t] = "Unsubscribe"
          /\ subscriber' = "none" /\ Idle(t)
          /\ UNCHANGED <<poolVars, reader, unread>>
    /\ UNCHANGED <<switchVars, session, devices_mtx, task_map_mtx, cannVars,
                   task_map, ref_cnts, started, failed, lapsed>>

\* msptiFinalize stops the manager before TeardownLocked does.
Stopped(t) ==
    IF call[t] = "Detach" /\ tracing
    THEN Goto(t, "teardown") /\ UNCHANGED subscriber
    ELSE Idle(t) /\ subscriber' = "none"

\* A manager that does not run is skipped, and with it ResetActivitySwitch.
StopActivityMgrThread(t) ==
    /\ pc[t] = "stopManager"
    /\ manager' = FALSE
    /\ IF manager THEN Goto(t, "resetSwitch") /\ UNCHANGED subscriber ELSE Stopped(t)
    /\ UNCHANGED <<poolVars, device, enabled, seen, session, devices_mtx, task_map_mtx, cannVars, taskVars>>

ResetActivitySwitch(t) ==
    /\ pc[t] = "resetSwitch"
    /\ enabled' = {} /\ seen' = {}
    /\ Stopped(t)
    /\ UNCHANGED <<poolVars, device, manager, session, devices_mtx, task_map_mtx, cannVars, taskVars>>
----------------------------------------------------------------------------
(* The device-state callback of the runtime.                               *)
SetDevice(t) ==
    /\ pc[t] = "idle" /\ devices_mtx = "none"
    /\ ~device /\ device' = TRUE
    /\ Begin(t, "SetDevice", 0, "scan")
    /\ UNCHANGED <<poolVars, enabled, seen, manager, lockVars, task_map_mtx, cannVars, taskVars>>

ScanSwitch(t) ==
    /\ pc[t] = "scan"
    /\ IF enabled = {} THEN Idle(t) ELSE Goto(t, "startCann")
    /\ UNCHANGED <<poolVars, switchVars, lockVars, task_map_mtx, cannVars, taskVars>>

ResetDevice(t) ==
    /\ pc[t] = "idle" /\ devices_mtx = "none"
    /\ device /\ device' = FALSE
    /\ Begin(t, "ResetDevice", 0, "stopCann")
    /\ UNCHANGED <<poolVars, enabled, seen, manager, lockVars, task_map_mtx, cannVars, taskVars>>
----------------------------------------------------------------------------
StartDevProfTask(t) ==
    \/ GetAllChannelsFails(t)
    \/ StartCANNProfTask(t) \/ StartAicpuProfTask(t) \/ CommandAccepted(t)
    \/ CommandRefused(t) \/ UndoAicpu(t) \/ StartKind(t)

StopDevProfTask(t) ==
    StopCANNProfTask(t) \/ StopAicpuProfTask(t) \/ StopKind(t)

App(t) ==
    \/ \E k \in Kinds : Register(t, k) \/ UnRegister(t, k)
    \/ GetAllValidDevice(t) \/ RegisterCallbacks(t)
    \/ Subscribe(t) \/ PoolMade(t) \/ Unsubscribe(t) \/ Detach(t)
    \/ ResetAllDevice(t) \/ TeardownLocked(t) \/ StopActivityMgrThread(t)
    \/ ResetActivitySwitch(t)

Runtime(t) == SetDevice(t) \/ ScanSwitch(t) \/ ResetDevice(t)

Next ==
    \/ \E t \in Threads : StartDevProfTask(t) \/ StopDevProfTask(t)
                          \/ LockTaskMap(t) \/ UnlockTaskMap(t)
    \/ \E t \in AppThreads : App(t)
    \/ \E t \in RuntimeThreads : Runtime(t)

Spec == Init /\ [][Next]_vars
----------------------------------------------------------------------------
Labels == {"idle", "snapshot", "making", "resetAll", "teardown", "stopManager", "resetSwitch", "scan",
           "startCann", "startAicpu", "command", "commandAicpu", "undoAicpu", "startLock",
           "start", "stopCann", "stopAicpu", "stopLock", "stop"}
Calls == {"none", "Register", "SetDevice", "ResetDevice", "Subscribe", "Unsubscribe", "Detach"}

SwitchOK ==
    /\ device \in BOOLEAN /\ manager \in BOOLEAN /\ tracing \in BOOLEAN /\ pool \in BOOLEAN
    /\ enabled \in SUBSET Kinds /\ seen \in SUBSET Kinds
LockOK ==
    /\ session \in Threads \cup {"none"} /\ subscriber \in Threads \cup {"none"}
    /\ devices_mtx \in Threads \cup {"none"}
CannOK ==
    /\ profSwitch \in SUBSET ConfigKinds /\ aicpu \in BOOLEAN /\ commanded \in BOOLEAN
TaskOK ==
    /\ task_map \in SUBSET Kinds /\ lapsed \in SUBSET Kinds
    /\ ref_cnts \in [Channels -> (0 .. (CountMod - 1)) \cup {NoEntry}]
    /\ reader \in SUBSET Channels /\ started \in SUBSET Channels
    /\ failed \in SUBSET Channels /\ unread \in SUBSET Channels
ControlOK ==
    /\ pc \in [Threads -> Labels] /\ call \in [Threads -> Calls]
    /\ kind \in [Threads -> (0 .. MaxKind) \X (0 .. (MaxKind + 1))]

\* Every variable has its type: a count that underflows is CountMod - 1 at most.
TypeOK ==
    /\ SwitchOK /\ LockOK /\ CannOK /\ TaskOK /\ ControlOK
    /\ task_map_mtx \in Threads \cup {"none"}

\* The count of a channel is the number of kinds whose tasks hold it, as long as
\* AddReader does not fail (DevProfTaskTsFw::ref_cnts_, DevProfTaskStars::ref_cnts_).
RefExact == \A c \in Channels : Count(c) = Cardinality(Users(c))

\* While a kind has a task on a channel the driver's job of that channel runs,
\* unless its own first enabling failed: no other kind's disabling stops it.
CollectsWhileUsed ==
    \A c \in Channels : Users(c) # {} => c \in started \/ c \in failed

\* A driver job has a reader that empties its channel, whichever call fails (the
\* order of AddReader, ProfDrvStart, ProfStop and RemoveReader), unless its session
\* had no pool when it started or ended before it: its reader is never taken alone.
JobHasReader == started \subseteq reader \cup unread

\* A channel that no kind uses any more has neither job nor reader, unless
\* ProfStop has failed.
IdleChannelReleased ==
    "nostop" \notin Faults =>
        \A c \in Channels : Users(c) = {} => c \notin started /\ c \notin reader

\* Once every call has returned, an enabled kind has its tasks on a device that
\* is set, however Register and SetDevice were interleaved: each of them writes
\* its own side before it reads the other's.  ResetAllDevice stops them for good.
EnabledKindsRun ==
    (device /\ \A t \in Threads : pc[t] = "idle") => enabled \subseteq task_map \cup lapsed

\* What the comment at dev_prof_task.cpp:177 says of the counts: the device task
\* is stopped when the last kind is disabled.
StopsWithLast == [][\A c \in started \ started' : Users(c)' = {}]_vars

\* What the comment at dev_task_manager.cpp:357 asks for: the AICPU channels are
\* open while a command with PROF_TASK_TIME is in force.
AicpuWhileCommanded ==
    (commanded /\ \A t \in Threads : pc[t] = "idle") => aicpu
============================================================================
