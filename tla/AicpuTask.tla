------------------------------ MODULE AicpuTask ------------------------------
(***************************************************************************)
(* DevProfTaskAicpuBase on one device: its channel may come into being     *)
(* after the task has started.  A thread of the task waits for the         *)
(* device's event and starts the channel; StopTask joins it.  The driver's *)
(* groups outlive the task.                                                *)
(***************************************************************************)
EXTENDS Integers, FiniteSets

CONSTANTS
    AicpuChannels, \* PROF_CHANNEL_AICPU and PROF_CHANNEL_CUS_AICPU
    MaxQueries,    \* waitCount
    MaxStarts,     \* a bound: times a task is started
    MaxFaults      \* a bound: calls of the driver that fail

ASSUME AicpuAssumption == MaxQueries \in Nat \ {0} /\ MaxStarts \in Nat /\ MaxFaults \in Nat

VARIABLES
    task,          \* a task's state: the fields of DevProfTaskAicpuBase and its threads' places
    offered,       \* the channels that the driver lists
    channels,      \* channels_ of ChannelPoolManager, as last listed
    readers,       \* readers_map_ of the pool
    driverOn,      \* channels that ProfDrvStart has started
    grp,           \* a group's: exists, is subscribed, holds an event
    faults,        \* calls that have failed
    starts         \* starts so far

aicpuVars == <<task, offered, channels, readers, driverOn, grp, faults, starts>>

Threads == {"none", "query", "attach", "group", "wait", "list", "start", "ended"}
IdleTask == [used |-> FALSE, owner |-> "idle", thread |-> "none", run |-> FALSE, attached |-> FALSE, started |-> FALSE,
             added |-> FALSE, once |-> TRUE, tries |-> 0, event |-> FALSE, failed |-> FALSE]

AicpuTypeOK ==
    /\ task \in [AicpuChannels -> [used: BOOLEAN, owner: {"idle", "join"}, thread: Threads, run: BOOLEAN, attached: BOOLEAN,
                                   started: BOOLEAN, added: BOOLEAN, once: BOOLEAN, tries: 0 .. MaxQueries, event: BOOLEAN, failed: BOOLEAN]]
    /\ offered \subseteq AicpuChannels /\ channels \subseteq AicpuChannels
    /\ readers \subseteq AicpuChannels /\ driverOn \subseteq AicpuChannels
    /\ grp \in [AicpuChannels -> [exists: BOOLEAN, subscribed: BOOLEAN, event: BOOLEAN]]
    /\ faults \in 0 .. MaxFaults /\ starts \in 0 .. MaxStarts

AicpuInit ==
    /\ task = [c \in AicpuChannels |-> IdleTask]
    /\ offered \in SUBSET AicpuChannels /\ channels = offered /\ readers = {} /\ driverOn = {}
    /\ grp = [c \in AicpuChannels |-> [exists |-> FALSE, subscribed |-> FALSE, event |-> FALSE]]
    /\ faults = 0 /\ starts = 0

(* A call of the driver's or the pool's that fails, within the bound, is the *)
(* end of what the thread will do.                                           *)
Fault(ok) == (~ok => faults < MaxFaults) /\ faults' = faults + (IF ok THEN 0 ELSE 1)

(* The device: a channel comes into being and its group is told; it goes     *)
(* when the device is reset.                                                 *)
DeviceOffers(c) ==
    /\ c \notin offered /\ offered' = offered \cup {c}
    /\ grp' = [grp EXCEPT ![c].event = @ \/ grp[c].subscribed]
    /\ UNCHANGED <<task, channels, readers, driverOn, faults, starts>>

DeviceWithdraws(c) ==
    /\ c \in offered /\ ~task[c].used /\ offered' = offered \ {c}
    /\ UNCHANGED <<task, channels, readers, driverOn, grp, faults, starts>>

(* DevTaskManager lists the channels when a device is started.               *)
GetAllChannels ==
    /\ \A c \in AicpuChannels : ~task[c].used
    /\ channels' = offered /\ channels # offered
    /\ UNCHANGED <<task, offered, readers, driverOn, grp, faults, starts>>

----------------------------------------------------------------------------
(* StartChannel, under the task's lock.  A reader that could not be used is  *)
(* taken back.                                                               *)
ReaderAfterFault_Kept(c) == readers \cup {c}
ReaderAfterFault(c) == readers \ {c}

StartChannel(c, t) ==
    \/ (t.started \/ c \notin channels) /\ task' = [task EXCEPT ![c] = t] /\ Fault(TRUE) /\ UNCHANGED <<readers, driverOn>>
    \/ /\ ~t.started /\ c \in channels
       /\ task' = [task EXCEPT ![c] = [t EXCEPT !.started = TRUE, !.added = TRUE]]
       /\ readers' = readers \cup {c} /\ driverOn' = driverOn \cup {c} /\ Fault(TRUE)
    \/ /\ ~t.started /\ c \in channels /\ Fault(FALSE)
       /\ task' = [task EXCEPT ![c] = [t EXCEPT !.failed = TRUE]]
       /\ readers' = ReaderAfterFault(c) /\ UNCHANGED driverOn

(* A stale event is one that was sent before the task was started.           *)
StartTask(c) ==
    LET t == [IdleTask EXCEPT !.used = TRUE, !.failed = grp[c].event \/ (grp[c].exists /\ ~grp[c].subscribed)] IN
    /\ ~task[c].used /\ starts < MaxStarts /\ starts' = starts + 1
    /\ IF c \in channels THEN StartChannel(c, t)
       ELSE /\ task' = [task EXCEPT ![c] = [t EXCEPT !.run = TRUE, !.thread = "query"]]
            /\ UNCHANGED <<readers, driverOn, faults>>
    /\ UNCHANGED <<offered, channels, grp>>

(* StopTask: the flag; and when the thread has ended the device and the      *)
(* channel are let go.                                                       *)
StopTask(c) ==
    /\ task[c].used /\ task[c].owner = "idle"
    /\ task' = [task EXCEPT ![c].run = FALSE, ![c].owner = "join"]
    /\ UNCHANGED <<offered, channels, readers, driverOn, grp, faults, starts>>

Joins_Never(c) == TRUE
Joins(c) == task[c].thread \in {"none", "ended"}

StopChannel(c) ==
    /\ task[c].owner = "join" /\ Joins(c)
    /\ \E ok \in BOOLEAN :
          /\ Fault(ok) /\ (~ok => task[c].started)
          /\ driverOn' = IF task[c].started /\ ok THEN driverOn \ {c} ELSE driverOn
    /\ readers' = IF task[c].added THEN readers \ {c} ELSE readers
    /\ task' = [task EXCEPT ![c] = [IdleTask EXCEPT !.thread = IF task[c].thread = "ended" THEN "none" ELSE task[c].thread]]
    /\ UNCHANGED <<offered, channels, grp, starts>>

----------------------------------------------------------------------------
(* EventThreadRun and its parts.                                             *)
Goes(c, pc) == task' = [task EXCEPT ![c].thread = pc]
GivesUp(c) == task' = [task EXCEPT ![c].thread = "ended", ![c].failed = TRUE]
DriverAsIs == UNCHANGED <<offered, channels, readers, driverOn, starts>>

QueriesAgain_OnceMore(c) == task[c].tries <= MaxQueries
QueriesAgain(c) == task[c].tries < MaxQueries

QueryDevPid(c) ==
    /\ task[c].thread = "query" /\ DriverAsIs /\ UNCHANGED grp
    /\ \/ task[c].run /\ QueriesAgain(c) /\ Goes(c, "attach") /\ UNCHANGED faults
       \/ /\ task[c].run /\ QueriesAgain(c) /\ Fault(FALSE)
          /\ task' = [task EXCEPT ![c].tries = @ + 1]
       \/ (~task[c].run \/ ~QueriesAgain(c)) /\ GivesUp(c) /\ UNCHANGED faults

HalEschedAttachDevice(c) ==
    /\ task[c].thread = "attach" /\ DriverAsIs /\ UNCHANGED grp
    /\ \/ task' = [task EXCEPT ![c].thread = "group", ![c].attached = TRUE] /\ UNCHANGED faults
       \/ Fault(FALSE) /\ GivesUp(c)

(* A group that exists is taken to be subscribed.                            *)
QueryGroupId(c) == grp[c].exists

JoinsGroup(c) ==
    /\ task[c].thread = "group" /\ DriverAsIs
    /\ \/ QueryGroupId(c) /\ Goes(c, "wait") /\ UNCHANGED <<grp, faults>>
       \/ ~QueryGroupId(c) /\ Goes(c, "wait") /\ UNCHANGED faults
          /\ grp' = [grp EXCEPT ![c].exists = TRUE, ![c].subscribed = TRUE]
       \/ \E created \in BOOLEAN :
             /\ ~QueryGroupId(c) /\ Fault(FALSE)
             /\ grp' = [grp EXCEPT ![c].exists = created]
             /\ task' = [task EXCEPT ![c].thread = "ended", ![c].failed = TRUE, ![c].attached = FALSE]

(* WaitEvent: an event, a timeout, of which the first looks at the channels, *)
(* or an error.                                                              *)
LooksOnTimeout_Never(c) == FALSE
LooksOnTimeout(c) == task[c].once

HasStopped_Never(c) == FALSE
HasStopped(c) == ~task[c].run

WaitEvent(c) ==
    /\ task[c].thread = "wait" /\ DriverAsIs
    /\ \/ /\ task[c].run /\ grp[c].event
          /\ grp' = [grp EXCEPT ![c].event = FALSE]
          /\ task' = [task EXCEPT ![c].thread = "list", ![c].event = TRUE] /\ UNCHANGED faults
       \/ /\ task[c].run /\ ~grp[c].event /\ LooksOnTimeout(c)
          /\ task' = [task EXCEPT ![c].thread = "list", ![c].once = FALSE] /\ UNCHANGED <<grp, faults>>
       \/ task[c].run /\ Fault(FALSE) /\ GivesUp(c) /\ UNCHANGED grp
       \/ HasStopped(c) /\ Goes(c, "ended") /\ UNCHANGED <<grp, faults>>

(* TryStartChannelWhenValid: the channels are listed again; after an event   *)
(* the thread ends whatever comes of it.                                     *)
AfterLook(c, t) == IF t.started \/ t.event THEN "ended" ELSE "wait"

ListsChannels(c) ==
    /\ task[c].thread = "list" /\ UNCHANGED <<offered, readers, driverOn, grp, starts>>
    /\ \/ channels' = offered /\ UNCHANGED faults
          /\ Goes(c, IF c \in offered THEN "start" ELSE AfterLook(c, task[c]))
       \/ /\ Fault(FALSE) /\ UNCHANGED channels
          /\ task' = [task EXCEPT ![c].thread = AfterLook(c, task[c]), ![c].failed = TRUE]

ThreadStartsChannel(c) ==
    /\ task[c].thread = "start"
    /\ \E next \in {"ended", "wait"} :
          /\ StartChannel(c, [task[c] EXCEPT !.thread = next])
          /\ next = AfterLook(c, task'[c])
    /\ UNCHANGED <<offered, channels, grp, starts>>

ThreadSteps(c) ==
    QueryDevPid(c) \/ HalEschedAttachDevice(c) \/ JoinsGroup(c) \/ WaitEvent(c) \/ ListsChannels(c) \/ ThreadStartsChannel(c)

AicpuNext ==
    \/ \E c \in AicpuChannels : DeviceOffers(c) \/ DeviceWithdraws(c) \/ StartTask(c) \/ StopTask(c) \/ StopChannel(c) \/ ThreadSteps(c)
    \/ GetAllChannels

AicpuSpec == AicpuInit /\ [][AicpuNext]_aicpuVars
AicpuFairness == \A c \in AicpuChannels : WF_aicpuVars(ThreadSteps(c)) /\ WF_aicpuVars(StopChannel(c))

----------------------------------------------------------------------------
(* A task that is stopped leaves nothing behind: no thread, no attachment,   *)
(* no reader, and no channel running unless the driver refused to stop it.   *)
AicpuStoppedClean ==
    \A c \in AicpuChannels : ~task[c].used =>
        task[c].thread = "none" /\ ~task[c].attached /\ c \notin readers /\ (c \in driverOn => faults > 0)

(* What the device writes is read: a channel that was started has a reader,  *)
(* and no reader is left of a start that failed.                             *)
AicpuReaderMatches == \A c \in AicpuChannels : task[c].used => (c \in readers <=> task[c].started)

(* A channel that comes into being while a task waits for it is started,     *)
(* unless the task is stopped or a call of the driver's failed; whether it   *)
(* comes before the group is subscribed, before the one look or after it.    *)
AicpuChannelStarts ==
    \A c \in AicpuChannels :
        c \in offered /\ task[c].used /\ task[c].run /\ ~task[c].failed ~> task[c].started \/ ~task[c].run \/ task[c].failed

(* StopTask returns.                                                         *)
AicpuStopReturns == \A c \in AicpuChannels : task[c].owner = "join" ~> task[c].owner = "idle"

(* A stopped task leaves no channel, and its reader is there as long as the  *)
(* channel runs.                                                             *)
AicpuInv == AicpuTypeOK /\ AicpuStoppedClean /\ AicpuReaderMatches

(* A channel that comes late is started, and the stop returns.               *)
AicpuServes == AicpuChannelStarts /\ AicpuStopReturns
=============================================================================
