----------------------- MODULE DeviceChannels_proofs -----------------------
(***************************************************************************)
(* What TLAPS proves of the way from a device's channels to a record's     *)
(* times, for every width of the counters and every number of channels,    *)
(* calls, faults, producers and nodes: a flush is answered when its bytes  *)
(* have been read (DrvFlush), an AICPU task that is stopped leaves nothing *)
(* behind (AicpuTask), the queue whose list is broken between the two      *)
(* steps of a push writes to no deleted node and implements MpscFifo       *)
(* (MpscQueue), the pool holds a scheduled reader in one place             *)
(* (ChannelPool), and the conversion of a counter keeps the order of       *)
(* times and is off by the grain at most (ClockSync).                      *)
(***************************************************************************)
EXTENDS DrvFlush, AicpuTask, MpscQueue, ChannelPool, ClockSync, FiniteSetTheorems, TLAPS

(***************************************************************************)
(* DrvFlush.  Between an answer and the next flush the two sizes are 0;    *)
(* and while an answer is awaited that no failed read and no earlier flush *)
(* excuses, what is owed is their difference.                              *)
(***************************************************************************)
Answered == ~needWait => flushBufSize = 0 /\ flushCurSize = 0 /\ (owed = 0 \/ excused)
Awaited ==
    needWait /\ ~excused =>
        flushBufSize <= MaxBytes /\ flushCurSize < flushBufSize /\ owed = flushBufSize - flushCurSize

FlushIInv == FlushTypeOK /\ Answered /\ Awaited

LEMMA ModRange ==
    ASSUME NEW x \in Int, NEW m \in Nat \ {0}
    PROVE  x % m \in 0 .. m - 1
OBVIOUS

LEMMA ModSmall ==
    ASSUME NEW m \in Nat \ {0}, NEW x \in 0 .. m - 1
    PROVE  x % m = x
OBVIOUS

\* CheckIfSendFlush keeps the widths of the fields whatever the read gave.
LEMMA CheckTypes ==
    ASSUME FlushTypeOK, NEW n \in Int, CheckIfSendFlush(n)
    PROVE  needWait' \in BOOLEAN /\ flushBufSize' \in Uint /\ flushCurSize' \in Uint
<1>1. UintValues \in Nat \ {0} /\ 0 \in Uint
  BY FlushAssumption DEF Uint
<1>2. (flushCurSize + n) % UintValues \in Uint /\ 0 % UintValues \in Uint
  BY <1>1, ModRange DEF FlushTypeOK, Uint
<1> QED BY <1>1, <1>2 DEF CheckIfSendFlush, CurSizeAfterAnswer, FlushTypeOK

\* A read of n bytes answers the flush if they are the last that it is owed.
LEMMA ReadAnswers ==
    ASSUME FlushIInv, needWait, ~excused, NEW n \in 1 .. bytes
    PROVE  /\ IsAnswered(n) <=> owed <= n
           /\ ~IsAnswered(n) => (flushCurSize + n) % UintValues = flushCurSize + n
<1>1. /\ bytes \in 0 .. MaxBytes /\ owed = flushBufSize - flushCurSize /\ flushCurSize < flushBufSize
      /\ flushBufSize <= MaxBytes /\ flushBufSize \in Nat /\ flushCurSize \in Nat
      /\ UintValues \in Nat \ {0} /\ MaxBytes \in Nat /\ MaxBytes < UintValues
  BY FlushAssumption DEF FlushIInv, FlushTypeOK, Awaited, Uint
<1>2. (UintValues - 1 - n) % UintValues = UintValues - 1 - n
  BY <1>1, ModSmall
<1>3. CASE flushCurSize + n < UintValues
  <2>1. (flushCurSize + n) % UintValues = flushCurSize + n
    BY <1>1, <1>3, ModSmall
  <2> QED BY <1>1, <1>2, <1>3, <2>1 DEF IsAnswered
<1>4. CASE flushCurSize + n >= UintValues
  BY <1>1, <1>2, <1>4 DEF IsAnswered
<1> QED BY <1>1, <1>3, <1>4

LEMMA FlushInitIInv == FlushInit => FlushIInv
<1>1. 0 \in Uint /\ 0 \in 0 .. MaxBytes /\ 0 \in 0 .. MaxFlushes /\ 0 \in 0 .. 0
  BY FlushAssumption DEF Uint
<1> SUFFICES ASSUME FlushInit PROVE FlushIInv
  OBVIOUS
<1>2. FlushTypeOK
  BY <1>1 DEF FlushInit, FlushTypeOK
<1> QED BY <1>2 DEF FlushInit, FlushIInv, Answered, Awaited

LEMMA FlushReadKeeps ==
    ASSUME FlushIInv, ProfChannelRead
    PROVE  FlushIInv'
<1>0. FlushTypeOK /\ Answered /\ Awaited /\ 0 % UintValues = 0
  BY ModSmall, FlushAssumption DEF FlushIInv
<1>1. ASSUME NEW n \in 1 .. bytes, bytes' = bytes - n, owed' = IF n < owed THEN owed - n ELSE 0,
             CheckIfSendFlush(n), UNCHANGED <<excused, flusher, flushes>>
      PROVE  FlushIInv'
  <2>0. bytes' \in 0 .. MaxBytes /\ owed' \in 0 .. bytes'
    BY <1>0, <1>1, FlushAssumption DEF FlushTypeOK
  <2>1. FlushTypeOK'
    BY <1>0, <1>1, <2>0, CheckTypes DEF FlushTypeOK
  <2>2. CASE ~needWait
    BY <1>0, <1>1, <2>1, <2>2 DEF FlushIInv, FlushTypeOK, Answered, Awaited, CheckIfSendFlush
  <2>3. CASE needWait /\ excused
    BY <1>0, <1>1, <2>1, <2>3 DEF FlushIInv, Answered, Awaited, CheckIfSendFlush, CurSizeAfterAnswer
  <2>4. CASE needWait /\ ~excused /\ IsAnswered(n)
    BY <1>0, <1>1, <2>1, <2>4, ReadAnswers
       DEF FlushIInv, FlushTypeOK, Answered, Awaited, CheckIfSendFlush, CurSizeAfterAnswer
  <2>5. CASE needWait /\ ~excused /\ ~IsAnswered(n)
    <3>1. flushCurSize' = flushCurSize + n /\ n < owed /\ UNCHANGED <<needWait, flushBufSize>>
      BY <1>1, <2>5, ReadAnswers DEF CheckIfSendFlush, FlushTypeOK, FlushIInv
    <3> QED BY <1>0, <1>1, <2>1, <2>5, <3>1 DEF FlushIInv, FlushTypeOK, Answered, Awaited, Uint
  <2> QED BY <2>2, <2>3, <2>4, <2>5
<1>2. ASSUME bytes = 0, CheckIfSendFlush(0), UNCHANGED <<bytes, owed, excused, flusher, flushes>>
      PROVE  FlushIInv'
  <2>1. FlushTypeOK'
    BY <1>0, <1>2, CheckTypes DEF FlushTypeOK
  <2>2. owed = 0 /\ IsAnswered(0)
    BY <1>0, <1>2 DEF FlushTypeOK, IsAnswered
  <2> QED BY <1>0, <1>2, <2>1, <2>2 DEF FlushIInv, Answered, Awaited, CheckIfSendFlush, CurSizeAfterAnswer
<1>3. ASSUME CheckIfSendFlush(-1), excused' = (excused \/ needWait), UNCHANGED <<bytes, owed, flusher, flushes>>
      PROVE  FlushIInv'
  <2>1. FlushTypeOK'
    BY <1>0, <1>3, CheckTypes DEF FlushTypeOK
  <2> QED BY <1>0, <1>3, <2>1 DEF FlushIInv, FlushTypeOK, Answered, Awaited, CheckIfSendFlush, CurSizeAfterAnswer
<1> QED BY <1>1, <1>2, <1>3 DEF ProfChannelRead

(* A caller of FlushDrvBuff is answered when all that its flush put out has  *)
(* been read, whatever the reads' sizes, the bytes written meanwhile and the *)
(* flushes given up before: however wide the unsigned sizes are.             *)
THEOREM FlushCorrect == FlushSpec => []FlushInv
<1>1. FlushIInv /\ [FlushNext]_flushVars => FlushIInv'
  <2> SUFFICES ASSUME FlushIInv, [FlushNext]_flushVars PROVE FlushIInv'
    OBVIOUS
  <2>1. CASE DriverWrites
    BY <2>1, FlushAssumption DEF DriverWrites, FlushIInv, FlushTypeOK, Answered, Awaited
  <2>2. CASE FlushDrvBuff
    <3>1. bytes \in Uint /\ flushes' \in 0 .. MaxFlushes
      BY <2>2, FlushAssumption DEF FlushDrvBuff, FlushIInv, FlushTypeOK, Uint
    <3>2. owed' \in 0 .. bytes'
      BY <2>2, FlushAssumption DEF FlushDrvBuff, FlushIInv, FlushTypeOK
    <3>3. needWait' \in BOOLEAN /\ excused' \in BOOLEAN
      BY <2>2, Zenon DEF FlushDrvBuff, FlushIInv, FlushTypeOK
    <3>4. FlushTypeOK'
      BY <2>2, <3>1, <3>2, <3>3 DEF FlushDrvBuff, FlushIInv, FlushTypeOK
    <3>5. Answered' /\ Awaited'
      <4>1. CASE UNCHANGED <<needWait, flushBufSize, owed, excused, flushCurSize>>
        BY <4>1 DEF FlushIInv, Answered, Awaited
      <4>2. CASE /\ bytes > 0 /\ needWait' = TRUE /\ flushBufSize' = bytes /\ owed' = bytes
                 /\ excused' = needWait /\ UNCHANGED flushCurSize
        BY <4>2, FlushAssumption DEF FlushIInv, FlushTypeOK, Answered, Awaited
      <4> QED BY <2>2, <4>1, <4>2 DEF FlushDrvBuff
    <3> QED BY <3>4, <3>5 DEF FlushIInv
  <2>3. CASE WaitEnds
    BY <2>3 DEF WaitEnds, FlushIInv, FlushTypeOK, Answered, Awaited
  <2>4. CASE ProfChannelRead
    BY <2>4, FlushReadKeeps
  <2>5. CASE UNCHANGED flushVars
    BY <2>5 DEF flushVars, FlushIInv, FlushTypeOK, Answered, Awaited
  <2> QED BY <2>1, <2>2, <2>3, <2>4, <2>5 DEF FlushNext
<1>2. FlushIInv => FlushInv
  BY DEF FlushIInv, FlushInv, FlushComplete, Answered
<1> QED BY <1>1, <1>2, FlushInitIInv, PTL DEF FlushSpec

(***************************************************************************)
(* AicpuTask.  A task that is being stopped is in use; the pool has its    *)
(* reader exactly when its channel has been started; and a channel that    *)
(* runs for no started task is one that the driver refused to stop.        *)
(***************************************************************************)
TaskType == [used: BOOLEAN, owner: {"idle", "join"}, thread: Threads, run: BOOLEAN, attached: BOOLEAN,
             started: BOOLEAN, added: BOOLEAN, once: BOOLEAN, tries: 0 .. MaxQueries, event: BOOLEAN, failed: BOOLEAN]
GroupType == [exists: BOOLEAN, subscribed: BOOLEAN, event: BOOLEAN]

\* What ties a task to the pool and the driver; StoppedTask and ReaderOfTask are
\* the invariants of AicpuTask for one task.
StoppedTask(c) ==
    ~task[c].used => /\ task[c].thread = "none" /\ ~task[c].attached /\ ~task[c].started
                     /\ task[c].owner = "idle" /\ c \notin readers
ReaderOfTask(c) == task[c].used => (c \in readers <=> task[c].started)
AddedIfStarted(c) == task[c].added <=> task[c].started
RunsForTask(c) == c \in driverOn => task[c].started \/ faults > 0
TaskOK(c) == StoppedTask(c) /\ ReaderOfTask(c) /\ AddedIfStarted(c) /\ RunsForTask(c)

AicpuIInv == AicpuTypeOK /\ \A c \in AicpuChannels : TaskOK(c)

LEMMA AicpuTypes ==
    AicpuTypeOK <=>
        /\ task \in [AicpuChannels -> TaskType] /\ grp \in [AicpuChannels -> GroupType]
        /\ offered \subseteq AicpuChannels /\ channels \subseteq AicpuChannels
        /\ readers \subseteq AicpuChannels /\ driverOn \subseteq AicpuChannels
        /\ faults \in 0 .. MaxFaults /\ starts \in 0 .. MaxStarts
BY DEF AicpuTypeOK, TaskType, GroupType

LEMMA AicpuTypesNext ==
    ASSUME task' \in [AicpuChannels -> TaskType], grp' \in [AicpuChannels -> GroupType],
           offered' \subseteq AicpuChannels, channels' \subseteq AicpuChannels,
           readers' \subseteq AicpuChannels, driverOn' \subseteq AicpuChannels,
           faults' \in 0 .. MaxFaults, starts' \in 0 .. MaxStarts
    PROVE  AicpuTypeOK'
BY DEF AicpuTypeOK, TaskType, GroupType

\* The calls that fail are counted.
LEMMA FaultCounts ==
    ASSUME faults \in 0 .. MaxFaults, NEW ok \in BOOLEAN, Fault(ok)
    PROVE  faults' \in 0 .. MaxFaults /\ faults' >= faults /\ (~ok => faults' > 0) /\ (ok => faults' = faults)
BY AicpuAssumption DEF Fault

\* A step that changes one task and may count a failed call leaves the others as
\* they were, if it leaves the pool and the driver as they were for them.
LEMMA OthersKept ==
    ASSUME AicpuIInv, NEW c \in AicpuChannels, NEW t \in TaskType,
           task' = [task EXCEPT ![c] = t], faults' \in Nat, faults' >= faults,
           \A d \in AicpuChannels : d # c => (d \in readers' <=> d \in readers) /\ (d \in driverOn' <=> d \in driverOn)
    PROVE  /\ task' \in [AicpuChannels -> TaskType] /\ task'[c] = t
           /\ \A d \in AicpuChannels : d # c => TaskOK(d)'
<1>1. task \in [AicpuChannels -> TaskType] /\ faults \in Nat
  BY AicpuTypes, AicpuAssumption DEF AicpuIInv
<1>2. task' \in [AicpuChannels -> TaskType] /\ task'[c] = t /\ \A d \in AicpuChannels : d # c => task'[d] = task[d]
  BY <1>1
<1>3. ASSUME NEW d \in AicpuChannels, d # c PROVE TaskOK(d)'
  BY <1>1, <1>2, <1>3 DEF AicpuIInv, TaskOK, StoppedTask, ReaderOfTask, AddedIfStarted, RunsForTask
<1> QED BY <1>2, <1>3

\* What StartChannel does to a task in use that has the reader it says it has.
LEMMA StartChannelKeeps ==
    ASSUME AicpuIInv, NEW c \in AicpuChannels, NEW t \in TaskType, StartChannel(c, t),
           t.used, t.added <=> t.started, t.started => c \in readers, ~t.started => c \notin readers,
           c \in driverOn => t.started \/ faults > 0,
           offered' = offered, channels' = channels, grp' = grp, starts' \in 0 .. MaxStarts
    PROVE  AicpuIInv'
<1>1. faults \in 0 .. MaxFaults /\ readers \subseteq AicpuChannels /\ driverOn \subseteq AicpuChannels
  BY AicpuTypes DEF AicpuIInv
<1>2. PICK u \in TaskType : /\ task' = [task EXCEPT ![c] = u] /\ u.used /\ (u.added <=> u.started)
                            /\ readers' \subseteq AicpuChannels /\ driverOn' \subseteq AicpuChannels
                            /\ \A d \in AicpuChannels : d # c => (d \in readers' <=> d \in readers) /\ (d \in driverOn' <=> d \in driverOn)
                            /\ (c \in readers' <=> u.started)
                            /\ faults' \in 0 .. MaxFaults /\ faults' >= faults
                            /\ (c \in driverOn' => u.started \/ faults' > 0)
  <2>1. CASE task' = [task EXCEPT ![c] = t] /\ Fault(TRUE) /\ UNCHANGED <<readers, driverOn>>
    BY <1>1, <2>1, FaultCounts
  <2>2. CASE /\ task' = [task EXCEPT ![c] = [t EXCEPT !.started = TRUE, !.added = TRUE]]
             /\ readers' = readers \cup {c} /\ driverOn' = driverOn \cup {c} /\ Fault(TRUE)
    <3> DEFINE u == [t EXCEPT !.started = TRUE, !.added = TRUE]
    <3>1. u \in TaskType /\ u.used /\ (u.added <=> u.started) /\ u.started
      BY DEF TaskType
    <3> QED BY <1>1, <2>2, <3>1, FaultCounts
  <2>3. CASE /\ ~t.started /\ Fault(FALSE) /\ task' = [task EXCEPT ![c] = [t EXCEPT !.failed = TRUE]]
             /\ readers' = ReaderAfterFault(c) /\ UNCHANGED driverOn
    <3> DEFINE u == [t EXCEPT !.failed = TRUE]
    <3>1. u \in TaskType /\ u.used /\ (u.added <=> u.started) /\ ~u.started
      BY <2>3 DEF TaskType
    <3> QED BY <1>1, <2>3, <3>1, FaultCounts DEF ReaderAfterFault
  <2> QED BY <2>1, <2>2, <2>3 DEF StartChannel
<1>3. /\ task' \in [AicpuChannels -> TaskType] /\ task'[c] = u /\ \A d \in AicpuChannels : d # c => TaskOK(d)'
  <2>1. faults' \in Nat
    BY <1>2, AicpuAssumption
  <2> QED BY <1>2, <2>1, OthersKept
<1>4. TaskOK(c)'
  BY <1>2, <1>3 DEF TaskOK, StoppedTask, ReaderOfTask, AddedIfStarted, RunsForTask
<1>5. AicpuTypeOK'
  BY <1>2, <1>3, AicpuTypes, AicpuTypesNext DEF AicpuIInv
<1> QED BY <1>3, <1>4, <1>5 DEF AicpuIInv

LEMMA IdleTaskFacts ==
    /\ IdleTask \in TaskType /\ IdleTask.used = FALSE /\ IdleTask.thread = "none" /\ IdleTask.attached = FALSE
    /\ IdleTask.started = FALSE /\ IdleTask.added = FALSE /\ IdleTask.owner = "idle"
BY AicpuAssumption DEF IdleTask, TaskType, Threads

LEMMA AicpuInitIInv == AicpuInit => AicpuIInv
<1> SUFFICES ASSUME AicpuInit PROVE AicpuIInv
  OBVIOUS
<1>2. AicpuTypeOK
  <2>1. 0 \in 0 .. MaxFaults /\ 0 \in 0 .. MaxStarts
    BY AicpuAssumption
  <2>2. task \in [AicpuChannels -> TaskType] /\ grp \in [AicpuChannels -> GroupType]
    BY IdleTaskFacts DEF AicpuInit, GroupType
  <2> QED BY <2>1, <2>2, AicpuTypes DEF AicpuInit
<1>3. ASSUME NEW c \in AicpuChannels PROVE TaskOK(c)
  <2>1. task[c] = IdleTask /\ c \notin readers /\ c \notin driverOn
    BY DEF AicpuInit
  <2> QED BY <2>1, IdleTaskFacts DEF TaskOK, StoppedTask, ReaderOfTask, AddedIfStarted, RunsForTask
<1> QED BY <1>2, <1>3 DEF AicpuIInv

\* The steps of the device and of the listing change no task.
LEMMA DeviceKeeps ==
    ASSUME AicpuIInv,
           GetAllChannels \/ \E c \in AicpuChannels : DeviceOffers(c) \/ DeviceWithdraws(c)
    PROVE  AicpuIInv'
<1>1. /\ UNCHANGED <<task, readers, driverOn, faults, starts>>
      /\ offered' \subseteq AicpuChannels /\ channels' \subseteq AicpuChannels
      /\ grp' \in [AicpuChannels -> GroupType]
  <2>1. CASE GetAllChannels
    BY <2>1, AicpuTypes DEF AicpuIInv, GetAllChannels
  <2>2. ASSUME NEW c \in AicpuChannels, DeviceOffers(c)
        PROVE  grp' \in [AicpuChannels -> GroupType]
    <3> DEFINE e == grp[c].event \/ grp[c].subscribed
    <3>1. grp \in [AicpuChannels -> GroupType] /\ grp' = [grp EXCEPT ![c].event = e] /\ e \in BOOLEAN
      BY <2>2, AicpuTypes DEF AicpuIInv, DeviceOffers
    <3> HIDE DEF e
    <3> QED BY <3>1 DEF GroupType
  <2>3. ASSUME NEW c \in AicpuChannels, DeviceOffers(c) \/ DeviceWithdraws(c)
        PROVE  /\ UNCHANGED <<task, readers, driverOn, faults, starts, channels>> /\ offered' \subseteq AicpuChannels
               /\ grp' \in [AicpuChannels -> GroupType]
    BY <2>2, <2>3, AicpuTypes DEF AicpuIInv, DeviceOffers, DeviceWithdraws
  <2> QED BY <2>1, <2>3, AicpuTypes DEF AicpuIInv
<1>2. AicpuTypeOK'
  BY <1>1, AicpuTypes, AicpuTypesNext DEF AicpuIInv
<1> QED BY <1>1, <1>2 DEF AicpuIInv, TaskOK, StoppedTask, ReaderOfTask, AddedIfStarted, RunsForTask

LEMMA StartTaskKeeps ==
    ASSUME AicpuIInv, NEW c \in AicpuChannels, StartTask(c)
    PROVE  AicpuIInv'
<1> DEFINE f == grp[c].event \/ (grp[c].exists /\ ~grp[c].subscribed)
           t == [IdleTask EXCEPT !.used = TRUE, !.failed = f]
<1>1. /\ TaskOK(c) /\ ~task[c].used /\ starts' \in 0 .. MaxStarts
      /\ UNCHANGED <<offered, channels, grp>>
  BY AicpuTypes, AicpuAssumption DEF AicpuIInv, StartTask
<1>2. StartTask(c) => IF c \in channels THEN StartChannel(c, t)
                      ELSE /\ task' = [task EXCEPT ![c] = [t EXCEPT !.run = TRUE, !.thread = "query"]]
                           /\ UNCHANGED <<readers, driverOn, faults>>
  BY DEF StartTask
<1>0. f \in BOOLEAN
  OBVIOUS
<1> HIDE DEF f
<1>3. t \in TaskType /\ t.used /\ ~t.started /\ ~t.added
  BY <1>0, IdleTaskFacts DEF TaskType
<1>4. CASE c \in channels
  <2>1. StartChannel(c, t)
    BY <1>2, <1>4
  <2> HIDE DEF t
  <2>2. c \notin readers /\ (c \in driverOn => faults > 0)
    BY <1>1 DEF TaskOK, StoppedTask, RunsForTask
  <2> QED BY <1>1, <1>3, <2>1, <2>2, StartChannelKeeps
<1>5. CASE c \notin channels
  <2> DEFINE u == [t EXCEPT !.run = TRUE, !.thread = "query"]
  <2>1. u \in TaskType /\ u.used /\ ~u.started /\ ~u.added
    BY <1>3 DEF TaskType, Threads
  <2>2. task' = [task EXCEPT ![c] = u] /\ UNCHANGED <<readers, driverOn, faults>>
    BY <1>2, <1>5
  <2> HIDE DEF u, t
  <2>3. /\ task' \in [AicpuChannels -> TaskType] /\ task'[c] = u /\ \A d \in AicpuChannels : d # c => TaskOK(d)'
    <3>1. faults' \in Nat /\ faults' >= faults
      BY <2>2, AicpuTypes, AicpuAssumption DEF AicpuIInv
    <3> QED BY <2>1, <2>2, <3>1, OthersKept
  <2>4. TaskOK(c)'
    BY <1>1, <2>1, <2>2, <2>3 DEF TaskOK, StoppedTask, ReaderOfTask, AddedIfStarted, RunsForTask
  <2>5. AicpuTypeOK'
    BY <1>1, <2>2, <2>3, AicpuTypes, AicpuTypesNext DEF AicpuIInv
  <2> QED BY <2>3, <2>4, <2>5 DEF AicpuIInv
<1> QED BY <1>4, <1>5

\* A step of StopTask or of a task's thread that neither starts nor stops its
\* channel.
LEMMA TaskStepKeeps ==
    ASSUME AicpuIInv, NEW c \in AicpuChannels, NEW t \in TaskType,
           task[c].used, task' = [task EXCEPT ![c] = t], t.used,
           t.started <=> task[c].started, t.added <=> task[c].added,
           UNCHANGED <<offered, readers, driverOn, starts>>, channels' \subseteq AicpuChannels,
           grp' \in [AicpuChannels -> GroupType], faults' \in 0 .. MaxFaults, faults' >= faults
    PROVE  AicpuIInv'
<1>1. faults' \in Nat
  BY AicpuAssumption
<1>2. /\ task' \in [AicpuChannels -> TaskType] /\ task'[c] = t /\ \A d \in AicpuChannels : d # c => TaskOK(d)'
  BY <1>1, OthersKept
<1>3. TaskOK(c)'
  BY <1>1, <1>2, AicpuTypes, AicpuAssumption
     DEF AicpuIInv, TaskOK, StoppedTask, ReaderOfTask, AddedIfStarted, RunsForTask
<1>4. AicpuTypeOK'
  BY <1>2, AicpuTypes, AicpuTypesNext DEF AicpuIInv
<1> QED BY <1>2, <1>3, <1>4 DEF AicpuIInv

\* A task whose thread runs, or which is being stopped, is in use.
LEMMA BusyIsUsed ==
    ASSUME AicpuIInv, NEW c \in AicpuChannels, task[c].thread # "none" \/ task[c].owner # "idle"
    PROVE  task[c].used
BY DEF AicpuIInv, TaskOK, StoppedTask

LEMMA StopTaskKeeps ==
    ASSUME AicpuIInv, NEW c \in AicpuChannels, StopTask(c)
    PROVE  AicpuIInv'
<1> DEFINE t == [task[c] EXCEPT !.run = FALSE, !.owner = "join"]
<1>1. task \in [AicpuChannels -> TaskType] /\ task[c] \in TaskType
  BY AicpuTypes DEF AicpuIInv
<1>2. /\ task[c].used /\ task' = [task EXCEPT ![c] = t]
      /\ UNCHANGED <<offered, channels, readers, driverOn, grp, faults, starts>>
  BY <1>1 DEF StopTask, TaskType
<1>3. t \in TaskType /\ t.used = task[c].used /\ t.started = task[c].started /\ t.added = task[c].added
  BY <1>1 DEF TaskType
<1>4. /\ channels' \subseteq AicpuChannels /\ grp' \in [AicpuChannels -> GroupType]
      /\ faults' \in 0 .. MaxFaults /\ faults' >= faults
  BY <1>2, AicpuTypes, AicpuAssumption DEF AicpuIInv
<1> HIDE DEF t
<1> QED BY <1>2, <1>3, <1>4, TaskStepKeeps

LEMMA StopChannelKeeps ==
    ASSUME AicpuIInv, NEW c \in AicpuChannels, StopChannel(c)
    PROVE  AicpuIInv'
<1>1. /\ task[c].used /\ TaskOK(c) /\ faults \in 0 .. MaxFaults /\ task[c].thread \in {"none", "ended"}
      /\ task' = [task EXCEPT ![c] = [IdleTask EXCEPT !.thread = IF task[c].thread = "ended" THEN "none" ELSE task[c].thread]]
      /\ readers' = IF task[c].added THEN readers \ {c} ELSE readers
      /\ UNCHANGED <<offered, channels, grp, starts>>
  BY BusyIsUsed, AicpuTypes DEF AicpuIInv, StopChannel, Joins
<1>2. [IdleTask EXCEPT !.thread = IF task[c].thread = "ended" THEN "none" ELSE task[c].thread] = IdleTask
  BY <1>1, IdleTaskFacts DEF IdleTask
<1>3. task' = [task EXCEPT ![c] = IdleTask] /\ c \notin readers'
  BY <1>1, <1>2 DEF TaskOK, ReaderOfTask, AddedIfStarted
<1>4. PICK ok \in BOOLEAN : /\ Fault(ok) /\ (~ok => task[c].started)
                           /\ driverOn' = IF task[c].started /\ ok THEN driverOn \ {c} ELSE driverOn
  BY DEF StopChannel
<1>5. faults' \in 0 .. MaxFaults /\ faults' \in Nat /\ faults' >= faults /\ (c \in driverOn' => faults' > 0)
  <2>1. faults' \in 0 .. MaxFaults /\ faults' >= faults /\ (~ok => faults' > 0) /\ (ok => faults' = faults)
    BY <1>1, <1>4, FaultCounts
  <2>2. CASE ok /\ task[c].started
    BY <1>4, <2>1, <2>2, AicpuAssumption
  <2>3. CASE ok /\ ~task[c].started
    BY <1>1, <1>4, <2>1, <2>3, AicpuAssumption DEF TaskOK, RunsForTask
  <2>4. CASE ~ok
    BY <2>1, <2>4, AicpuAssumption
  <2> QED BY <2>2, <2>3, <2>4
<1>6. /\ task' \in [AicpuChannels -> TaskType] /\ task'[c] = IdleTask /\ \A d \in AicpuChannels : d # c => TaskOK(d)'
  BY <1>1, <1>3, <1>4, <1>5, IdleTaskFacts, OthersKept
<1>7. TaskOK(c)'
  BY <1>3, <1>5, <1>6, IdleTaskFacts DEF TaskOK, StoppedTask, ReaderOfTask, AddedIfStarted, RunsForTask
<1>8. AicpuTypeOK'
  BY <1>1, <1>4, <1>5, <1>6, AicpuTypes, AicpuTypesNext DEF AicpuIInv
<1> QED BY <1>6, <1>7, <1>8 DEF AicpuIInv

\* What a task's thread does but for starting the channel.
ThreadUpdate(c, t) ==
    /\ task' = [task EXCEPT ![c] = t] /\ t \in TaskType
    /\ (t.used <=> task[c].used) /\ (t.started <=> task[c].started) /\ (t.added <=> task[c].added)

LEMMA ThreadGoes ==
    ASSUME AicpuIInv, NEW c \in AicpuChannels, NEW pc \in Threads, Goes(c, pc)
    PROVE  \E t : ThreadUpdate(c, t)
<1> DEFINE t == [task[c] EXCEPT !.thread = pc]
<1>1. task \in [AicpuChannels -> TaskType] /\ task[c] \in TaskType
  BY AicpuTypes DEF AicpuIInv
<1>2. task' = [task EXCEPT ![c] = t]
  BY <1>1 DEF Goes
<1>3. t \in TaskType /\ t.used = task[c].used /\ t.started = task[c].started /\ t.added = task[c].added
  BY <1>1 DEF TaskType
<1> QED BY <1>2, <1>3 DEF ThreadUpdate

LEMMA ThreadGivesUp ==
    ASSUME AicpuIInv, NEW c \in AicpuChannels, GivesUp(c)
    PROVE  \E t : ThreadUpdate(c, t)
<1> DEFINE t == [task[c] EXCEPT !.thread = "ended", !.failed = TRUE]
<1>1. task \in [AicpuChannels -> TaskType] /\ task[c] \in TaskType
  BY AicpuTypes DEF AicpuIInv
<1>2. task' = [task EXCEPT ![c] = t]
  BY <1>1 DEF GivesUp
<1>3. t \in TaskType /\ t.used = task[c].used /\ t.started = task[c].started /\ t.added = task[c].added
  BY <1>1 DEF TaskType, Threads
<1> QED BY <1>2, <1>3 DEF ThreadUpdate

\* A thread's step that leaves the pool, the driver's channels and the device.
LEMMA UpdateKeeps ==
    ASSUME AicpuIInv, NEW c \in AicpuChannels, task[c].thread # "none", \E t : ThreadUpdate(c, t),
           UNCHANGED <<offered, readers, driverOn, starts>>, channels' \subseteq AicpuChannels,
           grp' \in [AicpuChannels -> GroupType],
           UNCHANGED faults \/ Fault(FALSE)
    PROVE  AicpuIInv'
<1>1. PICK t : ThreadUpdate(c, t)
  OBVIOUS
<1>2. task[c].used
  BY BusyIsUsed
<1>3. faults' \in 0 .. MaxFaults /\ faults' >= faults
  <2>1. faults \in 0 .. MaxFaults
    BY AicpuTypes DEF AicpuIInv
  <2>2. CASE UNCHANGED faults
    BY <2>1, <2>2, AicpuAssumption
  <2>3. CASE Fault(FALSE)
    BY <2>1, <2>3, FaultCounts
  <2> QED BY <2>2, <2>3
<1> QED BY <1>1, <1>2, <1>3, TaskStepKeeps DEF ThreadUpdate

LEMMA QueryDevPidKeeps ==
    ASSUME AicpuIInv, NEW c \in AicpuChannels, QueryDevPid(c)
    PROVE  AicpuIInv'
<1>1. task \in [AicpuChannels -> TaskType] /\ task[c] \in TaskType
  BY AicpuTypes DEF AicpuIInv
<1>2. \E t : ThreadUpdate(c, t)
  <2>1. CASE Goes(c, "attach")
    BY <2>1, ThreadGoes DEF Threads
  <2>2. CASE QueriesAgain(c) /\ task' = [task EXCEPT ![c].tries = @ + 1]
    <3> DEFINE t == [task[c] EXCEPT !.tries = @ + 1]
    <3>1. task' = [task EXCEPT ![c] = t]
      BY <1>1, <2>2
    <3>2. t \in TaskType /\ t.used = task[c].used /\ t.started = task[c].started /\ t.added = task[c].added
      BY <1>1, <2>2, AicpuAssumption DEF TaskType, QueriesAgain
    <3> QED BY <3>1, <3>2 DEF ThreadUpdate
  <2>3. CASE GivesUp(c)
    BY <2>3, ThreadGivesUp
  <2> QED BY <2>1, <2>2, <2>3 DEF QueryDevPid
<1> QED BY <1>2, UpdateKeeps, AicpuTypes DEF QueryDevPid, DriverAsIs, AicpuIInv

LEMMA HalEschedAttachDeviceKeeps ==
    ASSUME AicpuIInv, NEW c \in AicpuChannels, HalEschedAttachDevice(c)
    PROVE  AicpuIInv'
<1>1. task \in [AicpuChannels -> TaskType] /\ task[c] \in TaskType
  BY AicpuTypes DEF AicpuIInv
<1>2. \E t : ThreadUpdate(c, t)
  <2>1. CASE task' = [task EXCEPT ![c].thread = "group", ![c].attached = TRUE]
    <3> DEFINE t == [task[c] EXCEPT !.thread = "group", !.attached = TRUE]
    <3>1. task' = [task EXCEPT ![c] = t]
      BY <1>1, <2>1
    <3>2. t \in TaskType /\ t.used = task[c].used /\ t.started = task[c].started /\ t.added = task[c].added
      BY <1>1 DEF TaskType, Threads
    <3> QED BY <3>1, <3>2 DEF ThreadUpdate
  <2>2. CASE GivesUp(c)
    BY <2>2, ThreadGivesUp
  <2> QED BY <2>1, <2>2 DEF HalEschedAttachDevice
<1> QED BY <1>2, UpdateKeeps, AicpuTypes DEF HalEschedAttachDevice, DriverAsIs, AicpuIInv

LEMMA JoinsGroupKeeps ==
    ASSUME AicpuIInv, NEW c \in AicpuChannels, JoinsGroup(c)
    PROVE  AicpuIInv'
<1>1. task \in [AicpuChannels -> TaskType] /\ task[c] \in TaskType /\ grp \in [AicpuChannels -> GroupType]
  BY AicpuTypes DEF AicpuIInv
<1>2. \E t : ThreadUpdate(c, t)
  <2>1. CASE Goes(c, "wait")
    BY <2>1, ThreadGoes DEF Threads
  <2>2. CASE task' = [task EXCEPT ![c].thread = "ended", ![c].failed = TRUE, ![c].attached = FALSE]
    <3> DEFINE t == [task[c] EXCEPT !.thread = "ended", !.failed = TRUE, !.attached = FALSE]
    <3>1. task' = [task EXCEPT ![c] = t]
      BY <1>1, <2>2
    <3>2. t \in TaskType /\ t.used = task[c].used /\ t.started = task[c].started /\ t.added = task[c].added
      BY <1>1 DEF TaskType, Threads
    <3> QED BY <3>1, <3>2 DEF ThreadUpdate
  <2> QED BY <2>1, <2>2 DEF JoinsGroup
<1>3. grp' \in [AicpuChannels -> GroupType]
  <2>1. ASSUME grp' = [grp EXCEPT ![c].exists = TRUE, ![c].subscribed = TRUE]
        PROVE  grp' \in [AicpuChannels -> GroupType]
    BY <1>1, <2>1 DEF GroupType
  <2>2. ASSUME NEW created \in BOOLEAN, grp' = [grp EXCEPT ![c].exists = created]
        PROVE  grp' \in [AicpuChannels -> GroupType]
    BY <1>1, <2>2 DEF GroupType
  <2> QED BY <1>1, <2>1, <2>2 DEF JoinsGroup
<1> QED BY <1>2, <1>3, UpdateKeeps, AicpuTypes DEF JoinsGroup, DriverAsIs, AicpuIInv

LEMMA WaitEventKeeps ==
    ASSUME AicpuIInv, NEW c \in AicpuChannels, WaitEvent(c)
    PROVE  AicpuIInv'
<1>1. task \in [AicpuChannels -> TaskType] /\ task[c] \in TaskType /\ grp \in [AicpuChannels -> GroupType]
  BY AicpuTypes DEF AicpuIInv
<1>2. \E t : ThreadUpdate(c, t)
  <2>1. CASE task' = [task EXCEPT ![c].thread = "list", ![c].event = TRUE]
    <3> DEFINE t == [task[c] EXCEPT !.thread = "list", !.event = TRUE]
    <3>1. task' = [task EXCEPT ![c] = t]
      BY <1>1, <2>1
    <3>2. t \in TaskType /\ t.used = task[c].used /\ t.started = task[c].started /\ t.added = task[c].added
      BY <1>1 DEF TaskType, Threads
    <3> QED BY <3>1, <3>2 DEF ThreadUpdate
  <2>2. CASE task' = [task EXCEPT ![c].thread = "list", ![c].once = FALSE]
    <3> DEFINE t == [task[c] EXCEPT !.thread = "list", !.once = FALSE]
    <3>1. task' = [task EXCEPT ![c] = t]
      BY <1>1, <2>2
    <3>2. t \in TaskType /\ t.used = task[c].used /\ t.started = task[c].started /\ t.added = task[c].added
      BY <1>1 DEF TaskType, Threads
    <3> QED BY <3>1, <3>2 DEF ThreadUpdate
  <2>3. CASE GivesUp(c)
    BY <2>3, ThreadGivesUp
  <2>4. CASE Goes(c, "ended")
    BY <2>4, ThreadGoes DEF Threads
  <2> QED BY <2>1, <2>2, <2>3, <2>4 DEF WaitEvent
<1>3. grp' \in [AicpuChannels -> GroupType]
  <2>1. ASSUME grp' = [grp EXCEPT ![c].event = FALSE]
        PROVE  grp' \in [AicpuChannels -> GroupType]
    BY <1>1, <2>1 DEF GroupType
  <2> QED BY <1>1, <2>1 DEF WaitEvent
<1> QED BY <1>2, <1>3, UpdateKeeps, AicpuTypes DEF WaitEvent, DriverAsIs, AicpuIInv

LEMMA ListsChannelsKeeps ==
    ASSUME AicpuIInv, NEW c \in AicpuChannels, ListsChannels(c)
    PROVE  AicpuIInv'
<1>1. task \in [AicpuChannels -> TaskType] /\ task[c] \in TaskType
  BY AicpuTypes DEF AicpuIInv
<1>2. AfterLook(c, task[c]) \in Threads
  BY DEF AfterLook, Threads
<1>3. \E t : ThreadUpdate(c, t)
  <2>1. CASE Goes(c, IF c \in offered THEN "start" ELSE AfterLook(c, task[c]))
    <3>1. (IF c \in offered THEN "start" ELSE AfterLook(c, task[c])) \in Threads
      BY <1>2 DEF Threads
    <3> QED BY <2>1, <3>1, ThreadGoes
  <2>2. CASE task' = [task EXCEPT ![c].thread = AfterLook(c, task[c]), ![c].failed = TRUE]
    <3> DEFINE a == AfterLook(c, task[c])
               t == [task[c] EXCEPT !.thread = a, !.failed = TRUE]
    <3>1. task' = [task EXCEPT ![c] = t]
      BY <1>1, <2>2
    <3>2. t \in TaskType /\ t.used = task[c].used /\ t.started = task[c].started /\ t.added = task[c].added
      BY <1>1, <1>2 DEF TaskType
    <3> QED BY <3>1, <3>2 DEF ThreadUpdate
  <2> QED BY <2>1, <2>2 DEF ListsChannels
<1>4. channels' \subseteq AicpuChannels
  BY AicpuTypes DEF ListsChannels, AicpuIInv
<1> QED BY <1>3, <1>4, UpdateKeeps, AicpuTypes DEF ListsChannels, AicpuIInv

LEMMA ThreadStartsChannelKeeps ==
    ASSUME AicpuIInv, NEW c \in AicpuChannels, ThreadStartsChannel(c)
    PROVE  AicpuIInv'
<1>1. PICK place \in {"ended", "wait"} : StartChannel(c, [task[c] EXCEPT !.thread = place])
  BY DEF ThreadStartsChannel
<1> DEFINE t == [task[c] EXCEPT !.thread = place]
<1>2. task[c] \in TaskType /\ task[c].used /\ TaskOK(c)
  BY BusyIsUsed, AicpuTypes DEF AicpuIInv, ThreadStartsChannel
<1>3. t \in TaskType /\ t.used = task[c].used /\ t.started = task[c].started /\ t.added = task[c].added
  BY <1>2 DEF TaskType, Threads
<1>4. /\ UNCHANGED <<offered, channels, grp>> /\ starts' \in 0 .. MaxStarts
  BY AicpuTypes DEF AicpuIInv, ThreadStartsChannel
<1> HIDE DEF t
<1> QED BY <1>1, <1>2, <1>3, <1>4, StartChannelKeeps DEF t, TaskOK, ReaderOfTask, AddedIfStarted, RunsForTask

(* A task that StopTask has stopped leaves no thread, attachment or reader,  *)
(* and its channel running only where the driver refused the stop; and the   *)
(* pool has a reader for a channel exactly as long as it is started: for any *)
(* number of tasks, starts and failing calls, whenever the channel comes.    *)
THEOREM AicpuCorrect == AicpuSpec => []AicpuInv
<1>1. AicpuIInv /\ [AicpuNext]_aicpuVars => AicpuIInv'
  <2> SUFFICES ASSUME AicpuIInv, [AicpuNext]_aicpuVars PROVE AicpuIInv'
    OBVIOUS
  <2>1. ASSUME NEW c \in AicpuChannels, DeviceOffers(c) \/ DeviceWithdraws(c) PROVE AicpuIInv'
    BY <2>1, DeviceKeeps
  <2>2. ASSUME NEW c \in AicpuChannels, StartTask(c) \/ StopTask(c) \/ StopChannel(c) PROVE AicpuIInv'
    BY <2>2, StartTaskKeeps, StopTaskKeeps, StopChannelKeeps
  <2>3. ASSUME NEW c \in AicpuChannels, ThreadSteps(c) PROVE AicpuIInv'
    BY <2>3, QueryDevPidKeeps, HalEschedAttachDeviceKeeps, JoinsGroupKeeps, WaitEventKeeps,
       ListsChannelsKeeps, ThreadStartsChannelKeeps DEF ThreadSteps
  <2>4. CASE GetAllChannels
    BY <2>4, DeviceKeeps
  <2>5. CASE UNCHANGED aicpuVars
    BY <2>5 DEF aicpuVars, AicpuIInv, AicpuTypeOK, TaskOK, StoppedTask, ReaderOfTask, AddedIfStarted, RunsForTask
  <2> QED BY <2>1, <2>2, <2>3, <2>4, <2>5 DEF AicpuNext
<1>2. AicpuIInv => AicpuInv
  BY DEF AicpuIInv, AicpuInv, AicpuStoppedClean, AicpuReaderMatches, TaskOK, StoppedTask, ReaderOfTask, RunsForTask
<1> QED BY <1>1, <1>2, AicpuInitIInv, PTL DEF AicpuSpec

(***************************************************************************)
(* MpscQueue.  Nodes are numbered as they become the head, so that the     *)
(* list is the numbers from tail to head with some links missing: the      *)
(* links that producers have still to write.                               *)
(***************************************************************************)

\* The nodes taken and the nodes in the list are consecutive.
Numbered ==
    /\ tail = Len(taken) /\ head = Len(taken) + Len(order)
    /\ \A i \in 1 .. Len(order) : order[i] = tail + i
    /\ freed \subseteq 0 .. tail - 1

\* A link, where there is one, is to the next number, and the head has none.
LinksForward == \A n \in Nodes : next[n] # Nil => next[n] = n + 1 /\ n < head

\* A producer that has still to link writes to a node of the list, after which
\* nothing is linked yet, and no two of them write to one node.
Linking(p) == producer[p].pc = "link"
WritesToList ==
    \A p \in Producers : Linking(p) =>
        /\ producer[p].prev \in tail .. head - 1 /\ producer[p].node = producer[p].prev + 1
        /\ next[producer[p].prev] = Nil
WritesApart ==
    \A p, q \in Producers : Linking(p) /\ Linking(q) /\ p # q => producer[p].prev # producer[q].prev

MpscIInv == MpscTypeOK /\ Numbered /\ LinksForward /\ WritesToList /\ WritesApart

----------------------------------------------------------------------------
LEMMA MpscInitIInv == MpscInit => MpscIInv
<1> SUFFICES ASSUME MpscInit PROVE MpscIInv
  OBVIOUS
<1>1. MpscTypeOK
  BY MpscAssumption DEF MpscInit, MpscTypeOK, Nodes, Nil, IdleProducer
<1>2. Numbered /\ LinksForward /\ WritesToList /\ WritesApart
  BY DEF MpscInit, Numbered, LinksForward, WritesToList, WritesApart, Linking, Nodes, Nil, IdleProducer
<1> QED BY <1>1, <1>2 DEF MpscIInv

LEMMA ExchangesKeeps ==
    ASSUME MpscIInv, NEW p \in Producers, Exchanges(p)
    PROVE  MpscIInv'
<1> DEFINE rec == [pc |-> "link", node |-> Fresh, prev |-> head]
<1>1. Fresh \in Nodes /\ Fresh = head + 1 /\ head \in Nodes /\ tail \in Nat /\ tail <= head
  BY MpscAssumption DEF MpscIInv, MpscTypeOK, Numbered, Exchanges, Fresh, Nodes
<1>2. /\ producer' = [producer EXCEPT ![p] = rec] /\ head' = Fresh /\ order' = Append(order, Fresh)
      /\ UNCHANGED <<tail, next, freed, count, taken>>
  BY DEF Exchanges
<1>3. MpscTypeOK'
  BY <1>1, <1>2 DEF MpscIInv, MpscTypeOK
<1>4. Numbered'
  <2>1. order \in Seq(Nodes) /\ Len(order) \in Nat /\ Len(taken) \in Nat
    BY DEF MpscIInv, MpscTypeOK
  <2>2. Len(order') = Len(order) + 1 /\ \A i \in 1 .. Len(order') : order'[i] = IF i <= Len(order) THEN order[i] ELSE Fresh
    BY <1>1, <1>2, <2>1
  <2> QED BY <1>1, <1>2, <2>1, <2>2 DEF MpscIInv, Numbered
<1>5. LinksForward'
  BY <1>1, <1>2 DEF MpscIInv, LinksForward, Nodes
<1>6. next[head] = Nil
  BY <1>1 DEF MpscIInv, LinksForward, Nodes, Nil, MpscTypeOK
<1>7. \A q \in Producers : producer'[q] = IF q = p THEN rec ELSE producer[q]
  BY <1>2 DEF MpscIInv, MpscTypeOK
<1>8. WritesToList'
  BY <1>1, <1>2, <1>6, <1>7 DEF MpscIInv, WritesToList, Linking, Nodes
<1>9. WritesApart'
  BY <1>1, <1>2, <1>7 DEF MpscIInv, WritesToList, WritesApart, Linking, Nodes
<1> QED BY <1>3, <1>4, <1>5, <1>8, <1>9 DEF MpscIInv

LEMMA LinksKeeps ==
    ASSUME MpscIInv, NEW p \in Producers, Links(p)
    PROVE  MpscIInv'
<1> DEFINE n == producer[p].prev
<1>1. /\ n \in tail .. head - 1 /\ producer[p].node = n + 1 /\ n \in Nodes /\ n + 1 \in Nodes
  BY DEF MpscIInv, MpscTypeOK, WritesToList, Links, Linking, Nodes
<1>2. /\ next' = [next EXCEPT ![n] = n + 1] /\ producer' = [producer EXCEPT ![p].pc = "count"]
      /\ UNCHANGED <<head, tail, freed, count, taken, order>>
  BY <1>1 DEF Links, LinkedTo
<1>3. MpscTypeOK'
  BY <1>1, <1>2 DEF MpscIInv, MpscTypeOK
<1>4. Numbered'
  BY <1>2 DEF MpscIInv, Numbered
<1>5. LinksForward'
  BY <1>1, <1>2 DEF MpscIInv, MpscTypeOK, LinksForward, Nodes
<1>6. \A q \in Producers : Linking(q)' => q # p /\ Linking(q) /\ producer'[q] = producer[q]
  BY <1>2 DEF MpscIInv, MpscTypeOK, Linking
<1>7. Linking(p)
  BY DEF Links, Linking
<1>8. WritesToList'
  BY <1>1, <1>2, <1>6, <1>7 DEF MpscIInv, MpscTypeOK, WritesToList, WritesApart, Nodes
<1>9. WritesApart'
  BY <1>6 DEF MpscIInv, WritesApart
<1> QED BY <1>3, <1>4, <1>5, <1>8, <1>9 DEF MpscIInv

LEMMA CountsKeeps ==
    ASSUME MpscIInv, NEW p \in Producers, Counts(p)
    PROVE  MpscIInv'
<1>1. MpscTypeOK'
  <2>1. (count + 1) % SizeValues \in 0 .. SizeValues - 1
    BY MpscAssumption DEF MpscIInv, MpscTypeOK
  <2>2. IdleProducer \in [pc: {"idle", "link", "count"}, node: Nodes, prev: Nodes]
    BY MpscAssumption DEF IdleProducer, Nodes
  <2> QED BY <2>1, <2>2 DEF MpscIInv, MpscTypeOK, Counts
<1>2. \A q \in Producers : Linking(q)' => Linking(q) /\ producer'[q] = producer[q]
  BY DEF MpscIInv, MpscTypeOK, Counts, Linking, IdleProducer
<1>3. Numbered' /\ LinksForward' /\ WritesToList' /\ WritesApart'
  BY <1>2 DEF MpscIInv, Counts, Numbered, LinksForward, WritesToList, WritesApart
<1> QED BY <1>1, <1>3 DEF MpscIInv

\* The node that Pop takes is the first of order.
LEMMA PopTakesFirst ==
    ASSUME MpscIInv, Pop
    PROVE  /\ order # <<>> /\ Head(order) = next[tail] /\ next[tail] = tail + 1 /\ tail < head
           /\ tail + 1 \in Nodes
<1>1. next[tail] = tail + 1 /\ tail < head /\ head \in Nodes /\ tail \in Nodes
  BY DEF MpscIInv, MpscTypeOK, LinksForward, Pop
<1>2. Len(order) > 0
  BY <1>1 DEF MpscIInv, MpscTypeOK, Numbered, Nodes
<1>3. order[1] = tail + 1
  BY <1>2 DEF MpscIInv, MpscTypeOK, Numbered
<1>4. order # <<>> /\ Head(order) = order[1]
  <2>1. order \in Seq(Nodes)
    BY DEF MpscIInv, MpscTypeOK
  <2> QED BY <1>2, <2>1
<1>5. tail + 1 \in Nodes
  BY <1>1, MpscAssumption DEF Nodes
<1> QED BY <1>1, <1>3, <1>4, <1>5

LEMMA PopKeeps ==
    ASSUME MpscIInv, Pop
    PROVE  MpscIInv'
<1>1. /\ order # <<>> /\ next[tail] = tail + 1 /\ tail < head /\ tail + 1 \in Nodes /\ tail \in Nodes /\ head \in Nodes
  BY PopTakesFirst DEF MpscIInv, MpscTypeOK
<1>2. /\ taken' = Append(taken, tail + 1) /\ tail' = tail + 1 /\ freed' = freed \cup {tail}
      /\ count' = (count - 1) % SizeValues /\ order' = Tail(order)
      /\ UNCHANGED <<head, next, producer>>
  BY <1>1 DEF Pop, Deleted
<1>3. MpscTypeOK'
  <2>1. (count - 1) % SizeValues \in 0 .. SizeValues - 1
    BY MpscAssumption DEF MpscIInv, MpscTypeOK
  <2>2. Tail(order) \in Seq(Nodes) /\ Append(taken, tail + 1) \in Seq(Nodes)
    BY <1>1 DEF MpscIInv, MpscTypeOK
  <2> QED BY <1>1, <1>2, <2>1, <2>2 DEF MpscIInv, MpscTypeOK
<1>4. Numbered'
  <2>0. order \in Seq(Nodes) /\ taken \in Seq(Nodes)
    BY DEF MpscIInv, MpscTypeOK
  <2>1. /\ Len(taken') = Len(taken) + 1 /\ Len(order') = Len(order) - 1
        /\ \A i \in 1 .. Len(order') : order'[i] = order[i + 1]
    BY <1>1, <1>2, <2>0
  <2>2. \A i \in 1 .. Len(order') : order'[i] = tail' + i
    BY <1>1, <1>2, <2>1 DEF MpscIInv, MpscTypeOK, Numbered, Nodes
  <2>3. freed' \subseteq 0 .. tail' - 1
    <3>1. 0 .. tail - 1 \subseteq 0 .. tail' - 1 /\ tail \in 0 .. tail' - 1
      BY <1>1, <1>2 DEF Nodes
    <3>2. freed \subseteq 0 .. tail - 1
      BY DEF MpscIInv, Numbered
    <3> QED BY <1>2, <3>1, <3>2
  <2> QED BY <1>1, <1>2, <2>1, <2>2, <2>3 DEF MpscIInv, MpscTypeOK, Numbered, Nodes
<1>5. LinksForward' /\ WritesApart'
  BY <1>2 DEF MpscIInv, LinksForward, WritesApart, Linking
<1>6. WritesToList'
  BY <1>1, <1>2 DEF MpscIInv, MpscTypeOK, WritesToList, Linking, Nodes, Nil
<1> QED BY <1>3, <1>4, <1>5, <1>6 DEF MpscIInv

(* The strengthened invariant holds, whatever the producers do between the   *)
(* two steps of a push.                                                      *)
THEOREM MpscInductive == MpscSpec => []MpscIInv
<1>1. MpscIInv /\ [MpscNext]_mpscVars => MpscIInv'
  <2> SUFFICES ASSUME MpscIInv, [MpscNext]_mpscVars PROVE MpscIInv'
    OBVIOUS
  <2>1. CASE Pop
    BY <2>1, PopKeeps
  <2>2. ASSUME NEW p \in Producers, Exchanges(p) \/ Links(p) \/ Counts(p) PROVE MpscIInv'
    BY <2>2, ExchangesKeeps, LinksKeeps, CountsKeeps
  <2>3. CASE UNCHANGED mpscVars
    BY <2>3 DEF mpscVars, MpscIInv, MpscTypeOK, Numbered, LinksForward, WritesToList, WritesApart, Linking
  <2> QED BY <2>1, <2>2, <2>3 DEF MpscNext
<1> QED BY <1>1, MpscInitIInv, PTL DEF MpscSpec

----------------------------------------------------------------------------
(* A producer that has replaced the head writes to a node that the consumer  *)
(* cannot have deleted: MPSCQueue::Pop stops before the missing link.        *)
LEMMA SafeWrites == MpscIInv => NoWriteAfterFree
BY DEF MpscIInv, MpscTypeOK, Numbered, WritesToList, Linking, NoWriteAfterFree, Nodes

(* Every step of the queue is a step of MpscFifo or leaves it as it is: a    *)
(* value enters when its node becomes the head and leaves when it is popped. *)
LEMMA FifoStep == MpscIInv /\ [MpscNext]_mpscVars => [Fifo!Enters \/ Fifo!Leaves]_<<order, taken>>
<1> SUFFICES ASSUME MpscIInv, [MpscNext]_mpscVars PROVE [Fifo!Enters \/ Fifo!Leaves]_<<order, taken>>
  OBVIOUS
<1>1. CASE Pop
  BY <1>1, PopTakesFirst DEF Pop, Fifo!Leaves
<1>2. ASSUME NEW p \in Producers, Exchanges(p) PROVE Fifo!Enters
  <2>1. Fresh \in 1 .. MaxNodes
    BY <1>2 DEF MpscIInv, MpscTypeOK, Exchanges, Fresh
  <2> QED BY <1>2, <2>1 DEF Exchanges, Fifo!Enters
<1>3. ASSUME NEW p \in Producers, Links(p) \/ Counts(p) PROVE UNCHANGED <<order, taken>>
  BY <1>3 DEF Links, Counts
<1>4. CASE UNCHANGED mpscVars
  BY <1>4 DEF mpscVars
<1> QED BY <1>1, <1>2, <1>3, <1>4 DEF MpscNext

(* MPSCQueue is a FIFO queue although a push takes two steps, and no         *)
(* producer writes to a node that Pop has deleted.                           *)
THEOREM MpscQueueCorrect == MpscSpec => MpscCorrect
<1>1. MpscInit => Fifo!FifoInit
  BY DEF MpscInit, Fifo!FifoInit
<1>2. MpscIInv => MpscTypeOK
  BY DEF MpscIInv
<1> QED BY <1>1, <1>2, MpscInductive, SafeWrites, FifoStep, PTL DEF MpscSpec, MpscCorrect, MpscIsFifo, Fifo!FifoSpec

(***************************************************************************)
(* ChannelPool.  Types, that a reader counts as scheduled exactly when it  *)
(* is in one place, that of the workers at a channel all but one hold a    *)
(* reader that was removed, and that a pool that was stopped holds nothing.*)
(***************************************************************************)

(***************************************************************************)
(* The inductive invariant.                                                *)
(***************************************************************************)

\* No channel has more chunks than were written.
PoolTypes ==
    /\ PoolTypeOK /\ queue \in [WorkerIds -> Seq(Nat)] /\ worker \in [WorkerIds -> Int]
    /\ \A c \in PoolChannels : chunks[c] <= written

\* A reader is only ever with its own worker,
AtHome ==
    \A w \in WorkerIds :
        /\ \A i \in 1 .. Len(queue[w]) : WorkerOf(queue[w][i]) = w
        /\ worker[w] > 0 => WorkerOf(worker[w]) = w

\* there in one place,
Once ==
    \A w \in WorkerIds : \A i \in 1 .. Len(queue[w]) :
        /\ queue[w][i] # worker[w]
        /\ \A j \in 1 .. Len(queue[w]) : queue[w][i] = queue[w][j] => i = j

\* and not there while the loop is about to push it.
WithWorker(r) == \E w \in WorkerIds : worker[w] = r \/ \E i \in 1 .. Len(queue[w]) : queue[w][i] = r
Pushed(r) == loop.pc = "push" /\ readerOf[loop.at] = r
PushedOnce == loop.pc = "push" =>
    loop.at \in PoolChannels /\ readerOf[loop.at] \in ReaderIds /\ ~WithWorker(readerOf[loop.at])

\* ScheduledIsHeld without counting.
Scheduled == \A r \in ReaderIds : reader[r].scheduling <=> WithWorker(r) \/ Pushed(r)

\* While the loop runs no worker is told to quit, and a worker that is gone left
\* nothing queued.
Running == loop.pc \in {"poll", "dispatch", "push"} => quit = {} /\ \A w \in WorkerIds : worker[w] # Gone
LeftEmpty == \A w \in WorkerIds : worker[w] = Gone => queue[w] = <<>>

\* A pool has its loop, and what there is without a pool is at rest.
Rests ==
    /\ pool.there <=> loop.pc # "none"
    /\ pool.stopping => pool.there
    /\ ~pool.there => /\ \A w \in WorkerIds : worker[w] = Gone
                      /\ \A r \in ReaderIds : ~reader[r].alive

PoolIInv == PoolTypes /\ AtHome /\ Once /\ PushedOnce /\ Scheduled /\ Running /\ LeftEmpty /\ Rests

\* A reader that is not removed is that of its channel, and has read nothing late;
\* one that a worker has looked at, and has yet to read, has not either.
PoolReads ==
    /\ \A r \in ReaderIds : reader[r].alive => readerOf[reader[r].channel] = r /\ reader[r].late = 0
    /\ \A r \in ReaderIds : reader[r].late <= 1
    /\ \A w \in checked : worker[w] > 0 /\ reader[worker[w]].late = 0

----------------------------------------------------------------------------
(* Facts about workers and queues *)

Reader == [channel: PoolChannels, worker: WorkerIds, alive: BOOLEAN, scheduling: BOOLEAN, late: Nat]

LEMMA ReadersTyped ==
    ASSUME PoolTypes
    PROVE  /\ reader \in Seq(Reader) /\ Len(reader) \in Nat
           /\ \A r \in ReaderIds : /\ reader[r] \in Reader /\ reader[r].channel \in PoolChannels
                               /\ reader[r].worker \in WorkerIds /\ reader[r].late \in Nat
<1>1. reader \in Seq(Reader)
  BY DEF PoolTypes, PoolTypeOK, Reader
<1>2. Len(reader) \in Nat /\ \A r \in 1 .. Len(reader) : reader[r] \in Reader
  BY <1>1
<1>3. \A x \in Reader : x.channel \in PoolChannels /\ x.worker \in WorkerIds /\ x.late \in Nat
  BY DEF Reader
<1> QED BY <1>1, <1>2, <1>3 DEF ReaderIds

LEMMA WorkerOfReader ==
    ASSUME PoolTypes, NEW r \in ReaderIds
    PROVE  WorkerOf(r) \in WorkerIds
BY ReadersTyped DEF WorkerOf

LEMMA WiderSequence ==
    ASSUME NEW S, NEW T, S \subseteq T, NEW s \in Seq(S)
    PROVE  s \in Seq(T)
OBVIOUS

\* In terms of elements, which is how the steps use them.
LEMMA QueueElements ==
    ASSUME PoolTypes, NEW w \in WorkerIds
    PROVE  /\ queue[w] \in Seq(ReaderIds) /\ queue[w] \in Seq(Nat) /\ Len(queue[w]) \in Nat
           /\ \A i \in 1 .. Len(queue[w]) : queue[w][i] \in ReaderIds /\ queue[w][i] > 0
           /\ worker[w] \in {Gone, Idle} \cup ReaderIds /\ worker[w] \in Int
<1>1. queue[w] \in Seq(ReaderIds) /\ queue[w] \in Seq(Nat) /\ worker[w] \in {Gone, Idle} \cup ReaderIds /\ worker[w] \in Int
  BY DEF PoolTypes, PoolTypeOK
<1>2. \A i \in 1 .. Len(queue[w]) : queue[w][i] \in ReaderIds
  BY <1>1
<1>3. \A r \in ReaderIds : r > 0
  BY DEF ReaderIds, PoolTypes, PoolTypeOK
<1> QED BY <1>1, <1>2, <1>3

LEMMA ReaderIdsNat ==
    ASSUME PoolTypes
    PROVE  Len(reader) \in Nat /\ ReaderIds \subseteq Nat \ {0} /\ Gone \notin ReaderIds /\ Idle \notin ReaderIds
BY DEF PoolTypes, PoolTypeOK, ReaderIds, Gone, Idle

\* A step that leaves queues, workers and the loop's push, and every reader's
\* worker and flag, keeps what is said of places.
LEMMA PlacesKept ==
    ASSUME PoolTypes, AtHome, Once, PushedOnce, Scheduled, Len(reader') = Len(reader),
           UNCHANGED <<queue, worker>>,
           \A r \in ReaderIds : reader'[r].worker = reader[r].worker /\ (reader'[r].scheduling <=> reader[r].scheduling),
           \/ loop'.pc # "push" /\ loop.pc # "push"
           \/ UNCHANGED <<loop, readerOf>>
    PROVE  AtHome' /\ Once' /\ PushedOnce' /\ Scheduled'
<1>1. ReaderIds' = ReaderIds /\ \A r \in ReaderIds : WorkerOf(r)' = WorkerOf(r)
  BY DEF ReaderIds, WorkerOf
<1>2. AtHome'
  BY <1>1, QueueElements DEF AtHome, Gone, Idle, WorkerIds
<1>3. Once'
  BY DEF Once, WorkerIds
<1>4. \A r : (WithWorker(r)' <=> WithWorker(r)) /\ (Pushed(r)' <=> Pushed(r))
  BY DEF WithWorker, Pushed, WorkerIds
<1>5. PushedOnce'
  BY <1>1, <1>4 DEF PushedOnce
<1>6. Scheduled'
  BY <1>1, <1>4 DEF Scheduled
<1> QED BY <1>2, <1>3, <1>5, <1>6

----------------------------------------------------------------------------
(* The initial states, and one lemma for each action *)

LEMMA InitHolds == PoolInit => PoolIInv
<1> SUFFICES ASSUME PoolInit PROVE PoolIInv
  OBVIOUS
<1> USE DEF PoolInit, NoPool
<1>1. ReaderIds = {}
  BY DEF ReaderIds
<1>2. PoolTypes
  <2>1. \A w \in WorkerIds : queue[w] = <<>> /\ worker[w] = Gone
    OBVIOUS
  <2>2. queue \in [WorkerIds -> Seq(Nat)] /\ worker \in [WorkerIds -> Int]
    BY DEF Gone
  <2>3. reader \in Seq([channel: PoolChannels, worker: WorkerIds, alive: BOOLEAN, scheduling: BOOLEAN, late: Nat]) /\ Len(reader) = 0
    OBVIOUS
  <2>4. PoolTypeOK
    BY <2>1, <2>3, PoolAssumption DEF PoolTypeOK
  <2> QED BY <2>2, <2>4 DEF PoolTypes
<1>3. AtHome /\ Once /\ PushedOnce /\ Running /\ LeftEmpty
  BY DEF AtHome, Once, PushedOnce, Running, LeftEmpty, Gone
<1>4. Scheduled /\ Rests
  BY <1>1 DEF Scheduled, Rests
<1> QED BY <1>2, <1>3, <1>4 DEF PoolIInv

LEMMA DriverFillsKeeps == PoolIInv /\ (\E c \in PoolChannels : DriverFills(c)) => PoolIInv'
<1> SUFFICES ASSUME PoolIInv, NEW c \in PoolChannels, DriverFills(c) PROVE PoolIInv'
  OBVIOUS
<1> USE DEF PoolIInv, DriverFills
<1>1. PoolTypes'
  <2>1. chunks[c] \in Nat /\ written \in Nat /\ chunks[c] <= written /\ MaxData \in Nat
    BY PoolAssumption DEF PoolTypes, PoolTypeOK
  <2>2. written' \in 0 .. MaxData /\ chunks'[c] = chunks[c] + 1 /\ chunks[c] + 1 \in 0 .. MaxData /\ chunks[c] + 1 <= written'
    BY <2>1 DEF PoolTypes, PoolTypeOK
  <2>3. \A b \in PoolChannels : chunks'[b] <= written'
    BY <2>1, <2>2 DEF PoolTypes, PoolTypeOK
  <2>4. chunks' \in [PoolChannels -> 0 .. MaxData]
    BY <2>2 DEF PoolTypes, PoolTypeOK
  <2> QED BY <2>2, <2>3, <2>4 DEF PoolTypes, PoolTypeOK, ReaderIds, WorkerIds
<1>2. AtHome' /\ Once' /\ PushedOnce' /\ Scheduled'
  BY PlacesKept
<1>3. Running' /\ LeftEmpty' /\ Rests'
  BY DEF Running, LeftEmpty, Rests, ReaderIds, WorkerIds
<1> QED BY <1>1, <1>2, <1>3

\* Workers that have neither a reader nor a queue have nothing scheduled.
LEMMA NothingHeld ==
    ASSUME PoolTypes, \A w \in WorkerIds : worker[w] \in {Gone, Idle} /\ queue[w] = <<>>
    PROVE  AtHome /\ Once /\ \A r \in ReaderIds : ~WithWorker(r)
<1>1. \A w \in WorkerIds : Len(queue[w]) = 0 /\ ~(worker[w] > 0)
  BY DEF Gone, Idle
<1>2. AtHome /\ Once
  BY <1>1 DEF AtHome, Once
<1>3. \A r \in ReaderIds : r # Gone /\ r # Idle
  BY ReaderIdsNat
<1> QED BY <1>1, <1>2, <1>3 DEF WithWorker

LEMMA InitPoolKeeps == PoolIInv /\ InitPool => PoolIInv'
<1> SUFFICES ASSUME PoolIInv, InitPool PROVE PoolIInv'
  OBVIOUS
<1> USE DEF PoolIInv, InitPool
<1>1. loop.pc = "none" /\ \A w \in WorkerIds : worker[w] = Gone /\ queue[w] = <<>>
  BY DEF Rests, LeftEmpty
<1>2. \A r \in ReaderIds : ~reader[r].scheduling /\ ~WithWorker(r)
  BY <1>1, NothingHeld DEF Scheduled, Pushed
<1>3. \A w \in WorkerIds : worker'[w] = Idle /\ queue'[w] = <<>>
  OBVIOUS
<1>4. PoolTypes'
  <2>1. worker' \in [WorkerIds -> Int] /\ queue' \in [WorkerIds -> Seq(Nat)]
    BY DEF Idle, WorkerIds
  <2>2. pools' \in 0 .. MaxPools
    BY PoolAssumption DEF PoolTypes, PoolTypeOK
  <2>3. \A w \in WorkerIds : queue'[w] \in Seq(ReaderIds) /\ Len(queue'[w]) <= QueueSize /\ worker'[w] \in {Gone, Idle} \cup ReaderIds
    BY <1>3, PoolAssumption
  <2>4. pool' \in [there: BOOLEAN, started: BOOLEAN, stopping: BOOLEAN] /\ loop' \in [pc: {"none", "poll", "dispatch", "push", "left"}, at: PoolChannels \cup {Gone}]
    OBVIOUS
  <2> QED BY <2>1, <2>2, <2>3, <2>4 DEF PoolTypes, PoolTypeOK, ReaderIds, WorkerIds
<1>5. ReaderIds' = ReaderIds /\ \A r \in ReaderIds : (~WithWorker(r))'
  BY <1>3, ReaderIdsNat DEF WithWorker, ReaderIds, WorkerIds
<1>6. AtHome' /\ Once'
  BY <1>3 DEF AtHome, Once, WorkerIds, Idle
<1>7. PushedOnce' /\ Scheduled'
  BY <1>2, <1>5 DEF PushedOnce, Scheduled, Pushed
<1>8. Running' /\ LeftEmpty' /\ Rests'
  BY <1>3 DEF Running, LeftEmpty, Rests, WorkerIds, Gone, Idle
<1> QED BY <1>4, <1>6, <1>7, <1>8

LEMMA AddReaderKeeps == PoolIInv /\ (\E c \in PoolChannels, w \in WorkerIds : AddReader(c, w)) => PoolIInv'
<1> SUFFICES ASSUME PoolIInv, NEW c \in PoolChannels, NEW h \in WorkerIds, AddReader(c, h) PROVE PoolIInv'
  OBVIOUS
<1> DEFINE new == [channel |-> c, worker |-> h, alive |-> TRUE, scheduling |-> FALSE, late |-> 0]
           n == Len(reader) + 1
<1>1. reader \in Seq(Reader) /\ new \in Reader /\ Len(reader) \in Nat
  BY ReadersTyped DEF PoolIInv, Reader
<1>2. reader' = Append(reader, new) /\ UNCHANGED <<pool, loop, queue, worker, checked, quit, chunks, written, pools, todo>>
  BY DEF AddReader
<1>3. /\ reader' \in Seq(Reader) /\ Len(reader') = n /\ ReaderIds' = ReaderIds \cup {n} /\ n \notin ReaderIds
      /\ reader'[n] = new /\ \A r \in ReaderIds : reader'[r] = reader[r]
  BY <1>1, <1>2 DEF ReaderIds
<1>4. PoolTypes'
  <2>1. readerOf' \in [PoolChannels -> 0 .. Len(reader')]
    BY <1>1, <1>3 DEF AddReader, PoolIInv, PoolTypes, PoolTypeOK
  <2>2. \A w \in WorkerIds : queue'[w] \in Seq(ReaderIds') /\ Len(queue'[w]) <= QueueSize /\ worker'[w] \in {Gone, Idle} \cup ReaderIds'
    BY <1>2, <1>3, QueueElements, WiderSequence DEF PoolIInv, PoolTypes, PoolTypeOK
  <2> QED BY <1>2, <1>3, <2>1, <2>2 DEF PoolIInv, PoolTypes, PoolTypeOK, Reader, WorkerIds
<1>5. /\ \A r \in ReaderIds : WorkerOf(r)' = WorkerOf(r)
      /\ \A w \in WorkerIds : \A i \in 1 .. Len(queue[w]) : queue[w][i] \in ReaderIds
      /\ \A w \in WorkerIds : worker[w] > 0 => worker[w] \in ReaderIds
  BY <1>3, QueueElements DEF WorkerOf, PoolIInv, Gone, Idle
<1>6. AtHome' /\ Once'
  BY <1>2, <1>5 DEF PoolIInv, AtHome, Once, WorkerIds
<1>7. \A r : WithWorker(r)' <=> WithWorker(r)
  BY <1>2 DEF WithWorker, WorkerIds
<1>8. n > 0 /\ ~WithWorker(n)
  BY <1>1, <1>3, <1>5 DEF WithWorker
<1>9. loop.pc # "push" /\ loop' = loop
  BY DEF AddReader, ReadersAreFree
<1>10. Scheduled' /\ PushedOnce'
  BY <1>3, <1>7, <1>8, <1>9 DEF PoolIInv, Scheduled, Pushed, PushedOnce
<1>11. Running' /\ LeftEmpty'
  BY <1>2 DEF PoolIInv, Running, LeftEmpty, WorkerIds
<1>12. Rests'
  BY <1>2, <1>3 DEF PoolIInv, Rests, AddReader, WorkerIds
<1> QED BY <1>4, <1>6, <1>10, <1>11, <1>12 DEF PoolIInv

LEMMA RemoveReaderKeeps == PoolIInv /\ (\E c \in PoolChannels : RemoveReader(c)) => PoolIInv'
<1> SUFFICES ASSUME PoolIInv, NEW c \in PoolChannels, RemoveReader(c) PROVE PoolIInv'
  OBVIOUS
<1>1. readerOf[c] \in ReaderIds
  BY ReadersTyped DEF RemoveReader, PoolIInv, PoolTypes, PoolTypeOK, ReaderIds
<1>2. reader' \in Seq(Reader) /\ Len(reader') = Len(reader) /\ ReaderIds' = ReaderIds
  <2>1. [reader[readerOf[c]] EXCEPT !.alive = FALSE] \in Reader
    BY <1>1, ReadersTyped DEF PoolIInv, Reader
  <2>2. reader' = [reader EXCEPT ![readerOf[c]] = [reader[readerOf[c]] EXCEPT !.alive = FALSE]]
    BY DEF RemoveReader
  <2> QED BY <2>1, <2>2, <1>1, ReadersTyped DEF PoolIInv, ReaderIds
<1>3. \A r \in ReaderIds : reader'[r].worker = reader[r].worker /\ (reader'[r].scheduling <=> reader[r].scheduling)
  BY <1>1, ReadersTyped DEF RemoveReader, PoolIInv, ReaderIds
<1>4. PoolTypes'
  <2>1. chunks' \in [PoolChannels -> 0 .. MaxData] /\ \A b \in PoolChannels : chunks'[b] <= written'
    <3>1. chunks \in [PoolChannels -> 0 .. MaxData] /\ chunks' = [chunks EXCEPT ![c] = 0] /\ written' = written
      BY DEF RemoveReader, PoolIInv, PoolTypes, PoolTypeOK
    <3>2. written \in 0 .. MaxData /\ \A b \in PoolChannels : chunks[b] <= written
      BY DEF PoolIInv, PoolTypes, PoolTypeOK
    <3> QED BY PoolAssumption, <3>1, <3>2
  <2>2. readerOf' \in [PoolChannels -> 0 .. Len(reader')]
    BY <1>2, ReadersTyped DEF RemoveReader, PoolIInv, PoolTypes, PoolTypeOK
  <2> QED BY <1>2, <2>1, <2>2 DEF RemoveReader, PoolIInv, PoolTypes, PoolTypeOK, Reader, WorkerIds
<1>5. UNCHANGED <<pool, loop, queue, worker, checked, quit>> /\ loop.pc # "push"
  BY DEF RemoveReader, ReadersAreFree
<1>6. AtHome' /\ Once' /\ PushedOnce' /\ Scheduled'
  BY <1>2, <1>3, <1>5, PlacesKept DEF PoolIInv
<1>7. Running' /\ LeftEmpty'
  BY <1>5 DEF PoolIInv, Running, LeftEmpty, WorkerIds
<1>8. Rests'
  BY <1>5 DEF PoolIInv, Rests, RemoveReader, WorkerIds
<1> QED BY <1>4, <1>6, <1>7, <1>8 DEF PoolIInv

LEMMA UnInitKeeps == PoolIInv /\ UnInit => PoolIInv'
<1> SUFFICES ASSUME PoolIInv, UnInit PROVE PoolIInv'
  OBVIOUS
<1>1. UNCHANGED <<loop, todo, readerOf, reader, queue, worker, checked, quit, chunks, written, pools>>
  BY DEF UnInit
<1>2. pool' \in [there: BOOLEAN, started: BOOLEAN, stopping: BOOLEAN] /\ pool'.there
  BY DEF UnInit, PoolIInv, PoolTypes, PoolTypeOK
<1>3. PoolTypes'
  BY <1>1, <1>2 DEF PoolIInv, PoolTypes, PoolTypeOK, ReaderIds, WorkerIds
<1>4. AtHome' /\ Once' /\ PushedOnce' /\ Scheduled'
  BY <1>1, PlacesKept DEF PoolIInv
<1>5. Running' /\ LeftEmpty' /\ Rests'
  BY <1>1, <1>2 DEF PoolIInv, Running, LeftEmpty, Rests, UnInit, WorkerIds
<1> QED BY <1>3, <1>4, <1>5 DEF PoolIInv

LEMMA StopsWorkerKeeps == PoolIInv /\ (\E w \in WorkerIds : StopsWorker(w)) => PoolIInv'
<1> SUFFICES ASSUME PoolIInv, NEW w \in WorkerIds, StopsWorker(w) PROVE PoolIInv'
  OBVIOUS
<1>1. UNCHANGED <<pool, loop, todo, readerOf, reader, queue, worker, checked, chunks, written, pools>> /\ loop.pc = "left" /\ quit' \subseteq WorkerIds
  BY DEF StopsWorker, LoopJoined, Told, PoolIInv, PoolTypes, PoolTypeOK
<1>2. PoolTypes'
  BY <1>1 DEF PoolIInv, PoolTypes, PoolTypeOK, ReaderIds, WorkerIds
<1>3. AtHome' /\ Once' /\ PushedOnce' /\ Scheduled'
  BY <1>1, PlacesKept DEF PoolIInv
<1>4. Running' /\ LeftEmpty' /\ Rests'
  BY <1>1 DEF PoolIInv, Running, LeftEmpty, Rests, ReaderIds, WorkerIds
<1> QED BY <1>2, <1>3, <1>4 DEF PoolIInv

LEMMA DropsPoolKeeps == PoolIInv /\ DropsPool => PoolIInv'
<1> SUFFICES ASSUME PoolIInv, DropsPool PROVE PoolIInv'
  OBVIOUS
<1>1. /\ pool' = NoPool /\ UNCHANGED <<todo, queue, worker, checked, quit, written, pools>>
      /\ loop' = [loop EXCEPT !.pc = "none"] /\ loop.pc = "left"
      /\ reader' = [r \in ReaderIds |-> [reader[r] EXCEPT !.alive = FALSE]]
  BY DEF DropsPool, LoopJoined
<1>2. reader' \in Seq(Reader) /\ Len(reader') = Len(reader) /\ ReaderIds' = ReaderIds
  <2>1. \A r \in ReaderIds : [reader[r] EXCEPT !.alive = FALSE] \in Reader
    BY ReadersTyped DEF PoolIInv, Reader
  <2>2. reader' \in [1 .. Len(reader) -> Reader] /\ Len(reader) \in Nat
    BY <1>1, <2>1, ReadersTyped DEF PoolIInv, ReaderIds
  <2> QED BY <2>2 DEF ReaderIds
<1>3. \A r \in ReaderIds : ~reader'[r].alive /\ reader'[r].worker = reader[r].worker /\ (reader'[r].scheduling <=> reader[r].scheduling)
  BY <1>1, ReadersTyped DEF PoolIInv, Reader
<1>4. loop' \in [pc: {"none", "poll", "dispatch", "push", "left"}, at: PoolChannels \cup {Gone}] /\ loop'.pc = "none"
  BY <1>1 DEF PoolIInv, PoolTypes, PoolTypeOK
<1>5. PoolTypes'
  <2>1. chunks' \in [PoolChannels -> 0 .. MaxData] /\ \A b \in PoolChannels : chunks'[b] <= written'
    BY PoolAssumption, <1>1 DEF DropsPool, PoolIInv, PoolTypes, PoolTypeOK
  <2>2. readerOf' \in [PoolChannels -> 0 .. Len(reader')]
    <3>1. readerOf' = [c \in PoolChannels |-> 0]
      BY DEF DropsPool
    <3>2. 0 \in 0 .. Len(reader')
      BY <1>2, ReadersTyped DEF PoolIInv
    <3> QED BY <3>1, <3>2
  <2>3. pool' \in [there: BOOLEAN, started: BOOLEAN, stopping: BOOLEAN]
    BY <1>1 DEF NoPool
  <2> QED BY <1>1, <1>2, <1>4, <2>1, <2>2, <2>3 DEF PoolIInv, PoolTypes, PoolTypeOK, Reader, WorkerIds
<1>6. AtHome' /\ Once' /\ PushedOnce' /\ Scheduled'
  BY <1>1, <1>2, <1>3, <1>4, PlacesKept DEF PoolIInv
<1>7. Running' /\ LeftEmpty'
  BY <1>1, <1>4 DEF PoolIInv, Running, LeftEmpty, WorkerIds
<1>8. Rests'
  <2>1. \A w \in WorkerIds : worker'[w] = Gone
    BY <1>1 DEF DropsPool
  <2>2. ~pool'.there /\ ~pool'.stopping
    BY <1>1 DEF NoPool
  <2> QED BY <1>2, <1>3, <1>4, <2>1, <2>2 DEF Rests, WorkerIds
<1> QED BY <1>5, <1>6, <1>7, <1>8 DEF PoolIInv

LEMMA PollsKeeps == PoolIInv /\ (Polls \/ PollFails \/ PollsAgain) => PoolIInv'
<1> SUFFICES ASSUME PoolIInv, Polls \/ PollFails \/ PollsAgain PROVE PoolIInv'
  OBVIOUS
<1>1. /\ UNCHANGED <<pool, readerOf, reader, queue, worker, checked, quit, chunks, written, pools>>
      /\ loop.pc \in {"poll", "dispatch"} /\ todo' \subseteq PoolChannels
      /\ \E p \in {"poll", "dispatch", "left"} : loop' = [loop EXCEPT !.pc = p]
  BY DEF Polls, PollFails, PollsAgain, PoolIInv, PoolTypes, PoolTypeOK
<1>2. loop' \in [pc: {"none", "poll", "dispatch", "push", "left"}, at: PoolChannels \cup {Gone}] /\ loop'.pc \in {"poll", "dispatch", "left"}
  BY <1>1 DEF PoolIInv, PoolTypes, PoolTypeOK
<1>3. PoolTypes'
  BY <1>1, <1>2 DEF PoolIInv, PoolTypes, PoolTypeOK, ReaderIds, WorkerIds
<1>4. AtHome' /\ Once' /\ PushedOnce' /\ Scheduled'
  BY <1>1, <1>2, PlacesKept DEF PoolIInv
<1>5. Running' /\ LeftEmpty'
  BY <1>1 DEF PoolIInv, Running, LeftEmpty, WorkerIds
<1>6. Rests'
  BY <1>1, <1>2 DEF PoolIInv, Rests, ReaderIds, WorkerIds
<1> QED BY <1>3, <1>4, <1>5, <1>6 DEF PoolIInv

LEMMA DispatchChannelKeeps == PoolIInv /\ (\E c \in PoolChannels : DispatchChannel(c)) => PoolIInv'
<1> SUFFICES ASSUME PoolIInv, NEW c \in PoolChannels, DispatchChannel(c) PROVE PoolIInv'
  OBVIOUS
<1> DEFINE r == readerOf[c]
<1>1. /\ UNCHANGED <<pool, readerOf, queue, worker, checked, quit, chunks, written, pools>>
      /\ loop.pc = "dispatch" /\ todo' \subseteq PoolChannels
  BY DEF DispatchChannel, PoolIInv, PoolTypes, PoolTypeOK
<1>2. CASE UNCHANGED <<loop, reader>>
  <2>1. PoolTypes'
    BY <1>1, <1>2 DEF PoolIInv, PoolTypes, PoolTypeOK, ReaderIds, WorkerIds
  <2>2. AtHome' /\ Once' /\ PushedOnce' /\ Scheduled'
    BY <1>1, <1>2, PlacesKept DEF PoolIInv
  <2>3. Running' /\ LeftEmpty' /\ Rests'
    BY <1>1, <1>2 DEF PoolIInv, Running, LeftEmpty, Rests, ReaderIds, WorkerIds
  <2> QED BY <2>1, <2>2, <2>3 DEF PoolIInv
<1>3. CASE /\ r # 0 /\ ~reader[r].scheduling /\ loop' = [pc |-> "push", at |-> c]
           /\ reader' = [reader EXCEPT ![r].scheduling = TRUE]
  <2>1. r \in ReaderIds
    BY <1>3, ReadersTyped DEF PoolIInv, PoolTypes, PoolTypeOK, ReaderIds
  <2>2. reader' \in Seq(Reader) /\ Len(reader') = Len(reader) /\ ReaderIds' = ReaderIds
    <3>1. [reader[r] EXCEPT !.scheduling = TRUE] \in Reader
      BY <2>1, ReadersTyped DEF PoolIInv, Reader
    <3>2. reader' = [reader EXCEPT ![r] = [reader[r] EXCEPT !.scheduling = TRUE]]
      BY <1>3
    <3> QED BY <3>1, <3>2, <2>1, ReadersTyped DEF PoolIInv, ReaderIds
  <2>3. /\ \A q \in ReaderIds : reader'[q].worker = reader[q].worker /\ (reader'[q].alive <=> reader[q].alive)
        /\ reader'[r].scheduling /\ \A q \in ReaderIds \ {r} : reader'[q].scheduling <=> reader[q].scheduling
    BY <1>3, <2>1, ReadersTyped DEF PoolIInv, ReaderIds, Reader
  <2>4. PoolTypes'
    BY <1>1, <1>3, <2>2 DEF PoolIInv, PoolTypes, PoolTypeOK, Reader, WorkerIds
  <2>5. /\ \A q \in ReaderIds : WorkerOf(q)' = WorkerOf(q)
        /\ \A w \in WorkerIds : \A i \in 1 .. Len(queue[w]) : queue[w][i] \in ReaderIds
        /\ \A w \in WorkerIds : worker[w] > 0 => worker[w] \in ReaderIds
    BY <2>3, QueueElements DEF WorkerOf, PoolIInv, Gone, Idle
  <2>6. AtHome' /\ Once'
    BY <1>1, <2>5 DEF PoolIInv, AtHome, Once, WorkerIds
  <2>7. \A q : WithWorker(q)' <=> WithWorker(q)
    BY <1>1 DEF WithWorker, WorkerIds
  <2>8. ~WithWorker(r)
    BY <1>3, <2>1 DEF PoolIInv, Scheduled
  <2>9. PushedOnce'
    BY <1>1, <1>3, <2>1, <2>2, <2>7, <2>8 DEF PushedOnce
  <2>10. \A q \in ReaderIds : (Pushed(q)' <=> q = r) /\ ~Pushed(q)
    BY <1>1, <1>3 DEF Pushed
  <2>11. Scheduled'
    BY <2>2, <2>3, <2>7, <2>8, <2>10 DEF PoolIInv, Scheduled
  <2>12. Running' /\ LeftEmpty'
    BY <1>1, <1>3 DEF PoolIInv, Running, LeftEmpty, WorkerIds
  <2>13. Rests'
    BY <1>1, <1>3, <2>2, <2>3 DEF PoolIInv, Rests, WorkerIds
  <2> QED BY <2>4, <2>6, <2>9, <2>11, <2>12, <2>13 DEF PoolIInv
<1> QED BY <1>2, <1>3 DEF DispatchChannel, IsScheduling

\* A reader appended to a queue of its worker, that is in no place yet.
LEMMA PushesKeeps == PoolIInv /\ Pushes => PoolIInv'
<1> SUFFICES ASSUME PoolIInv, Pushes PROVE PoolIInv'
  OBVIOUS
<1> DEFINE r == readerOf[loop.at]
           w == WorkerOf(r)
<1>1. /\ loop.pc = "push" /\ r \in ReaderIds /\ ~WithWorker(r) /\ w \in WorkerIds /\ quit = {}
      /\ \A v \in WorkerIds : worker[v] # Gone
  BY WorkerOfReader DEF Pushes, PoolIInv, PushedOnce, Running
<1>2. /\ UNCHANGED <<pool, todo, readerOf, reader, worker, checked, quit, chunks, written, pools>>
      /\ loop' = [pc |-> "dispatch", at |-> Gone] /\ Len(queue[w]) < QueueSize
      /\ queue' = [queue EXCEPT ![w] = Append(@, r)]
  BY <1>1 DEF Pushes, HasRoom
<1> HIDE DEF r, w
<1>3. /\ queue'[w] \in Seq(ReaderIds) /\ queue'[w] \in Seq(Nat) /\ Len(queue'[w]) = Len(queue[w]) + 1 /\ Len(queue[w]) \in Nat
      /\ \A i \in 1 .. Len(queue[w]) : queue'[w][i] = queue[w][i]
      /\ queue'[w][Len(queue[w]) + 1] = r
  <2>1. queue[w] \in Seq(ReaderIds) /\ queue[w] \in Seq(Nat) /\ r \in Nat
    BY <1>1, QueueElements, ReaderIdsNat DEF PoolIInv
  <2>2. queue'[w] = Append(queue[w], r)
    BY <1>1, <1>2 DEF PoolIInv, PoolTypes
  <2> QED BY <1>1, <2>1, <2>2
<1>4. \A v \in WorkerIds \ {w} : queue'[v] = queue[v]
  BY <1>1, <1>2 DEF PoolIInv, PoolTypes
<1>5. PoolTypes'
  <2>1. queue' \in [WorkerIds -> Seq(Nat)]
    BY <1>2, <1>3, <1>1 DEF PoolIInv, PoolTypes
  <2>2. \A v \in WorkerIds : queue'[v] \in Seq(ReaderIds) /\ Len(queue'[v]) <= QueueSize
    <3>1. Len(queue'[w]) <= QueueSize
      BY <1>2, <1>3, PoolAssumption
    <3> QED BY <1>3, <1>4, <3>1 DEF PoolIInv, PoolTypes, PoolTypeOK
  <2>3. loop' \in [pc: {"none", "poll", "dispatch", "push", "left"}, at: PoolChannels \cup {Gone}]
    BY <1>2
  <2> QED BY <1>2, <2>1, <2>2, <2>3 DEF PoolIInv, PoolTypes, PoolTypeOK, ReaderIds, WorkerIds
<1>6. \A q : WorkerOf(q)' = WorkerOf(q)
  BY <1>2 DEF WorkerOf
<1>7. AtHome'
  <2> SUFFICES ASSUME NEW v \in WorkerIds
      PROVE (\A i \in 1 .. Len(queue'[v]) : WorkerOf(queue'[v][i]) = v) /\ (worker[v] > 0 => WorkerOf(worker[v]) = v)
    BY <1>2, <1>6 DEF AtHome, WorkerIds
  <2>1. \A i \in 1 .. Len(queue[v]) : WorkerOf(queue[v][i]) = v
    BY DEF PoolIInv, AtHome
  <2>2. CASE v = w
    <3>1. \A i \in 1 .. Len(queue'[w]) : i \in 1 .. Len(queue[w]) \/ i = Len(queue[w]) + 1
      BY <1>3
    <3>2. WorkerOf(r) = w
      BY DEF w
    <3> QED BY <1>3, <2>1, <2>2, <3>1, <3>2 DEF PoolIInv, AtHome
  <2>3. CASE v # w
    BY <1>4, <2>1, <2>3 DEF PoolIInv, AtHome
  <2> QED BY <2>2, <2>3
<1>8. Once'
  <2> SUFFICES ASSUME NEW v \in WorkerIds, NEW i \in 1 .. Len(queue'[v])
      PROVE queue'[v][i] # worker[v] /\ \A j \in 1 .. Len(queue'[v]) : queue'[v][i] = queue'[v][j] => i = j
    BY <1>2 DEF Once, WorkerIds
  <2>1. CASE v # w
    BY <1>4, <2>1 DEF PoolIInv, Once
  <2>2. CASE v = w
    <3>1. \A j \in 1 .. Len(queue'[w]) : j \in 1 .. Len(queue[w]) \/ j = Len(queue[w]) + 1
      BY <1>3
    <3>2. \A j \in 1 .. Len(queue[w]) : queue[w][j] # r
      BY <1>1 DEF WithWorker
    <3>3. worker[w] # r
      BY <1>1 DEF WithWorker
    <3>4. \A j, k \in 1 .. Len(queue[w]) : queue[w][j] # worker[w] /\ (queue[w][j] = queue[w][k] => j = k)
      BY <1>1 DEF PoolIInv, Once
    <3>5. queue'[w][i] # worker[w]
      BY <1>3, <2>2, <3>1, <3>3, <3>4
    <3>6. ASSUME NEW j \in 1 .. Len(queue'[w]), queue'[w][i] = queue'[w][j] PROVE i = j
      BY <1>3, <2>2, <3>1, <3>2, <3>4, <3>6
    <3> QED BY <2>2, <3>5, <3>6
  <2> QED BY <2>1, <2>2
<1>9. PushedOnce' /\ \A q : ~Pushed(q)'
  BY <1>2 DEF PushedOnce, Pushed
<1>10. \A q \in ReaderIds : WithWorker(q)' <=> WithWorker(q) \/ q = r
  <2>1. \A q : q = r => WithWorker(q)'
    <3>1. Len(queue[w]) + 1 \in 1 .. Len(queue'[w])
      BY <1>3
    <3> QED BY <1>1, <1>3, <3>1 DEF WithWorker, WorkerIds
  <2>2. \A q : WithWorker(q) => WithWorker(q)'
    <3>1. \A i \in 1 .. Len(queue[w]) : i \in 1 .. Len(queue'[w])
      BY <1>3
    <3> QED BY <1>2, <1>3, <1>4, <3>1 DEF WithWorker, WorkerIds
  <2>3. \A q : WithWorker(q)' => WithWorker(q) \/ q = r
    <3>1. \A i \in 1 .. Len(queue'[w]) : i \in 1 .. Len(queue[w]) \/ i = Len(queue[w]) + 1
      BY <1>3
    <3> QED BY <1>2, <1>3, <1>4, <3>1 DEF WithWorker, WorkerIds
  <2> QED BY <2>1, <2>2, <2>3
<1>11. Scheduled'
  <2>1. \A q \in ReaderIds : Pushed(q) <=> q = r
    BY <1>1 DEF Pushed, r
  <2> QED BY <1>2, <1>9, <1>10, <2>1 DEF PoolIInv, Scheduled, ReaderIds
<1>12. Running' /\ LeftEmpty'
  BY <1>1, <1>2 DEF Running, LeftEmpty, WorkerIds
<1>13. Rests'
  BY <1>1, <1>2 DEF PoolIInv, Rests, ReaderIds, WorkerIds
<1> QED BY <1>5, <1>7, <1>8, <1>9, <1>11, <1>12, <1>13 DEF PoolIInv

LEMMA TakenSequence ==
    ASSUME NEW S, NEW s \in Seq(S), s # <<>>
    PROVE  /\ Len(s) \in Nat \ {0} /\ Head(s) = s[1] /\ Tail(s) \in Seq(S) /\ Len(Tail(s)) = Len(s) - 1
           /\ \A i \in 1 .. Len(Tail(s)) : Tail(s)[i] = s[i + 1] /\ i + 1 \in 1 .. Len(s)
OBVIOUS

LEMMA WorkerTakesKeeps == PoolIInv /\ (\E w \in WorkerIds : WorkerTakes(w)) => PoolIInv'
<1> SUFFICES ASSUME PoolIInv, NEW w \in WorkerIds, WorkerTakes(w) PROVE PoolIInv'
  OBVIOUS
<1>1. /\ UNCHANGED <<pool, loop, todo, readerOf, reader, checked, quit, chunks, written, pools>>
      /\ worker[w] = Idle /\ queue[w] # <<>> /\ worker' = [worker EXCEPT ![w] = Head(queue[w])]
      /\ queue' = [queue EXCEPT ![w] = Tail(@)]
  BY DEF WorkerTakes
<1>2. /\ queue'[w] \in Seq(ReaderIds) /\ queue'[w] \in Seq(Nat) /\ Len(queue'[w]) = Len(queue[w]) - 1 /\ Len(queue[w]) \in Nat \ {0}
      /\ \A i \in 1 .. Len(queue'[w]) : queue'[w][i] = queue[w][i + 1] /\ i + 1 \in 1 .. Len(queue[w])
      /\ worker'[w] = queue[w][1] /\ 1 \in 1 .. Len(queue[w])
  <2>1. queue[w] \in Seq(ReaderIds) /\ queue[w] \in Seq(Nat)
    BY QueueElements DEF PoolIInv
  <2>2. queue'[w] = Tail(queue[w]) /\ worker'[w] = Head(queue[w])
    BY <1>1 DEF PoolIInv, PoolTypes
  <2>3. queue'[w] \in Seq(ReaderIds) /\ queue'[w] \in Seq(Nat)
    BY <1>1, <2>1, <2>2, TakenSequence
  <2>4. /\ Len(queue[w]) \in Nat \ {0} /\ worker'[w] = queue[w][1] /\ Len(queue'[w]) = Len(queue[w]) - 1
        /\ \A i \in 1 .. Len(queue'[w]) : queue'[w][i] = queue[w][i + 1] /\ i + 1 \in 1 .. Len(queue[w])
    BY <1>1, <2>1, <2>2, TakenSequence
  <2>5. 1 \in 1 .. Len(queue[w])
    BY <2>4
  <2> QED BY <2>3, <2>4, <2>5
<1>3. \A v \in WorkerIds \ {w} : queue'[v] = queue[v] /\ worker'[v] = worker[v]
  BY <1>1 DEF PoolIInv, PoolTypes
<1>4. worker'[w] \in ReaderIds /\ worker'[w] \in Nat \ {0}
  BY <1>2, QueueElements DEF PoolIInv
<1>5. PoolTypes'
  <2>1. queue' \in [WorkerIds -> Seq(Nat)] /\ worker' \in [WorkerIds -> Int]
    BY <1>1, <1>2, <1>4 DEF PoolIInv, PoolTypes
  <2>2. Len(queue'[w]) <= QueueSize
    BY <1>2, PoolAssumption DEF PoolIInv, PoolTypes, PoolTypeOK
  <2>3. \A v \in WorkerIds : queue'[v] \in Seq(ReaderIds) /\ Len(queue'[v]) <= QueueSize /\ worker'[v] \in {Gone, Idle} \cup ReaderIds
    BY <1>2, <1>3, <1>4, <2>2 DEF PoolIInv, PoolTypes, PoolTypeOK
  <2> QED BY <1>1, <2>1, <2>3 DEF PoolIInv, PoolTypes, PoolTypeOK, ReaderIds, WorkerIds
<1>6. \A q : WorkerOf(q)' = WorkerOf(q)
  BY <1>1 DEF WorkerOf
<1>7. AtHome'
  <2> SUFFICES ASSUME NEW v \in WorkerIds
      PROVE (\A i \in 1 .. Len(queue'[v]) : WorkerOf(queue'[v][i]) = v) /\ (worker'[v] > 0 => WorkerOf(worker'[v]) = v)
    BY <1>6 DEF AtHome, WorkerIds
  <2>1. \A i \in 1 .. Len(queue[v]) : WorkerOf(queue[v][i]) = v
    BY DEF PoolIInv, AtHome
  <2>2. CASE v = w
    BY <1>2, <2>1, <2>2
  <2>3. CASE v # w
    BY <1>3, <2>1, <2>3 DEF PoolIInv, AtHome
  <2> QED BY <2>2, <2>3
<1>8. Once'
  <2> SUFFICES ASSUME NEW v \in WorkerIds, NEW i \in 1 .. Len(queue'[v])
      PROVE queue'[v][i] # worker'[v] /\ \A j \in 1 .. Len(queue'[v]) : queue'[v][i] = queue'[v][j] => i = j
    BY DEF Once, WorkerIds
  <2>1. CASE v # w
    BY <1>3, <2>1 DEF PoolIInv, Once
  <2>2. CASE v = w
    <3>1. \A j, k \in 1 .. Len(queue[w]) : queue[w][j] = queue[w][k] => j = k
      BY DEF PoolIInv, Once
    <3>2. queue'[w][i] # worker'[w]
      <4>1. i + 1 \in 1 .. Len(queue[w]) /\ 1 \in 1 .. Len(queue[w]) /\ queue'[w][i] = queue[w][i + 1] /\ worker'[w] = queue[w][1]
        BY <1>2, <2>2
      <4>2. i + 1 # 1
        BY <2>2
      <4> QED BY <3>1, <4>1, <4>2
    <3>3. ASSUME NEW j \in 1 .. Len(queue'[w]), queue'[w][i] = queue'[w][j] PROVE i = j
      <4>1. i + 1 \in 1 .. Len(queue[w]) /\ j + 1 \in 1 .. Len(queue[w]) /\ queue[w][i + 1] = queue[w][j + 1]
        BY <1>2, <2>2, <3>3
      <4> QED BY <2>2, <3>1, <4>1
    <3> QED BY <2>2, <3>2, <3>3
  <2> QED BY <2>1, <2>2
<1>9. \A q \in ReaderIds : WithWorker(q)' <=> WithWorker(q)
  <2>1. ASSUME NEW q \in ReaderIds, WithWorker(q)' PROVE WithWorker(q)
    <3>1. PICK v \in WorkerIds : worker'[v] = q \/ \E i \in 1 .. Len(queue'[v]) : queue'[v][i] = q
      BY <2>1 DEF WithWorker, WorkerIds
    <3>2. CASE v # w
      BY <1>3, <3>1, <3>2 DEF WithWorker
    <3>3. CASE v = w
      BY <1>2, <3>1, <3>3 DEF WithWorker
    <3> QED BY <3>2, <3>3
  <2>2. ASSUME NEW q \in ReaderIds, WithWorker(q) PROVE WithWorker(q)'
    <3>1. PICK v \in WorkerIds : worker[v] = q \/ \E i \in 1 .. Len(queue[v]) : queue[v][i] = q
      BY <2>2 DEF WithWorker
    <3>2. CASE v # w
      BY <1>3, <3>1, <3>2 DEF WithWorker, WorkerIds
    <3>3. CASE v = w
      <4>1. PICK i \in 1 .. Len(queue[w]) : queue[w][i] = q
        BY <1>1, <3>1, <3>3, ReaderIdsNat DEF PoolIInv
      <4>2. i = 1 \/ (i - 1 \in 1 .. Len(queue'[w]) /\ i = (i - 1) + 1)
        BY <1>2
      <4>3. worker'[w] = q \/ \E j \in 1 .. Len(queue'[w]) : queue'[w][j] = q
        BY <1>2, <4>1, <4>2
      <4> QED BY <4>3 DEF WithWorker, WorkerIds
    <3> QED BY <3>2, <3>3
  <2> QED BY <2>1, <2>2
<1>10. PushedOnce' /\ Scheduled'
  <2>1. ReaderIds' = ReaderIds /\ \A q : Pushed(q)' <=> Pushed(q)
    BY <1>1 DEF ReaderIds, Pushed
  <2>2. PushedOnce'
    BY <1>1, <1>9, <2>1 DEF PoolIInv, PushedOnce
  <2>3. Scheduled'
    BY <1>1, <1>9, <2>1 DEF PoolIInv, Scheduled
  <2> QED BY <2>2, <2>3
<1>11. Running' /\ LeftEmpty'
  <2>1. worker'[w] # Gone
    BY <1>4 DEF Gone
  <2> QED BY <1>1, <1>3, <2>1 DEF PoolIInv, Running, LeftEmpty, WorkerIds
<1>12. Rests'
  BY <1>1 DEF PoolIInv, Rests, ReaderIds, WorkerIds, Gone, Idle
<1> QED BY <1>5, <1>7, <1>8, <1>10, <1>11, <1>12 DEF PoolIInv

LEMMA WorkerLeavesKeeps == PoolIInv /\ (\E w \in WorkerIds : WorkerLeaves(w)) => PoolIInv'
<1> SUFFICES ASSUME PoolIInv, NEW w \in WorkerIds, WorkerLeaves(w) PROVE PoolIInv'
  OBVIOUS
<1>1. /\ UNCHANGED <<pool, loop, todo, readerOf, reader, queue, checked, quit, chunks, written, pools>>
      /\ worker[w] = Idle /\ queue[w] = <<>> /\ w \in quit /\ worker' = [worker EXCEPT ![w] = Gone]
  BY DEF WorkerLeaves
<1>2. worker'[w] = Gone /\ \A v \in WorkerIds \ {w} : worker'[v] = worker[v]
  BY <1>1 DEF PoolIInv, PoolTypes
<1>3. PoolTypes'
  <2>1. worker' \in [WorkerIds -> Int] /\ \A v \in WorkerIds : worker'[v] \in {Gone, Idle} \cup ReaderIds
    BY <1>1, <1>2 DEF PoolIInv, PoolTypes, PoolTypeOK, Gone
  <2> QED BY <1>1, <2>1 DEF PoolIInv, PoolTypes, PoolTypeOK, ReaderIds, WorkerIds
<1>4. \A q : WorkerOf(q)' = WorkerOf(q)
  BY <1>1 DEF WorkerOf
<1>5. AtHome'
  BY <1>1, <1>2, <1>4 DEF PoolIInv, AtHome, WorkerIds, Gone
<1>6. Once'
  <2>1. Len(queue[w]) = 0
    BY <1>1
  <2> QED BY <1>1, <1>2, <2>1 DEF PoolIInv, Once, WorkerIds
<1>7. \A q \in ReaderIds : (WithWorker(q)' <=> WithWorker(q)) /\ (Pushed(q)' <=> Pushed(q))
  <2>1. \A q \in ReaderIds : q # Gone /\ q # Idle
    BY ReaderIdsNat DEF PoolIInv
  <2> QED BY <1>1, <1>2, <2>1 DEF WithWorker, Pushed, WorkerIds
<1>8. PushedOnce' /\ Scheduled'
  BY <1>1, <1>7 DEF PoolIInv, PushedOnce, Scheduled, ReaderIds
<1>9. Running' /\ LeftEmpty'
  BY <1>1, <1>2 DEF PoolIInv, Running, LeftEmpty, WorkerIds
<1>10. Rests'
  BY <1>1, <1>2 DEF PoolIInv, Rests, ReaderIds, WorkerIds
<1> QED BY <1>3, <1>5, <1>6, <1>8, <1>9, <1>10 DEF PoolIInv

LEMMA WorkerChecksKeeps == PoolIInv /\ (\E w \in WorkerIds : WorkerChecks(w)) => PoolIInv'
<1> SUFFICES ASSUME PoolIInv, NEW w \in WorkerIds, WorkerChecks(w) PROVE PoolIInv'
  OBVIOUS
<1>1. UNCHANGED <<pool, loop, todo, readerOf, reader, queue, worker, quit, chunks, written, pools>> /\ checked' = checked \cup {w}
  BY DEF WorkerChecks
<1>2. PoolTypes'
  BY <1>1 DEF PoolIInv, PoolTypes, PoolTypeOK, ReaderIds, WorkerIds
<1>3. AtHome' /\ Once' /\ PushedOnce' /\ Scheduled'
  BY <1>1, PlacesKept DEF PoolIInv
<1>4. Running' /\ LeftEmpty' /\ Rests'
  BY <1>1 DEF PoolIInv, Running, LeftEmpty, Rests, ReaderIds, WorkerIds
<1> QED BY <1>2, <1>3, <1>4 DEF PoolIInv

\* What a read does to the readers: a removed one has read one chunk more.
LEMMA ReadingReader ==
    ASSUME PoolIInv, NEW w \in WorkerIds, WorkerReads(w), w \in checked, worker[w] > 0
    PROVE  /\ worker[w] \in ReaderIds /\ reader' \in Seq(Reader) /\ Len(reader') = Len(reader) /\ ReaderIds' = ReaderIds
           /\ \A q \in ReaderIds : /\ reader'[q].worker = reader[q].worker /\ reader'[q].channel = reader[q].channel
                                   /\ (reader'[q].alive <=> reader[q].alive) /\ (reader'[q].scheduling <=> reader[q].scheduling)
           /\ \A q \in ReaderIds : q # worker[w] \/ reader[q].alive => reader'[q].late = reader[q].late
           /\ reader'[worker[w]].late <= reader[worker[w]].late + 1
<1> DEFINE r == worker[w]
<1>1. r \in ReaderIds
  BY QueueElements DEF PoolIInv, Gone, Idle
<1>2. reader \in Seq(Reader) /\ reader[r] \in Reader /\ reader[r].late \in Nat /\ \A q \in ReaderIds : reader[q] \in Reader
  BY <1>1, ReadersTyped DEF PoolIInv
<1>3. CASE reader' = reader
  BY <1>1, <1>2, <1>3 DEF ReaderIds
<1>4. CASE reader' = [reader EXCEPT ![r].late = @ + 1] /\ ~reader[r].alive
  <2> DEFINE new == [reader[r] EXCEPT !.late = @ + 1]
  <2>1. /\ new \in Reader /\ new.late = reader[r].late + 1 /\ new.worker = reader[r].worker /\ new.channel = reader[r].channel
        /\ (new.alive <=> reader[r].alive) /\ (new.scheduling <=> reader[r].scheduling)
    BY <1>2 DEF Reader
  <2>2. reader' = [reader EXCEPT ![r] = new]
    BY <1>4
  <2> HIDE DEF new
  <2>3. /\ reader' \in Seq(Reader) /\ Len(reader') = Len(reader) /\ ReaderIds' = ReaderIds
        /\ reader'[r] = new /\ \A q \in ReaderIds \ {r} : reader'[q] = reader[q]
    BY <1>1, <1>2, <2>1, <2>2 DEF ReaderIds
  <2>4. reader'[r].late = reader[r].late + 1 /\ reader[r].late + 1 <= reader[r].late + 1
    BY <1>2, <2>1, <2>3
  <2>5. \A q \in ReaderIds : q # r \/ reader[q].alive => reader'[q].late = reader[q].late
    BY <1>4, <2>3
  <2>6. \A q \in ReaderIds : /\ reader'[q].worker = reader[q].worker /\ reader'[q].channel = reader[q].channel
                             /\ (reader'[q].alive <=> reader[q].alive) /\ (reader'[q].scheduling <=> reader[q].scheduling)
    BY <2>1, <2>3
  <2> QED BY <1>1, <2>3, <2>4, <2>5, <2>6
<1> QED BY <1>3, <1>4 DEF WorkerReads

LEMMA WorkerReadsKeeps == PoolIInv /\ PoolReads /\ (\E w \in WorkerIds : WorkerReads(w)) => PoolIInv'
<1> SUFFICES ASSUME PoolIInv, PoolReads, NEW w \in WorkerIds, WorkerReads(w) PROVE PoolIInv'
  OBVIOUS
<1> DEFINE c == reader[worker[w]].channel
<1>1. /\ UNCHANGED <<pool, loop, todo, readerOf, queue, worker, quit, written, pools>> /\ chunks' = [chunks EXCEPT ![c] = @ - 1]
      /\ chunks[c] > 0 /\ checked' = checked \ {w} /\ w \in checked
  BY DEF WorkerReads, Rechecked, ChunksOf
<1>2. worker[w] > 0
  BY <1>1 DEF PoolReads
<1>3. /\ worker[w] \in ReaderIds /\ reader' \in Seq(Reader) /\ Len(reader') = Len(reader) /\ ReaderIds' = ReaderIds
      /\ \A q \in ReaderIds : /\ reader'[q].worker = reader[q].worker
                              /\ (reader'[q].alive <=> reader[q].alive) /\ (reader'[q].scheduling <=> reader[q].scheduling)
  BY <1>1, <1>2, ReadingReader
<1>4. c \in PoolChannels
  BY <1>3, ReadersTyped DEF PoolIInv
<1> HIDE DEF c
<1>5. PoolTypes'
  <2>1. chunks[c] - 1 \in 0 .. MaxData /\ chunks[c] - 1 <= written
    BY <1>1, <1>4, PoolAssumption DEF PoolIInv, PoolTypes, PoolTypeOK
  <2>2. chunks' \in [PoolChannels -> 0 .. MaxData] /\ \A b \in PoolChannels : chunks'[b] <= written
    BY <1>1, <1>4, <2>1 DEF PoolIInv, PoolTypes, PoolTypeOK
  <2> QED BY <1>1, <1>3, <2>2 DEF PoolIInv, PoolTypes, PoolTypeOK, Reader, WorkerIds
<1>6. AtHome' /\ Once' /\ PushedOnce' /\ Scheduled'
  BY <1>1, <1>3, PlacesKept DEF PoolIInv
<1>7. Running' /\ LeftEmpty' /\ Rests'
  BY <1>1, <1>3 DEF PoolIInv, Running, LeftEmpty, Rests, WorkerIds
<1> QED BY <1>5, <1>6, <1>7 DEF PoolIInv

\* The reader a worker ends with is in no other place: not queued, for Once and
\* because another worker is not its own, nor about to be pushed.
LEMMA WorkerEndsKeeps == PoolIInv /\ (\E w \in WorkerIds : WorkerEnds(w)) => PoolIInv'
<1> SUFFICES ASSUME PoolIInv, NEW w \in WorkerIds, WorkerEnds(w) PROVE PoolIInv'
  OBVIOUS
<1> DEFINE r == worker[w]
<1>1. /\ UNCHANGED <<pool, loop, todo, readerOf, queue, quit, chunks, written, pools>> /\ checked' = checked \ {w}
      /\ r > 0 /\ worker' = [worker EXCEPT ![w] = Idle] /\ reader' = [reader EXCEPT ![r].scheduling = FALSE]
  BY DEF WorkerEnds, Executes, Cleared
<1>2. r \in ReaderIds
  BY <1>1, QueueElements DEF PoolIInv, Gone, Idle
<1> HIDE DEF r
<1>3. reader' \in Seq(Reader) /\ Len(reader') = Len(reader) /\ ReaderIds' = ReaderIds
  <2>1. [reader[r] EXCEPT !.scheduling = FALSE] \in Reader
    BY <1>2, ReadersTyped DEF PoolIInv, Reader
  <2>2. reader' = [reader EXCEPT ![r] = [reader[r] EXCEPT !.scheduling = FALSE]]
    BY <1>1
  <2> QED BY <2>1, <2>2, <1>2, ReadersTyped DEF PoolIInv, ReaderIds
<1>4. /\ \A q \in ReaderIds : reader'[q].worker = reader[q].worker /\ (reader'[q].alive <=> reader[q].alive)
      /\ ~reader'[r].scheduling /\ \A q \in ReaderIds \ {r} : reader'[q].scheduling <=> reader[q].scheduling
  BY <1>1, <1>2, ReadersTyped DEF PoolIInv, ReaderIds, Reader
<1>5. worker'[w] = Idle /\ \A v \in WorkerIds \ {w} : worker'[v] = worker[v]
  BY <1>1 DEF PoolIInv, PoolTypes
<1>6. PoolTypes'
  <2>1. worker' \in [WorkerIds -> Int] /\ \A v \in WorkerIds : worker'[v] \in {Gone, Idle} \cup ReaderIds
    BY <1>1, <1>5 DEF PoolIInv, PoolTypes, PoolTypeOK, Idle
  <2> QED BY <1>1, <1>3, <2>1 DEF PoolIInv, PoolTypes, PoolTypeOK, Reader, WorkerIds
<1>7. /\ \A q \in ReaderIds : WorkerOf(q)' = WorkerOf(q)
      /\ \A v \in WorkerIds : \A i \in 1 .. Len(queue[v]) : queue[v][i] \in ReaderIds
      /\ \A v \in WorkerIds : worker[v] > 0 => worker[v] \in ReaderIds
  BY <1>4, QueueElements DEF WorkerOf, PoolIInv, Gone, Idle
<1>8. AtHome'
  BY <1>1, <1>5, <1>7 DEF PoolIInv, AtHome, WorkerIds, Idle
<1>9. Once'
  <2>1. \A i \in 1 .. Len(queue[w]) : queue[w][i] # Idle
    BY <1>7, ReaderIdsNat DEF PoolIInv
  <2> QED BY <1>1, <1>5, <2>1 DEF PoolIInv, Once, WorkerIds
<1>10. \A v \in WorkerIds : worker'[v] # r /\ \A i \in 1 .. Len(queue[v]) : queue[v][i] # r
  <2>1. WorkerOf(r) = w /\ r # Idle
    BY <1>1, <1>2, ReaderIdsNat DEF PoolIInv, AtHome, r
  <2>2. \A v \in WorkerIds : worker[v] = r => v = w
    BY <1>1, <2>1 DEF PoolIInv, AtHome, r
  <2>3. \A v \in WorkerIds : \A i \in 1 .. Len(queue[v]) : queue[v][i] = r => v = w
    BY <2>1 DEF PoolIInv, AtHome
  <2>4. \A i \in 1 .. Len(queue[w]) : queue[w][i] # r
    BY DEF PoolIInv, Once, r
  <2> QED BY <1>5, <2>1, <2>2, <2>3, <2>4
<1>11. WithWorker(r) /\ \A q \in ReaderIds : WithWorker(q)' <=> WithWorker(q) /\ q # r
  <2>1. WithWorker(r)
    BY DEF WithWorker, r
  <2>2. \A q \in ReaderIds : WithWorker(q)' => q # r /\ WithWorker(q)
    BY <1>1, <1>5, <1>10, ReaderIdsNat DEF PoolIInv, WithWorker, WorkerIds, Idle
  <2>3. ASSUME NEW q \in ReaderIds, WithWorker(q), q # r PROVE WithWorker(q)'
    BY <1>1, <1>5, <2>3 DEF WithWorker, WorkerIds, r
  <2> QED BY <2>1, <2>2, <2>3
<1>12. \A q : Pushed(q)' <=> Pushed(q)
  BY <1>1 DEF Pushed
<1>13. PushedOnce' /\ ~Pushed(r)
  BY <1>1, <1>3, <1>11, <1>12 DEF PoolIInv, PushedOnce, Pushed
<1>14. Scheduled'
  BY <1>3, <1>4, <1>11, <1>12, <1>13 DEF PoolIInv, Scheduled
<1>15. Running' /\ LeftEmpty'
  BY <1>1, <1>5 DEF PoolIInv, Running, LeftEmpty, WorkerIds, Gone, Idle
<1>16. Rests'
  <2>1. pool.there
    BY <1>1 DEF PoolIInv, Rests, Gone, r
  <2> QED BY <1>1, <2>1 DEF PoolIInv, Rests
<1> QED BY <1>6, <1>8, <1>9, <1>13, <1>14, <1>15, <1>16 DEF PoolIInv

----------------------------------------------------------------------------
(* Who reads *)

LEMMA CheckedExecutes ==
    ASSUME PoolIInv, PoolReads, NEW w \in checked
    PROVE  w \in WorkerIds /\ worker[w] \in ReaderIds /\ reader[worker[w]].late = 0
<1>1. w \in WorkerIds
  BY DEF PoolIInv, PoolTypes, PoolTypeOK
<1>2. worker[w] > 0 /\ reader[worker[w]].late = 0
  BY DEF PoolReads
<1> QED BY <1>1, <1>2, QueueElements DEF PoolIInv, Gone, Idle

\* A step that leaves the readers, the table and what the workers execute.
LEMMA ReadsKept ==
    ASSUME PoolIInv, PoolReads, UNCHANGED <<readerOf, reader>>, checked' \subseteq WorkerIds,
           \A w \in checked' : worker'[w] = worker[w] /\ (w \in checked \/ (Executes(w) /\ reader[worker[w]].alive))
    PROVE  PoolReads'
<1>1. ReaderIds' = ReaderIds
  BY DEF ReaderIds
<1>2. \A w \in checked' : worker'[w] > 0 /\ reader'[worker'[w]].late = 0
  <2> SUFFICES ASSUME NEW w \in checked' PROVE worker[w] > 0 /\ reader[worker[w]].late = 0
    OBVIOUS
  <2>1. CASE w \in checked
    BY <2>1 DEF PoolReads
  <2>2. CASE Executes(w) /\ reader[worker[w]].alive
    BY <2>2, QueueElements DEF PoolIInv, PoolReads, Executes, Gone, Idle
  <2> QED BY <2>1, <2>2
<1> QED BY <1>1, <1>2 DEF PoolReads

\* A step that leaves the checked workers and what they execute, every reader's
\* channel and what it has read, and makes none alive.
LEMMA ReadsLeft ==
    ASSUME PoolIInv, PoolReads, UNCHANGED <<checked, worker>>, ReaderIds' = ReaderIds,
           \A r \in ReaderIds : reader'[r].channel = reader[r].channel /\ reader'[r].late = reader[r].late,
           \A r \in ReaderIds : reader'[r].alive => reader[r].alive /\ readerOf'[reader[r].channel] = readerOf[reader[r].channel]
    PROVE  PoolReads'
<1>1. \A w \in checked : worker[w] \in ReaderIds
  BY CheckedExecutes
<1>2. \A r \in ReaderIds : reader'[r].alive => readerOf'[reader'[r].channel] = r /\ reader'[r].late = 0
  BY DEF PoolReads
<1>3. \A r \in ReaderIds : reader'[r].late <= 1
  BY DEF PoolReads
<1>4. \A w \in checked : worker[w] > 0 /\ reader'[worker[w]].late = 0
  BY <1>1 DEF PoolReads
<1> QED BY <1>2, <1>3, <1>4 DEF PoolReads

LEMMA AddReaderReads ==
    ASSUME PoolIInv, PoolReads, NEW c \in PoolChannels, NEW h \in WorkerIds, AddReader(c, h)
    PROVE  PoolReads'
<1> DEFINE new == [channel |-> c, worker |-> h, alive |-> TRUE, scheduling |-> FALSE, late |-> 0]
           n == Len(reader) + 1
<1>1. reader \in Seq(Reader) /\ Len(reader) \in Nat /\ new \in Reader
  BY ReadersTyped DEF PoolIInv, Reader
<1>2. /\ reader' = Append(reader, new) /\ readerOf' = [readerOf EXCEPT ![c] = n] /\ readerOf[c] = 0
      /\ UNCHANGED <<checked, worker>>
  BY DEF AddReader
<1>3. ReaderIds' = ReaderIds \cup {n} /\ n \notin ReaderIds /\ reader'[n] = new /\ \A r \in ReaderIds : reader'[r] = reader[r]
  BY <1>1, <1>2 DEF ReaderIds
<1>4. readerOf'[c] = n /\ \A b \in PoolChannels \ {c} : readerOf'[b] = readerOf[b]
  BY <1>2 DEF PoolIInv, PoolTypes, PoolTypeOK
<1>5. new.channel = c /\ new.late = 0
  OBVIOUS
<1> HIDE DEF new, n
<1>6. \A r \in ReaderIds : reader'[r].alive => readerOf'[reader'[r].channel] = r /\ reader'[r].late = 0
  <2> SUFFICES ASSUME NEW r \in ReaderIds, reader[r].alive PROVE readerOf'[reader[r].channel] = r /\ reader[r].late = 0
    BY <1>3
  <2>1. readerOf[reader[r].channel] = r /\ reader[r].late = 0 /\ reader[r].channel \in PoolChannels /\ r # 0
    BY ReadersTyped, ReaderIdsNat DEF PoolIInv, PoolReads
  <2> QED BY <1>2, <1>4, <2>1
<1>7. \A r \in ReaderIds' : reader'[r].late <= 1
  BY <1>3, <1>5 DEF PoolReads
<1>8. \A w \in checked : worker[w] > 0 /\ reader'[worker[w]].late = 0
  <2>1. \A w \in checked : worker[w] \in ReaderIds
    BY CheckedExecutes
  <2> QED BY <1>3, <2>1 DEF PoolReads
<1> QED BY <1>2, <1>3, <1>4, <1>5, <1>6, <1>7, <1>8 DEF PoolReads

LEMMA RemoveReaderReads ==
    ASSUME PoolIInv, PoolReads, NEW c \in PoolChannels, RemoveReader(c)
    PROVE  PoolReads'
<1>1. readerOf[c] \in ReaderIds
  BY ReadersTyped DEF RemoveReader, PoolIInv, PoolTypes, PoolTypeOK, ReaderIds
<1>2. reader \in Seq(Reader) /\ reader[readerOf[c]] \in Reader /\ \A r \in ReaderIds : reader[r].channel \in PoolChannels
  BY <1>1, ReadersTyped DEF PoolIInv
<1> DEFINE new == [reader[readerOf[c]] EXCEPT !.alive = FALSE]
<1>3. new \in Reader /\ ~new.alive /\ new.channel = reader[readerOf[c]].channel /\ new.late = reader[readerOf[c]].late
  BY <1>2 DEF Reader
<1>4. reader' = [reader EXCEPT ![readerOf[c]] = new] /\ UNCHANGED <<checked, worker>> /\ readerOf' = [readerOf EXCEPT ![c] = 0]
  BY DEF RemoveReader
<1> HIDE DEF new
<1>5. ReaderIds' = ReaderIds /\ reader'[readerOf[c]] = new /\ \A r \in ReaderIds \ {readerOf[c]} : reader'[r] = reader[r]
  BY <1>1, <1>2, <1>3, <1>4 DEF ReaderIds
<1>6. \A r \in ReaderIds : reader'[r].alive => reader[r].alive /\ readerOf'[reader[r].channel] = readerOf[reader[r].channel]
  <2> SUFFICES ASSUME NEW r \in ReaderIds, reader'[r].alive
      PROVE  reader[r].alive /\ readerOf'[reader[r].channel] = readerOf[reader[r].channel]
    OBVIOUS
  <2>1. r # readerOf[c] /\ reader[r].alive
    BY <1>3, <1>5
  <2>2. reader[r].channel # c
    BY <2>1 DEF PoolReads
  <2> QED BY <1>2, <1>4, <2>1, <2>2 DEF PoolIInv, PoolTypes, PoolTypeOK
<1>7. \A r \in ReaderIds : reader'[r].channel = reader[r].channel /\ reader'[r].late = reader[r].late
  BY <1>3, <1>5
<1> QED BY <1>4, <1>5, <1>6, <1>7, ReadsLeft

\* A pool that is dropped, or made, has no worker.
LEMMA PoolReadsNone ==
    ASSUME PoolIInv, PoolReads, \A w \in WorkerIds : worker[w] = Gone
    PROVE  checked = {}
BY DEF PoolIInv, PoolTypes, PoolTypeOK, PoolReads, Gone

LEMMA DropsPoolReads == PoolIInv /\ PoolReads /\ DropsPool => PoolReads'
<1> SUFFICES ASSUME PoolIInv, PoolReads, DropsPool PROVE PoolReads'
  OBVIOUS
<1>1. UNCHANGED <<checked, worker>> /\ reader' = [r \in ReaderIds |-> [reader[r] EXCEPT !.alive = FALSE]]
  BY DEF DropsPool
<1>2. \A r \in ReaderIds : ~reader'[r].alive /\ reader'[r].channel = reader[r].channel /\ reader'[r].late = reader[r].late
  BY <1>1, ReadersTyped DEF PoolIInv, Reader
<1>3. ReaderIds' = ReaderIds
  <2>1. Len(reader) \in Nat
    BY ReadersTyped DEF PoolIInv
  <2> QED BY <1>1, <2>1 DEF ReaderIds
<1> QED BY <1>1, <1>2, <1>3, ReadsLeft

\* A channel's dispatch marks its reader only.
LEMMA DispatchChannelReads ==
    ASSUME PoolIInv, PoolReads, NEW c \in PoolChannels, DispatchChannel(c)
    PROVE  PoolReads'
<1> DEFINE r == readerOf[c]
<1>1. UNCHANGED <<checked, worker, readerOf>>
  BY DEF DispatchChannel
<1>2. CASE UNCHANGED reader
  BY <1>1, <1>2, ReadsLeft DEF ReaderIds
<1>3. CASE r # 0 /\ reader' = [reader EXCEPT ![r].scheduling = TRUE]
  <2>1. r \in ReaderIds
    BY <1>3, ReadersTyped DEF PoolIInv, PoolTypes, PoolTypeOK, ReaderIds
  <2>2. reader \in Seq(Reader) /\ reader[r] \in Reader
    BY <2>1, ReadersTyped DEF PoolIInv
  <2> DEFINE new == [reader[r] EXCEPT !.scheduling = TRUE]
  <2>3. new \in Reader /\ (new.alive <=> reader[r].alive) /\ new.channel = reader[r].channel /\ new.late = reader[r].late
    BY <2>2 DEF Reader
  <2>4. reader' = [reader EXCEPT ![r] = new]
    BY <1>3
  <2> HIDE DEF new
  <2>5. ReaderIds' = ReaderIds /\ reader'[r] = new /\ \A q \in ReaderIds \ {r} : reader'[q] = reader[q]
    BY <2>1, <2>2, <2>3, <2>4 DEF ReaderIds
  <2> HIDE DEF r
  <2> QED BY <1>1, <2>3, <2>5, ReadsLeft
<1> QED BY <1>2, <1>3 DEF DispatchChannel

\* A worker has a reader of its own, so that no other worker has looked at it.
LEMMA WorkerReadsReads ==
    ASSUME PoolIInv, PoolReads, NEW w \in WorkerIds, WorkerReads(w)
    PROVE  PoolReads'
<1>1. w \in checked /\ checked' = checked \ {w} /\ UNCHANGED <<readerOf, worker>>
  BY DEF WorkerReads, Rechecked
<1>2. worker[w] > 0 /\ reader[worker[w]].late = 0
  BY <1>1 DEF PoolReads
<1>3. /\ worker[w] \in ReaderIds /\ ReaderIds' = ReaderIds
      /\ \A q \in ReaderIds : reader'[q].channel = reader[q].channel /\ (reader'[q].alive <=> reader[q].alive)
      /\ \A q \in ReaderIds : q # worker[w] \/ reader[q].alive => reader'[q].late = reader[q].late
      /\ reader'[worker[w]].late <= reader[worker[w]].late + 1
  BY <1>1, <1>2, ReadingReader
<1>4. \A r \in ReaderIds : reader'[r].alive => readerOf'[reader'[r].channel] = r /\ reader'[r].late = 0
  BY <1>1, <1>3 DEF PoolReads
<1>5. \A r \in ReaderIds : reader'[r].late <= 1
  BY <1>2, <1>3 DEF PoolReads
<1>6. \A v \in checked' : worker[v] > 0 /\ reader'[worker[v]].late = 0
  <2> SUFFICES ASSUME NEW v \in checked, v # w PROVE worker[v] > 0 /\ reader'[worker[v]].late = 0
    BY <1>1
  <2>1. worker[v] > 0 /\ reader[worker[v]].late = 0 /\ v \in WorkerIds
    BY DEF PoolReads, PoolIInv, PoolTypes, PoolTypeOK
  <2>2. worker[v] # worker[w]
    BY <1>2, <2>1 DEF PoolIInv, AtHome
  <2>3. worker[v] \in ReaderIds
    BY <2>1, QueueElements DEF PoolIInv, Gone, Idle
  <2> QED BY <1>3, <2>1, <2>2, <2>3
<1> QED BY <1>1, <1>3, <1>4, <1>5, <1>6 DEF PoolReads

LEMMA WorkerEndsReads ==
    ASSUME PoolIInv, PoolReads, NEW w \in WorkerIds, WorkerEnds(w)
    PROVE  PoolReads'
<1> DEFINE r == worker[w]
<1>1. /\ checked' = checked \ {w} /\ UNCHANGED readerOf /\ r > 0 /\ worker' = [worker EXCEPT ![w] = Idle]
      /\ reader' = [reader EXCEPT ![r].scheduling = FALSE]
  BY DEF WorkerEnds, Executes, Cleared
<1>2. r \in ReaderIds /\ reader \in Seq(Reader) /\ reader[r] \in Reader
  BY <1>1, QueueElements, ReadersTyped DEF PoolIInv, Gone, Idle
<1> DEFINE new == [reader[r] EXCEPT !.scheduling = FALSE]
<1>3. new \in Reader /\ (new.alive <=> reader[r].alive) /\ new.channel = reader[r].channel /\ new.late = reader[r].late
  BY <1>2 DEF Reader
<1>4. reader' = [reader EXCEPT ![r] = new]
  BY <1>1
<1> HIDE DEF new
<1>5. ReaderIds' = ReaderIds /\ reader'[r] = new /\ \A q \in ReaderIds \ {r} : reader'[q] = reader[q]
  BY <1>2, <1>3, <1>4 DEF ReaderIds
<1>6. \A q \in ReaderIds : (reader'[q].alive <=> reader[q].alive) /\ reader'[q].channel = reader[q].channel /\ reader'[q].late = reader[q].late
  BY <1>3, <1>5
<1>7. \A v \in checked' : worker'[v] = worker[v] /\ v \in checked /\ worker[v] \in ReaderIds
  <2> SUFFICES ASSUME NEW v \in checked, v # w PROVE worker'[v] = worker[v] /\ worker[v] \in ReaderIds
    BY <1>1
  <2>1. v \in WorkerIds /\ worker[v] \in ReaderIds
    BY CheckedExecutes
  <2> QED BY <1>1, <2>1 DEF PoolIInv, PoolTypes
<1> HIDE DEF r
<1> QED BY <1>1, <1>5, <1>6, <1>7 DEF PoolReads

\* The other steps of the workers leave the readers.
LEMMA WorkerStepsReads ==
    ASSUME PoolIInv, PoolReads, NEW w \in WorkerIds, WorkerTakes(w) \/ WorkerLeaves(w) \/ WorkerChecks(w)
    PROVE  PoolReads'
<1>1. UNCHANGED <<readerOf, reader>> /\ checked \subseteq WorkerIds
  BY DEF WorkerTakes, WorkerLeaves, WorkerChecks, PoolIInv, PoolTypes, PoolTypeOK
<1>2. CASE WorkerChecks(w)
  <2>1. checked' = checked \cup {w} /\ worker' = worker /\ Executes(w) /\ reader[worker[w]].alive
    BY <1>2 DEF WorkerChecks
  <2> QED BY <1>1, <2>1, ReadsKept
<1>3. CASE WorkerTakes(w) \/ WorkerLeaves(w)
  <2>1. worker[w] = Idle /\ checked' = checked /\ \A v \in WorkerIds \ {w} : worker'[v] = worker[v]
    BY <1>3 DEF WorkerTakes, WorkerLeaves, PoolIInv, PoolTypes
  <2>2. w \notin checked
    BY <2>1 DEF PoolReads, Idle
  <2> QED BY <1>1, <2>1, <2>2, ReadsKept
<1> QED BY <1>2, <1>3

LEMMA PoolReadsKeeps == PoolIInv /\ PoolReads /\ [PoolNext]_poolVars => PoolReads'
<1> SUFFICES ASSUME PoolIInv, PoolReads, [PoolNext]_poolVars PROVE PoolReads'
  OBVIOUS
<1>1. CASE UNCHANGED <<readerOf, reader, worker, checked>>
  <2>1. checked' \subseteq WorkerIds
    BY <1>1 DEF PoolIInv, PoolTypes, PoolTypeOK
  <2> QED BY <1>1, <2>1, ReadsKept
<1>2. CASE InitPool
  <2>1. UNCHANGED <<readerOf, reader, checked>> /\ \A w \in WorkerIds : worker[w] = Gone
    BY <1>2 DEF InitPool, PoolIInv, Rests
  <2>2. checked' = {}
    BY <2>1, PoolReadsNone
  <2> QED BY <2>1, <2>2, ReadsKept
<1>3. CASE \E c \in PoolChannels : RemoveReader(c) \/ DispatchChannel(c) \/ \E w \in WorkerIds : AddReader(c, w)
  BY <1>3, RemoveReaderReads, DispatchChannelReads, AddReaderReads
<1>4. CASE DropsPool
  BY <1>4, DropsPoolReads
<1>5. CASE \E w \in WorkerIds : WorkerSteps(w)
  BY <1>5, WorkerReadsReads, WorkerEndsReads, WorkerStepsReads DEF WorkerSteps
<1>6. \/ UNCHANGED <<readerOf, reader, worker, checked>> \/ InitPool \/ DropsPool
      \/ \E c \in PoolChannels : RemoveReader(c) \/ DispatchChannel(c) \/ \E w \in WorkerIds : AddReader(c, w)
      \/ \E w \in WorkerIds : WorkerSteps(w)
  <2>1. (\E c \in PoolChannels : DriverFills(c)) \/ UnInit \/ Polls \/ PollsAgain \/ Pushes \/ PollFails \/ (\E w \in WorkerIds : StopsWorker(w))
            \/ UNCHANGED poolVars
        => UNCHANGED <<readerOf, reader, worker, checked>>
    BY DEF DriverFills, UnInit, Polls, PollsAgain, Pushes, PollFails, StopsWorker, poolVars
  <2> QED BY <2>1 DEF PoolNext, LoopSteps
<1> QED BY <1>1, <1>2, <1>3, <1>4, <1>5, <1>6

----------------------------------------------------------------------------
(* The theorems *)

\* The invariant that the safety of the pool rests on.
THEOREM PoolInductive == PoolSpec => [](PoolIInv /\ PoolReads)
<1>1. PoolInit => PoolIInv /\ PoolReads
  <2>1. PoolInit => PoolReads
    BY DEF PoolInit, PoolReads, ReaderIds
  <2> QED BY <2>1, InitHolds
<1>2. PoolIInv /\ PoolReads /\ [PoolNext]_poolVars => (PoolIInv /\ PoolReads)'
  <2> SUFFICES ASSUME PoolIInv, PoolReads, [PoolNext]_poolVars PROVE PoolIInv'
    BY PoolReadsKeeps
  <2>1. CASE UNCHANGED poolVars
    <3>1. PoolTypes' /\ AtHome' /\ Once' /\ Running' /\ LeftEmpty' /\ Rests'
      BY <2>1 DEF poolVars, PoolIInv, PoolTypes, PoolTypeOK, AtHome, Once, Running, LeftEmpty, Rests, WorkerOf, ReaderIds, WorkerIds
    <3>2. PushedOnce' /\ Scheduled'
      BY <2>1, PlacesKept DEF poolVars, PoolIInv
    <3> QED BY <3>1, <3>2 DEF PoolIInv
  <2>2. CASE \E c \in PoolChannels : DriverFills(c) \/ RemoveReader(c) \/ \E w \in WorkerIds : AddReader(c, w)
    BY <2>2, DriverFillsKeeps, AddReaderKeeps, RemoveReaderKeeps
  <2>3. CASE InitPool \/ UnInit \/ DropsPool
    BY <2>3, InitPoolKeeps, UnInitKeeps, DropsPoolKeeps
  <2>4. CASE LoopSteps \/ PollFails
    BY <2>4, PollsKeeps, PushesKeeps, DispatchChannelKeeps DEF LoopSteps
  <2>5. CASE \E w \in WorkerIds : StopsWorker(w) \/ WorkerSteps(w)
    BY <2>5, StopsWorkerKeeps, WorkerTakesKeeps, WorkerLeavesKeeps, WorkerChecksKeeps, WorkerReadsKeeps, WorkerEndsKeeps DEF WorkerSteps
  <2> QED BY <2>1, <2>2, <2>3, <2>4, <2>5 DEF PoolNext
<1> QED BY <1>1, <1>2, PTL DEF PoolSpec

\* In how many places a reader is: with one worker, in its queue or executed, and
\* never twice in the queue; or with the loop.
LEMMA HeldOnce ==
    ASSUME PoolIInv, NEW r \in ReaderIds
    PROVE  Held(r) = IF reader[r].scheduling THEN 1 ELSE 0
<1> DEFINE queued == {p \in WorkerIds \X (1 .. QueueSize) : p[2] <= Len(queue[p[1]]) /\ queue[p[1]][p[2]] = r}
           executed == {w \in WorkerIds : worker[w] = r}
           last == IF loop.pc = "push" /\ readerOf[loop.at] = r THEN 1 ELSE 0
<1>1. Held(r) = Cardinality(queued) + Cardinality(executed) + last
  BY DEF Held
<1>2. r > 0 /\ \A w \in WorkerIds : Len(queue[w]) \in Nat /\ Len(queue[w]) <= QueueSize
  BY QueueElements, ReaderIdsNat DEF PoolIInv, PoolTypes, PoolTypeOK
<1>3. \A w \in WorkerIds : worker[w] = r \/ (\E i \in 1 .. Len(queue[w]) : queue[w][i] = r) => w = WorkerOf(r)
  BY <1>2 DEF PoolIInv, AtHome
<1>4. \A w \in WorkerIds : \A i \in 1 .. Len(queue[w]) : queue[w][i] = r => <<w, i>> \in queued
  <2>1. \A w \in WorkerIds : \A i \in 1 .. Len(queue[w]) : i \in 1 .. QueueSize /\ i <= Len(queue[w])
    BY <1>2, PoolAssumption
  <2> QED BY <2>1
<1>5. \A p \in queued : /\ p = <<p[1], p[2]>> /\ p[1] \in WorkerIds /\ p[2] \in 1 .. Len(queue[p[1]])
                        /\ queue[p[1]][p[2]] = r /\ p[1] = WorkerOf(r)
  <2> SUFFICES ASSUME NEW p \in queued
      PROVE /\ p = <<p[1], p[2]>> /\ p[1] \in WorkerIds /\ p[2] \in 1 .. Len(queue[p[1]])
            /\ queue[p[1]][p[2]] = r /\ p[1] = WorkerOf(r)
    OBVIOUS
  <2>1. p = <<p[1], p[2]>> /\ p[1] \in WorkerIds /\ p[2] \in 1 .. QueueSize /\ p[2] <= Len(queue[p[1]]) /\ queue[p[1]][p[2]] = r
    OBVIOUS
  <2>2. p[2] \in 1 .. Len(queue[p[1]])
    BY <1>2, <2>1, PoolAssumption
  <2> QED BY <1>3, <2>1, <2>2
<1> HIDE DEF queued
<1>6. WithWorker(r) <=> queued # {} \/ executed # {}
  <2>1. ASSUME WithWorker(r) PROVE queued # {} \/ executed # {}
    <3>1. PICK w \in WorkerIds : worker[w] = r \/ \E i \in 1 .. Len(queue[w]) : queue[w][i] = r
      BY <2>1 DEF WithWorker
    <3>2. CASE worker[w] = r
      BY <3>2
    <3>3. CASE \E i \in 1 .. Len(queue[w]) : queue[w][i] = r
      BY <1>4, <3>3
    <3> QED BY <3>1, <3>2, <3>3
  <2>2. ASSUME NEW p \in queued PROVE WithWorker(r)
    BY <1>5 DEF WithWorker
  <2>3. ASSUME NEW w \in executed PROVE WithWorker(r)
    BY DEF WithWorker
  <2> QED BY <2>1, <2>2, <2>3
<1>7. executed = {} \/ executed = {WorkerOf(r)}
  BY <1>3
<1>8. queued = {} \/ \E p : queued = {p}
  <2>1. ASSUME NEW p \in queued, NEW q \in queued PROVE p = q
    <3>1. p[1] = q[1] /\ queue[p[1]][p[2]] = queue[p[1]][q[2]] /\ p[1] \in WorkerIds
      BY <1>5
    <3>2. p[2] = q[2]
      BY <1>5, <3>1 DEF PoolIInv, Once
    <3> QED BY <1>5, <3>1, <3>2
  <2> QED BY <2>1
<1>9. executed = {} \/ queued = {}
  <2> SUFFICES ASSUME NEW w \in executed, NEW p \in queued PROVE FALSE
    OBVIOUS
  <2>1. w = p[1] /\ worker[w] = r
    BY <1>3, <1>5
  <2> QED BY <1>5, <2>1 DEF PoolIInv, Once
<1>10. Cardinality({}) = 0 /\ \A x : Cardinality({x}) = 1
  BY FS_EmptySet, FS_Singleton
<1>11. Pushed(r) => ~WithWorker(r)
  BY DEF PoolIInv, PushedOnce, Pushed
<1>12. reader[r].scheduling <=> WithWorker(r) \/ Pushed(r)
  BY DEF PoolIInv, Scheduled
<1>13. \/ WithWorker(r) /\ Cardinality(queued) = 1 /\ Cardinality(executed) = 0
       \/ WithWorker(r) /\ Cardinality(queued) = 0 /\ Cardinality(executed) = 1
       \/ ~WithWorker(r) /\ Cardinality(queued) = 0 /\ Cardinality(executed) = 0
  <2> HIDE DEF executed
  <2>1. CASE executed = {WorkerOf(r)} /\ queued = {}
    BY <1>6, <1>10, <2>1
  <2>2. CASE executed = {} /\ queued = {}
    BY <1>6, <1>10, <2>2
  <2>3. ASSUME executed = {}, NEW p, queued = {p} PROVE WithWorker(r) /\ Cardinality(queued) = 1 /\ Cardinality(executed) = 0
    BY <1>6, <1>10, <2>3
  <2>4. executed = {WorkerOf(r)} => queued = {}
    BY <1>9
  <2> QED BY <1>7, <1>8, <2>1, <2>2, <2>3, <2>4
<1>14. last = IF Pushed(r) THEN 1 ELSE 0
  BY DEF Pushed
<1> HIDE DEF executed, last
<1> QED BY <1>1, <1>11, <1>12, <1>13, <1>14

\* ChannelPool: a reader that counts as scheduled is in one place, of two workers
\* at a channel one at most has a reader that is not removed, a removed reader
\* takes at most one chunk, and a pool that was stopped holds no reader.
THEOREM PoolCorrect == PoolSpec => []PoolInv
<1>1. PoolIInv /\ PoolReads => PoolInv
  <2> SUFFICES ASSUME PoolIInv, PoolReads PROVE PoolInv
    OBVIOUS
  <2>1. ScheduledIsHeld
    BY HeldOnce DEF ScheduledIsHeld
  <2>2. OneReaderReads
    <3>1. ASSUME NEW v \in WorkerIds, NEW w \in WorkerIds, v # w, Executes(v), Executes(w),
                 reader[worker[v]].channel = reader[worker[w]].channel, reader[worker[v]].alive, reader[worker[w]].alive
          PROVE  FALSE
      <4>1. worker[v] \in ReaderIds /\ worker[w] \in ReaderIds
        BY <3>1, QueueElements DEF PoolIInv, Executes, Gone, Idle
      <4>2. worker[v] = worker[w]
        BY <3>1, <4>1 DEF PoolReads
      <4> QED BY <3>1, <4>2 DEF PoolIInv, AtHome, Executes
    <3>2. \A r \in ReaderIds : reader[r].late <= 1
      BY DEF PoolReads
    <3> QED BY <3>1, <3>2 DEF OneReaderReads
  <2>3. PoolStoppedClean
    <3> SUFFICES ASSUME ~pool.there
        PROVE /\ loop.pc = "none" /\ \A w \in WorkerIds : worker[w] = Gone /\ queue[w] = <<>>
              /\ \A r \in ReaderIds : ~reader[r].alive /\ ~reader[r].scheduling
      BY DEF PoolStoppedClean
    <3>1. loop.pc = "none" /\ \A w \in WorkerIds : worker[w] = Gone /\ queue[w] = <<>>
      BY DEF PoolIInv, Rests, LeftEmpty
    <3>2. \A r \in ReaderIds : ~WithWorker(r) /\ ~Pushed(r)
      BY <3>1, NothingHeld DEF PoolIInv, Pushed
    <3> QED BY <3>1, <3>2 DEF PoolIInv, Scheduled, Rests
  <2> QED BY <2>1, <2>2, <2>3 DEF PoolInv, PoolIInv, PoolTypes
<1> QED BY <1>1, PoolInductive, PTL

(***************************************************************************)
(* ClockSync.  A conversion is a division towards zero, whose error the    *)
(* frequency bounds; a calibration for which the driver answers has read   *)
(* the counter and the clock within the time it took.                      *)
(***************************************************************************)
Infos == [startRealTime: Int, freq: Nat, startSysCnt: Int, startMonotonicRawNs: Int,
          clocks: SUBSET Clocks, span: Nat, asOf: Nat, sound: BOOLEAN]
CalibrationPCs == {"idle", "counter", "before", "after", "store"}

ClockTypes ==
    /\ clockNow \in 0 .. MaxNow /\ timestampCallback \in Clocks
    /\ freq \in [Sides -> Nat] /\ freq["device"] # ERR_FREQ
    /\ info \in [Sides -> Infos]
    /\ calibrating \in [Calibrators -> [pc: CalibrationPCs, side: Sides, made: Infos]]
    /\ sync \in [pc: {"none", "wait", "round", "ended"}, isQuit: BOOLEAN]
    /\ client \in {"idle", "calibrates", "stops", "joins"}
    /\ api \in [pc: {"none", "end", "done"}, start: Int, end: Int, moved: BOOLEAN]
    /\ registrations \in Nat

(* The count that a conversion is from, and what it is if the driver         *)
(* answered.                                                                 *)
Origin(i) == IF i.freq = ERR_FREQ THEN i.startMonotonicRawNs ELSE i.startSysCnt
Counted(i, side, at) == i.sound => i.freq = freq[side] /\ Origin(i) = Counter(side, at)

(* What a calibration has read since it began, by where it is.               *)
CounterRead(w) == \E at \in w.made.span .. clockNow : Counted(w.made, w.side, at)
NoneRead(w) == w.made.startRealTime = 0 /\ w.made.clocks = {}
OneRead(w) ==
    \E at \in w.made.span .. clockNow, c \in Clocks :
        w.made.startRealTime = at + Offset[c] /\ w.made.clocks = {c}
TwoRead(w) ==
    \E at, again \in w.made.span .. clockNow, c, d \in Clocks :
        w.made.startRealTime = (at + Offset[c]) + (again + Offset[d]) /\ w.made.clocks = {c, d}

ReadSoFar(w) ==
    /\ w.made.span <= clockNow
    /\ w.pc = "counter" => IF w.side = "host" THEN NoneRead(w) ELSE OneRead(w)
    /\ w.pc = "before" => NoneRead(w) /\ (w.side = "host" => CounterRead(w))
    /\ w.pc = "after" => CounterRead(w) /\ OneRead(w)
    /\ w.pc = "store" => CounterRead(w) /\ TwoRead(w)

Calibrating == \A t \in Calibrators : calibrating[t].pc # "idle" => ReadSoFar(calibrating[t])

(* What is stored was read within its span.                                  *)
ReadAsStored(side, i) ==
    \E from \in Nat : \E at, one, two \in from .. from + i.span, c, d \in Clocks :
        /\ Counted(i, side, at)
        /\ i.startRealTime = Mean((one + Offset[c]) + (two + Offset[d])) /\ i.clocks = {c, d}
Stored ==
    \A side \in Sides : info[side].span <= MaxNow /\ (info[side] = NoInfo \/ ReadAsStored(side, info[side]))

(* The first time of an API call was converted by the info that is there.    *)
ApiConverts ==
    /\ api.pc = "end" /\ ~api.moved =>
          \E from, to \in Nat :
              /\ from <= to
              /\ api.start = RealTime("host", Counter("host", from)) /\ api.end = Counter("host", to)
    /\ ApiInOrder

(* A calibration that began with the last registration has read its clock.   *)
ReadsRegistered ==
    /\ calibrating["client"].side = "host"
    /\ \A t \in Calibrators : calibrating[t].pc # "idle" =>
          /\ calibrating[t].made.asOf <= registrations
          /\ calibrating[t].made.asOf = registrations => calibrating[t].made.clocks \subseteq {timestampCallback}
    /\ RegistrationHolds

ClockIInv == ClockTypes /\ Calibrating /\ Stored /\ ApiConverts /\ ReadsRegistered

----------------------------------------------------------------------------
(* A division rounds down by less than the divisor.                          *)
LEMMA DivBounds ==
    ASSUME NEW a \in Int, NEW b \in Nat, b > 0
    PROVE  /\ a \div b \in Int
           /\ b * (a \div b) <= a /\ a < b * (a \div b) + b
BY SMT

LEMMA FactorLess ==
    ASSUME NEW f \in Nat, f > 0, NEW x \in Int, NEW y \in Int, f * x < f * y
    PROVE  x < y
<1> SUFFICES ASSUME y <= x PROVE FALSE
  OBVIOUS
<1>1. PICK d \in Nat : x = y + d
  <2> WITNESS x - y \in Nat
  <2> QED OBVIOUS
<1>2. f * x = f * y + f * d
  BY <1>1
<1>3. f * d \in Nat
  OBVIOUS
<1> QED BY <1>2, <1>3

(* The quotient of the language is towards zero.                             *)
LEMMA QuotientBounds ==
    ASSUME NEW a \in Int, NEW b \in Nat, b > 0
    PROVE  /\ Quotient(a, b) \in Int
           /\ a >= 0 => b * Quotient(a, b) <= a /\ a < b * Quotient(a, b) + b
           /\ a < 0 => a <= b * Quotient(a, b) /\ b * Quotient(a, b) < a + b
<1>1. CASE a >= 0
  BY <1>1, DivBounds DEF Quotient
<1>2. CASE a < 0
  <2>1. -a \in Int
    OBVIOUS
  <2> DEFINE m == (-a) \div b
  <2>2. m \in Int /\ b * m <= -a /\ -a < b * m + b
    BY <2>1, DivBounds
  <2>3. Quotient(a, b) = -m
    BY <1>2 DEF Quotient
  <2> HIDE DEF m
  <2>4. b * (-m) = -(b * m)
    BY <2>2
  <2> QED BY <1>2, <2>2, <2>3, <2>4
<1> QED BY <1>1, <1>2

(* The two divisions of a conversion are one: of the count times the unit.   *)
Scaled(d, f) == Quotient(d, f) * MSTONS + Quotient(Remainder(d, f) * MSTONS, f)

LEMMA ScaledBounds ==
    ASSUME NEW d \in Int, NEW f \in Nat, f > 0
    PROVE  /\ Scaled(d, f) \in Int
           /\ d >= 0 => f * Scaled(d, f) <= d * MSTONS /\ d * MSTONS < f * Scaled(d, f) + f
           /\ d < 0 => d * MSTONS <= f * Scaled(d, f) /\ f * Scaled(d, f) < d * MSTONS + f
<1> DEFINE q == Quotient(d, f)
           r == Remainder(d, f)
           e == Quotient(r * MSTONS, f)
<1>1. q \in Int /\ (d >= 0 => f * q <= d /\ d < f * q + f) /\ (d < 0 => d <= f * q /\ f * q < d + f)
  BY QuotientBounds
<1>2. r = d - f * q
  BY DEF Remainder
<1>3. MSTONS \in Nat /\ MSTONS > 0
  BY ClockAssumption
<1> HIDE DEF q, r
<1>4. r \in Int /\ f * q \in Int
  BY <1>1, <1>2
<1>5. d >= 0 => r >= 0
  BY <1>1, <1>2, <1>4
<1>6. d < 0 => r <= 0
  BY <1>1, <1>2, <1>4
<1>7. r * MSTONS \in Int /\ (r >= 0 => r * MSTONS >= 0) /\ (r < 0 => r * MSTONS < 0)
  BY <1>3, <1>4
<1>8. /\ e \in Int
      /\ r * MSTONS >= 0 => f * e <= r * MSTONS /\ r * MSTONS < f * e + f
      /\ r * MSTONS < 0 => r * MSTONS <= f * e /\ f * e < r * MSTONS + f
  BY <1>7, QuotientBounds
<1>9. Scaled(d, f) = q * MSTONS + e
  BY DEF Scaled, q, r
<1> HIDE DEF e
<1>10. f * (q * MSTONS + e) = (f * q) * MSTONS + f * e
  BY <1>1, <1>3, <1>8
<1>11. d * MSTONS = (f * q) * MSTONS + r * MSTONS
  <2>1. d = f * q + r
    BY <1>2, <1>4
  <2> QED BY <2>1, <1>3, <1>4
<1>12. f * e \in Int /\ (f * q) * MSTONS \in Int /\ q * MSTONS + e \in Int
  BY <1>1, <1>3, <1>4, <1>8
<1>13. CASE d >= 0
  BY <1>13, <1>5, <1>7, <1>8, <1>9, <1>10, <1>11, <1>12
<1>14. CASE d < 0 /\ r < 0
  BY <1>14, <1>7, <1>8, <1>9, <1>10, <1>11, <1>12
<1>15. CASE d < 0 /\ r = 0
  <2>1. r * MSTONS = 0
    BY <1>15, <1>3
  <2>2. f * e <= 0 /\ 0 < f * e + f
    BY <2>1, <1>8
  <2>3. e = 0
    <3>1. f * e < f * 1 /\ f * (-1) < f * e
      BY <2>2, <1>12
    <3> QED BY <3>1, <1>8, FactorLess
  <2> QED BY <2>1, <2>3, <1>15, <1>9, <1>10, <1>11, <1>12
<1> QED BY <1>4, <1>6, <1>13, <1>14, <1>15

(* A longer count is not converted to an earlier time.                       *)
LEMMA ScaledOrder ==
    ASSUME NEW d \in Int, NEW e \in Int, d <= e, NEW f \in Nat, f > 0
    PROVE  Scaled(d, f) <= Scaled(e, f)
<1> DEFINE x == Scaled(d, f)
           y == Scaled(e, f)
<1>1. MSTONS \in Nat /\ MSTONS > 0
  BY ClockAssumption
<1>2. d * MSTONS <= e * MSTONS
  <2>1. PICK n \in Nat : e = d + n
    <3> WITNESS e - d \in Nat
    <3> QED OBVIOUS
  <2>2. e * MSTONS = d * MSTONS + n * MSTONS /\ n * MSTONS \in Nat /\ d * MSTONS \in Int
    BY <2>1, <1>1
  <2> QED BY <2>2
<1>3. /\ x \in Int /\ y \in Int
      /\ d >= 0 => f * x <= d * MSTONS
      /\ d < 0 => f * x < d * MSTONS + f
      /\ e >= 0 => e * MSTONS < f * y + f
      /\ e < 0 => e * MSTONS <= f * y
  BY ScaledBounds
<1>4. (d >= 0 => d * MSTONS >= 0) /\ (d < 0 => d * MSTONS < 0) /\ d * MSTONS \in Int /\ e * MSTONS \in Int
  BY <1>1
<1> HIDE DEF x, y
<1>5. f * x \in Int /\ f * y \in Int /\ f * (y + 1) = f * y + f
  BY <1>3
<1>6. CASE d >= 0 \/ e < 0
  <2>1. f * x < f * (y + 1)
    BY <1>2, <1>3, <1>4, <1>5, <1>6
  <2>2. x < y + 1
    BY <2>1, <1>3, FactorLess
  <2> QED BY <2>2, <1>3 DEF x, y
<1>7. CASE d < 0 /\ e >= 0
  <2>1. f * x < f * 1 /\ f * (-1) < f * y
    <3>1. f * 1 = f /\ f * (-1) = -f
      OBVIOUS
    <3>2. e * MSTONS >= 0
      BY <1>7, <1>1
    <3> QED BY <3>1, <3>2, <1>3, <1>4, <1>5, <1>7
  <2>2. x < 1 /\ -1 < y
    BY <2>1, <1>3, FactorLess
  <2> QED BY <2>2, <1>3 DEF x, y
<1> QED BY <1>6, <1>7

(* The counter of a time, as ticks of the frequency.                         *)
LEMMA CounterBounds ==
    ASSUME freq \in [Sides -> Nat], NEW side \in Sides, NEW t \in Nat
    PROVE  /\ Counter(side, t) \in Int
           /\ freq[side] = ERR_FREQ => Counter(side, t) = t
           /\ freq[side] # ERR_FREQ =>
                 /\ MSTONS * Counter(side, t) <= t * freq[side]
                 /\ t * freq[side] < MSTONS * Counter(side, t) + MSTONS
<1>1. MSTONS \in Nat /\ MSTONS > 0
  BY ClockAssumption
<1>2. freq[side] \in Nat
  OBVIOUS
<1> DEFINE f == freq[side]
<1>3. t * f \in Int
  BY <1>2
<1>4. LET m == (t * f) \div MSTONS IN m \in Int /\ MSTONS * m <= t * f /\ t * f < MSTONS * m + MSTONS
  BY <1>1, <1>3, DivBounds
<1> QED BY <1>4, <1>2 DEF Counter

LEMMA CounterOrder ==
    ASSUME freq \in [Sides -> Nat], NEW side \in Sides, NEW s \in Nat, NEW t \in Nat, s <= t
    PROVE  Counter(side, s) <= Counter(side, t)
<1> DEFINE x == Counter(side, s)
           y == Counter(side, t)
           f == freq[side]
<1>1. MSTONS \in Nat /\ MSTONS > 0 /\ f \in Nat
  BY ClockAssumption
<1>2. CASE f = ERR_FREQ
  BY <1>2, CounterBounds
<1>3. CASE f # ERR_FREQ
  <2>1. x \in Int /\ y \in Int /\ MSTONS * x <= s * f /\ t * f < MSTONS * y + MSTONS
    BY <1>3, CounterBounds
  <2>2. s * f <= t * f
    <3>1. PICK n \in Nat : t = s + n
      <4> WITNESS t - s \in Nat
      <4> QED OBVIOUS
    <3> HIDE DEF f
    <3>2. t * f = s * f + n * f /\ n * f \in Nat /\ s * f \in Nat
      BY <3>1, <1>1
    <3> QED BY <3>2
  <2> HIDE DEF x, y, f
  <2>3. MSTONS * (y + 1) = MSTONS * y + MSTONS /\ MSTONS * x \in Int /\ MSTONS * y \in Int /\ s * f \in Int /\ t * f \in Int
    BY <2>1, <1>1
  <2>4. MSTONS * x < MSTONS * (y + 1)
    BY <2>1, <2>2, <2>3, <1>1
  <2>5. x < y + 1
    BY <2>4, <2>1, <1>1, FactorLess
  <2> QED BY <2>5, <2>1 DEF x, y
<1> QED BY <1>2, <1>3

(* What a conversion says of the time between two counts is off by less than *)
(* the grain.                                                                *)
LEMMA ConversionError ==
    ASSUME freq \in [Sides -> Nat], NEW side \in Sides, NEW s \in Nat, NEW t \in Nat,
           NEW i \in Infos, i.freq = freq[side], Origin(i) = Counter(side, s)
    PROVE  /\ ConvertCounterToRealTime(Counter(side, t), i) \in Int
           /\ LET e == (ConvertCounterToRealTime(Counter(side, t), i) - i.startRealTime) - (t - s)
              IN  e <= Grain(side) /\ -e <= Grain(side)
<1> DEFINE x == Counter(side, s)
           y == Counter(side, t)
           f == freq[side]
<1>1. MSTONS \in Nat /\ MSTONS > 0 /\ f \in Nat /\ i.startRealTime \in Int
  BY ClockAssumption DEF Infos
<1>2. x \in Int /\ y \in Int
  BY CounterBounds
<1>3. CASE f = ERR_FREQ
  <2>1. x = s /\ y = t
    BY <1>3, CounterBounds
  <2>2. ConvertCounterToRealTime(y, i) = (t - s) + i.startRealTime
    BY <2>1, <1>3 DEF ConvertCounterToRealTime, ConvertMonotonicCounterToRealTime, Origin
  <2>3. Grain(side) = 1
    BY <1>3 DEF Grain
  <2> QED BY <2>2, <2>3, <1>1
<1>4. CASE f # ERR_FREQ
  <2>1. f > 0
    BY <1>1, <1>4 DEF ERR_FREQ
  <2>2. /\ MSTONS * x <= s * f /\ s * f < MSTONS * x + MSTONS
        /\ MSTONS * y <= t * f /\ t * f < MSTONS * y + MSTONS
    BY <1>4, CounterBounds
  <2> DEFINE d == y - x
             c == Scaled(d, f)
             g == Quotient(MSTONS, f)
  <2>3. ConvertCounterToRealTime(y, i) = c + i.startRealTime
    <3>1. ConvertCounterToRealTime(y, i) = ConvertSysCntToRealTime(y, i)
      BY <1>4 DEF ConvertCounterToRealTime
    <3>2. ConvertSysCntToRealTime(y, i) = c + i.startRealTime
      BY <1>4 DEF ConvertSysCntToRealTime, Scaled, Origin
    <3> QED BY <3>1, <3>2
  <2>4. /\ c \in Int
        /\ d >= 0 => f * c <= d * MSTONS /\ d * MSTONS < f * c + f
        /\ d < 0 => d * MSTONS <= f * c /\ f * c < d * MSTONS + f
    <3> HIDE DEF x, y, f
    <3>1. d \in Int
      BY <1>2
    <3> HIDE DEF d
    <3> QED BY <3>1, <1>1, <2>1, ScaledBounds
  <2>5. g \in Int /\ f * g <= MSTONS /\ MSTONS < f * g + f
    <3> HIDE DEF f
    <3>1. MSTONS \in Int /\ MSTONS >= 0
      BY <1>1
    <3> QED BY <3>1, <1>1, <2>1, QuotientBounds
  <2>6. Grain(side) = 1 + g + 1
    BY <1>4 DEF Grain
  <2> HIDE DEF x, y, f, c, g
  <2>7. d * MSTONS = MSTONS * y - MSTONS * x
    BY <1>1, <1>2
  <2>8. /\ MSTONS * x \in Int /\ MSTONS * y \in Int /\ s * f \in Int /\ t * f \in Int /\ f * c \in Int /\ f * g \in Int
        /\ d * MSTONS \in Int /\ d \in Int
    BY <1>1, <1>2, <2>4, <2>5
  <2>9. f * (c - (t - s)) = f * c - (t * f - s * f)
    BY <1>1, <2>4
  <2>10. f * ((t - s) - c) = (t * f - s * f) - f * c
    BY <1>1, <2>4
  <2>11. f * (2 + g + 1) = f * g + f + f + f
    BY <1>1, <2>5
  <2> HIDE DEF d
  <2>12. f * c < d * MSTONS + f /\ d * MSTONS < f * c + f
    BY <2>4, <2>8, <2>1, <1>1
  <2>13. f * (c - (t - s)) < f * (2 + g + 1) /\ f * ((t - s) - c) < f * (2 + g + 1)
    BY <2>2, <2>5, <2>7, <2>8, <2>9, <2>10, <2>11, <2>12, <1>1, <2>1
  <2>14. c - (t - s) \in Int /\ (t - s) - c \in Int /\ 2 + g + 1 \in Int
    BY <2>4, <2>5
  <2>15. c - (t - s) < 2 + g + 1
    BY <2>13, <2>14, <2>1, <1>1, FactorLess
  <2>16. (t - s) - c < 2 + g + 1
    BY <2>13, <2>14, <2>1, <1>1, FactorLess
  <2> QED BY <2>3, <2>4, <2>5, <2>6, <2>15, <2>16, <1>1 DEF y
<1> QED BY <1>3, <1>4

----------------------------------------------------------------------------
(* The parts of the invariant, by what a step may change.                    *)

LEMMA StoredInfo ==
    ASSUME ClockTypes, Stored, NEW side \in Sides, NEW clock \in Clocks,
           info[side].clocks = {clock}, info[side].sound
    PROVE  \E from \in Nat : \E at, one, two \in from .. from + info[side].span :
              /\ info[side].freq = freq[side] /\ Origin(info[side]) = Counter(side, at)
              /\ info[side].startRealTime = Mean((one + Offset[clock]) + (two + Offset[clock]))
<1>1. info[side] # NoInfo
  BY DEF NoInfo
<1>2. PICK from \in Nat : \E at, one, two \in from .. from + info[side].span, c, d \in Clocks :
              /\ Counted(info[side], side, at)
              /\ info[side].startRealTime = Mean((one + Offset[c]) + (two + Offset[d]))
              /\ info[side].clocks = {c, d}
  BY <1>1 DEF Stored, ReadAsStored
<1>3. PICK at \in from .. from + info[side].span, one \in from .. from + info[side].span,
           two \in from .. from + info[side].span, c \in Clocks, d \in Clocks :
              /\ Counted(info[side], side, at)
              /\ info[side].startRealTime = Mean((one + Offset[c]) + (two + Offset[d]))
              /\ info[side].clocks = {c, d}
  BY <1>2
<1>4. c = clock /\ d = clock
  BY <1>3
<1>5. info[side].freq = freq[side] /\ Origin(info[side]) = Counter(side, at)
  BY <1>3 DEF Counted
<1> QED BY <1>3, <1>4, <1>5

LEMMA AccurateHolds == ClockTypes /\ Stored => Accurate
<1> SUFFICES ASSUME ClockTypes, Stored, NEW side \in Sides, NEW time \in 0 .. clockNow, NEW clock \in Clocks,
                    info[side].clocks = {clock}, info[side].sound
             PROVE  Distance(RealTime(side, Counter(side, time)), time + Offset[clock]) <= info[side].span + Grain(side)
  BY DEF Accurate
<1> DEFINE i == info[side]
<1>1. i \in Infos /\ freq \in [Sides -> Nat] /\ clockNow \in Nat
  BY ClockAssumption DEF ClockTypes
<1>2. time \in Nat /\ i.span \in Nat /\ Offset[clock] \in Nat /\ i.startRealTime \in Int
  BY <1>1, ClockAssumption DEF Infos
<1>3. PICK from \in Nat : \E at, one, two \in from .. from + i.span :
              /\ i.freq = freq[side] /\ Origin(i) = Counter(side, at)
              /\ i.startRealTime = Mean((one + Offset[clock]) + (two + Offset[clock]))
  BY StoredInfo
<1>4. PICK at \in from .. from + i.span, one \in from .. from + i.span, two \in from .. from + i.span :
              /\ i.freq = freq[side] /\ Origin(i) = Counter(side, at)
              /\ i.startRealTime = Mean((one + Offset[clock]) + (two + Offset[clock]))
  BY <1>3
<1>5. at \in Nat /\ one \in Nat /\ two \in Nat
  BY <1>2, <1>4
<1> DEFINE conv == ConvertCounterToRealTime(Counter(side, time), i)
           e == (conv - i.startRealTime) - (time - at)
<1>6. RealTime(side, Counter(side, time)) = conv
  BY DEF RealTime, NoInfo
<1>7. conv \in Int /\ e <= Grain(side) /\ -e <= Grain(side)
  BY <1>1, <1>2, <1>4, <1>5, ConversionError
<1>8. from + Offset[clock] <= i.startRealTime /\ i.startRealTime <= from + i.span + Offset[clock]
  <2> DEFINE sum == (one + Offset[clock]) + (two + Offset[clock])
  <2>1. sum \in Int /\ 2 * (from + Offset[clock]) <= sum /\ sum <= 2 * (from + i.span + Offset[clock])
    BY <1>2, <1>4, <1>5
  <2>2. i.startRealTime = sum \div 2
    BY <1>4 DEF Mean
  <2> HIDE DEF sum
  <2> QED BY <2>1, <2>2, <1>2, DivBounds
<1>9. Grain(side) \in Int
  <2>1. MSTONS \in Int /\ freq[side] \in Nat
    BY <1>1, ClockAssumption
  <2>2. freq[side] # ERR_FREQ => Quotient(MSTONS, freq[side]) \in Int
    BY <2>1, QuotientBounds DEF ERR_FREQ
  <2> QED BY <2>2 DEF Grain
<1> HIDE DEF conv, i
<1>10. conv - (time + Offset[clock]) <= i.span + Grain(side) /\ (time + Offset[clock]) - conv <= i.span + Grain(side)
  BY <1>2, <1>4, <1>5, <1>7, <1>8, <1>9
<1> QED BY <1>6, <1>10 DEF Distance, i

(* Counts convert in their order, for any two times.                         *)
LEMMA RealTimeOrder ==
    ASSUME ClockTypes, NEW side \in Sides, NEW s \in Nat, NEW t \in Nat, s <= t
    PROVE  /\ RealTime(side, Counter(side, s)) \in Int
           /\ RealTime(side, Counter(side, s)) <= RealTime(side, Counter(side, t))
<1> DEFINE x == Counter(side, s)
           y == Counter(side, t)
           i == info[side]
           f == i.freq
<1>1. freq \in [Sides -> Nat] /\ i \in Infos /\ f \in Nat
  BY DEF ClockTypes, Infos
<1>2. x \in Int /\ y \in Int /\ x <= y
  BY <1>1, CounterBounds, CounterOrder
<1>3. i.startSysCnt \in Int /\ i.startMonotonicRawNs \in Int /\ i.startRealTime \in Int
  BY <1>1 DEF Infos
<1>4. CASE i = NoInfo
  BY <1>2, <1>4 DEF RealTime
<1>5. CASE i # NoInfo /\ f = ERR_FREQ
  <2>1. /\ RealTime(side, x) = (x - i.startMonotonicRawNs) + i.startRealTime
        /\ RealTime(side, y) = (y - i.startMonotonicRawNs) + i.startRealTime
    <3> HIDE DEF x, y
    <3> QED BY <1>5 DEF RealTime, ConvertCounterToRealTime, ConvertMonotonicCounterToRealTime
  <2> HIDE DEF x, y, i
  <2>2. /\ (x - i.startMonotonicRawNs) + i.startRealTime \in Int
        /\ (x - i.startMonotonicRawNs) + i.startRealTime <= (y - i.startMonotonicRawNs) + i.startRealTime
    BY <1>2, <1>3
  <2> QED BY <2>1, <2>2 DEF x, y
<1>6. CASE i # NoInfo /\ f # ERR_FREQ
  <2>1. /\ RealTime(side, x) = Scaled(x - i.startSysCnt, f) + i.startRealTime
        /\ RealTime(side, y) = Scaled(y - i.startSysCnt, f) + i.startRealTime
    <3> HIDE DEF x, y
    <3> QED BY <1>6 DEF RealTime, ConvertCounterToRealTime, ConvertSysCntToRealTime, Scaled
  <2> HIDE DEF x, y, f, i
  <2>2. f > 0
    BY <1>1, <1>6 DEF ERR_FREQ
  <2>3. x - i.startSysCnt \in Int /\ y - i.startSysCnt \in Int /\ x - i.startSysCnt <= y - i.startSysCnt
    BY <1>2, <1>3
  <2>4. /\ Scaled(x - i.startSysCnt, f) \in Int /\ Scaled(y - i.startSysCnt, f) \in Int
        /\ Scaled(x - i.startSysCnt, f) <= Scaled(y - i.startSysCnt, f)
    BY <1>1, <2>2, <2>3, ScaledBounds, ScaledOrder
  <2> QED BY <2>1, <2>4, <1>3 DEF x, y
<1> QED BY <1>4, <1>5, <1>6

LEMMA OrderHolds == ClockTypes => OrderKept
<1> SUFFICES ASSUME ClockTypes, NEW side \in Sides, NEW late2 \in 0 .. clockNow, NEW early \in 0 .. late2
             PROVE  RealTime(side, Counter(side, early)) <= RealTime(side, Counter(side, late2))
  BY DEF OrderKept
<1>1. early \in Nat /\ late2 \in Nat /\ early <= late2
  BY ClockAssumption DEF ClockTypes
<1> QED BY <1>1, RealTimeOrder

LEMMA TypesHold == ClockTypes /\ Stored => ClockTypeOK
BY ClockAssumption DEF ClockTypes, Stored, ClockTypeOK, Infos

----------------------------------------------------------------------------
LEMMA ClockInitIInv == ClockInit => ClockIInv
<1> SUFFICES ASSUME ClockInit PROVE ClockIInv
  OBVIOUS
<1>1. PICK h \in HostFreqs, d \in DeviceFreqs : freq = [host |-> h, device |-> d]
  BY DEF ClockInit
<1>2. freq \in [Sides -> Nat] /\ freq["device"] # ERR_FREQ
  BY <1>1, ClockAssumption DEF Sides
<1>3. NoInfo \in Infos
  BY DEF NoInfo, Infos, ERR_FREQ
<1>4. NotCalibrating \in [pc: CalibrationPCs, side: Sides, made: Infos]
  BY <1>3 DEF NotCalibrating, CalibrationPCs, Sides
<1>5. ClockTypes
  BY <1>2, <1>3, <1>4, ClockAssumption DEF ClockInit, ClockTypes, NoApi
<1>6. Calibrating
  BY DEF ClockInit, Calibrating, NotCalibrating
<1>7. Stored
  BY ClockAssumption DEF ClockInit, Stored, NoInfo
<1>8. ApiConverts
  BY DEF ClockInit, ApiConverts, ApiInOrder, NoApi
<1>9. ReadsRegistered
  BY DEF ClockInit, ReadsRegistered, RegistrationHolds, NotCalibrating, Calibrators
<1> QED BY <1>5, <1>6, <1>7, <1>8, <1>9 DEF ClockIInv

(* What a calibration has read stays so while time passes.                   *)
LEMMA ReadStays ==
    ASSUME NEW w, ReadSoFar(w), clockNow \in Nat, clockNow' \in Nat, clockNow <= clockNow', freq' = freq,
           w.made \in Infos
    PROVE  ReadSoFar(w)'
<1>1. w.made.span \in Nat
  BY DEF Infos
<1>2. \A at \in w.made.span .. clockNow : at \in w.made.span .. clockNow'
  BY <1>1
<1>3. \A side, at : Counter(side, at)' = Counter(side, at)
  BY DEF Counter
<1>4. w.made.span <= clockNow'
  BY <1>1 DEF ReadSoFar
<1>5. CounterRead(w) => CounterRead(w)'
  BY <1>2, <1>3 DEF CounterRead, Counted
<1>6. (OneRead(w) => OneRead(w)') /\ (TwoRead(w) => TwoRead(w)')
  BY <1>2 DEF OneRead, TwoRead
<1>7. NoneRead(w)' = NoneRead(w)
  BY DEF NoneRead
<1> QED BY <1>4, <1>5, <1>6, <1>7 DEF ReadSoFar

(* What is stored stays as it was read.                                      *)
LEMMA StoredStays ==
    ASSUME NEW side, NEW i, ReadAsStored(side, i), freq' = freq
    PROVE  ReadAsStored(side, i)'
<1>1. \A at : Counter(side, at)' = Counter(side, at)
  BY DEF Counter
<1> QED BY <1>1 DEF ReadAsStored, Counted

LEMMA ConversionStays ==
    ASSUME freq' = freq, NEW side, info'[side] = info[side], NEW n
    PROVE  /\ RealTime(side, n)' = RealTime(side, n)
           /\ \A t : Counter(side, t)' = Counter(side, t)
BY DEF RealTime, ConvertCounterToRealTime, ConvertMonotonicCounterToRealTime, ConvertSysCntToRealTime, Counter

LEMMA TickKeeps == ClockIInv /\ Tick => ClockIInv'
<1> SUFFICES ASSUME ClockIInv, Tick PROVE ClockIInv'
  OBVIOUS
<1>1. /\ ClockTypes /\ Calibrating /\ Stored /\ ApiConverts /\ ReadsRegistered
      /\ clockNow \in Nat /\ clockNow' \in Nat /\ clockNow < clockNow' /\ clockNow' <= MaxNow
      /\ UNCHANGED <<freq, timestampCallback, info, calibrating, sync, client, first, opened, api, registrations, late>>
  BY ClockAssumption DEF ClockIInv, Tick, ClockTypes
<1>2. ClockTypes'
  BY <1>1 DEF ClockTypes
<1>3. Calibrating'
  <2> SUFFICES ASSUME NEW t \in Calibrators, calibrating[t].pc # "idle" PROVE ReadSoFar(calibrating[t])'
    BY <1>1 DEF Calibrating
  <2>1. calibrating[t].made \in Infos /\ ReadSoFar(calibrating[t])
    BY <1>1 DEF ClockTypes, Calibrating
  <2> DEFINE w == calibrating[t]
  <2>2. \A v : v.made \in Infos /\ ReadSoFar(v) => ReadSoFar(v)'
    BY <1>1, ReadStays
  <2> QED BY <1>1, <2>1, <2>2 DEF ReadSoFar, CounterRead, NoneRead, OneRead, TwoRead, Counted, Origin, Counter
<1>4. Stored'
  BY <1>1, StoredStays DEF Stored
<1>5. ApiConverts'
  <2>1. ApiInOrder'
    BY <1>1 DEF ApiConverts, ApiInOrder
  <2>2. /\ \A n : RealTime("host", n)' = RealTime("host", n)
        /\ \A n : Counter("host", n)' = Counter("host", n)
    BY <1>1, ConversionStays
  <2> QED BY <1>1, <2>1, <2>2 DEF ApiConverts
<1>6. ReadsRegistered'
  BY <1>1 DEF ReadsRegistered, RegistrationHolds
<1> QED BY <1>2, <1>3, <1>4, <1>5, <1>6 DEF ClockIInv

(* The steps that read and store nothing.                                    *)
QuietStep == ResetDevice \/ RunEnds \/ StartSyncTime \/ StopSyncTime \/ SetsQuit \/ JoinsSync

LEMMA QuietKeeps == ClockIInv /\ QuietStep => ClockIInv'
<1> SUFFICES ASSUME ClockIInv, QuietStep PROVE ClockIInv'
  OBVIOUS
<1>1. /\ ClockTypes /\ Calibrating /\ Stored /\ ApiConverts /\ ReadsRegistered
      /\ UNCHANGED <<clockNow, freq, timestampCallback, info, calibrating, api, registrations, late>>
      /\ client' # "calibrates" => client # "calibrates"
  BY DEF ClockIInv, QuietStep, ResetDevice, RunEnds, StartSyncTime, StopSyncTime, SetsQuit, JoinsSync
<1>2. ClockTypes'
  <2>1. sync' \in [pc: {"none", "wait", "round", "ended"}, isQuit: BOOLEAN]
    <3>1. \/ sync' = sync \/ sync' = [pc |-> "wait", isQuit |-> FALSE] \/ sync' = [sync EXCEPT !.pc = "ended"]
          \/ sync' = [sync EXCEPT !.isQuit = TRUE] \/ sync' = [sync EXCEPT !.pc = "none"]
      BY DEF QuietStep, ResetDevice, RunEnds, StartSyncTime, StopSyncTime, SetsQuit, JoinsSync, QuitCleared
    <3>2. sync \in [pc: {"none", "wait", "round", "ended"}, isQuit: BOOLEAN]
      BY <1>1 DEF ClockTypes
    <3>3. CASE sync' = [sync EXCEPT !.pc = "ended"]
      BY <3>2, <3>3
    <3>4. CASE sync' = [sync EXCEPT !.pc = "none"]
      BY <3>2, <3>4
    <3>5. CASE sync' = [sync EXCEPT !.isQuit = TRUE]
      BY <3>2, <3>5
    <3>6. CASE sync' = [pc |-> "wait", isQuit |-> FALSE]
      BY <3>6
    <3>7. CASE sync' = sync
      BY <3>2, <3>7
    <3> QED BY <3>1, <3>3, <3>4, <3>5, <3>6, <3>7
  <2>2. client' \in {"idle", "calibrates", "stops", "joins"}
    BY <1>1 DEF ClockTypes, QuietStep, ResetDevice, RunEnds, StartSyncTime, StopSyncTime, SetsQuit, JoinsSync
  <2> QED BY <1>1, <2>1, <2>2 DEF ClockTypes
<1>3. Calibrating'
  BY <1>1 DEF Calibrating, ReadSoFar, CounterRead, NoneRead, OneRead, TwoRead, Counted, Origin, Counter
<1>4. Stored'
  BY <1>1, StoredStays DEF Stored
<1>5. ApiConverts'
  <2>1. \A n : RealTime("host", n)' = RealTime("host", n) /\ Counter("host", n)' = Counter("host", n)
    BY <1>1, ConversionStays
  <2> QED BY <1>1, <2>1 DEF ApiConverts, ApiInOrder
<1>6. ReadsRegistered'
  BY <1>1 DEF ReadsRegistered, RegistrationHolds
<1> QED BY <1>2, <1>3, <1>4, <1>5, <1>6 DEF ClockIInv

(* A calibration has read nothing when it begins.                            *)
LEMMA ReadingFresh ==
    ASSUME ClockTypes, NEW side \in Sides, NEW n \in Nat
    PROVE  /\ Reading(side, n) \in [pc: CalibrationPCs, side: Sides, made: Infos]
           /\ ReadSoFar(Reading(side, n)) /\ Reading(side, n).side = side
           /\ Reading(side, n).made.asOf = n /\ Reading(side, n).made.clocks = {}
<1> DEFINE made == [NoInfo EXCEPT !.span = clockNow, !.asOf = n]
           w == Reading(side, n)
<1>1. clockNow \in Nat
  BY ClockAssumption DEF ClockTypes
<1>2. made.startRealTime = 0 /\ made.clocks = {} /\ made.span = clockNow /\ made.asOf = n /\ made \in Infos
  <2> DEFINE begun == [NoInfo EXCEPT !.span = clockNow]
  <2>1. NoInfo \in Infos /\ NoInfo.startRealTime = 0 /\ NoInfo.clocks = {}
    BY DEF NoInfo, Infos, ERR_FREQ
  <2>2. begun \in Infos /\ begun.startRealTime = 0 /\ begun.clocks = {} /\ begun.span = clockNow
    BY <1>1, <2>1 DEF Infos
  <2>3. made = [begun EXCEPT !.asOf = n]
    OBVIOUS
  <2> HIDE DEF begun, made
  <2> QED BY <2>2, <2>3 DEF Infos
<1>3. w = [pc |-> IF side = "host" THEN "counter" ELSE "before", side |-> side, made |-> made]
  BY DEF Reading
<1> HIDE DEF made, w
<1>4. /\ w.pc \in {"counter", "before"} /\ (w.pc = "counter" <=> side = "host")
      /\ w.side = side /\ w.made = made
  BY <1>3
<1>5. NoneRead(w) /\ w.made.span <= clockNow
  BY <1>1, <1>2, <1>4 DEF NoneRead
<1>6. ReadSoFar(w)
  BY <1>4, <1>5 DEF ReadSoFar
<1>7. w \in [pc: CalibrationPCs, side: Sides, made: Infos]
  BY <1>2, <1>3 DEF CalibrationPCs
<1> QED BY <1>2, <1>4, <1>6, <1>7 DEF w

(* A step that begins one calibration and stores none.                       *)
LEMMA BeginKeeps ==
    ASSUME ClockIInv, NEW t \in Calibrators, NEW side \in Sides, t = "client" => side = "host",
           calibrating' = [calibrating EXCEPT ![t] = Reading(side, registrations')],
           UNCHANGED <<clockNow, freq, info, api, late>>,
           timestampCallback' \in Clocks, registrations' \in Nat,
           \/ registrations' = registrations /\ timestampCallback' = timestampCallback
           \/ registrations' = registrations + 1 /\ client' = "calibrates",
           client' \in {"idle", "calibrates", "stops", "joins"},
           client' # "calibrates" => client # "calibrates",
           sync' \in [pc: {"none", "wait", "round", "ended"}, isQuit: BOOLEAN]
    PROVE  ClockIInv'
<1>1. ClockTypes /\ Calibrating /\ Stored /\ ApiConverts /\ ReadsRegistered
  BY DEF ClockIInv
<1> DEFINE w == Reading(side, registrations')
<1>2. /\ w \in [pc: CalibrationPCs, side: Sides, made: Infos] /\ ReadSoFar(w) /\ w.side = side
      /\ w.made.asOf = registrations' /\ w.made.clocks = {}
  BY <1>1, ReadingFresh
<1> HIDE DEF w
<1>3. /\ calibrating \in [Calibrators -> [pc: CalibrationPCs, side: Sides, made: Infos]]
      /\ calibrating' = [calibrating EXCEPT ![t] = w]
  BY <1>1 DEF ClockTypes, w
<1>4. /\ calibrating'[t] = w /\ \A u \in Calibrators \ {t} : calibrating'[u] = calibrating[u]
      /\ calibrating' \in [Calibrators -> [pc: CalibrationPCs, side: Sides, made: Infos]]
  BY <1>2, <1>3
<1>5. ClockTypes'
  BY <1>1, <1>4 DEF ClockTypes
<1>6. Calibrating'
  <2>1. \A v : ReadSoFar(v)' = ReadSoFar(v)
    BY DEF ReadSoFar, CounterRead, NoneRead, OneRead, TwoRead, Counted, Origin, Counter
  <2>2. \A u \in Calibrators : calibrating'[u].pc # "idle" => ReadSoFar(calibrating'[u])
    BY <1>1, <1>2, <1>4 DEF Calibrating
  <2> QED BY <2>2 DEF Calibrating, ReadSoFar, CounterRead, NoneRead, OneRead, TwoRead, Counted, Origin, Counter
<1>7. Stored'
  BY <1>1, StoredStays DEF Stored
<1>8. ApiConverts'
  <2>1. \A n : RealTime("host", n)' = RealTime("host", n) /\ Counter("host", n)' = Counter("host", n)
    BY ConversionStays
  <2> QED BY <1>1, <2>1 DEF ApiConverts, ApiInOrder
<1>9. ReadsRegistered'
  <2>1. calibrating'["client"].side = "host"
    BY <1>1, <1>2, <1>4 DEF ReadsRegistered, Calibrators
  <2>2. ASSUME NEW u \in Calibrators, calibrating'[u].pc # "idle"
        PROVE  /\ calibrating'[u].made.asOf <= registrations'
               /\ calibrating'[u].made.asOf = registrations' => calibrating'[u].made.clocks \subseteq {timestampCallback'}
    <3>1. CASE u = t
      BY <3>1, <1>2, <1>4
    <3>2. CASE u # t
      <4>1. calibrating[u].made.asOf \in Nat /\ registrations \in Nat /\ calibrating'[u] = calibrating[u]
        BY <1>1, <1>4, <3>2 DEF ClockTypes, Infos
      <4>2. /\ calibrating[u].made.asOf <= registrations
            /\ calibrating[u].made.asOf = registrations => calibrating[u].made.clocks \subseteq {timestampCallback}
        BY <1>1, <2>2, <4>1 DEF ReadsRegistered
      <4> QED BY <4>1, <4>2
    <3> QED BY <3>1, <3>2
  <2>3. RegistrationHolds'
    BY <1>1 DEF ReadsRegistered, RegistrationHolds
  <2> QED BY <2>1, <2>2, <2>3 DEF ReadsRegistered
<1> QED BY <1>5, <1>6, <1>7, <1>8, <1>9 DEF ClockIInv

(* A step that reads: another place, more of what is made.                   *)
LEMMA ObserveKeeps ==
    ASSUME ClockIInv, NEW t \in Calibrators, NEW pc \in CalibrationPCs \ {"idle"}, NEW after \in CalibrationPCs \ {"idle"},
           NEW made \in Infos, Observes(t, pc, after, made),
           made.asOf = calibrating[t].made.asOf,
           made.clocks \subseteq calibrating[t].made.clocks \cup {timestampCallback},
           ReadSoFar([calibrating[t] EXCEPT !.pc = after, !.made = made])
    PROVE  ClockIInv'
<1>1. ClockTypes /\ Calibrating /\ Stored /\ ApiConverts /\ ReadsRegistered
  BY DEF ClockIInv
<1> DEFINE w == [calibrating[t] EXCEPT !.pc = after, !.made = made]
<1>2. /\ calibrating[t].pc = pc /\ calibrating' = [calibrating EXCEPT ![t] = w]
      /\ UNCHANGED <<clockNow, freq, timestampCallback, info, sync, client, first, opened, api, registrations, late>>
  BY DEF Observes
<1>3. calibrating \in [Calibrators -> [pc: CalibrationPCs, side: Sides, made: Infos]]
  BY <1>1 DEF ClockTypes
<1>4. /\ w \in [pc: CalibrationPCs, side: Sides, made: Infos] /\ w.side = calibrating[t].side
      /\ w.made = made
  BY <1>3
<1>5. ReadSoFar(w)
  OBVIOUS
<1> HIDE DEF w
<1>6. /\ calibrating'[t] = w /\ \A u \in Calibrators \ {t} : calibrating'[u] = calibrating[u]
      /\ calibrating' \in [Calibrators -> [pc: CalibrationPCs, side: Sides, made: Infos]]
  BY <1>2, <1>3, <1>4
<1>7. ClockTypes'
  BY <1>1, <1>2, <1>6 DEF ClockTypes
<1>8. Calibrating'
  <2>1. \A u \in Calibrators : calibrating'[u].pc # "idle" => ReadSoFar(calibrating'[u])
    BY <1>1, <1>5, <1>6 DEF Calibrating
  <2> QED BY <1>2, <2>1 DEF Calibrating, ReadSoFar, CounterRead, NoneRead, OneRead, TwoRead, Counted, Origin, Counter
<1>9. Stored'
  BY <1>1, <1>2, StoredStays DEF Stored
<1>10. ApiConverts'
  <2>1. \A n : RealTime("host", n)' = RealTime("host", n) /\ Counter("host", n)' = Counter("host", n)
    BY <1>2, ConversionStays
  <2> QED BY <1>1, <1>2, <2>1 DEF ApiConverts, ApiInOrder
<1>11. ReadsRegistered'
  <2>1. calibrating'["client"].side = "host"
    BY <1>1, <1>4, <1>6 DEF ReadsRegistered, Calibrators
  <2>2. ASSUME NEW u \in Calibrators, calibrating'[u].pc # "idle"
        PROVE  /\ calibrating'[u].made.asOf <= registrations'
               /\ calibrating'[u].made.asOf = registrations' => calibrating'[u].made.clocks \subseteq {timestampCallback'}
    BY <1>1, <1>2, <1>4, <1>6, <2>2 DEF ReadsRegistered
  <2>3. RegistrationHolds'
    BY <1>1, <1>2 DEF ReadsRegistered, RegistrationHolds
  <2> QED BY <2>1, <2>2, <2>3 DEF ReadsRegistered
<1> QED BY <1>7, <1>8, <1>9, <1>10, <1>11 DEF ClockIInv

SameReadings(i, j) ==
    /\ i.freq = j.freq /\ i.startSysCnt = j.startSysCnt /\ i.startMonotonicRawNs = j.startMonotonicRawNs
    /\ i.span = j.span /\ i.asOf = j.asOf /\ i.sound = j.sound
SameClocks(i, j) ==
    i.startRealTime = j.startRealTime /\ i.clocks = j.clocks /\ i.span = j.span /\ i.asOf = j.asOf

LEMMA ClockAddedIs ==
    ASSUME ClockTypes, NEW m \in Infos
    PROVE  /\ ClockAdded(m) \in Infos
           /\ ClockAdded(m).startRealTime = m.startRealTime + ClockReads(timestampCallback)
           /\ ClockAdded(m).clocks = m.clocks \cup {timestampCallback}
           /\ ClockAdded(m).span = m.span /\ ClockAdded(m).asOf = m.asOf
           /\ \A side, at : Counted(ClockAdded(m), side, at) <=> Counted(m, side, at)
<1> DEFINE x == m.startRealTime + ClockReads(timestampCallback)
           y == m.clocks \cup {timestampCallback}
<1>1. x \in Int
  BY ClockAssumption DEF ClockTypes, ClockReads, Infos
<1>2. y \in SUBSET Clocks
  BY DEF ClockTypes, Infos
<1>3. ClockAdded(m) = [m EXCEPT !.startRealTime = x, !.clocks = y]
  BY DEF ClockAdded, Infos
<1> HIDE DEF x, y
<1> DEFINE dated == [m EXCEPT !.startRealTime = x]
<1>4. dated \in Infos /\ dated.startRealTime = x /\ dated.clocks = m.clocks /\ SameReadings(dated, m)
  BY <1>1 DEF Infos, SameReadings
<1>5. ClockAdded(m) = [dated EXCEPT !.clocks = y]
  BY <1>3
<1> HIDE DEF dated
<1>6. /\ ClockAdded(m) \in Infos /\ ClockAdded(m).startRealTime = x /\ ClockAdded(m).clocks = y
      /\ SameReadings(ClockAdded(m), m)
  BY <1>2, <1>4, <1>5 DEF Infos, SameReadings
<1> QED BY <1>6 DEF SameReadings, Counted, Origin, x, y

(* What the driver gives is of the type; it is sound if it is what the       *)
(* counter is.                                                               *)
LEMMA CounterAddedIs ==
    ASSUME ClockTypes, NEW side \in Sides, NEW m \in Infos,
           NEW f \in FreqReadings(side), NEW cnt \in CountReadings(side)
    PROVE  LET made == CounterAdded(side, m, f, cnt)
           IN  /\ made \in Infos /\ Counted(made, side, clockNow)
               /\ made.startRealTime = m.startRealTime /\ made.clocks = m.clocks
               /\ made.span = m.span /\ made.asOf = m.asOf
<1> DEFINE made == CounterAdded(side, m, f, cnt)
           monotonic == side = "host" /\ ~IsHostFreqEnabled
           sys == IF monotonic THEN 0 ELSE cnt
           mono == IF monotonic THEN cnt ELSE 0
           sound == (f = freq[side] /\ cnt = Counter(side, clockNow))
<1>1. freq \in [Sides -> Nat] /\ clockNow \in Nat /\ "host" \in Sides /\ "device" \in Sides
  BY ClockAssumption DEF ClockTypes, Sides
<1>2. f \in Nat
  BY <1>1, ClockAssumption DEF FreqReadings, ERR_FREQ, Sides
<1>3. cnt \in Int
  BY <1>1, CounterBounds DEF CountReadings
<1>4. sys \in Int /\ mono \in Int /\ sound \in BOOLEAN
  BY <1>3
<1>5. made = [m EXCEPT !.freq = f, !.startSysCnt = sys, !.startMonotonicRawNs = mono, !.sound = sound]
  BY DEF CounterAdded
<1>6. /\ monotonic => f = ERR_FREQ
      /\ sound /\ ~monotonic => f # ERR_FREQ
  <2>1. CASE side = "host"
    BY <2>1 DEF FreqReadings, IsHostFreqEnabled
  <2>2. CASE side = "device"
    BY <2>2 DEF ClockTypes, sound, monotonic
  <2> QED BY <2>1, <2>2 DEF Sides
<1> HIDE DEF sys, mono, sound, monotonic, made
<1> DEFINE m1 == [m EXCEPT !.freq = f]
           m2 == [m1 EXCEPT !.startSysCnt = sys]
           m3 == [m2 EXCEPT !.startMonotonicRawNs = mono]
<1>7. m1 \in Infos /\ m1.freq = f /\ SameClocks(m1, m)
  BY <1>2 DEF Infos, SameClocks
<1>8. made = [m3 EXCEPT !.sound = sound]
  BY <1>5
<1> HIDE DEF m1
<1>9. m2 \in Infos /\ m2.freq = f /\ m2.startSysCnt = sys /\ SameClocks(m2, m)
  BY <1>4, <1>7 DEF Infos, SameClocks
<1> HIDE DEF m2
<1>10. /\ m3 \in Infos /\ m3.freq = f /\ m3.startSysCnt = sys /\ m3.startMonotonicRawNs = mono
       /\ SameClocks(m3, m)
  BY <1>4, <1>9 DEF Infos, SameClocks
<1> HIDE DEF m3
<1>11. /\ made \in Infos /\ made.freq = f /\ made.startSysCnt = sys /\ made.startMonotonicRawNs = mono
       /\ made.sound = sound /\ SameClocks(made, m)
  BY <1>4, <1>8, <1>10 DEF Infos, SameClocks
<1>12. Counted(made, side, clockNow)
  <2> SUFFICES ASSUME sound PROVE made.freq = freq[side] /\ Origin(made) = Counter(side, clockNow)
    BY <1>11 DEF Counted
  <2>1. f = freq[side] /\ cnt = Counter(side, clockNow)
    BY DEF sound
  <2>2. CASE monotonic
    BY <2>1, <2>2, <1>6, <1>11 DEF Origin, mono
  <2>3. CASE ~monotonic
    BY <2>1, <2>3, <1>6, <1>11 DEF Origin, sys
  <2> QED BY <2>2, <2>3
<1> QED BY <1>11, <1>12 DEF SameClocks, made

LEMMA ReadsCounterKeeps == ASSUME ClockIInv, NEW t \in Calibrators, ReadsCounter(t) PROVE ClockIInv'
<1>1. ClockTypes /\ Calibrating
  BY DEF ClockIInv
<1> DEFINE w == calibrating[t]
           after == IF w.side = "host" THEN "before" ELSE "after"
<1>2. /\ w \in [pc: CalibrationPCs, side: Sides, made: Infos] /\ clockNow \in Nat
      /\ w.made.span \in Nat /\ w.made \in Infos /\ w.side \in Sides
  BY <1>1, ClockAssumption DEF ClockTypes, Infos
<1>3. PICK f \in FreqReadings(w.side), cnt \in CountReadings(w.side) :
        Observes(t, "counter", after, CounterAdded(w.side, w.made, f, cnt))
  BY DEF ReadsCounter
<1> DEFINE m == CounterAdded(w.side, w.made, f, cnt)
           v == [w EXCEPT !.pc = after, !.made = m]
<1>4. Observes(t, "counter", after, m) /\ w.pc = "counter"
  BY <1>3 DEF Observes
<1>5. ReadSoFar(w)
  BY <1>1, <1>4 DEF Calibrating
<1>7. /\ m \in Infos /\ Counted(m, w.side, clockNow)
      /\ m.startRealTime = w.made.startRealTime /\ m.clocks = w.made.clocks
      /\ m.span = w.made.span /\ m.asOf = w.made.asOf
  BY <1>1, <1>2, CounterAddedIs
<1>8. v.pc = after /\ v.made = m /\ v.side = w.side
  BY <1>2
<1> HIDE DEF v, m
<1>9. v.made.span <= clockNow /\ v.made.span = w.made.span
  BY <1>5, <1>7, <1>8 DEF ReadSoFar
<1>10. CounterRead(v)
  <2>1. clockNow \in v.made.span .. clockNow
    BY <1>2, <1>9
  <2> QED BY <2>1, <1>7, <1>8 DEF CounterRead
<1>11. CASE w.side = "host"
  <2>1. NoneRead(v)
    BY <1>4, <1>5, <1>7, <1>8, <1>11 DEF ReadSoFar, NoneRead
  <2>2. ReadSoFar(v)
    BY <2>1, <1>8, <1>9, <1>10, <1>11 DEF ReadSoFar
  <2> QED BY <2>2, <1>4, <1>7, <1>11, ObserveKeeps DEF v, CalibrationPCs
<1>12. CASE w.side # "host"
  <2>1. OneRead(v)
    BY <1>4, <1>5, <1>7, <1>8, <1>9, <1>12 DEF ReadSoFar, OneRead
  <2>2. ReadSoFar(v)
    BY <2>1, <1>8, <1>9, <1>10, <1>12 DEF ReadSoFar
  <2> QED BY <2>2, <1>4, <1>7, <1>12, ObserveKeeps DEF v, CalibrationPCs
<1> QED BY <1>11, <1>12

LEMMA ReadsBeforeKeeps == ASSUME ClockIInv, NEW t \in Calibrators, ReadsBefore(t) PROVE ClockIInv'
<1>1. ClockTypes /\ Calibrating
  BY DEF ClockIInv
<1> DEFINE w == calibrating[t]
           m == ClockAdded(w.made)
           after == IF w.side = "host" THEN "after" ELSE "counter"
           v == [w EXCEPT !.pc = after, !.made = m]
<1>2. /\ w \in [pc: CalibrationPCs, side: Sides, made: Infos] /\ clockNow \in Nat
      /\ w.made \in Infos /\ w.made.span \in Nat /\ timestampCallback \in Clocks
  BY <1>1, ClockAssumption DEF ClockTypes, Infos
<1>3. Observes(t, "before", after, m) /\ w.pc = "before"
  BY DEF ReadsBefore, Observes
<1>4. ReadSoFar(w)
  BY <1>1, <1>3 DEF Calibrating
<1>5. /\ m \in Infos
      /\ m.startRealTime = w.made.startRealTime + ClockReads(timestampCallback)
      /\ m.clocks = w.made.clocks \cup {timestampCallback}
      /\ m.span = w.made.span /\ m.asOf = w.made.asOf
      /\ \A side, at : Counted(m, side, at) <=> Counted(w.made, side, at)
  BY <1>1, <1>2, ClockAddedIs
<1>6. v.pc = after /\ v.made = m /\ v.side = w.side
  BY <1>2
<1> HIDE DEF v, m
<1>7. v.made.span <= clockNow
  BY <1>4, <1>5, <1>6 DEF ReadSoFar
<1>8. OneRead(v)
  <2>1. clockNow \in v.made.span .. clockNow
    BY <1>2, <1>5, <1>6, <1>7
  <2>2. w.made.startRealTime = 0 /\ w.made.clocks = {}
    BY <1>3, <1>4 DEF ReadSoFar, NoneRead
  <2>3. v.made.startRealTime = clockNow + Offset[timestampCallback] /\ v.made.clocks = {timestampCallback}
    BY <2>2, <1>2, <1>5, <1>6, ClockAssumption DEF ClockReads
  <2> QED BY <2>1, <2>3, <1>2 DEF OneRead
<1>9. w.side = "host" => CounterRead(v)
  BY <1>3, <1>4, <1>5, <1>6 DEF ReadSoFar, CounterRead
<1>10. ReadSoFar(v)
  BY <1>6, <1>7, <1>8, <1>9 DEF ReadSoFar
<1> QED BY <1>3, <1>5, <1>10, ObserveKeeps DEF v, CalibrationPCs

LEMMA ReadsAfterKeeps == ASSUME ClockIInv, NEW t \in Calibrators, ReadsAfter(t) PROVE ClockIInv'
<1>1. ClockTypes /\ Calibrating
  BY DEF ClockIInv
<1> DEFINE w == calibrating[t]
           m == ClockAdded(w.made)
           v == [w EXCEPT !.pc = "store", !.made = m]
<1>2. /\ w \in [pc: CalibrationPCs, side: Sides, made: Infos] /\ clockNow \in Nat
      /\ w.made \in Infos /\ w.made.span \in Nat /\ timestampCallback \in Clocks
  BY <1>1, ClockAssumption DEF ClockTypes, Infos
<1>3. Observes(t, "after", "store", m) /\ w.pc = "after"
  BY DEF ReadsAfter, Observes
<1>4. ReadSoFar(w)
  BY <1>1, <1>3 DEF Calibrating
<1>5. /\ m \in Infos
      /\ m.startRealTime = w.made.startRealTime + ClockReads(timestampCallback)
      /\ m.clocks = w.made.clocks \cup {timestampCallback}
      /\ m.span = w.made.span /\ m.asOf = w.made.asOf
      /\ \A side, at : Counted(m, side, at) <=> Counted(w.made, side, at)
  BY <1>1, <1>2, ClockAddedIs
<1>6. v.pc = "store" /\ v.made = m /\ v.side = w.side
  BY <1>2
<1> HIDE DEF v, m
<1>7. v.made.span <= clockNow
  BY <1>4, <1>5, <1>6 DEF ReadSoFar
<1>8. TwoRead(v)
  <2>1. clockNow \in v.made.span .. clockNow
    BY <1>2, <1>5, <1>6, <1>7
  <2>2. PICK at \in w.made.span .. clockNow, c \in Clocks :
          w.made.startRealTime = at + Offset[c] /\ w.made.clocks = {c}
    BY <1>3, <1>4 DEF ReadSoFar, OneRead
  <2>3. /\ v.made.startRealTime = (at + Offset[c]) + (clockNow + Offset[timestampCallback])
        /\ v.made.clocks = {c, timestampCallback}
    BY <2>2, <1>2, <1>5, <1>6 DEF ClockReads
  <2>4. at \in v.made.span .. clockNow
    BY <2>2, <1>5, <1>6
  <2> QED BY <2>1, <2>3, <2>4, <1>2 DEF TwoRead
<1>9. CounterRead(v)
  BY <1>3, <1>4, <1>5, <1>6 DEF ReadSoFar, CounterRead
<1>10. ReadSoFar(v)
  BY <1>6, <1>7, <1>8, <1>9 DEF ReadSoFar
<1> QED BY <1>3, <1>5, <1>10, ObserveKeeps DEF v, CalibrationPCs

(* What is stored has been read within the span it is given.                 *)
LEMMA StoresKeeps == ASSUME ClockIInv, NEW t \in Calibrators, Stores(t) PROVE ClockIInv'
<1>1. ClockTypes /\ Calibrating /\ Stored /\ ApiConverts /\ ReadsRegistered
  BY DEF ClockIInv
<1> DEFINE w == calibrating[t]
           i == [w.made EXCEPT !.startRealTime = Mean(@), !.span = clockNow - @]
<1>2. /\ w \in [pc: CalibrationPCs, side: Sides, made: Infos] /\ clockNow \in Nat /\ clockNow <= MaxNow
      /\ w.made \in Infos /\ w.made.span \in Nat /\ w.side \in Sides
  BY <1>1, ClockAssumption DEF ClockTypes, Infos
<1>3. /\ w.pc = "store" /\ info' = [info EXCEPT ![w.side] = i]
      /\ late' = IF w.side = "host" THEN w.made.asOf < registrations ELSE late
      /\ api' = IF w.side = "host" /\ api.pc = "end" THEN [api EXCEPT !.moved = TRUE] ELSE api
      /\ sync' = IF t = "sync" /\ w.side = "host" THEN [sync EXCEPT !.pc = "wait"] ELSE sync
      /\ client' = IF t = "client" THEN "idle" ELSE client
      /\ UNCHANGED <<clockNow, freq, timestampCallback, first, opened, registrations>>
  BY DEF Stores
<1>4. calibrating' = [calibrating EXCEPT ![t] =
                        IF t = "sync" /\ w.side = "device" THEN Reading("host", registrations) ELSE NotCalibrating]
  BY DEF Stores
<1>5. ReadSoFar(w)
  BY <1>1, <1>3 DEF Calibrating
<1>6. w.made.span <= clockNow /\ CounterRead(w) /\ TwoRead(w)
  BY <1>3, <1>5 DEF ReadSoFar
<1>7. Mean(w.made.startRealTime) \in Int /\ clockNow - w.made.span \in Nat /\ clockNow - w.made.span <= MaxNow
  <2>1. w.made.startRealTime \in Int
    BY <1>2 DEF Infos
  <2> QED BY <2>1, <1>2, <1>6, ClockAssumption, DivBounds DEF Mean
<1>8. /\ i.startRealTime = Mean(w.made.startRealTime) /\ i.clocks = w.made.clocks
      /\ i.span = clockNow - w.made.span /\ i.asOf = w.made.asOf
      /\ i \in Infos /\ \A side, at : Counted(i, side, at) <=> Counted(w.made, side, at)
  <2> DEFINE x == Mean(w.made.startRealTime)
             y == clockNow - w.made.span
             dated == [w.made EXCEPT !.startRealTime = x]
  <2>1. i = [w.made EXCEPT !.startRealTime = x, !.span = y]
    BY <1>2 DEF Infos
  <2>2. x \in Int /\ y \in Nat
    BY <1>7
  <2> HIDE DEF i, x, y
  <2>3. dated \in Infos /\ dated.startRealTime = x /\ SameReadings(dated, w.made) /\ dated.clocks = w.made.clocks
    BY <1>2, <2>2 DEF Infos, SameReadings
  <2>4. i = [dated EXCEPT !.span = y]
    BY <2>1
  <2> HIDE DEF dated
  <2>5. /\ i \in Infos /\ i.startRealTime = x /\ i.span = y /\ i.clocks = dated.clocks /\ i.asOf = dated.asOf
        /\ i.freq = dated.freq /\ i.startSysCnt = dated.startSysCnt /\ i.sound = dated.sound
        /\ i.startMonotonicRawNs = dated.startMonotonicRawNs
    BY <2>2, <2>3, <2>4 DEF Infos
  <2> QED BY <2>3, <2>5 DEF SameReadings, Counted, Origin, x, y
<1> HIDE DEF i
<1>9. i \in Infos
  BY <1>8
<1>10. ReadAsStored(w.side, i)
  <2> DEFINE from == w.made.span
  <2>1. from \in Nat /\ from + i.span = clockNow
    BY <1>2, <1>8
  <2>2. PICK at \in from .. clockNow : Counted(w.made, w.side, at)
    BY <1>6 DEF CounterRead
  <2>3. PICK one \in from .. clockNow, two \in from .. clockNow, c \in Clocks, d \in Clocks :
          w.made.startRealTime = (one + Offset[c]) + (two + Offset[d]) /\ w.made.clocks = {c, d}
    BY <1>6 DEF TwoRead
  <2>4. /\ Counted(i, w.side, at)
        /\ i.startRealTime = Mean((one + Offset[c]) + (two + Offset[d])) /\ i.clocks = {c, d}
    BY <1>8, <2>2, <2>3
  <2> HIDE DEF from
  <2> QED BY <2>1, <2>2, <2>3, <2>4 DEF ReadAsStored
<1> DEFINE v == IF t = "sync" /\ w.side = "device" THEN Reading("host", registrations) ELSE NotCalibrating
<1>11. NotCalibrating \in [pc: CalibrationPCs, side: Sides, made: Infos]
  BY DEF NotCalibrating, CalibrationPCs, Sides, NoInfo, Infos, ERR_FREQ
<1>12. registrations \in Nat /\ "host" \in Sides
  BY <1>1 DEF ClockTypes, Sides
<1>13. /\ v \in [pc: CalibrationPCs, side: Sides, made: Infos]
       /\ v.pc # "idle" => ReadSoFar(v) /\ v.made.asOf = registrations /\ v.made.clocks = {}
       /\ t # "sync" => v = NotCalibrating
  <2>1. CASE t = "sync" /\ w.side = "device"
    BY <2>1, <1>1, <1>12, ReadingFresh
  <2>2. CASE ~(t = "sync" /\ w.side = "device")
    BY <2>2, <1>11 DEF NotCalibrating
  <2> QED BY <2>1, <2>2
<1>14. calibrating' = [calibrating EXCEPT ![t] = v]
  BY <1>4
<1> HIDE DEF v
<1>15. /\ calibrating'[t] = v /\ \A u \in Calibrators \ {t} : calibrating'[u] = calibrating[u]
       /\ calibrating' \in [Calibrators -> [pc: CalibrationPCs, side: Sides, made: Infos]]
  BY <1>1, <1>13, <1>14 DEF ClockTypes
<1>16. /\ info' \in [Sides -> Infos] /\ info'[w.side] = i /\ \A s \in Sides \ {w.side} : info'[s] = info[s]
  BY <1>1, <1>2, <1>3, <1>9 DEF ClockTypes
<1>17. ClockTypes'
  <2>1. api' \in [pc: {"none", "end", "done"}, start: Int, end: Int, moved: BOOLEAN]
    BY <1>1, <1>3 DEF ClockTypes
  <2>2. sync' \in [pc: {"none", "wait", "round", "ended"}, isQuit: BOOLEAN]
    BY <1>1, <1>3 DEF ClockTypes
  <2>3. client' \in {"idle", "calibrates", "stops", "joins"}
    BY <1>1, <1>3 DEF ClockTypes
  <2> QED BY <2>1, <2>2, <2>3, <1>1, <1>3, <1>15, <1>16 DEF ClockTypes
<1>18. Calibrating'
  <2>1. \A u \in Calibrators : calibrating'[u].pc # "idle" => ReadSoFar(calibrating'[u])
    BY <1>1, <1>13, <1>15 DEF Calibrating
  <2> QED BY <1>3, <2>1 DEF Calibrating, ReadSoFar, CounterRead, NoneRead, OneRead, TwoRead, Counted, Origin, Counter
<1>19. Stored'
  <2>1. ASSUME NEW s \in Sides
        PROVE  info'[s].span <= MaxNow /\ (info'[s] = NoInfo \/ ReadAsStored(s, info'[s]))
    <3>1. CASE s = w.side
      <4>1. i.span <= MaxNow
        BY <1>7, <1>8
      <4> QED BY <3>1, <4>1, <1>10, <1>16
    <3>2. CASE s # w.side
      <4>1. info'[s] = info[s]
        BY <3>2, <1>16
      <4> QED BY <4>1, <1>1 DEF Stored
    <3> QED BY <3>1, <3>2
  <2>2. \A s \in Sides : info'[s].span <= MaxNow /\ (info'[s] = NoInfo \/ ReadAsStored(s, info'[s]))
    BY <2>1
  <2> QED BY <1>3, <2>2 DEF Stored, ReadAsStored, Counted, Origin, Counter
<1>20. ApiConverts'
  <2>1. ApiInOrder'
    BY <1>1, <1>3 DEF ApiConverts, ApiInOrder, ClockTypes
  <2>2. CASE w.side = "host" /\ api.pc = "end"
    <3>1. api'.moved
      BY <2>2, <1>1, <1>3 DEF ClockTypes
    <3> QED BY <2>1, <3>1 DEF ApiConverts
  <2>3. CASE w.side # "host"
    <3>1. api' = api /\ info'["host"] = info["host"]
      BY <2>3, <1>3, <1>12, <1>16
    <3>2. \A n : RealTime("host", n)' = RealTime("host", n) /\ Counter("host", n)' = Counter("host", n)
      BY <1>3, <3>1, ConversionStays
    <3> QED BY <2>1, <3>1, <3>2, <1>1 DEF ApiConverts
  <2>4. CASE w.side = "host" /\ api.pc # "end"
    <3>1. api' = api
      BY <2>4, <1>3
    <3> QED BY <2>1, <2>4, <3>1 DEF ApiConverts
  <2> QED BY <2>2, <2>3, <2>4
<1>21. ReadsRegistered'
  <2>1. calibrating'["client"].side = "host"
    BY <1>1, <1>13, <1>15 DEF ReadsRegistered, Calibrators, NotCalibrating
  <2>2. ASSUME NEW u \in Calibrators, calibrating'[u].pc # "idle"
        PROVE  /\ calibrating'[u].made.asOf <= registrations'
               /\ calibrating'[u].made.asOf = registrations' => calibrating'[u].made.clocks \subseteq {timestampCallback'}
    BY <1>1, <1>3, <1>12, <1>13, <1>15, <2>2 DEF ReadsRegistered
  <2>3. RegistrationHolds'
    <3> SUFFICES ASSUME client' # "calibrates", registrations > 0, ~late'
                 PROVE  info'["host"].clocks = {timestampCallback}
      BY <1>3 DEF RegistrationHolds
    <3>1. CASE w.side = "host"
      <4>1. w.made.asOf = registrations
        <5>1. w.made.asOf <= registrations /\ w.made.asOf \in Nat
          BY <1>1, <1>2, <1>3 DEF ReadsRegistered, Infos
        <5>2. ~(w.made.asOf < registrations)
          BY <1>3, <3>1
        <5> QED BY <5>1, <5>2, <1>12
      <4>2. w.made.clocks \subseteq {timestampCallback}
        BY <4>1, <1>1, <1>3 DEF ReadsRegistered
      <4>3. w.made.clocks # {}
        BY <1>6 DEF TwoRead
      <4> QED BY <4>2, <4>3, <3>1, <1>8, <1>16
    <3>2. CASE w.side # "host"
      <4>1. info'["host"] = info["host"] /\ ~late
        BY <3>2, <1>3, <1>12, <1>16
      <4>2. t # "client"
        BY <3>2, <1>1 DEF ReadsRegistered
      <4>3. client # "calibrates"
        BY <4>2, <1>3
      <4> QED BY <4>1, <4>3, <1>1 DEF ReadsRegistered, RegistrationHolds
    <3> QED BY <3>1, <3>2
  <2> QED BY <2>1, <2>2, <2>3 DEF ReadsRegistered
<1> QED BY <1>17, <1>18, <1>19, <1>20, <1>21 DEF ClockIInv

LEMMA SetTimestampCallbackKeeps ==
    ASSUME ClockIInv, NEW clock \in Clocks, SetTimestampCallback(clock) PROVE ClockIInv'
<1>1. ClockTypes /\ registrations \in Nat
  BY DEF ClockIInv, ClockTypes
<1>2. /\ calibrating' = [calibrating EXCEPT !["client"] = Reading("host", registrations')]
      /\ UNCHANGED <<clockNow, freq, info, api, late, sync>>
      /\ timestampCallback' \in Clocks /\ registrations' \in Nat
      /\ registrations' = registrations + 1 /\ client' = "calibrates"
  BY <1>1 DEF SetTimestampCallback
<1>3. sync' \in [pc: {"none", "wait", "round", "ended"}, isQuit: BOOLEAN] /\ "client" \in Calibrators /\ "host" \in Sides
  BY <1>1, <1>2 DEF ClockTypes, Calibrators, Sides
<1> QED BY <1>2, <1>3, BeginKeeps

LEMMA CalibratesKeeps ==
    ASSUME ClockIInv, GetHostTimeStampNs \/ MakesManager \/ SetDevice \/ RunRound PROVE ClockIInv'
<1>1. ClockTypes /\ registrations \in Nat
  BY DEF ClockIInv, ClockTypes
<1>2. /\ UNCHANGED <<clockNow, freq, info, api, late, timestampCallback, registrations>>
      /\ timestampCallback' \in Clocks /\ registrations' \in Nat
      /\ client' \in {"idle", "calibrates", "stops", "joins"}
      /\ client' # "calibrates" => client # "calibrates"
  BY <1>1 DEF ClockTypes, GetHostTimeStampNs, MakesManager, SetDevice, RunRound
<1>3. sync' \in [pc: {"none", "wait", "round", "ended"}, isQuit: BOOLEAN]
  <2>1. sync' = sync \/ sync' = [sync EXCEPT !.pc = "round"]
    BY DEF GetHostTimeStampNs, MakesManager, SetDevice, RunRound
  <2>2. sync \in [pc: {"none", "wait", "round", "ended"}, isQuit: BOOLEAN]
    BY <1>1 DEF ClockTypes
  <2>3. CASE sync' = [sync EXCEPT !.pc = "round"]
    BY <2>2, <2>3
  <2> QED BY <2>1, <2>2, <2>3
<1>4. \E t \in Calibrators, side \in Sides :
         (t = "client" => side = "host") /\ calibrating' = [calibrating EXCEPT ![t] = Reading(side, registrations')]
  <2>1. CASE GetHostTimeStampNs
    BY <2>1 DEF GetHostTimeStampNs, Calibrates, Calibrators, Sides
  <2>2. CASE MakesManager
    BY <2>2 DEF MakesManager, Calibrates, Calibrators, Sides
  <2>3. CASE SetDevice
    BY <2>3 DEF SetDevice, Calibrates, Calibrators, Sides
  <2>4. CASE RunRound
    BY <2>4 DEF RunRound, Calibrates, Calibrators, Sides
  <2> QED BY <2>1, <2>2, <2>3, <2>4
<1>5. PICK t \in Calibrators, side \in Sides :
         (t = "client" => side = "host") /\ calibrating' = [calibrating EXCEPT ![t] = Reading(side, registrations')]
  BY <1>4
<1> QED BY <1>2, <1>3, <1>5, BeginKeeps

(* The records of API calls change nothing of the clocks.                    *)
LEMMA ApiKeeps ==
    ASSUME ClockIInv, ReportApiEnds \/ \E endTime \in 0 .. clockNow : \E beginTime \in 0 .. endTime : ReportApi(beginTime, endTime)
    PROVE  ClockIInv'
<1>1. ClockTypes /\ Calibrating /\ Stored /\ ApiConverts /\ ReadsRegistered
  BY DEF ClockIInv
<1>2. UNCHANGED <<clockNow, freq, timestampCallback, info, calibrating, sync, client, first, opened, registrations, late>>
  BY DEF ReportApi, ReportApiEnds
<1>3. "host" \in Sides /\ clockNow \in Nat /\ freq \in [Sides -> Nat]
  BY <1>1, ClockAssumption DEF Sides, ClockTypes
<1>4. \A n : RealTime("host", n)' = RealTime("host", n) /\ Counter("host", n)' = Counter("host", n)
  BY <1>2, ConversionStays
<1>5. api' \in [pc: {"none", "end", "done"}, start: Int, end: Int, moved: BOOLEAN] /\ ApiConverts'
  <2>1. CASE \E endTime \in 0 .. clockNow : \E beginTime \in 0 .. endTime : ReportApi(beginTime, endTime)
    <3>1. PICK endTime \in 0 .. clockNow : \E beginTime \in 0 .. endTime : ReportApi(beginTime, endTime)
      BY <2>1
    <3>2. PICK beginTime \in 0 .. endTime : ReportApi(beginTime, endTime)
      BY <3>1
    <3>3. endTime \in Nat /\ beginTime \in Nat /\ beginTime <= endTime
      BY <1>3, <3>1, <3>2
    <3>4. api' = [pc |-> "end", start |-> RealTime("host", Counter("host", beginTime)),
                  end |-> Counter("host", endTime), moved |-> FALSE]
      BY <3>2 DEF ReportApi
    <3>5. RealTime("host", Counter("host", beginTime)) \in Int /\ Counter("host", endTime) \in Int
      BY <1>1, <1>3, <3>3, RealTimeOrder, CounterBounds
    <3>6. api'.pc = "end" /\ api'.start = RealTime("host", Counter("host", beginTime)) /\ api'.end = Counter("host", endTime)
      BY <3>4
    <3>7. ApiInOrder'
      BY <3>6 DEF ApiInOrder
    <3> QED BY <1>4, <3>3, <3>4, <3>5, <3>6, <3>7 DEF ApiConverts
  <2>2. CASE ReportApiEnds
    <3>1. api.pc = "end" /\ api' = [api EXCEPT !.pc = "done", !.end = RealTime("host", @)]
      BY <2>2 DEF ReportApiEnds
    <3>2. api \in [pc: {"none", "end", "done"}, start: Int, end: Int, moved: BOOLEAN]
      BY <1>1 DEF ClockTypes
    <3> DEFINE x == RealTime("host", api.end)
    <3>3. api' = [pc |-> "done", start |-> api.start, end |-> x, moved |-> api.moved]
      <4> HIDE DEF x
      <4>1. [api EXCEPT !.pc = "done", !.end = x] = [[api EXCEPT !.pc = "done"] EXCEPT !.end = x]
        OBVIOUS
      <4>2. [api EXCEPT !.pc = "done"] = [pc |-> "done", start |-> api.start, end |-> api.end, moved |-> api.moved]
        BY <3>2
      <4>3. [[pc |-> "done", start |-> api.start, end |-> api.end, moved |-> api.moved] EXCEPT !.end = x]
              = [pc |-> "done", start |-> api.start, end |-> x, moved |-> api.moved]
        OBVIOUS
      <4>4. api' = [api EXCEPT !.pc = "done", !.end = x]
        BY <3>1, <3>2 DEF x
      <4> QED BY <4>1, <4>2, <4>3, <4>4
    <3>4. x \in Int
      <4>1. info["host"] \in Infos /\ info["host"].freq \in Nat /\ api.end \in Int /\ MSTONS \in Int
        BY <1>1, <1>3, <3>2, ClockAssumption DEF ClockTypes, Infos
      <4>2. CASE info["host"] = NoInfo
        BY <4>1, <4>2 DEF RealTime
      <4>3. CASE info["host"] # NoInfo /\ info["host"].freq = ERR_FREQ
        BY <4>1, <4>3 DEF RealTime, ConvertCounterToRealTime, ConvertMonotonicCounterToRealTime, Infos
      <4>4. CASE info["host"] # NoInfo /\ info["host"].freq # ERR_FREQ
        <5> DEFINE d == api.end - info["host"].startSysCnt
                   f == info["host"].freq
        <5>1. d \in Int /\ f \in Nat /\ f > 0 /\ info["host"].startRealTime \in Int
          BY <4>1, <4>4 DEF Infos, ERR_FREQ
        <5>2. x = Scaled(d, f) + info["host"].startRealTime
          BY <4>4 DEF RealTime, ConvertCounterToRealTime, ConvertSysCntToRealTime, Scaled
        <5> HIDE DEF d, x, f
        <5>3. Scaled(d, f) \in Int
          BY <5>1, ScaledBounds
        <5> QED BY <5>1, <5>2, <5>3
      <4> QED BY <4>2, <4>3, <4>4
    <3>5. ~api.moved => api.start <= x
      <4> SUFFICES ASSUME ~api.moved PROVE api.start <= x
        OBVIOUS
      <4>1. PICK from \in Nat, to \in Nat :
              /\ from <= to
              /\ api.start = RealTime("host", Counter("host", from)) /\ api.end = Counter("host", to)
        BY <1>1, <3>1 DEF ApiConverts
      <4> QED BY <4>1, <1>1, <1>3, RealTimeOrder
    <3> HIDE DEF x
    <3>6. api'.pc = "done" /\ api'.start = api.start /\ api'.end = x /\ api'.moved = api.moved
      BY <3>3
    <3>7. ApiInOrder'
      BY <3>5, <3>6 DEF ApiInOrder
    <3> QED BY <3>2, <3>3, <3>4, <3>6, <3>7 DEF ApiConverts
  <2> QED BY <2>1, <2>2
<1>6. ClockTypes'
  BY <1>1, <1>2, <1>5 DEF ClockTypes
<1>7. Calibrating'
  BY <1>1, <1>2 DEF Calibrating, ReadSoFar, CounterRead, NoneRead, OneRead, TwoRead, Counted, Origin, Counter
<1>8. Stored'
  BY <1>1, <1>2, StoredStays DEF Stored
<1>9. ReadsRegistered'
  BY <1>1, <1>2 DEF ReadsRegistered, RegistrationHolds
<1> QED BY <1>5, <1>6, <1>7, <1>8, <1>9 DEF ClockIInv

(* ClockIInv is inductive.                                                   *)
THEOREM ClockInductive == ClockSpec => []ClockIInv
<1>1. ClockIInv /\ [ClockNext]_clockVars => ClockIInv'
  <2> SUFFICES ASSUME ClockIInv, [ClockNext]_clockVars PROVE ClockIInv'
    OBVIOUS
  <2>1. CASE Tick
    BY <2>1, TickKeeps
  <2>2. CASE GetHostTimeStampNs \/ MakesManager \/ SetDevice \/ RunRound
    BY <2>2, CalibratesKeeps
  <2>3. CASE ResetDevice \/ RunEnds \/ StartSyncTime \/ StopSyncTime \/ SetsQuit \/ JoinsSync
    BY <2>3, QuietKeeps DEF QuietStep
  <2>4. CASE \E clock \in Clocks \ {SystemClock} : SetTimestampCallback(clock)
    BY <2>4, SetTimestampCallbackKeeps
  <2>5. CASE \E t \in Calibrators : ReadsCounter(t) \/ ReadsBefore(t) \/ ReadsAfter(t) \/ Stores(t)
    BY <2>5, ReadsCounterKeeps, ReadsBeforeKeeps, ReadsAfterKeeps, StoresKeeps
  <2>6. CASE RecordNext
    BY <2>6, ApiKeeps DEF RecordNext
  <2>7. CASE UNCHANGED clockVars
    <3>1. /\ ClockTypes /\ Calibrating /\ Stored /\ ApiConverts /\ ReadsRegistered
          /\ UNCHANGED <<clockNow, freq, timestampCallback, info, calibrating, sync, client, first, opened, api, registrations, late>>
      BY <2>7 DEF ClockIInv, clockVars
    <3>2. ClockTypes'
      BY <3>1 DEF ClockTypes
    <3>3. Calibrating'
      BY <3>1 DEF Calibrating, ReadSoFar, CounterRead, NoneRead, OneRead, TwoRead, Counted, Origin, Counter
    <3>4. Stored'
      BY <3>1, StoredStays DEF Stored
    <3>5. ApiConverts'
      <4>1. \A n : RealTime("host", n)' = RealTime("host", n) /\ Counter("host", n)' = Counter("host", n)
        BY <3>1, ConversionStays
      <4> QED BY <3>1, <4>1 DEF ApiConverts, ApiInOrder
    <3>6. ReadsRegistered'
      BY <3>1 DEF ReadsRegistered, RegistrationHolds
    <3> QED BY <3>2, <3>3, <3>4, <3>5, <3>6 DEF ClockIInv
  <2> QED BY <2>1, <2>2, <2>3, <2>4, <2>5, <2>6, <2>7 DEF ClockNext, CalibrationNext, SyncNext
<1> QED BY <1>1, ClockInitIInv, PTL DEF ClockSpec

(* Converted times are accurate to the span of the readings and the grain of *)
(* the counter, keep the order of the counts, and are by the registered      *)
(* clock; for every frequency, unit and number of clocks.                    *)
THEOREM ClockCorrect == ClockSpec => []ClockInv
<1>1. ClockIInv => ClockInv
  BY AccurateHolds, OrderHolds, TypesHold DEF ClockIInv, ClockInv, ApiConverts, ReadsRegistered
<1> QED BY <1>1, ClockInductive, PTL
=============================================================================
