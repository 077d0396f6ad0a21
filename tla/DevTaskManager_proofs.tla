------------------------ MODULE DevTaskManager_proofs -----------------------
(***************************************************************************)
(* What TLAPS proves of DevTaskManager, for every set of kinds, channels   *)
(* and threads, every assignment of channels to kinds and every width of   *)
(* the counts.                                                             *)
(*                                                                         *)
(* The counts are right only if they count the kinds in task_map_, which a *)
(* failing AddReader breaks: its rollback erases the entry while the kind  *)
(* stays in task_map_.  SharedInv says what holds where it does not fail.  *)
(***************************************************************************)
EXTENDS MCDevTaskManager, FiniteSetTheorems, TLAPS

\* Where AddReader does not fail, counts, jobs and readers agree with task_map_.
SharedInv ==
    "noreader" \notin Faults => RefExact /\ CollectsWhileUsed /\ IdleChannelReleased

IInv == TypeOK /\ JobHasReader /\ SharedInv

(***************************************************************************)
(* Facts about the users of a channel.                                     *)
(***************************************************************************)
LEMMA UsersFinite ==
    ASSUME task_map \in SUBSET Kinds, NEW c \in Channels
    PROVE  /\ IsFiniteSet(Users(c)) /\ Cardinality(Users(c)) \in 0 .. MaxKind
           /\ Cardinality(Users(c)) = 0 <=> Users(c) = {}
<1>1. IsFiniteSet(Kinds) /\ Cardinality(Kinds) = MaxKind
  BY FS_Interval, KindAssumption DEF Kinds
<1>2. Users(c) \in SUBSET Kinds
  BY DEF Users
<1>3. IsFiniteSet(Users(c)) /\ Cardinality(Users(c)) <= MaxKind
  BY <1>1, <1>2, FS_Subset
<1>4. Cardinality(Users(c)) \in Nat
  BY <1>3, FS_CardinalityType
<1> QED BY <1>3, <1>4, FS_EmptySet, KindAssumption

\* A kind that gets its tasks becomes one more user of each of its channels.
LEMMA UsersAdd ==
    ASSUME task_map \in SUBSET Kinds, NEW k \in Kinds \ task_map,
           task_map' = task_map \cup {k}, NEW c \in Channels
    PROVE  /\ c \in ChannelsOf[k] =>
                Users(c)' # {} /\ Cardinality(Users(c)') = Cardinality(Users(c)) + 1
           /\ c \notin ChannelsOf[k] => Users(c)' = Users(c)
<1>1. CASE c \in ChannelsOf[k]
  <2>1. Users(c)' = Users(c) \cup {k} /\ k \notin Users(c)
    BY <1>1 DEF Users
  <2> QED BY <1>1, <2>1, UsersFinite, FS_AddElement
<1>2. CASE c \notin ChannelsOf[k]
  BY <1>2 DEF Users
<1> QED BY <1>1, <1>2

\* A kind that loses its tasks is one user less.
LEMMA UsersRemove ==
    ASSUME task_map \in SUBSET Kinds, NEW k \in task_map,
           task_map' = task_map \ {k}, NEW c \in Channels
    PROVE  /\ c \in ChannelsOf[k] =>
                Users(c) # {} /\ Cardinality(Users(c)') = Cardinality(Users(c)) - 1
           /\ c \notin ChannelsOf[k] => Users(c)' = Users(c)
<1>1. CASE c \in ChannelsOf[k]
  <2>1. Users(c)' = Users(c) \ {k} /\ k \in Users(c)
    BY <1>1 DEF Users
  <2> QED BY <1>1, <2>1, UsersFinite, FS_RemoveElement
<1>2. CASE c \notin ChannelsOf[k]
  BY <1>2 DEF Users
<1> QED BY <1>1, <1>2

\* In the modulus of the counts, what the kinds reach does not wrap.
LEMMA NoWrap ==
    ASSUME NEW n \in 0 .. MaxKind
    PROVE  n % CountMod = n
BY KindAssumption, CountAssumption

(***************************************************************************)
(* The steps that touch the tasks, for the kind k they work on.            *)
(***************************************************************************)
StartsKind(k) ==
    /\ k \in Kinds \ task_map /\ task_map' = task_map \cup {k}
    /\ StartsTasksOf(ChannelsOf[k])

StopsKind(k) ==
    /\ k \in task_map /\ task_map' = task_map \ {k}
    /\ \E out \in [ChannelsOf[k] -> {"ok"} \cup (Faults \cap {"nostop"})] :
         StopTasks(ChannelsOf[k], out)

\* The third drops the readers with the pool.
DropsReaders ==
    /\ reader' = {} /\ unread' = started
    /\ UNCHANGED <<task_map, ref_cnts, started, failed, lapsed>>

LEMMA TaskSteps ==
    ASSUME TypeOK, [Next]_vars
    PROVE  \/ \E k \in Kinds : StartsKind(k)
           \/ \E k \in Kinds : StopsKind(k)
           \/ DropsReaders
           \/ UNCHANGED <<task_map, ref_cnts, reader, started, failed, unread>>
<1>1. CASE \E t \in Threads : StartKind(t)
  BY <1>1 DEF StartKind, StartsKind, taskVars
<1>2. CASE \E t \in Threads : StopKind(t)
  BY <1>2 DEF StopKind, StopsKind, taskVars
<1>3. CASE UNCHANGED vars
  BY <1>3 DEF vars, taskVars
<1>4. CASE \E t \in Threads : StartCANNProfTask(t) \/ StartAicpuProfTask(t) \/ CommandAccepted(t)
             \/ GetAllChannelsFails(t) \/ CommandRefused(t) \/ UndoAicpu(t) \/ StopCANNProfTask(t) \/ StopAicpuProfTask(t)
             \/ LockTaskMap(t) \/ UnlockTaskMap(t)
  BY <1>4 DEF GetAllChannelsFails, StartCANNProfTask, StartAicpuProfTask, CommandAccepted, CommandRefused, UndoAicpu,
              StopCANNProfTask, StopAicpuProfTask, LockTaskMap, UnlockTaskMap, taskVars
<1>5. CASE (\E t \in AppThreads : App(t)) \/ (\E t \in RuntimeThreads : Runtime(t))
  BY <1>5 DEF App, Register, UnRegister, GetAllValidDevice, RegisterCallbacks, Unsubscribe, Detach,
              Subscribe, PoolMade, TeardownLocked, DropsReaders, ResetAllDevice, StopActivityMgrThread, ResetActivitySwitch, Runtime, SetDevice,
              ScanSwitch, ResetDevice, taskVars
<1> QED BY <1>1, <1>2, <1>3, <1>4, <1>5 DEF Next, StartDevProfTask, StopDevProfTask

(***************************************************************************)
(* The reference counts.                                                   *)
(***************************************************************************)
LEMMA StartsKindSafe ==
    ASSUME TypeOK, JobHasReader, SharedInv, NEW k \in Kinds, StartsKind(k)
    PROVE  JobHasReader' /\ SharedInv'
<1>1. PICK P \in Pooled(ChannelsOf[k]) : \E out \in StartOutcomes(ChannelsOf[k], P) :
             StartTasks(ChannelsOf[k], out, P)
  BY DEF StartsKind, StartsTasksOf
<1>6. PICK out \in StartOutcomes(ChannelsOf[k], P) : StartTasks(ChannelsOf[k], out, P)
  BY <1>1
<1>7. P \subseteq ChannelsOf[k]
  BY <1>1 DEF Pooled
<1>2. /\ task_map \in SUBSET Kinds /\ k \in Kinds \ task_map /\ task_map' = task_map \cup {k}
      /\ ChannelsOf[k] \in SUBSET Channels
  BY KindAssumption DEF StartsKind, TypeOK, TaskOK
<1>3. JobHasReader'
  BY <1>6 DEF StartTasks, Reads, Runs, JobHasReader
<1>4. ASSUME "noreader" \notin Faults, NEW c \in Channels
      PROVE  /\ Count(c)' = Cardinality(Users(c)')
             /\ Users(c)' # {} => c \in started' \/ c \in failed'
             /\ Users(c)' = {} /\ "nostop" \notin Faults => c \notin started' /\ c \notin reader'
  <2>1. /\ Count(c) = Cardinality(Users(c))
        /\ Users(c) # {} => c \in started \/ c \in failed
        /\ Users(c) = {} /\ "nostop" \notin Faults => c \notin started /\ c \notin reader
    BY <1>4 DEF SharedInv, RefExact, CollectsWhileUsed, IdleChannelReleased
  <2>2. CASE c \notin ChannelsOf[k]
    <3>1. Users(c)' = Users(c)
      BY <1>2, <2>2, UsersAdd
    <3>2. /\ ref_cnts'[c] = ref_cnts[c] /\ (c \in started' <=> c \in started)
          /\ (c \in reader' <=> c \in reader) /\ (c \in failed' <=> c \in failed)
      BY <1>6, <1>7, <2>2 DEF StartTasks, Reads, Runs
    <3> QED BY <2>1, <3>1, <3>2 DEF Count
  <2>3. CASE c \in ChannelsOf[k]
    <3>1. Users(c)' # {} /\ Cardinality(Users(c)') = Cardinality(Users(c)) + 1
      BY <1>2, <2>3, UsersAdd
    <3>2. Cardinality(Users(c)) \in 0 .. MaxKind /\ Cardinality(Users(c)') \in 0 .. MaxKind
      <4>1. task_map' \in SUBSET Kinds
        BY <1>2
      <4>2. IsFiniteSet(Kinds) /\ Cardinality(Kinds) = MaxKind
        BY FS_Interval, KindAssumption DEF Kinds
      <4>3. Users(c)' \in SUBSET Kinds
        BY <4>1 DEF Users
      <4>4. Cardinality(Users(c)') <= MaxKind
        BY <4>2, <4>3, FS_Subset
      <4>5. Cardinality(Users(c)) \in 0 .. MaxKind
        BY <1>2, UsersFinite
      <4> QED BY <3>1, <4>4, <4>5, KindAssumption
    <3>3. out[c] # "noreader"
      BY <1>4, <1>6, <2>3 DEF StartOutcomes
    <3>4. ref_cnts'[c] = (Count(c) + 1) % CountMod
      BY <1>6, <2>3, <3>3 DEF StartTasks
    <3>5. Count(c) + 1 = Cardinality(Users(c)')
      BY <2>1, <3>1
    <3>6. ref_cnts'[c] = Cardinality(Users(c)')
      BY <3>2, <3>4, <3>5, NoWrap
    <3>7. Count(c)' = Cardinality(Users(c)')
      BY <3>2, <3>6, KindAssumption DEF Count, NoEntry
    <3>8. c \in started' \/ c \in failed'
      <4>1. CASE First(c)
        BY <1>6, <2>3, <4>1 DEF StartTasks, Runs
      <4>2. CASE ~First(c)
        <5>1. Users(c) # {}
          BY <1>2, <2>1, <4>2, UsersFinite DEF First
        <5> QED BY <1>6, <2>1, <4>2, <5>1 DEF StartTasks, Runs
      <4> QED BY <4>1, <4>2
    <3> QED BY <3>1, <3>7, <3>8
  <2> QED BY <2>2, <2>3
<1>5. SharedInv'
  BY <1>4 DEF SharedInv, RefExact, CollectsWhileUsed, IdleChannelReleased
<1> QED BY <1>3, <1>5

LEMMA StopsKindSafe ==
    ASSUME TypeOK, JobHasReader, SharedInv, NEW k \in Kinds, StopsKind(k)
    PROVE  JobHasReader' /\ SharedInv'
<1>1. PICK out \in [ChannelsOf[k] -> {"ok"} \cup (Faults \cap {"nostop"})] :
             StopTasks(ChannelsOf[k], out)
  BY DEF StopsKind
<1>2. /\ task_map \in SUBSET Kinds /\ k \in task_map /\ task_map' = task_map \ {k}
      /\ ChannelsOf[k] \in SUBSET Channels
  BY KindAssumption DEF StopsKind, TypeOK, TaskOK
<1>3. JobHasReader'
  BY <1>1 DEF StopTasks, JobHasReader
<1>4. ASSUME "noreader" \notin Faults, NEW c \in Channels
      PROVE  /\ Count(c)' = Cardinality(Users(c)')
             /\ Users(c)' # {} => c \in started' \/ c \in failed'
             /\ Users(c)' = {} /\ "nostop" \notin Faults => c \notin started' /\ c \notin reader'
  <2>1. /\ Count(c) = Cardinality(Users(c))
        /\ Users(c) # {} => c \in started \/ c \in failed
        /\ Users(c) = {} /\ "nostop" \notin Faults => c \notin started /\ c \notin reader
    BY <1>4 DEF SharedInv, RefExact, CollectsWhileUsed, IdleChannelReleased
  <2>2. CASE c \notin ChannelsOf[k]
    <3>1. Users(c)' = Users(c)
      BY <1>2, <2>2, UsersRemove
    <3>2. /\ ref_cnts'[c] = ref_cnts[c] /\ (c \in started' <=> c \in started)
          /\ (c \in reader' <=> c \in reader) /\ (c \in failed' <=> c \in failed)
      BY <1>1, <2>2 DEF StopTasks
    <3> QED BY <2>1, <3>1, <3>2 DEF Count
  <2>3. CASE c \in ChannelsOf[k]
    <3>1. Users(c) # {} /\ Cardinality(Users(c)') = Cardinality(Users(c)) - 1
      BY <1>2, <2>3, UsersRemove
    <3>2. Cardinality(Users(c)) \in 1 .. MaxKind
      BY <1>2, <3>1, UsersFinite, KindAssumption
    <3>3. ref_cnts[c] # NoEntry /\ ref_cnts[c] = Cardinality(Users(c))
      BY <2>1, <3>2, KindAssumption DEF Count, NoEntry
    <3>4. ref_cnts'[c] = (Cardinality(Users(c)) - 1) % CountMod
      BY <1>1, <2>3, <3>3 DEF StopTasks
    <3>5. Cardinality(Users(c)) - 1 \in 0 .. MaxKind
      BY <3>2, KindAssumption
    <3>6. ref_cnts'[c] = Cardinality(Users(c)')
      BY <3>1, <3>4, <3>5, NoWrap
    <3>7. Count(c)' = Cardinality(Users(c)')
      BY <3>1, <3>5, <3>6, KindAssumption DEF Count, NoEntry
    <3>8. Users(c)' = {} <=> Last(c)
      <4>1. task_map' \in SUBSET Kinds
        BY <1>2
      <4>2. Cardinality(Users(c)') = 0 <=> Users(c)' = {}
        <5>1. IsFiniteSet(Users(c)')
          <6>1. IsFiniteSet(Kinds)
            BY FS_Interval, KindAssumption DEF Kinds
          <6>2. Users(c)' \in SUBSET Kinds
            BY <4>1 DEF Users
          <6> QED BY <6>1, <6>2, FS_Subset
        <5> QED BY <5>1, FS_EmptySet
      <4> QED BY <3>1, <3>2, <3>3, <4>2 DEF Last
    <3>9. Users(c)' # {} => c \in started' \/ c \in failed'
      BY <1>1, <2>1, <3>1, <3>8 DEF StopTasks
    <3>10. Users(c)' = {} /\ "nostop" \notin Faults => c \notin started' /\ c \notin reader'
      BY <1>1, <2>3, <3>8 DEF StopTasks
    <3> QED BY <3>7, <3>9, <3>10
  <2> QED BY <2>2, <2>3
<1>5. SharedInv'
  BY <1>4 DEF SharedInv, RefExact, CollectsWhileUsed, IdleChannelReleased
<1> QED BY <1>3, <1>5

(***************************************************************************)
(* Types.                                                                  *)
(***************************************************************************)
LEMMA ControlTypes ==
    ASSUME ControlOK, NEW t \in Threads
    PROVE  /\ \A p \in Labels : Goto(t, p) => ControlOK'
           /\ Idle(t) => ControlOK'
           /\ \A c \in Calls, k \in 0 .. MaxKind, p \in Labels : Begin(t, c, k, p) => ControlOK'
<1>1. ASSUME NEW p \in Labels, Goto(t, p) PROVE ControlOK'
  BY <1>1 DEF ControlOK, Goto
<1>2. ASSUME Idle(t) PROVE ControlOK'
  <2>1. "idle" \in Labels /\ "none" \in Calls /\ <<0, 0>> \in (0 .. MaxKind) \X (0 .. (MaxKind + 1))
    BY KindAssumption DEF Labels, Calls
  <2> QED BY <1>2, <2>1 DEF ControlOK, Idle
<1>3. ASSUME NEW c \in Calls, NEW k \in 0 .. MaxKind, NEW p \in Labels, Begin(t, c, k, p)
      PROVE  ControlOK'
  <2>1. <<k, 0>> \in (0 .. MaxKind) \X (0 .. (MaxKind + 1))
    BY KindAssumption
  <2> QED BY <1>3, <2>1 DEF ControlOK, Begin
<1> QED BY <1>1, <1>2, <1>3

LEMMA ReturnTypes ==
    ASSUME ControlOK, LockOK, NEW t \in Threads, Return(t)
    PROVE  ControlOK' /\ LockOK'
<1>1. LockOK'
  BY DEF Return, LockOK
<1>2. "stopManager" \in Labels /\ "teardown" \in Labels
  BY DEF Labels
<1>3. Goto(t, "stopManager") \/ Goto(t, "teardown") \/ Idle(t)
  BY DEF Return
<1> QED BY <1>1, <1>2, <1>3, ControlTypes

LEMMA StartTasksTypes ==
    ASSUME TaskOK, NEW C \in SUBSET Channels, NEW P \in SUBSET C, NEW out, StartTasks(C, out, P)
    PROVE  /\ ref_cnts' \in [Channels -> (0 .. (CountMod - 1)) \cup {NoEntry}]
           /\ reader' \in SUBSET Channels /\ started' \in SUBSET Channels
           /\ failed' \in SUBSET Channels /\ unread' \in SUBSET Channels
<1>1. \A c \in Channels : Count(c) \in Nat
  BY CountAssumption DEF TaskOK, Count, NoEntry
<1>2. \A n \in Int : n % CountMod \in 0 .. (CountMod - 1)
  BY CountAssumption, KindAssumption
<1>3. \A c \in Channels : (Count(c) + 1) % CountMod \in 0 .. (CountMod - 1)
  BY <1>1, <1>2
<1> QED BY <1>3 DEF StartTasks, Reads, Runs, TaskOK

LEMMA StopTasksTypes ==
    ASSUME TaskOK, NEW C \in SUBSET Channels, NEW out, StopTasks(C, out)
    PROVE  /\ ref_cnts' \in [Channels -> (0 .. (CountMod - 1)) \cup {NoEntry}]
           /\ reader' \in SUBSET Channels /\ started' \in SUBSET Channels
           /\ failed' \in SUBSET Channels /\ unread' \in SUBSET Channels
<1>1. \A n \in Int : n % CountMod \in 0 .. (CountMod - 1)
  BY CountAssumption, KindAssumption
<1>2. \A c \in Channels : (ref_cnts[c] - 1) % CountMod \in 0 .. (CountMod - 1)
  BY <1>1, CountAssumption DEF TaskOK, NoEntry
<1> QED BY <1>2 DEF StopTasks, TaskOK

LEMMA NextKindTypes ==
    ASSUME TypeOK, NEW t \in Threads, kind[t][2] \in Kinds, NextKind(t)
    PROVE  LockOK' /\ ControlOK' /\ task_map_mtx' \in Threads \cup {"none"}
<1>1. LockOK' /\ task_map_mtx' \in Threads \cup {"none"}
  BY DEF TypeOK, NextKind, LockOK, lockVars
<1>2. kind[t][1] \in 0 .. MaxKind /\ kind[t][2] + 1 \in 0 .. (MaxKind + 1)
  BY KindAssumption DEF TypeOK, ControlOK, Kinds
<1>3. ControlOK'
  BY <1>2 DEF TypeOK, NextKind, ControlOK
<1> QED BY <1>1, <1>3

LEMMA StepTypes ==
    ASSUME TypeOK, [Next]_vars
    PROVE  TypeOK'
<1> USE DEF TypeOK
<1>1. ASSUME NEW t \in Threads, StartKind(t)
      PROVE  TypeOK'
  <2>1. LockOK' /\ ControlOK' /\ task_map_mtx' \in Threads \cup {"none"}
    BY <1>1, NextKindTypes DEF StartKind
  <2>2. SwitchOK' /\ CannOK'
    BY <1>1 DEF StartKind, poolVars, switchVars, cannVars, SwitchOK, CannOK
  <2>3. TaskOK'
    <3>1. CASE UNCHANGED taskVars
      BY <3>1 DEF taskVars, TaskOK
    <3>2. CASE ~UNCHANGED taskVars
      <4>1. PICK P \in SUBSET ChannelsOf[kind[t][2]] : \E out : StartTasks(ChannelsOf[kind[t][2]], out, P)
        BY <1>1, <3>2 DEF StartKind, StartsTasksOf, Pooled
      <4>2. kind[t][2] \in Kinds /\ ChannelsOf[kind[t][2]] \in SUBSET Channels
        BY <1>1, KindAssumption DEF StartKind
      <4>3. task_map' \in SUBSET Kinds /\ lapsed' \in SUBSET Kinds
        BY <1>1, <3>2, <4>2 DEF StartKind, TaskOK
      <4> QED BY <4>1, <4>2, <4>3, StartTasksTypes DEF TaskOK
    <3> QED BY <3>1, <3>2
  <2> QED BY <2>1, <2>2, <2>3
<1>2. ASSUME NEW t \in Threads, StopKind(t)
      PROVE  TypeOK'
  <2>1. LockOK' /\ ControlOK' /\ task_map_mtx' \in Threads \cup {"none"}
    BY <1>2, NextKindTypes DEF StopKind
  <2>2. SwitchOK' /\ CannOK'
    BY <1>2 DEF StopKind, poolVars, switchVars, cannVars, SwitchOK, CannOK
  <2>3. TaskOK'
    <3>1. CASE UNCHANGED taskVars
      BY <3>1 DEF taskVars, TaskOK
    <3>2. CASE ~UNCHANGED taskVars
      <4>1. PICK out : StopTasks(ChannelsOf[kind[t][2]], out)
        BY <1>2, <3>2 DEF StopKind
      <4>2. kind[t][2] \in Kinds /\ ChannelsOf[kind[t][2]] \in SUBSET Channels
        BY <1>2, KindAssumption DEF StopKind
      <4>3. task_map' \in SUBSET Kinds /\ lapsed' \in SUBSET Kinds
        BY <1>2, <3>2, <4>2 DEF StopKind, TaskOK
      <4> QED BY <4>1, <4>2, <4>3, StopTasksTypes DEF TaskOK
    <3> QED BY <3>1, <3>2
  <2> QED BY <2>1, <2>2, <2>3
<1>3. ASSUME NEW t \in Threads, LockTaskMap(t)
      PROVE  TypeOK'
  <2>1. LockOK' /\ SwitchOK' /\ CannOK' /\ TaskOK' /\ task_map_mtx' \in Threads \cup {"none"}
    BY <1>3 DEF LockTaskMap, lockVars, switchVars, cannVars, taskVars, poolVars, LockOK, SwitchOK, CannOK, TaskOK
  <2>2. ControlOK'
    BY <1>3, KindAssumption DEF LockTaskMap, ControlOK, Labels
  <2> QED BY <2>1, <2>2
<1>4. ASSUME NEW t \in Threads, StartCANNProfTask(t) \/ StartAicpuProfTask(t)
             \/ CommandAccepted(t) \/ StopAicpuProfTask(t)
      PROVE  TypeOK'
  <2>1. SwitchOK' /\ LockOK' /\ TaskOK' /\ task_map_mtx' \in Threads \cup {"none"}
    BY <1>4 DEF StartCANNProfTask, StartAicpuProfTask, CommandAccepted, StopAicpuProfTask,
                switchVars, lockVars, taskVars, poolVars, SwitchOK, LockOK, TaskOK
  <2>2. CannOK'
    BY <1>4 DEF StartCANNProfTask, StartAicpuProfTask, CommandAccepted, StopAicpuProfTask,
                ConfigOf, CannOK
  <2>3. \E p \in Labels : Goto(t, p)
    BY <1>4 DEF StartCANNProfTask, StartAicpuProfTask, CommandAccepted, StopAicpuProfTask, Labels
  <2> QED BY <2>1, <2>2, <2>3, ControlTypes
<1>5. ASSUME NEW t \in Threads, GetAllChannelsFails(t) \/ CommandRefused(t) \/ UndoAicpu(t) \/ UnlockTaskMap(t)
      PROVE  TypeOK'
  <2>1. SwitchOK' /\ TaskOK' /\ CannOK' /\ task_map_mtx' \in Threads \cup {"none"}
    BY <1>5 DEF GetAllChannelsFails, CommandRefused, UndoAicpu, UnlockTaskMap, switchVars, taskVars, poolVars, cannVars,
                SwitchOK, TaskOK, CannOK
  <2>2. Return(t) \/ (Goto(t, "undoAicpu") /\ UNCHANGED lockVars)
    BY <1>5 DEF GetAllChannelsFails, CommandRefused, UndoAicpu, UnlockTaskMap
  <2>3. UNCHANGED lockVars => LockOK'
    BY DEF lockVars, LockOK
  <2>4. "undoAicpu" \in Labels
    BY DEF Labels
  <2> QED BY <2>1, <2>2, <2>3, <2>4, ControlTypes, ReturnTypes
<1>6. ASSUME NEW t \in Threads, StopCANNProfTask(t)
      PROVE  TypeOK'
  <2>1. SwitchOK' /\ TaskOK' /\ CannOK' /\ task_map_mtx' \in Threads \cup {"none"}
    BY <1>6 DEF StopCANNProfTask, switchVars, taskVars, poolVars, SwitchOK, TaskOK, CannOK
  <2>2. Return(t) \/ ((\E p \in Labels : Goto(t, p)) /\ UNCHANGED lockVars)
    BY <1>6 DEF StopCANNProfTask, Labels
  <2>3. UNCHANGED lockVars => LockOK'
    BY DEF lockVars, LockOK
  <2> QED BY <2>1, <2>2, <2>3, ControlTypes, ReturnTypes
<1>7. ASSUME NEW t \in AppThreads, NEW k \in Kinds, Register(t, k) \/ UnRegister(t, k)
      PROVE  TypeOK'
  <2>1. SwitchOK' /\ LockOK' /\ TaskOK' /\ CannOK' /\ task_map_mtx' \in Threads \cup {"none"}
    BY <1>7 DEF Register, UnRegister, taskVars, poolVars, cannVars, lockVars, Threads,
                SwitchOK, LockOK, TaskOK, CannOK
  <2>2. t \in Threads /\ k \in 0 .. MaxKind /\ "snapshot" \in Labels /\ "Register" \in Calls
    BY KindAssumption DEF Threads, Kinds, Labels, Calls
  <2>3. Begin(t, "Register", k, "snapshot") \/ UNCHANGED controlVars
    BY <1>7 DEF Register, UnRegister
  <2>4. UNCHANGED controlVars => ControlOK'
    BY DEF controlVars, ControlOK
  <2> QED BY <2>1, <2>2, <2>3, <2>4, ControlTypes
<1>8. ASSUME NEW t \in AppThreads, RegisterCallbacks(t)
      PROVE  TypeOK'
  BY <1>8 DEF RegisterCallbacks, taskVars, poolVars, cannVars, lockVars, controlVars,
              SwitchOK, LockOK, TaskOK, CannOK, ControlOK
<1>9. ASSUME NEW t \in AppThreads, Unsubscribe(t) \/ Detach(t)
      PROVE  TypeOK'
  <2>1. SwitchOK' /\ LockOK' /\ TaskOK' /\ CannOK' /\ task_map_mtx' \in Threads \cup {"none"}
    BY <1>9 DEF Unsubscribe, Detach, taskVars, poolVars, cannVars, lockVars, switchVars, Threads,
                SwitchOK, LockOK, TaskOK, CannOK
  <2>2. t \in Threads /\ 0 \in 0 .. MaxKind /\ "resetAll" \in Labels
        /\ "Unsubscribe" \in Calls /\ "Detach" \in Calls
    BY KindAssumption DEF Threads, Labels, Calls
  <2>3. Begin(t, "Unsubscribe", 0, "resetAll") \/ Begin(t, "Detach", 0, "resetAll")
    BY <1>9 DEF Unsubscribe, Detach
  <2> QED BY <2>1, <2>2, <2>3, ControlTypes
<1>10. ASSUME NEW t \in AppThreads, GetAllValidDevice(t) \/ ResetAllDevice(t)
       PROVE  TypeOK'
  <2>1. SwitchOK' /\ TaskOK' /\ CannOK' /\ task_map_mtx' \in Threads \cup {"none"} /\ t \in Threads
    BY <1>10 DEF GetAllValidDevice, ResetAllDevice, taskVars, poolVars, cannVars, switchVars, Threads,
                 SwitchOK, TaskOK, CannOK
  <2>2. Return(t) \/ ((\E p \in Labels : Goto(t, p)) /\ LockOK')
    BY <1>10, <2>1 DEF GetAllValidDevice, ResetAllDevice, Labels, lockVars, LockOK
  <2> QED BY <2>1, <2>2, ControlTypes, ReturnTypes
<1>11. ASSUME NEW t \in AppThreads, StopActivityMgrThread(t) \/ ResetActivitySwitch(t)
       PROVE  TypeOK'
  <2>1. SwitchOK' /\ LockOK' /\ TaskOK' /\ CannOK' /\ task_map_mtx' \in Threads \cup {"none"}
        /\ t \in Threads
    BY <1>11 DEF StopActivityMgrThread, ResetActivitySwitch, Stopped, taskVars, poolVars, cannVars, Threads,
                 SwitchOK, LockOK, TaskOK, CannOK
  <2>2. Idle(t) \/ (\E p \in Labels : Goto(t, p))
    BY <1>11 DEF StopActivityMgrThread, ResetActivitySwitch, Stopped, Labels
  <2> QED BY <2>1, <2>2, ControlTypes
<1>12. ASSUME NEW t \in RuntimeThreads, Runtime(t)
       PROVE  TypeOK'
  <2>1. SwitchOK' /\ LockOK' /\ TaskOK' /\ CannOK' /\ task_map_mtx' \in Threads \cup {"none"}
        /\ t \in Threads
    BY <1>12 DEF Runtime, SetDevice, ScanSwitch, ResetDevice, taskVars, poolVars, cannVars, lockVars,
                 switchVars, Threads, SwitchOK, LockOK, TaskOK, CannOK
  <2>2. Idle(t) \/ (\E p \in Labels : Goto(t, p))
          \/ (\E c \in Calls, p \in Labels : Begin(t, c, 0, p))
    BY <1>12 DEF Runtime, SetDevice, ScanSwitch, ResetDevice, Labels, Calls
  <2>3. 0 \in 0 .. MaxKind
    BY KindAssumption
  <2> QED BY <2>1, <2>2, <2>3, ControlTypes
<1>14. ASSUME NEW t \in AppThreads, Subscribe(t) \/ PoolMade(t)
       PROVE  TypeOK'
  <2>1. SwitchOK' /\ LockOK' /\ TaskOK' /\ CannOK' /\ task_map_mtx' \in Threads \cup {"none"}
        /\ t \in Threads
    BY <1>14 DEF Subscribe, PoolMade, taskVars, poolVars, cannVars, Threads, SwitchOK, LockOK, TaskOK, CannOK
  <2>2. Idle(t) \/ Begin(t, "Subscribe", 0, "making") \/ UNCHANGED controlVars
    BY <1>14 DEF Subscribe, PoolMade
  <2>3. "Subscribe" \in Calls /\ "making" \in Labels /\ 0 \in 0 .. MaxKind
    BY KindAssumption DEF Labels, Calls
  <2>4. UNCHANGED controlVars => ControlOK'
    BY DEF controlVars, ControlOK
  <2> QED BY <2>1, <2>2, <2>3, <2>4, ControlTypes
<1>15. ASSUME NEW t \in AppThreads, TeardownLocked(t)
       PROVE  TypeOK'
  <2>1. SwitchOK' /\ LockOK' /\ TaskOK' /\ CannOK' /\ task_map_mtx' \in Threads \cup {"none"}
        /\ t \in Threads
    <3>1. t \in Threads
      BY DEF Threads
    <3>2. SwitchOK' /\ LockOK' /\ CannOK' /\ task_map_mtx' \in Threads \cup {"none"}
      BY <1>15, <3>1 DEF TeardownLocked, switchVars, poolVars, cannVars, SwitchOK, LockOK, CannOK
    <3>3. reader' \in SUBSET Channels /\ unread' \in SUBSET Channels
      BY <1>15 DEF TeardownLocked, TaskOK
    <3>4. TaskOK'
      BY <1>15, <3>3 DEF TeardownLocked, TaskOK
    <3> QED BY <3>1, <3>2, <3>4
  <2>2. Idle(t) \/ (\E p \in Labels : Goto(t, p))
    BY <1>15 DEF TeardownLocked, Labels
  <2> QED BY <2>1, <2>2, ControlTypes
<1>13. CASE UNCHANGED vars
  BY <1>13 DEF vars, taskVars, poolVars, cannVars, lockVars, switchVars, controlVars,
               SwitchOK, LockOK, TaskOK, CannOK, ControlOK
<1> QED
  BY <1>1, <1>2, <1>3, <1>4, <1>5, <1>6, <1>7, <1>8, <1>9, <1>10, <1>11, <1>12, <1>13,
     <1>14, <1>15
     DEF Next, StartDevProfTask, StopDevProfTask, App

(***************************************************************************)
(* The theorems.                                                           *)
(***************************************************************************)
LEMMA InitIInv == Init => IInv
<1> SUFFICES ASSUME Init PROVE IInv
  OBVIOUS
<1>1. SwitchOK /\ LockOK /\ CannOK /\ task_map_mtx \in Threads \cup {"none"}
  BY DEF Init, SwitchOK, LockOK, CannOK
<1>2. TaskOK
  BY DEF Init, TaskOK
<1>3. ControlOK
  BY KindAssumption DEF Init, ControlOK, Labels, Calls
<1>4. \A c \in Channels : Users(c) = {} /\ Count(c) = 0
  BY DEF Init, Users, Count
<1>5. RefExact /\ CollectsWhileUsed /\ IdleChannelReleased /\ JobHasReader
  BY <1>4, FS_EmptySet DEF Init, RefExact, CollectsWhileUsed, IdleChannelReleased, JobHasReader
<1> QED BY <1>1, <1>2, <1>3, <1>5 DEF IInv, TypeOK, SharedInv

LEMMA StepIInv == IInv /\ [Next]_vars => IInv'
<1> SUFFICES ASSUME IInv, [Next]_vars PROVE IInv'
  OBVIOUS
<1>1. TypeOK'
  BY StepTypes DEF IInv
<1>2. CASE \E k \in Kinds : StartsKind(k)
  BY <1>1, <1>2, StartsKindSafe DEF IInv
<1>3. CASE \E k \in Kinds : StopsKind(k)
  BY <1>1, <1>3, StopsKindSafe DEF IInv
<1>5. CASE DropsReaders
  BY <1>1, <1>5 DEF IInv, DropsReaders, SharedInv, RefExact, CollectsWhileUsed, IdleChannelReleased, JobHasReader,
                    Count, Users
<1>4. CASE UNCHANGED <<task_map, ref_cnts, reader, started, failed, unread>>
  BY <1>1, <1>4 DEF IInv, SharedInv, RefExact, CollectsWhileUsed, IdleChannelReleased, JobHasReader,
                    Count, Users
<1> QED BY <1>2, <1>3, <1>4, <1>5, TaskSteps DEF IInv

\* The joint invariant of types, counts, jobs and readers is inductive.
THEOREM TasksInductive == Spec => []IInv
BY InitIInv, StepIInv, PTL DEF Spec

\* Every variable has its type, the wrapped counts included.
THEOREM TaskTypesCorrect == Spec => []TypeOK
<1>1. IInv => TypeOK
  BY DEF IInv
<1> QED BY <1>1, TasksInductive, PTL

\* Whichever calls fail, a driver job has the reader that empties it, unless there was
\* no pool when it started or the pool has gone since.
THEOREM JobHasReaderCorrect == Spec => []JobHasReader
<1>1. IInv => JobHasReader
  BY DEF IInv
<1> QED BY <1>1, TasksInductive, PTL

\* Where AddReader cannot fail, the counts are exact, a channel in use is
\* collected, and one out of use is released.
THEOREM RefCountsCorrect ==
    Spec => []("noreader" \notin Faults => RefExact /\ CollectsWhileUsed /\ IdleChannelReleased)
<1>1. IInv => ("noreader" \notin Faults => RefExact /\ CollectsWhileUsed /\ IdleChannelReleased)
  BY DEF IInv, SharedInv
<1> QED BY <1>1, TasksInductive, PTL

\* Where AddReader cannot fail, a driver job is stopped by the disabling of its
\* last kind only: a failing AddReader is all that can make
\* another kind's disabling stop it.
THEOREM StopsWithLastCorrect ==
    Spec => [][ "noreader" \notin Faults => \A c \in started \ started' : Users(c)' = {} ]_vars
<1>1. ASSUME IInv, [Next]_vars
      PROVE  [ "noreader" \notin Faults => \A c \in started \ started' : Users(c)' = {} ]_vars
  <2> SUFFICES ASSUME "noreader" \notin Faults, NEW c \in started \ started'
               PROVE  Users(c)' = {}
    OBVIOUS
  <2>1. c \in Channels /\ task_map \in SUBSET Kinds
    BY <1>1 DEF IInv, TypeOK, TaskOK
  <2>2. PICK k \in Kinds : StopsKind(k)
    <3>1. ASSUME NEW k \in Kinds, StartsKind(k) PROVE FALSE
      BY <3>1 DEF StartsKind, StartsTasksOf, StartTasks
    <3> QED BY <1>1, <3>1, TaskSteps DEF IInv, DropsReaders
  <2>3. Last(c) /\ c \in ChannelsOf[k] /\ task_map' = task_map \ {k} /\ k \in task_map
    BY <2>2 DEF StopsKind, StopTasks
  <2>4. Cardinality(Users(c)) = 1
    BY <1>1, <2>1, <2>3 DEF IInv, SharedInv, RefExact, Last, Count, NoEntry
  <2>5. Cardinality(Users(c)') = 0
    BY <2>1, <2>3, <2>4, UsersRemove
  <2>6. IsFiniteSet(Users(c)')
    <3>1. IsFiniteSet(Kinds)
      BY FS_Interval, KindAssumption DEF Kinds
    <3>2. Users(c)' \in SUBSET Kinds
      BY <2>1, <2>3 DEF Users
    <3> QED BY <3>1, <3>2, FS_Subset
  <2> QED BY <2>5, <2>6, FS_EmptySet
<1> QED BY <1>1, TasksInductive, PTL DEF Spec

(***************************************************************************)
(* An enabled kind runs once every call has returned.  Register writes     *)
(* enabled before it reads devices_, SetDevice writes devices_ before it   *)
(* reads enabled: so a kind that is enabled on a device that is set has    *)
(* its tasks, was stopped by ResetAllDevice, or is on the way of a thread  *)
(* that will come to it.  Two callbacks for one device at a time would     *)
(* break this: the one that resets it may stop what the other started.     *)
(***************************************************************************)
Reliable == {"nochannels", "noreader", "nocommand"} \cap Faults = {}
OneCallback == \A r, s \in RuntimeThreads : r = s

ToStart == {"snapshot", "scan", "startCann", "startAicpu", "command", "commandAicpu", "startLock"}
ToStop == {"resetAll", "stopCann", "stopAicpu", "stopLock", "stop", "teardown", "stopManager", "resetSwitch"}

\* What a call that stops tasks goes on with when they are stopped.
NextStage == [Detach |-> "stopManager", Unsubscribe |-> "teardown"]

\* The thread t has not yet passed the kind k.
Pending(t, k) ==
    /\ call[t] \in {"Register", "SetDevice"} /\ (call[t] = "Register" => kind[t][1] = k)
    /\ pc[t] \in ToStart \/ (pc[t] = "start" /\ kind[t][2] <= k)

\* Where a thread is fits the call it is in; a device being reset is not set.
Placed(t) ==
    /\ pc[t] # "undoAicpu" /\ (pc[t] = "idle" <=> call[t] = "none")
    /\ pc[t] \in ToStop => call[t] \in {"ResetDevice", "Unsubscribe", "Detach"}
    /\ pc[t] \in ToStart \cup {"start"} => call[t] \in {"Register", "SetDevice"}
    /\ call[t] \in {"SetDevice", "ResetDevice"} => t \in RuntimeThreads
    /\ call[t] = "ResetDevice" => ~device
    /\ pc[t] \in {"start", "stop"} => kind[t][2] # 0

Reached == device => \A k \in enabled : k \in task_map \cup lapsed \/ \E t \in Threads : Pending(t, k)
KindsInv == (\A t \in Threads : Placed(t)) /\ Reached

\* Only t moves: to the place p of the call c with the argument and index k.
MovesTo(t, p, c, k) ==
    /\ pc'[t] = p /\ call'[t] = c /\ kind'[t] = k
    /\ \A u \in Threads \ {t} : pc'[u] = pc[u] /\ call'[u] = call[u] /\ kind'[u] = kind[u]

LEMMA ControlMoves ==
    ASSUME ControlOK, NEW t \in Threads
    PROVE  /\ \A p : Goto(t, p) => MovesTo(t, p, call[t], kind[t])
           /\ Idle(t) => MovesTo(t, "idle", "none", <<0, 0>>)
           /\ \A c, k, p : Begin(t, c, k, p) => MovesTo(t, p, c, <<k, 0>>)
           /\ Return(t) => \/ call[t] \in DOMAIN NextStage /\ MovesTo(t, NextStage[call[t]], call[t], kind[t])
                           \/ call[t] \notin DOMAIN NextStage /\ MovesTo(t, "idle", "none", <<0, 0>>)
<1>1. ASSUME NEW p, Goto(t, p) PROVE MovesTo(t, p, call[t], kind[t])
  BY <1>1 DEF ControlOK, Goto, MovesTo
<1>2. ASSUME Idle(t) PROVE MovesTo(t, "idle", "none", <<0, 0>>)
  BY <1>2 DEF ControlOK, Idle, MovesTo
<1>3. ASSUME NEW c, NEW k, NEW p, Begin(t, c, k, p) PROVE MovesTo(t, p, c, <<k, 0>>)
  BY <1>3 DEF ControlOK, Begin, MovesTo
<1>4. ASSUME Return(t)
      PROVE  \/ call[t] \in DOMAIN NextStage /\ MovesTo(t, NextStage[call[t]], call[t], kind[t])
             \/ call[t] \notin DOMAIN NextStage /\ MovesTo(t, "idle", "none", <<0, 0>>)
  <2>1. CASE call[t] \in DOMAIN NextStage
    <3>1. Goto(t, NextStage[call[t]])
      BY <1>4, <2>1 DEF Return, NextStage
    <3> QED BY <1>1, <2>1, <3>1
  <2>2. CASE call[t] \notin DOMAIN NextStage
    <3>1. Idle(t)
      BY <1>4, <2>2 DEF Return, NextStage
    <3> QED BY <1>2, <2>2, <3>1
  <2> QED BY <2>1, <2>2
<1> QED BY <1>1, <1>2, <1>3, <1>4

\* A step of t keeps KindsInv when t's new place fits, no kind becomes enabled or loses its
\* tasks unnoticed, and what t was to come to is reached or still ahead of it.
LEMMA MoveKeeps ==
    ASSUME KindsInv, NEW t \in Threads, NEW p, NEW c, NEW k, MovesTo(t, p, c, k), Placed(t)',
           device' => device, enabled' \subseteq enabled,
           device' => task_map \cup lapsed \subseteq task_map' \cup lapsed',
           \A j \in enabled' : device' /\ Pending(t, j) => Pending(t, j)' \/ j \in task_map' \cup lapsed'
    PROVE  KindsInv'
<1>1. \A u \in Threads \ {t} : Placed(u)'
  BY DEF KindsInv, Placed, MovesTo
<1>2. Reached'
  <2> SUFFICES ASSUME device', NEW j \in enabled'
               PROVE  j \in task_map' \cup lapsed' \/ \E u \in Threads : Pending(u, j)'
    BY DEF Reached
  <2>1. CASE j \in task_map \cup lapsed
    BY <2>1
  <2>2. ASSUME NEW u \in Threads, Pending(u, j) PROVE j \in task_map' \cup lapsed' \/ Pending(u, j)'
    <3>1. CASE u = t
      BY <2>2, <3>1
    <3>2. CASE u # t
      BY <2>2, <3>2 DEF Pending, MovesTo
    <3> QED BY <3>1, <3>2
  <2> QED BY <2>1, <2>2 DEF KindsInv, Reached
<1> QED BY <1>1, <1>2 DEF KindsInv

\* The steps of the calls into the driver and CANN, and of the locks.
LEMMA CannKeeps ==
    ASSUME Reliable, TypeOK, KindsInv, NEW t \in Threads,
           \/ GetAllChannelsFails(t) \/ StartCANNProfTask(t) \/ StartAicpuProfTask(t) \/ CommandAccepted(t)
           \/ CommandRefused(t) \/ UndoAicpu(t) \/ StopCANNProfTask(t) \/ StopAicpuProfTask(t)
    PROVE  KindsInv'
<1>1. ControlOK /\ Placed(t)
  BY DEF TypeOK, KindsInv
<1>2. UNCHANGED <<device, enabled, task_map, lapsed>>
  BY DEF GetAllChannelsFails, StartCANNProfTask, StartAicpuProfTask, CommandAccepted, CommandRefused, UndoAicpu,
         StopCANNProfTask, StopAicpuProfTask, switchVars, taskVars
<1>3. ~GetAllChannelsFails(t) /\ ~CommandRefused(t) /\ ~UndoAicpu(t)
  BY <1>1 DEF Reliable, GetAllChannelsFails, CommandRefused, UndoAicpu, Placed
<1>4. ASSUME NEW p \in {"startAicpu", "command", "commandAicpu", "startLock"}, Goto(t, p), pc[t] \in ToStart PROVE KindsInv'
  <2>1. MovesTo(t, p, call[t], kind[t])
    BY <1>1, <1>4, ControlMoves
  <2>2. Placed(t)' /\ \A j \in enabled' : Pending(t, j) => Pending(t, j)'
    BY <1>1, <1>2, <1>4, <2>1 DEF Placed, Pending, MovesTo, ToStart, ToStop
  <2> QED BY <1>2, <2>1, <2>2, MoveKeeps
<1>5. ASSUME NEW p \in {"stopAicpu", "stopLock"}, Goto(t, p), pc[t] \in ToStop PROVE KindsInv'
  <2>1. MovesTo(t, p, call[t], kind[t])
    BY <1>1, <1>5, ControlMoves
  <2>2. Placed(t)' /\ \A j \in enabled' : ~Pending(t, j)
    BY <1>1, <1>2, <1>5, <2>1 DEF Placed, Pending, MovesTo, ToStart, ToStop
  <2> QED BY <1>2, <2>1, <2>2, MoveKeeps
<1>6. CASE StartCANNProfTask(t) \/ StartAicpuProfTask(t) \/ CommandAccepted(t)
  <2>1. pc[t] \in ToStart /\ \E p \in {"startAicpu", "command", "commandAicpu", "startLock"} : Goto(t, p)
    BY <1>6 DEF StartCANNProfTask, StartAicpuProfTask, CommandAccepted, ToStart
  <2> QED BY <1>4, <2>1
<1>7. CASE StopCANNProfTask(t) \/ StopAicpuProfTask(t)
  <2>1. pc[t] \in ToStop /\ \E p \in {"stopAicpu", "stopLock"} : Goto(t, p)
    BY <1>7 DEF Reliable, StopCANNProfTask, StopAicpuProfTask, ToStop
  <2> QED BY <1>5, <2>1
<1> QED BY <1>3, <1>6, <1>7

\* The loop over the kinds, from the lock to the unlock.
LEMMA LoopKeeps ==
    ASSUME OneCallback, TypeOK, KindsInv, NEW t \in Threads,
           LockTaskMap(t) \/ StartKind(t) \/ StopKind(t) \/ UnlockTaskMap(t)
    PROVE  KindsInv'
<1>1. /\ ControlOK /\ Placed(t) /\ UNCHANGED <<device, enabled>>
      /\ kind[t] = <<kind[t][1], kind[t][2]>> /\ kind[t][2] \in 0 .. (MaxKind + 1)
  BY DEF TypeOK, ControlOK, KindsInv, LockTaskMap, StartKind, StopKind, UnlockTaskMap, switchVars
<1>2. CASE LockTaskMap(t)
  <2>1. \/ pc[t] = "startLock" /\ MovesTo(t, "start", call[t], <<kind[t][1], 1>>)
        \/ pc[t] = "stopLock" /\ MovesTo(t, "stop", call[t], <<kind[t][1], 1>>)
    BY <1>1, <1>2 DEF LockTaskMap, MovesTo, ControlOK
  <2>2. UNCHANGED <<task_map, lapsed>>
    BY <1>2 DEF LockTaskMap, taskVars
  <2>3. Placed(t)' /\ \A j \in Kinds : Pending(t, j) => Pending(t, j)'
    BY <1>1, <2>1, KindAssumption DEF Placed, Pending, MovesTo, ToStart, ToStop, Kinds
  <2>4. enabled' \subseteq Kinds
    BY <1>1 DEF TypeOK, SwitchOK
  <2> QED BY <1>1, <2>1, <2>2, <2>3, <2>4, MoveKeeps
<1>3. ASSUME NextKind(t) PROVE MovesTo(t, pc[t], call[t], <<kind[t][1], kind[t][2] + 1>>)
  BY <1>1, <1>3 DEF NextKind, MovesTo, ControlOK
<1>4. CASE StartKind(t)
  <2>1. /\ pc[t] = "start" /\ kind[t][2] \in Kinds /\ MovesTo(t, "start", call[t], <<kind[t][1], kind[t][2] + 1>>)
        /\ task_map \cup lapsed \subseteq task_map' \cup lapsed'
        /\ kind[t][2] \in KindsOf(t) => kind[t][2] \in task_map'
    BY <1>3, <1>4 DEF StartKind, taskVars
  <2>2. Placed(t)'
    BY <1>1, <2>1, KindAssumption DEF Placed, MovesTo, ToStart, ToStop, Kinds
  <2>3. ASSUME NEW j \in enabled', Pending(t, j), ~Pending(t, j)' PROVE j \in task_map'
    <3>1. j \in Kinds /\ j \in enabled
      BY <1>1 DEF TypeOK, SwitchOK
    <3>2. kind[t][2] = j
      BY <1>1, <2>1, <2>3, <3>1, KindAssumption DEF Pending, MovesTo, ToStart, Kinds
    <3>3. j \in KindsOf(t)
      BY <1>1, <2>1, <2>3, <3>1 DEF Pending, KindsOf
    <3> QED BY <2>1, <3>2, <3>3
  <2> QED BY <1>1, <2>1, <2>2, <2>3, MoveKeeps
<1>5. CASE StopKind(t)
  <2>1. /\ pc[t] = "stop" /\ kind[t][2] \in Kinds /\ MovesTo(t, "stop", call[t], <<kind[t][1], kind[t][2] + 1>>)
        /\ call[t] # "ResetDevice" => task_map \cup lapsed \subseteq task_map' \cup lapsed'
    BY <1>3, <1>5 DEF StopKind, taskVars
  <2>2. Placed(t)' /\ \A j \in enabled' : ~Pending(t, j)
    BY <1>1, <2>1, KindAssumption DEF Placed, Pending, MovesTo, ToStart, ToStop, Kinds
  <2>3. device' => call[t] # "ResetDevice"
    BY <1>1 DEF Placed
  <2> QED BY <1>1, <2>1, <2>2, <2>3, MoveKeeps
<1>6. CASE UnlockTaskMap(t)
  <2>1. pc[t] \in {"start", "stop"} /\ kind[t][2] \notin Kinds /\ Return(t) /\ UNCHANGED <<task_map, lapsed>>
    BY <1>6 DEF UnlockTaskMap, taskVars
  <2>2. \A j \in Kinds : ~Pending(t, j)
    BY <1>1, <2>1, KindAssumption DEF Placed, Pending, ToStart, Kinds
  <2>3. enabled' \subseteq Kinds
    BY <1>1 DEF TypeOK, SwitchOK
  <2>4. PICK p, c, k : MovesTo(t, p, c, k) /\ Placed(t)'
    <3>1. CASE call[t] \in DOMAIN NextStage /\ MovesTo(t, NextStage[call[t]], call[t], kind[t])
      BY <1>1, <3>1 DEF Placed, MovesTo, ToStart, ToStop, NextStage
    <3>2. CASE call[t] \notin DOMAIN NextStage /\ MovesTo(t, "idle", "none", <<0, 0>>)
      BY <1>1, <3>2 DEF Placed, MovesTo, ToStart, ToStop
    <3> QED BY <1>1, <2>1, <3>1, <3>2, ControlMoves
  <2> QED BY <1>1, <2>1, <2>2, <2>3, <2>4, MoveKeeps
<1> QED BY <1>2, <1>4, <1>5, <1>6

\* The API's own steps.
LEMMA AppKeeps ==
    ASSUME TypeOK, KindsInv, NEW t \in AppThreads, App(t)
    PROVE  KindsInv'
<1>1. ControlOK /\ Placed(t) /\ UNCHANGED <<device, task_map, lapsed>> /\ t \in Threads /\ t \notin RuntimeThreads
  BY ThreadAssumption DEF TypeOK, KindsInv, App, Register, UnRegister, GetAllValidDevice, RegisterCallbacks, Unsubscribe,
     Detach, Subscribe, PoolMade, TeardownLocked, ResetAllDevice, StopActivityMgrThread, ResetActivitySwitch,
     switchVars, taskVars, Threads
<1>2. ASSUME NEW k \in Kinds, Register(t, k) PROVE KindsInv'
  <2>1. MovesTo(t, "snapshot", "Register", <<k, 0>>) /\ enabled' = enabled \cup {k} /\ pc[t] = "idle"
    BY <1>1, <1>2, ControlMoves DEF Register
  <2>2. Placed(t)' /\ Pending(t, k)' /\ \A j \in Kinds : ~Pending(t, j)
    BY <1>1, <2>1 DEF Placed, Pending, MovesTo, ToStart, ToStop
  <2>3. \A u \in Threads \ {t} : Placed(u)' /\ \A j \in Kinds : Pending(u, j) => Pending(u, j)'
    BY <1>1, <2>1 DEF KindsInv, Placed, Pending, MovesTo
  <2>4. enabled \subseteq Kinds
    BY DEF TypeOK, SwitchOK
  <2>5. Reached'
    <3> SUFFICES ASSUME device', NEW j \in enabled'
                 PROVE  j \in task_map' \cup lapsed' \/ \E u \in Threads : Pending(u, j)'
      BY DEF Reached
    <3>1. CASE j = k
      BY <1>1, <2>2, <3>1
    <3>2. CASE j # k
      <4>1. j \in enabled /\ j \in Kinds
        BY <2>1, <2>4, <3>2
      <4>2. j \in task_map \cup lapsed \/ \E u \in Threads : Pending(u, j)
        BY <1>1, <4>1 DEF KindsInv, Reached
      <4> QED BY <1>1, <2>2, <2>3, <4>1, <4>2
    <3> QED BY <3>1, <3>2
  <2> QED BY <2>2, <2>3, <2>5 DEF KindsInv
<1>3. ASSUME UNCHANGED <<pc, call, kind>>, enabled' \subseteq enabled PROVE KindsInv'
  BY <1>1, <1>3 DEF KindsInv, Placed, Reached, Pending
<1>4. ASSUME NEW p, NEW c, NEW k, MovesTo(t, p, c, k), Placed(t)', enabled' \subseteq enabled,
             \A j \in enabled' : device /\ Pending(t, j) => Pending(t, j)'
      PROVE  KindsInv'
  BY <1>1, <1>4, MoveKeeps
<1>5. CASE GetAllValidDevice(t)
  <2>1. pc[t] = "snapshot" /\ enabled' = enabled
    BY <1>5 DEF GetAllValidDevice, switchVars
  <2>2. CASE device
    <3>1. MovesTo(t, "startCann", call[t], kind[t])
      BY <1>1, <1>5, <2>2, ControlMoves DEF GetAllValidDevice
    <3>2. Placed(t)' /\ \A j \in enabled' : Pending(t, j) => Pending(t, j)'
      BY <1>1, <2>1, <3>1 DEF Placed, Pending, MovesTo, ToStart, ToStop
    <3> QED BY <1>4, <2>1, <3>1, <3>2
  <2>3. CASE ~device
    <3>1. Return(t) /\ call[t] \notin DOMAIN NextStage
      BY <1>1, <1>5, <2>1, <2>3 DEF GetAllValidDevice, Placed, ToStart, NextStage
    <3>2. MovesTo(t, "idle", "none", <<0, 0>>)
      BY <1>1, <3>1, ControlMoves
    <3>3. Placed(t)'
      BY <1>1, <3>2 DEF Placed, MovesTo, ToStart, ToStop
    <3> QED BY <1>4, <2>1, <2>3, <3>2, <3>3
  <2> QED BY <2>2, <2>3
<1>6. CASE (\E k \in Kinds : UnRegister(t, k)) \/ RegisterCallbacks(t)
  BY <1>3, <1>6 DEF UnRegister, RegisterCallbacks, controlVars
<1>7. CASE Unsubscribe(t) \/ Detach(t)
  <2>1. PICK c \in {"Unsubscribe", "Detach"} : MovesTo(t, "resetAll", c, <<0, 0>>)
    BY <1>1, <1>7, ControlMoves DEF Unsubscribe, Detach
  <2>2. pc[t] = "idle" /\ enabled' = enabled
    BY <1>7 DEF Unsubscribe, Detach, switchVars
  <2>3. Placed(t)' /\ \A j \in enabled' : ~Pending(t, j)
    BY <1>1, <2>1, <2>2 DEF Placed, Pending, MovesTo, ToStart, ToStop
  <2> QED BY <1>4, <2>1, <2>2, <2>3
<1>8. CASE ResetAllDevice(t)
  <2>1. pc[t] = "resetAll" /\ enabled' = enabled
    BY <1>8 DEF ResetAllDevice, switchVars
  <2>2. \A j \in enabled' : ~Pending(t, j)
    BY <1>1, <2>1 DEF Placed, Pending, ToStart, ToStop
  <2>3. CASE device
    <3>1. MovesTo(t, "stopCann", call[t], kind[t])
      BY <1>1, <1>8, <2>3, ControlMoves DEF ResetAllDevice
    <3>2. Placed(t)'
      BY <1>1, <2>1, <3>1 DEF Placed, MovesTo, ToStart, ToStop
    <3> QED BY <1>4, <2>1, <2>2, <3>1, <3>2
  <2>4. CASE ~device
    <3>1. Return(t)
      BY <1>8, <2>4 DEF ResetAllDevice
    <3>2. PICK p, c, k : MovesTo(t, p, c, k) /\ Placed(t)'
      <4>1. CASE call[t] \in DOMAIN NextStage /\ MovesTo(t, NextStage[call[t]], call[t], kind[t])
        BY <1>1, <4>1 DEF Placed, MovesTo, ToStart, ToStop, NextStage
      <4>2. CASE call[t] \notin DOMAIN NextStage /\ MovesTo(t, "idle", "none", <<0, 0>>)
        BY <1>1, <4>2 DEF Placed, MovesTo, ToStart, ToStop
      <4> QED BY <1>1, <3>1, <4>1, <4>2, ControlMoves
    <3> QED BY <1>4, <2>1, <2>2, <3>2
  <2> QED BY <2>3, <2>4
<1>9. CASE StopActivityMgrThread(t) \/ ResetActivitySwitch(t) \/ TeardownLocked(t)
  <2>1. /\ pc[t] \in {"teardown", "stopManager", "resetSwitch"} /\ enabled' \subseteq enabled
        /\ (\E p \in {"teardown", "stopManager", "resetSwitch"} : Goto(t, p)) \/ Idle(t)
    BY <1>9 DEF StopActivityMgrThread, ResetActivitySwitch, TeardownLocked, Stopped, switchVars
  <2>2. \A j \in enabled' : ~Pending(t, j)
    BY <1>1, <2>1 DEF Placed, Pending, ToStart, ToStop
  <2>3. ASSUME NEW p \in {"teardown", "stopManager", "resetSwitch"}, Goto(t, p) PROVE KindsInv'
    <3>1. MovesTo(t, p, call[t], kind[t])
      BY <1>1, <2>3, ControlMoves
    <3>2. Placed(t)'
      BY <1>1, <2>1, <2>3, <3>1 DEF Placed, MovesTo, ToStart, ToStop
    <3> QED BY <1>4, <2>1, <2>2, <3>1, <3>2
  <2>4. CASE Idle(t)
    <3>1. MovesTo(t, "idle", "none", <<0, 0>>)
      BY <1>1, <2>4, ControlMoves
    <3>2. Placed(t)'
      BY <1>1, <3>1 DEF Placed, MovesTo, ToStart, ToStop
    <3> QED BY <1>4, <2>1, <2>2, <3>1, <3>2
  <2> QED BY <2>1, <2>3, <2>4
<1>10. CASE Subscribe(t)
  <2>1. pc[t] = "idle" /\ enabled' = enabled
    BY <1>10 DEF Subscribe
  <2>2. CASE UNCHANGED controlVars
    BY <1>3, <2>1, <2>2 DEF controlVars
  <2>3. CASE Begin(t, "Subscribe", 0, "making")
    <3>1. MovesTo(t, "making", "Subscribe", <<0, 0>>)
      BY <1>1, <2>3, ControlMoves
    <3>2. Placed(t)' /\ \A j \in enabled' : ~Pending(t, j)
      BY <1>1, <2>1, <3>1 DEF Placed, Pending, MovesTo, ToStart, ToStop
    <3> QED BY <1>4, <2>1, <3>1, <3>2
  <2> QED BY <1>10, <2>2, <2>3 DEF Subscribe
<1>11. CASE PoolMade(t)
  <2>1. pc[t] = "making" /\ enabled' = enabled /\ MovesTo(t, "idle", "none", <<0, 0>>)
    BY <1>1, <1>11, ControlMoves DEF PoolMade
  <2>2. Placed(t)' /\ \A j \in enabled' : ~Pending(t, j)
    BY <1>1, <2>1 DEF Placed, Pending, MovesTo, ToStart, ToStop
  <2> QED BY <1>4, <2>1, <2>2
<1> QED BY <1>2, <1>5, <1>6, <1>7, <1>8, <1>9, <1>10, <1>11 DEF App

\* The device-state callback: a device that is set anew has every enabled kind ahead.
LEMMA RuntimeKeeps ==
    ASSUME OneCallback, TypeOK, KindsInv, NEW t \in RuntimeThreads, Runtime(t)
    PROVE  KindsInv'
<1>1. ControlOK /\ Placed(t) /\ UNCHANGED <<enabled, task_map, lapsed>> /\ t \in Threads
  BY DEF TypeOK, KindsInv, Runtime, SetDevice, ScanSwitch, ResetDevice, switchVars, taskVars, Threads
<1>2. CASE SetDevice(t)
  <2>1. pc[t] = "idle" /\ MovesTo(t, "scan", "SetDevice", <<0, 0>>) /\ ~device
    BY <1>1, <1>2, ControlMoves DEF SetDevice
  <2>2. Placed(t)' /\ \A j \in Kinds : Pending(t, j)'
    BY <1>1, <2>1 DEF Placed, Pending, MovesTo, ToStart, ToStop
  <2>3. \A u \in Threads \ {t} : Placed(u)'
    <3> SUFFICES ASSUME NEW u \in Threads \ {t} PROVE Placed(u)'
      OBVIOUS
    <3>1. call[u] # "ResetDevice" /\ Placed(u)
      BY <1>1 DEF KindsInv, Placed, OneCallback
    <3> QED BY <2>1, <3>1 DEF Placed, MovesTo
  <2>4. enabled' \subseteq Kinds
    BY <1>1 DEF TypeOK, SwitchOK
  <2> QED BY <1>1, <2>2, <2>3, <2>4 DEF KindsInv, Reached
<1>3. CASE ScanSwitch(t)
  <2>1. pc[t] = "scan" /\ device' = device
    BY <1>3 DEF ScanSwitch, switchVars
  <2>2. CASE enabled = {}
    <3>1. MovesTo(t, "idle", "none", <<0, 0>>)
      BY <1>1, <1>3, <2>2, ControlMoves DEF ScanSwitch
    <3>2. Placed(t)'
      BY <1>1, <3>1 DEF Placed, MovesTo, ToStart, ToStop
    <3> QED BY <1>1, <2>1, <2>2, <3>1, <3>2, MoveKeeps
  <2>3. CASE enabled # {}
    <3>1. MovesTo(t, "startCann", call[t], kind[t])
      BY <1>1, <1>3, <2>3, ControlMoves DEF ScanSwitch
    <3>2. Placed(t)' /\ \A j \in enabled' : Pending(t, j) => Pending(t, j)'
      BY <1>1, <2>1, <3>1 DEF Placed, Pending, MovesTo, ToStart, ToStop
    <3> QED BY <1>1, <2>1, <3>1, <3>2, MoveKeeps
  <2> QED BY <2>2, <2>3
<1>4. CASE ResetDevice(t)
  <2>1. pc[t] = "idle" /\ MovesTo(t, "stopCann", "ResetDevice", <<0, 0>>) /\ ~device'
    BY <1>1, <1>4, ControlMoves DEF ResetDevice
  <2>2. Placed(t)'
    BY <1>1, <2>1 DEF Placed, MovesTo, ToStart, ToStop
  <2> QED BY <1>1, <2>1, <2>2, MoveKeeps
<1> QED BY <1>2, <1>3, <1>4 DEF Runtime

LEMMA KindsStep == Reliable /\ OneCallback /\ TypeOK /\ KindsInv /\ [Next]_vars => KindsInv'
<1> SUFFICES ASSUME Reliable, OneCallback, TypeOK, KindsInv, [Next]_vars PROVE KindsInv'
  OBVIOUS
<1>1. ASSUME NEW t \in Threads, StartDevProfTask(t) \/ StopDevProfTask(t) \/ LockTaskMap(t) \/ UnlockTaskMap(t)
      PROVE  KindsInv'
  BY <1>1, CannKeeps, LoopKeeps DEF StartDevProfTask, StopDevProfTask
<1>2. CASE UNCHANGED vars
  BY <1>2 DEF vars, switchVars, taskVars, controlVars, KindsInv, Placed, Reached, Pending
<1> QED BY <1>1, <1>2, AppKeeps, RuntimeKeeps DEF Next

LEMMA InitKinds == Init => KindsInv
BY DEF Init, KindsInv, Placed, Reached, ToStart, ToStop

\* Where the driver and CANN accept the calls and a device's callbacks come one at a
\* time, every step keeps the kinds that are enabled reached or ahead of a thread.
THEOREM KindsInductive ==
    ASSUME Reliable, OneCallback
    PROVE  Spec => []KindsInv
<1>1. TypeOK /\ KindsInv /\ [Next]_vars => KindsInv'
  BY KindsStep
<1> QED BY <1>1, InitKinds, TaskTypesCorrect, PTL DEF Spec

\* However Register, Unsubscribe and the device's callback are interleaved, once all have
\* returned an enabled kind has its tasks; channels in use are collected throughout, and
\* those no kind uses are released.
THEOREM RacesCorrect ==
    ASSUME Reliable, OneCallback
    PROVE  RacesSpec => []RacesInv
<1>1. RacesSpec => Spec
  <2>1. RacesInit => Init
    BY DEF RacesInit
  <2>2. [Moves("races") /\ Next]_<<load, vars>> => [Next]_vars
    OBVIOUS
  <2> QED BY <2>1, <2>2, PTL DEF RacesSpec, Spec
<1>2. KindsInv => EnabledKindsRun
  BY DEF KindsInv, Reached, EnabledKindsRun, Pending, ToStart
<1>3. IInv => CollectsWhileUsed /\ IdleChannelReleased
  BY DEF Reliable, IInv, SharedInv
<1>4. IInv /\ KindsInv => RacesInv
  BY <1>2, <1>3 DEF RacesInv, RacesEndRunning, RacesEndReleased
<1> QED BY <1>1, <1>4, TasksInductive, KindsInductive, PTL
============================================================================
