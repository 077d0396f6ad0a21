------------------------------- MODULE Records -------------------------------
(***************************************************************************)
(* From bytes to tasks: a consumer walks the records of a block that its   *)
(* reader handed over, decodes each by the device's chip, and reports what *)
(* it knows.  A kernel that the host reported and the device's records of  *)
(* it meet under one key, although the two sides name its stream and task  *)
(* in forms that depend on the runtime's numbering of streams.             *)
(***************************************************************************)
EXTENDS Integers, Sequences, FiniteSets, Functions

CONSTANTS
    RecordDevices,  \* devices, each with a reader and a consumer
    Chips,          \* the chips that the devices may have, of those with a decoder
    Tasks,          \* stream and task ids that kernels are given
    MaxLaunches,    \* a bound: kernels launched
    MaxRecords      \* a bound: records the devices write

ASSUME RecordsAssumption ==
    /\ Chips \subseteq {"910B", "310B", "V6"} /\ MaxLaunches \in Nat /\ MaxRecords \in Nat
    /\ Tasks \subseteq [stream : 0 .. 32767, task : 0 .. 65535]

VARIABLES
    chip,       \* the chip of every device
    channel,    \* the channel that is read
    numbering,  \* of the runtime: whether streams are numbered by 15 bits or by 11
    isExpand,   \* StarsCommon::isExpand, and "setting" while a thread writes it
    hostTasks,  \* hostTasks_: what ReportRtTaskTrack queued, as the runtime gave it
    kernels,    \* the kernels made from them, with their keys
    log,        \* a device: what it wrote
    walk,       \* a device: the records walked and those handed over
    logData,    \* a device: the local logData of the walk
    reported    \* a device: what the walks passed to the parsers

recordVars == <<chip, channel, numbering, isExpand, hostTasks, kernels, log, walk, logData, reported>>

NoData == [type |-> "INVALID", key |-> <<>>, of |-> <<>>, sure |-> TRUE]
LogTypes == IF channel = "TS_FW" THEN {"MARKEX", "STEP", "OTHER"} ELSE {"BEGIN", "END", "FFTS_START", "OTHER"}

Bit(x, b) == (x \div b) % 2 = 1
Low(x, b) == x % b
High(x, b) == x - (x % b)

----------------------------------------------------------------------------
(* The forms in which the runtime and the device may name a task: as it is,  *)
(* or, where the ids are too long for their fields, marked by a bit of the   *)
(* stream.  (stars_common.h tells the rules of the two dates.)               *)

Forms(t) ==
    IF chip = "V6" THEN {<<t.stream, t.task>>}
    ELSE IF numbering
    THEN {<<t.stream, t.task>>, <<\h8000 + Low(t.task, \h8000), t.stream + High(t.task, \h8000)>>}
    ELSE {<<t.stream, t.task>>,
          <<t.stream + \h1000 + High(t.task, \h2000), Low(t.task, \h2000)>>,
          <<\h2000 + Low(t.task, \h1000), t.stream + High(t.task, \h1000)>>}

GetStreamId(stream, task, expand) ==
    IF expand
    THEN Low(IF Bit(stream, \h8000) THEN task ELSE stream, \h8000)
    ELSE IF ~Bit(stream, \h1000) /\ Bit(stream, \h2000) THEN Low(task, \h1000) % 2048 ELSE stream % 2048

(* One faulty variant leaves the marked stream's high bits out of the task.  *)
GetTaskId_LowOnly(stream, task, expand) ==
    IF ~expand /\ Bit(stream, \h1000) THEN Low(task, \h2000) ELSE task
GetTaskId(stream, task, expand) ==
    IF expand
    THEN IF Bit(stream, \h8000) THEN High(task, \h8000) + Low(stream, \h8000) ELSE task
    ELSE IF Bit(stream, \h1000) THEN Low(task, \h2000) + High(stream, \h2000)
    ELSE IF Bit(stream, \h2000) THEN Low(stream, \h1000) + High(task, \h1000)
    ELSE task

GetHostTaskId(stream, task, expand) == IF chip = "V6" THEN task ELSE GetTaskId(stream, task, expand)

EncodeDstKey_Stream(device, stream, task) == <<device, stream, task>>
EncodeDstKey(device, stream, task) == <<device, IF chip = "V6" THEN 0 ELSE stream, task>>

(* The flag is a plain bool: what a thread reads while another writes it is  *)
(* either value, and a decoding reads it twice.                              *)
FlagReads == IF isExpand = "setting" THEN BOOLEAN ELSE {isExpand = "on"}
Sure(forStream, forTask) == chip = "V6" \/ {forStream, forTask} = {numbering}

RecordsInit ==
    /\ chip \in Chips /\ channel \in {"STARS_SOC_LOG", "TS_FW"} /\ numbering \in BOOLEAN
    /\ isExpand = "off" /\ hostTasks = {} /\ kernels = {}
    /\ log = [d \in RecordDevices |-> <<>>] /\ logData = [d \in RecordDevices |-> NoData]
    /\ walk = [d \in RecordDevices |-> [pos |-> 0, size |-> 0]]
    /\ reported = [d \in RecordDevices |-> <<>>]

----------------------------------------------------------------------------
(* The host *)

(* The stream-expansion report, by the runtime's thread.                     *)
SetStreamExpandStatus ==
    /\ isExpand = "off" /\ numbering /\ isExpand' = "setting"
    /\ UNCHANGED <<chip, channel, numbering, hostTasks, kernels, log, walk, logData, reported>>
StatusIsSet ==
    /\ isExpand = "setting" /\ isExpand' = "on"
    /\ UNCHANGED <<chip, channel, numbering, hostTasks, kernels, log, walk, logData, reported>>

Launched == {k.of : k \in hostTasks} \cup {k.of : k \in kernels}

(* ReportRtTaskTrack keeps the ids as they come.  A V6 chip's task ids are   *)
(* unique.                                                                   *)
ReportRtTaskTrack(d, t) ==
    /\ Cardinality(Launched) < MaxLaunches /\ <<d, t>> \notin Launched
    /\ chip # "V6" /\ ~numbering => t.stream < 2048
    /\ chip = "V6" => <<d, t.task>> \notin {<<task[1], task[2].task>> : task \in Launched}
    /\ \E form \in Forms(t) : hostTasks' = hostTasks \cup {[of |-> <<d, t>>, form |-> form]}
    /\ UNCHANGED <<chip, channel, numbering, isExpand, kernels, log, walk, logData, reported>>

----------------------------------------------------------------------------
(* The device writes about the tasks it was given; the reader hands over     *)
(* whole records.                                                            *)

Written == FoldFunction(LAMBDA records, sum : sum + Len(records), 0, log)
DeviceWrites(d, task, type) ==
    /\ Written < MaxRecords /\ task \in Launched /\ task[1] = d
    /\ \E form \in Forms(task[2]) :
         log' = [log EXCEPT ![d] = Append(@, [type |-> type, of |-> task, form |-> form])]
    /\ UNCHANGED <<chip, channel, numbering, isExpand, hostTasks, kernels, walk, logData, reported>>

HandsOver(d) ==
    /\ walk[d].pos = walk[d].size /\ walk[d].size < Len(log[d])
    /\ \E size \in walk[d].size + 1 .. Len(log[d]) : walk' = [walk EXCEPT ![d].size = size]
    /\ logData' = [logData EXCEPT ![d] = NoData]
    /\ UNCHANGED <<chip, channel, numbering, isExpand, hostTasks, kernels, log, reported>>

----------------------------------------------------------------------------
(* The walk: a record is decoded into logData and reported, or passed over.  *)

(* Trans910BSocLog, which Trans310BSocLog calls, and TransSocLogV6           *)
Parsed(d, record, forStream, forTask) ==
    LET stream == record.form[1]
        task == record.form[2]
    IN [type |-> IF record.type = "FFTS_START" THEN "FFTS_LOG" ELSE "ACSQ_LOG",
        key |-> IF chip = "V6" THEN EncodeDstKey(d, 0, task)
                ELSE EncodeDstKey(d, GetStreamId(stream, task, forStream), GetTaskId(stream, task, forTask)),
        of |-> record.of, sure |-> Sure(forStream, forTask)]

(* The function types each chip's decoder knows, and the step traces that    *)
(* ParserManager::ReportStepTrace passes on.                                 *)
Known(type) ==
    CASE channel = "TS_FW" -> type = "MARKEX"
      [] chip = "V6" -> type \in {"BEGIN", "END"}
      [] OTHER -> type # "OTHER"

(* KernelParser makes kernels of the host's tasks before it looks at a log.  *)
KernelsMade ==
    /\ hostTasks' = {}
    /\ \E forStream \in [hostTasks -> FlagReads], forTask \in [hostTasks -> FlagReads] :
         kernels' = kernels \cup
            {[of |-> t.of, sure |-> Sure(forStream[t], forTask[t]),
              key |-> EncodeDstKey(t.of[1], GetStreamId(t.form[1], t.form[2], forStream[t]),
                                   GetHostTaskId(t.form[1], t.form[2], forTask[t]))] : t \in hostTasks}

AtRecord(d) == walk[d].pos < walk[d].size
Current(d) == log[d][walk[d].pos + 1]
Advances(d) == walk' = [walk EXCEPT ![d].pos = @ + 1]

(* One faulty variant reports what logData holds, decoded or not.            *)
SkipRecord_Reports(d) ==
    /\ logData' = logData /\ reported' = [reported EXCEPT ![d] = Append(@, logData[d])]
    /\ UNCHANGED <<hostTasks, kernels>>
SkipRecord(d) == UNCHANGED <<logData, reported, hostTasks, kernels>>

PassesOver(d) ==
    /\ AtRecord(d) /\ ~Known(Current(d).type)
    /\ Advances(d) /\ SkipRecord(d)
    /\ UNCHANGED <<chip, channel, numbering, isExpand, log>>

TransStarsLog(d) ==
    /\ channel = "STARS_SOC_LOG" /\ AtRecord(d) /\ Known(Current(d).type) /\ Advances(d)
    /\ \E forStream \in FlagReads, forTask \in FlagReads :
         logData' = [logData EXCEPT ![d] = Parsed(d, Current(d), forStream, forTask)]
    /\ reported' = [reported EXCEPT ![d] = Append(@, logData'[d])]
    /\ KernelsMade
    /\ UNCHANGED <<chip, channel, numbering, isExpand, log>>

TransTsFwData(d) ==
    /\ channel = "TS_FW" /\ AtRecord(d) /\ Known(Current(d).type) /\ Advances(d)
    /\ reported' = [reported EXCEPT ![d] = Append(@, [NoData EXCEPT !.type = "MARKEX", !.of = Current(d).of])]
    /\ UNCHANGED <<chip, channel, numbering, isExpand, hostTasks, kernels, log, logData>>

RecordsNext ==
    \/ SetStreamExpandStatus \/ StatusIsSet
    \/ \E d \in RecordDevices :
         \/ \E t \in Tasks : ReportRtTaskTrack(d, t)
         \/ \E task \in Launched, type \in LogTypes : DeviceWrites(d, task, type)
         \/ HandsOver(d) \/ PassesOver(d) \/ TransStarsLog(d) \/ TransTsFwData(d)

RecordsSpec == RecordsInit /\ [][RecordsNext]_recordVars
----------------------------------------------------------------------------
(* Properties *)

RecordsTypeOK ==
    /\ isExpand \in {"off", "setting", "on"}
    /\ \A d \in RecordDevices : walk[d].pos \in 0 .. walk[d].size /\ walk[d].size <= Len(log[d])
    /\ \A k \in kernels : k.key[2] \in 0 .. 32767 /\ k.key[3] \in 0 .. 65535

(* The walks report the records they know, each once, in order and as it was *)
(* written: a record they do not know is passed over, and what was reported  *)
(* before it is not reported again in its place.                             *)
ReportedOnce ==
    \A d \in RecordDevices :
        LET known == SelectSeq(SubSeq(log[d], 1, walk[d].pos), LAMBDA record : Known(record.type))
        IN /\ Len(reported[d]) = Len(known)
           /\ \A i \in DOMAIN known : reported[d][i].of = known[i].of

(* A kernel of the host and a record of the device have one key if they are  *)
(* of one task and only then, in whatever forms the two sides named it, when *)
(* both were decoded by the runtime's numbering.                             *)
KeysMeet ==
    \A k \in kernels, d \in RecordDevices : \A i \in DOMAIN reported[d] :
        channel = "STARS_SOC_LOG" /\ k.sure /\ reported[d][i].sure =>
            (reported[d][i].key = k.key <=> reported[d][i].of = k.of)

(* What the walks promise of the records, whichever way they are written.    *)
RecordsInv == RecordsTypeOK /\ ReportedOnce /\ KeysMeet
=============================================================================
