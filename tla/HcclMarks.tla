------------------------------ MODULE HcclMarks ------------------------------
(***************************************************************************)
(* The HCCL kind on devices without its own records: a collective call is  *)
(* wrapped in a range of the library's own, an "inner" mark, whose two     *)
(* device records HcclReporter makes into one record of the operation.     *)
(***************************************************************************)
EXTENDS Marker

CONSTANTS
    HcclThreads,   \* threads that call HCCL
    Shapes,        \* the shapes of the calls made
    OpKeys         \* 2^32: the ids RecordHcclOp tells apart

(* The calls by the description they fill: a P2pOpDesc, or a CollectiveOpDesc *)
(* whose rank size the wrapper asks for, except for a scatter; that of an      *)
(* alltoallv points at the caller's counts.                                    *)
P2pShapes == {"p2p"}
CollectiveShapes == {"collective", "scatter", "alltoallv"}
RankedShapes == CollectiveShapes \ {"scatter"}

ASSUME HcclAssumption == OpKeys \in Nat \ {0} /\ Shapes \subseteq P2pShapes \cup CollectiveShapes

VARIABLES
    hcclOn,        \* activity_switch_[MSPTI_ACTIVITY_KIND_HCCL]
    hccl,          \* a thread inside a wrapped call
    innerMarkIds,  \* innerMarkIds
    markId2HcclOp, \* markId2HcclOp_
    counts,        \* the id of the call that last filled a thread's array of counts
    hcclReports,   \* the records made, in order
    early,         \* ids whose start came back before the operation was known
    told           \* ids the device was told the end of

hcclVars == <<hcclOn, hccl, innerMarkIds, markId2HcclOp, counts, hcclReports, early, told>>

IdleHccl == [pc |-> "idle", id |-> 0, shape |-> "p2p", ok |-> TRUE]
NoStart == 0
HcclOpDescs == [id: MarkIds, shape: Shapes, thread: HcclThreads, start: {NoStart} \cup MarkIds]

HcclTypeOK ==
    /\ MarkerTypeOK /\ hcclOn \in BOOLEAN
    /\ hccl \in [HcclThreads -> [pc: {"idle", "insert", "record", "end"}, id: {0} \cup MarkIds, shape: Shapes \cup {"p2p"}, ok: BOOLEAN]]
    /\ innerMarkIds \subseteq MarkIds
    /\ \A i \in DOMAIN markId2HcclOp : markId2HcclOp[i] \in HcclOpDescs
    /\ counts \in [HcclThreads -> {0} \cup MarkIds]
    /\ early \subseteq MarkIds /\ told \subseteq MarkIds
    /\ \A i \in DOMAIN hcclReports : hcclReports[i].op \in HcclOpDescs

HcclInit ==
    /\ MarkerInit
    /\ hcclOn = TRUE /\ hccl = [t \in HcclThreads |-> IdleHccl] /\ innerMarkIds = {} /\ markId2HcclOp = <<>>
    /\ counts = [t \in HcclThreads |-> 0] /\ hcclReports = <<>> /\ early = {} /\ told = {}

----------------------------------------------------------------------------
SwitchesHccl ==
    /\ hcclOn' = ~hcclOn
    /\ UNCHANGED <<domainVars, markVars, hccl, innerMarkIds, markId2HcclOp, counts, hcclReports, early, told>>

(* createMarker and InnerDeviceStartA: an id, the device told,               *)
Wraps(t) == hccl[t].pc = "idle" /\ hcclOn
FilledCounts(t, shape, id) == [counts EXCEPT ![t] = IF shape = "alltoallv" THEN id ELSE @]

InnerDeviceStartA(t, shape, ok) ==
    LET id == gMarkId + 1 IN
    /\ Wraps(t) /\ gMarkId < MaxMarks /\ Succeeds(ok)
    /\ gMarkId' = id /\ Traces(ok, TRUE, id, "start")
    /\ hccl' = [hccl EXCEPT ![t] = [pc |-> IF ok THEN "insert" ELSE "record", id |-> id, shape |-> shape, ok |-> ok]]
    /\ counts' = FilledCounts(t, shape, id)
    /\ UNCHANGED <<domainVars, markerOn, marker, contexts, hostBase, deviceBase, deviceContexts, reader, marks, ranges,
                   hcclOn, innerMarkIds, markId2HcclOp, hcclReports, early, told>>

(* the id kept, and then the operation under as much of it as fits, told or  *)
(* not.                                                                      *)
InsertsInner(t) ==
    /\ hccl[t].pc = "insert"
    /\ innerMarkIds' = innerMarkIds \cup {hccl[t].id}
    /\ hccl' = [hccl EXCEPT ![t].pc = "record"]
    /\ UNCHANGED <<domainVars, markVars, hcclOn, markId2HcclOp, counts, hcclReports, early, told>>

OpKey_Short(id) == 1
OpKey(id) == id % OpKeys

RecordHcclOp(t) ==
    LET h == hccl[t] IN
    /\ h.pc = "record"
    /\ markId2HcclOp' = PutAt(markId2HcclOp, OpKey(h.id), [id |-> h.id, shape |-> h.shape, thread |-> t, start |-> NoStart])
    /\ hccl' = [hccl EXCEPT ![t].pc = "end"]
    /\ UNCHANGED <<domainVars, markVars, hcclOn, innerMarkIds, counts, hcclReports, early, told>>

(* InnerDeviceEndA, when the call has returned; the id stays.                *)
InnerIdsAfter_Erased(id) == innerMarkIds \ {id}
InnerIdsAfter(id) == innerMarkIds

InnerDeviceEndA(t, ok) ==
    LET id == hccl[t].id IN
    /\ hccl[t].pc = "end" /\ Succeeds(ok) /\ (~ok => id \in innerMarkIds)
    /\ Traces(ok, id \in innerMarkIds, id, "end")
    /\ told' = IF ok /\ id \in innerMarkIds THEN told \cup {id} ELSE told
    /\ innerMarkIds' = InnerIdsAfter(id)
    /\ hccl' = [hccl EXCEPT ![t] = IdleHccl]
    /\ UNCHANGED <<domainVars, markerOn, marker, gMarkId, contexts, hostBase, deviceBase, deviceContexts, reader, marks, ranges,
                   hcclOn, markId2HcclOp, counts, hcclReports, early>>

----------------------------------------------------------------------------
(* RecordHcclMarker: RecordStartMarker and ReportHcclData, under one lock.   *)
(* The bandwidth of an alltoallv is reckoned from the caller's array as it   *)
(* is now. A rank size that was not asked for is 0, and so is the bandwidth. *)
CountsRead(op) == IF op.shape = "alltoallv" THEN counts[op.thread] ELSE op.id
RankSize(op) == IF op.shape \in RankedShapes THEN op.id ELSE 0
Reckoned(op, end) == [op |-> op, end |-> end, counted |-> CountsRead(op), ranks |-> RankSize(op)]

HcclStarts(id, key) ==
    IF key \in DOMAIN markId2HcclOp
    THEN markId2HcclOp' = [markId2HcclOp EXCEPT ![key].start = id] /\ UNCHANGED <<hcclReports, early>>
    ELSE early' = early \cup {id} /\ UNCHANGED <<markId2HcclOp, hcclReports>>

HcclEnds(id, key) ==
    /\ IF key \in DOMAIN markId2HcclOp
       THEN /\ hcclReports' = IF hcclOn THEN Append(hcclReports, Reckoned(markId2HcclOp[key], id)) ELSE hcclReports
            /\ markId2HcclOp' = DropAt(markId2HcclOp, key)
       ELSE UNCHANGED <<hcclReports, markId2HcclOp>>
    /\ UNCHANGED early

RecordHcclMarker ==
    LET trace == Head(traces) IN
    /\ reader.pc = "deliver" /\ reader.inner
    /\ reader' = IdleReader /\ traces' = Tail(traces)
    /\ IF trace.flag = "start" THEN HcclStarts(trace.id, trace.id) ELSE HcclEnds(trace.id, trace.id)
    /\ UNCHANGED <<domainVars, markerOn, marker, gMarkId, contexts, hostBase, deviceBase, deviceContexts, marks, ranges, failures,
                   hcclOn, hccl, innerMarkIds, counts, told>>

(* A start that comes before its id is kept goes the way of a client's mark. *)
DeviceReadsAny ==
    /\ DeviceReads(Head(traces).id \in innerMarkIds)
    /\ early' = IF Head(traces).flag = "start" /\ Head(traces).id \notin innerMarkIds THEN early \cup {Head(traces).id} ELSE early
    /\ UNCHANGED <<hcclOn, hccl, innerMarkIds, markId2HcclOp, counts, hcclReports, told>>

HcclMarksNext ==
    \/ SwitchesHccl
    \/ \E t \in HcclThreads :
          \/ \E shape \in Shapes, ok \in BOOLEAN : InnerDeviceStartA(t, shape, ok)
          \/ InsertsInner(t) \/ RecordHcclOp(t) \/ \E ok \in BOOLEAN : InnerDeviceEndA(t, ok)
    \/ DeviceReadsAny \/ RecordHcclMarker
    \/ (DomainsNext \/ DeviceDelivers \/ InitDeviceTimeInfo) /\ UNCHANGED hcclVars

(* All of it: operations beside a client's marks and ranges.                 *)
MarksNext ==
    \/ HcclMarksNext
    \/ /\ SwitchesMarker \/ InitHostTimeInfo \/ \E t \in MarkThreads : MstxRangeStart(t) \/ MstxRangeEnd(t)
       /\ UNCHANGED hcclVars

MarksSpec == HcclInit /\ [][MarksNext]_<<domainVars, markVars, hcclVars>>

----------------------------------------------------------------------------
(* An operation's record carries the times of its own inner range, unless    *)
(* the device's start came back before the host had entered the operation,   *)
(* and a bandwidth of its own counts, unless the caller of an alltoallv has  *)
(* filled the array again, and of its own communicator's rank size, which a  *)
(* scatter has not asked for: its bandwidth is 0.                            *)
HcclOwn ==
    \A i \in DOMAIN hcclReports :
        LET r == hcclReports[i] IN
        /\ r.end = r.op.id
        /\ r.op.id \notin early => r.op.start = r.op.id
        /\ r.counted = r.op.id \/ (r.op.shape = "alltoallv" /\ counts[r.op.thread] # r.op.id)
        /\ r.op.shape \in RankedShapes => r.ranks = r.op.id
        /\ r.op.shape = "scatter" => r.ranks = 0

(* Every operation whose end the device was told of has one record, or none  *)
(* if the kind was switched off meanwhile, once the device has reported.     *)
HcclComplete ==
    /\ \A i, j \in DOMAIN hcclReports : hcclReports[i].op.id = hcclReports[j].op.id => i = j
    /\ traces = <<>> => \A id \in told : OpKey(id) \notin DOMAIN markId2HcclOp \/ markId2HcclOp[OpKey(id)].id # id

(* A client sees no mark that is not its own, unless it came back at once.   *)
InnerHidden == \A i \in DOMAIN marks : marks[i].source = "device" /\ marks[i].kept /\ marks[i].id \notin early => marks[i].id \notin told

(* HCCL operations get their own times, all of them, and the marks made for  *)
(* them stay hidden.                                                         *)
HcclInv == HcclTypeOK /\ HcclOwn /\ HcclComplete /\ InnerHidden

(* What the documents promise of each record, "Bandwidth (GB/s)" in          *)
(* docs/en/user_guide/activity_api.md: that of a collective is reckoned with *)
(* the size of its communicator.                                             *)
BandwidthReckoned == \A i \in DOMAIN hcclReports : hcclReports[i].op.shape \in CollectiveShapes => hcclReports[i].ranks = hcclReports[i].op.id
=============================================================================
