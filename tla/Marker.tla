------------------------------- MODULE Marker -------------------------------
(***************************************************************************)
(* The mstx calls and MstxParser.  A thread marks or opens and closes      *)
(* ranges; with a stream the device is told too, and its record comes back *)
(* through the consumer of the channel.  A time is the number of the       *)
(* reading (the "base") that the counter is converted with.                *)
(***************************************************************************)
EXTENDS MstxDomains, SequencesExt

CONSTANTS
    MarkThreads,   \* threads that mark
    MaxMarks,      \* a bound: mark ids
    MaxSyncs,      \* a bound: readings of each clock
    MaxFailures    \* a bound: calls of the runtime or of Record that fail

ASSUME MarkerAssumption == MaxMarks \in Nat /\ MaxSyncs \in Nat /\ MaxFailures \in Nat

VARIABLES
    markerOn,      \* activity_switch_[MSPTI_ACTIVITY_KIND_MARKER]
    marker,        \* a thread inside a call
    gMarkId,       \* gMarkId_
    contexts,      \* markId2Context_
    hostBase,      \* hostTimeInfo_, 0 before the first reading
    deviceBase,    \* devTimeInfo_ of the device, 0 before the first reading
    traces,        \* marks the device has not reported yet
    deviceContexts,\* deviceMarkId2Context_
    reader,        \* the consumer inside ReportMarkDataToActivity
    marks,         \* what was handed to Record, in order, and whether it was kept
    ranges,        \* range ids clients have got
    failures       \* failures so far

markVars == <<markerOn, marker, gMarkId, contexts, hostBase, deviceBase, traces, deviceContexts,
              reader, marks, ranges, failures>>

MarkIds == 1 .. MaxMarks
\* The first call makes the first reading, whatever the bound on readings.
Bases == {0, 1} \cup 1 .. MaxSyncs
Asked == Names \cup {DefaultName}
Flags == {"instantaneous", "start", "end"}
IdleMarker == [pc |-> "idle", flag |-> "instantaneous", asked |-> DefaultName, device |-> FALSE,
               id |-> 0, base |-> 0, clock |-> 0, handle |-> 0, taken |-> FALSE, muted |-> FALSE]
IdleReader == [pc |-> "idle", base |-> 0, inner |-> FALSE]
Markers == [id: MarkIds, flag: Flags, source: {"host", "device"}, name: Asked \cup {""},
            asked: Asked \cup {""}, base: Bases, muted: BOOLEAN, kept: BOOLEAN]

MarkerTypeOK ==
    /\ DomainsTypeOK
    /\ marker \in [MarkThreads -> [pc: {"idle", "name", "report", "record", "context"}, flag: Flags, asked: Asked,
                                   device: BOOLEAN, id: {0} \cup MarkIds, base: Bases, clock: Bases, handle: Nat, taken: BOOLEAN, muted: BOOLEAN]]
    /\ gMarkId \in 0 .. MaxMarks /\ DOMAIN contexts \subseteq MarkIds
    /\ \A i \in DOMAIN contexts : contexts[i] \in [device: BOOLEAN, base: Bases]
    /\ hostBase \in Bases /\ deviceBase \in Bases /\ markerOn \in BOOLEAN
    /\ traces \in Seq([id: MarkIds, flag: Flags])
    /\ DOMAIN deviceContexts \subseteq MarkIds /\ \A i \in DOMAIN deviceContexts : deviceContexts[i] \in 1 .. MaxSyncs
    /\ reader \in [pc: {"idle", "deliver"}, base: Bases, inner: BOOLEAN]
    /\ marks \in Seq(Markers) /\ ranges \subseteq MarkIds /\ failures \in 0 .. MaxFailures

MarkerInit ==
    /\ DomainsInit
    /\ markerOn = TRUE /\ marker = [t \in MarkThreads |-> IdleMarker] /\ gMarkId = 0
    /\ contexts = <<>> /\ hostBase = 0 /\ deviceBase = 0
    /\ traces = <<>> /\ deviceContexts = <<>> /\ reader = IdleReader
    /\ marks = <<>> /\ ranges = {} /\ failures = 0

PutAt(f, x, y) == [z \in DOMAIN f \cup {x} |-> IF z = x THEN y ELSE f[z]]
DropAt(f, x) == [z \in DOMAIN f \ {x} |-> f[z]]

(* A step of another's that fails, within the bound.                         *)
Succeeds(ok) == (~ok => failures < MaxFailures) /\ failures' = failures + (IF ok THEN 0 ELSE 1)

(* ActivityManager::Record keeps what its kind's switch lets in.             *)
Delivers(mark) == marks' = Append(marks, [mark EXCEPT !.kept = markerOn])

----------------------------------------------------------------------------
(* The clients' switches and domains, and ContextManager's readings.         *)
SwitchesMarker == markerOn' = ~markerOn
    /\ UNCHANGED <<domainVars, marker, gMarkId, contexts, hostBase, deviceBase, traces, deviceContexts, reader, marks, ranges, failures>>

ChangesDomains ==
    /\ \/ \E name \in Names : CreateDomainHandle(name) \/ DestroyDomainHandle(name)
       \/ \E name \in Asked, flag \in BOOLEAN : SetMstxDomainEnableStatus(name, flag)
    /\ UNCHANGED markVars

InitHostTimeInfo ==
    /\ hostBase < MaxSyncs /\ hostBase' = hostBase + 1
    /\ UNCHANGED <<domainVars, markerOn, marker, gMarkId, contexts, deviceBase, traces, deviceContexts, reader, marks, ranges, failures>>

InitDeviceTimeInfo ==
    /\ deviceBase < MaxSyncs /\ deviceBase' = deviceBase + 1
    /\ UNCHANGED <<domainVars, markerOn, marker, gMarkId, contexts, hostBase, traces, deviceContexts, reader, marks, ranges, failures>>

----------------------------------------------------------------------------
(* MstxMarkAFunc, MstxRangeStartAFunc, MstxRangeEndFunc and their siblings   *)
(* with a domain: the switch and the domain's, then the domain's name.       *)
HandleOf(asked) == IF asked = DefaultName THEN 0 ELSE held[asked]
IsEnabled(asked) ==
    IF asked = DefaultName THEN IsNameEnabled(asked) ELSE HandleOf(asked) # 0 /\ IsHandleEnabled(HandleOf(asked))

CallBegins(t, flag, asked, device, id) ==
    /\ marker[t].pc = "idle" /\ markerOn /\ IsEnabled(asked)
    /\ marker' = [marker EXCEPT ![t] = [pc |-> "name", flag |-> flag, asked |-> asked, device |-> device, id |-> id, base |-> 0, clock |-> 0,
                                        handle |-> HandleOf(asked), taken |-> FALSE, muted |-> asked \in disabled]]
    /\ UNCHANGED <<domainVars, markerOn, gMarkId, contexts, hostBase, deviceBase, traces, deviceContexts, reader, marks, ranges, failures>>

MstxMark(t) == \E asked \in Asked, device \in BOOLEAN : CallBegins(t, "instantaneous", asked, device, 0)
MstxRangeStart(t) == \E asked \in Asked, device \in BOOLEAN : CallBegins(t, "start", asked, device, 0)
MstxRangeEnd(t) == \E asked \in Asked, id \in ranges : CallBegins(t, "end", asked, FALSE, id)

FindsName(t) ==
    /\ marker[t].pc = "name"
    /\ marker' = IF marker[t].handle = 0 \/ HasName(marker[t].handle)
                 THEN [marker EXCEPT ![t].pc = "report"] ELSE [marker EXCEPT ![t] = IdleMarker]
    /\ UNCHANGED <<domainVars, markerOn, gMarkId, contexts, hostBase, deviceBase, traces, deviceContexts, reader, marks, ranges, failures>>

(* ReportMark and ReportRangeStartA: a time, an id, and the device told.  A  *)
(* range keeps the reading its start is converted with; a range that finds   *)
(* none keeps none, though the first call makes the first reading.           *)
Traces(ok, device, id, flag) == traces' = IF ok /\ device THEN Append(traces, [id |-> id, flag |-> flag]) ELSE traces
FirstReading == IF hostBase = 0 THEN 1 ELSE hostBase

ReportsMark(t, ok) ==
    LET id == gMarkId + 1 IN
    /\ marker[t].pc = "report" /\ marker[t].flag # "end" /\ gMarkId < MaxMarks
    /\ Succeeds(ok) /\ (~ok => marker[t].device)
    /\ gMarkId' = id /\ hostBase' = FirstReading
    /\ Traces(ok, marker[t].device, id, marker[t].flag)
    /\ marker' = [marker EXCEPT ![t] = IF ok THEN [marker[t] EXCEPT !.pc = "record", !.id = id, !.base = FirstReading, !.clock = hostBase]
                                       ELSE IdleMarker]
    /\ UNCHANGED <<domainVars, markerOn, contexts, deviceBase, deviceContexts, reader, marks, ranges>>

(* ReportRangeEnd, under the lock: the context goes unless the device cannot *)
(* be told.                                                                  *)
Forgets_Never(id) == contexts
Forgets(id) == DropAt(contexts, id)
EndBase_Now(id) == hostBase
EndBase(id) == contexts[id].base

ReportsRangeEnd(t, ok) ==
    LET id == marker[t].id IN
    /\ marker[t].pc = "report" /\ marker[t].flag = "end"
    /\ Succeeds(ok) /\ (~ok => id \in DOMAIN contexts /\ contexts[id].device)
    /\ IF id \in DOMAIN contexts /\ ok
       THEN /\ contexts' = Forgets(id)
            /\ Traces(ok, contexts[id].device, id, "end")
            /\ marker' = [marker EXCEPT ![t].pc = "record", ![t].base = EndBase(id)]
       ELSE marker' = [marker EXCEPT ![t] = IdleMarker] /\ UNCHANGED <<contexts, traces>>
    /\ UNCHANGED <<domainVars, markerOn, gMarkId, hostBase, deviceBase, deviceContexts, reader, marks, ranges>>

(* Record, which may find no buffer; then the range is kept, and its id is   *)
(* returned if it was recorded.                                              *)
NameIn(m) ==
    IF m.flag = "end" THEN "" ELSE IF m.handle = 0 THEN DefaultName ELSE domains[m.handle].name

RecordsMark(t, ok) ==
    LET m == marker[t] IN
    /\ m.pc = "record" /\ Succeeds(ok)
    /\ IF ok
       THEN Delivers([id |-> m.id, flag |-> m.flag, source |-> "host", name |-> NameIn(m),
                      asked |-> m.asked, base |-> m.base, muted |-> m.muted, kept |-> TRUE])
       ELSE UNCHANGED marks
    /\ marker' = [marker EXCEPT ![t] = IF m.flag = "start" THEN [m EXCEPT !.pc = "context", !.taken = ok] ELSE IdleMarker]
    /\ UNCHANGED <<domainVars, markerOn, gMarkId, contexts, hostBase, deviceBase, traces, deviceContexts, reader, ranges>>

KeepsRange(t) ==
    LET m == marker[t] IN
    /\ m.pc = "context"
    /\ contexts' = PutAt(contexts, m.id, [device |-> m.device, base |-> m.clock])
    /\ ranges' = IF m.taken THEN ranges \cup {m.id} ELSE ranges
    /\ marker' = [marker EXCEPT ![t] = IdleMarker]
    /\ UNCHANGED <<domainVars, markerOn, gMarkId, hostBase, deviceBase, traces, deviceContexts, reader, marks, failures>>

----------------------------------------------------------------------------
(* ReportMarkDataToActivity: the reading the first record of a range was     *)
(* converted with serves the second too.  "inner" marks are the HCCL's.      *)
DeviceBaseOf_Now(trace) == deviceBase
DeviceBaseOf(trace) == IF trace.id \in DOMAIN deviceContexts THEN deviceContexts[trace.id] ELSE deviceBase
KeepsBase_Always(trace) == trace.flag # "instantaneous"
KeepsBase(trace) == deviceBase # 0 /\ trace.flag # "instantaneous"

DeviceReads(isInner) ==
    LET trace == Head(traces) IN
    /\ reader.pc = "idle" /\ traces # <<>>
    /\ deviceContexts' = CASE trace.id \in DOMAIN deviceContexts -> DropAt(deviceContexts, trace.id)
                           [] OTHER -> IF KeepsBase(trace) THEN PutAt(deviceContexts, trace.id, deviceBase) ELSE deviceContexts
    /\ reader' = [pc |-> "deliver", base |-> DeviceBaseOf(trace), inner |-> isInner]
    /\ UNCHANGED <<domainVars, markerOn, marker, gMarkId, contexts, hostBase, deviceBase, traces, marks, ranges, failures>>

DeviceMark == [id |-> Head(traces).id, flag |-> Head(traces).flag, source |-> "device", name |-> "",
               asked |-> "", base |-> reader.base, muted |-> FALSE, kept |-> TRUE]

DeviceDelivers ==
    /\ reader.pc = "deliver" /\ ~reader.inner
    /\ reader' = IdleReader /\ traces' = Tail(traces) /\ Delivers(DeviceMark)
    /\ UNCHANGED <<domainVars, markerOn, marker, gMarkId, contexts, hostBase, deviceBase, deviceContexts, ranges, failures>>

MarkSteps(t) ==
    \/ FindsName(t) \/ KeepsRange(t)
    \/ \E ok \in BOOLEAN : ReportsMark(t, ok) \/ ReportsRangeEnd(t, ok) \/ RecordsMark(t, ok)

DomainsNext == ChangesDomains \/ \E t \in MarkThreads : MstxMark(t) \/ MarkSteps(t)

MarkerNext ==
    \/ DomainsNext \/ SwitchesMarker \/ InitHostTimeInfo \/ InitDeviceTimeInfo
    \/ \E t \in MarkThreads : MstxRangeStart(t) \/ MstxRangeEnd(t)
    \/ DeviceReads(FALSE) \/ DeviceDelivers

----------------------------------------------------------------------------
(* A range is ended once however many threads end it, and after its start,   *)
(* on the host and on the device.                                            *)
RangesPaired ==
    \A j \in DOMAIN marks : marks[j].flag = "end" =>
        /\ \A i \in DOMAIN marks : i # j => marks[i].id # marks[j].id \/ marks[i].flag # "end" \/ marks[i].source # marks[j].source
        /\ marks[j].source = "host" => \E i \in 1 .. j - 1 : marks[i].id = marks[j].id /\ marks[i].flag = "start" /\ marks[i].source = "host"

(* The two ends of a range are converted with one reading of the clock,      *)
(* though the clock is read again in between, unless the start found none.   *)
OneClock ==
    \A i, j \in DOMAIN marks :
        /\ marks[i].id = marks[j].id /\ marks[i].source = marks[j].source
        /\ marks[i].flag = "start" /\ marks[j].flag = "end"
        => marks[j].base = marks[i].base \/ (marks[i].source = "host" /\ marks[j].base = 0) \/ marks[i].base = 0

(* A call made after its domain was disabled is not recorded, whether the    *)
(* domain was created before or after, unless it was given another one's     *)
(* handle.                                                                   *)
DisabledSilent == \A i \in DOMAIN marks : marks[i].muted /\ marks[i].kept /\ marks[i].flag # "end" => marks[i].name # marks[i].asked

(* No mark is recorded for a domain that the client has disabled.            *)
DisabledRecordsNothing == \A i \in DOMAIN marks : ~(marks[i].muted /\ marks[i].kept)

(* Ranges are whole and of one clock, and a disabled domain is silent.       *)
MarkerInv == RangesPaired /\ OneClock /\ DisabledSilent
=============================================================================
