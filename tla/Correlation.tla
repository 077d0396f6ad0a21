---------------------------- MODULE Correlation ----------------------------
(***************************************************************************)
(* The ids that join records: ContextManager gives every launch a fresh    *)
(* one and keeps the last of each thread, from which the record of an API  *)
(* call takes its own; ExternalCorrelationReporter writes one record per   *)
(* kind of region that is open when an id is given.                        *)
(* A thread's calls nest by level, and a kernel's track is reported inside *)
(* a runtime call; a call is its number, in the order they begin.          *)
(***************************************************************************)
EXTENDS Integers, Sequences, FiniteSetsExt

CONSTANTS
    CallThreads,   \* threads that call the API
    CallLevels,    \* the levels of the calls, outermost first
    Regions,       \* the kinds of external regions
    MaxApiCalls,   \* a bound: calls
    MaxIds,        \* a bound: ids given
    MaxOpened,     \* a bound: regions opened
    MaxFailures    \* a bound: reports whose Record finds no buffer

ASSUME CorrelationAssumption ==
    /\ CallLevels \subseteq 1 .. 4
    /\ {MaxApiCalls, MaxIds, MaxOpened, MaxFailures} \subseteq Nat

VARIABLES
    correlationId,    \* correlationId_
    threadIds,        \* threadCorrelationIdInfo_
    external,         \* externalCorrelationMap: the open regions of each kind, and who opened them
    enabled,          \* of the kinds that decide whether an id is given and reported
    caller,           \* a thread: its open calls, its report under way and its CannThreadCache
    launches,         \* every id given: to whom, for what, in which calls and regions
    written,          \* what was handed to Record, or queued for it
    spent             \* how much of each bound is used

corrVars == <<correlationId, threadIds, external, enabled, caller, launches, written, spent>>

MSPTI_INVALID_CORRELATION_ID == 0
Levels == <<"ACL", "NODE", "HCCL", "RUNTIME">>
FreeCaller == [calls |-> <<>>, pc |-> "free", for |-> "KERNEL", id |-> MSPTI_INVALID_CORRELATION_ID,
               lastTask |-> {}, lastCommunication |-> {}]

At(t, pc) == caller[t].pc = pc
Innermost(t) == caller[t].calls[Len(caller[t].calls)]
InCall(t, level) == caller[t].calls # <<>> /\ Levels[Innermost(t).level] = level
OpenCalls(t) == {caller[t].calls[i].number : i \in DOMAIN caller[t].calls}
Shut(calls) == SubSeq(calls, 1, Len(calls) - 1)
Continue(t, pc) == caller' = [caller EXCEPT ![t].pc = pc]
Entry(kind, t, id, call) == [kind |-> kind, thread |-> t, id |-> id, call |-> call]

CorrelationInit ==
    /\ correlationId = 1 /\ threadIds = [t \in CallThreads |-> MSPTI_INVALID_CORRELATION_ID]
    /\ external = [x \in Regions |-> <<>>]
    /\ enabled \in SUBSET {"KERNEL", "COMMUNICATION", "EXTERNAL"}
    /\ caller = [t \in CallThreads |-> FreeCaller]
    /\ launches = {} /\ written = {} /\ spent = [calls |-> 0, opened |-> 0, failures |-> 0]

----------------------------------------------------------------------------
(* External regions, under mapMtx_; the map holds a kind while its stack     *)
(* is not empty.                                                             *)

PushExternalCorrelationId(t, x) ==
    /\ At(t, "free") /\ spent.opened < MaxOpened
    /\ spent' = [spent EXCEPT !.opened = @ + 1]
    /\ external' = [external EXCEPT ![x] = Append(@, [id |-> spent.opened + 1, by |-> t])]
    /\ UNCHANGED <<correlationId, threadIds, enabled, caller, launches, written>>

PopExternalCorrelationId(t, x) ==
    /\ At(t, "free") /\ external[x] # <<>>
    /\ external' = [external EXCEPT ![x] = Shut(@)]
    /\ UNCHANGED <<correlationId, threadIds, enabled, caller, launches, written, spent>>

----------------------------------------------------------------------------
(* UpdateAndReportCorrelationId: an id, the record of each open region, and  *)
(* only then the thread's entry.  A kernel's track and a collective's node   *)
(* launch ask for one; `for` tells them apart.  (One faulty variant gives    *)
(* the same id again.)                                                       *)

TakesId_Unincremented(t, for) ==
    /\ correlationId <= MaxIds /\ correlationId' = correlationId
    /\ caller' = [caller EXCEPT ![t].pc = "external", ![t].for = for, ![t].id = correlationId]
TakesId(t, for) ==
    /\ correlationId <= MaxIds /\ correlationId' = correlationId + 1
    /\ caller' = [caller EXCEPT ![t].pc = "external", ![t].for = for, ![t].id = correlationId]

(* ReportExternalCorrelationId holds mapMtx_ for all of its records; the     *)
(* first that Record refuses ends it.                                        *)
RegionReported_Outermost(stack) == Head(stack).id
RegionReported(stack) == stack[Len(stack)].id

ReportsExternal(t) ==
    /\ At(t, "external") /\ Continue(t, "note")
    /\ LET inside == {x \in Regions : external[x] # <<>>}
           told(x) == [kind |-> "EXTERNAL", thread |-> t, id |-> caller[t].id,
                       region |-> x, externalId |-> RegionReported(external[x])]
           launch(cut) == [id |-> caller[t].id, thread |-> t, for |-> caller[t].for,
                           within |-> OpenCalls(t), regions |-> external, cut |-> cut]
       IN \E done \in SUBSET (IF "EXTERNAL" \in enabled THEN inside ELSE {}) :
            LET cut == "EXTERNAL" \in enabled /\ done # inside
            IN /\ cut => spent.failures < MaxFailures
               /\ spent' = [spent EXCEPT !.failures = IF cut THEN @ + 1 ELSE @]
               /\ written' = written \cup {told(x) : x \in done}
               /\ launches' = launches \cup {launch(cut)}
    /\ UNCHANGED <<correlationId, threadIds, external, enabled>>

(* UpdateAndReportCorrelationId ends with the entry of the thread that the   *)
(* report names.                                                             *)
NotesId(t) ==
    /\ At(t, "note") /\ Continue(t, "push")
    /\ threadIds' = [threadIds EXCEPT ![t] = caller[t].id]
    /\ UNCHANGED <<correlationId, external, enabled, launches, written, spent>>

GetCorrelationId_Latest(t) == correlationId - 1
GetCorrelationId(t) == threadIds[t]

----------------------------------------------------------------------------
(* Calls and what is reported inside them *)

BeginCall(t, level) ==
    /\ At(t, "free") /\ spent.calls < MaxApiCalls
    /\ \A i \in DOMAIN caller[t].calls : caller[t].calls[i].level < level
    /\ spent' = [spent EXCEPT !.calls = @ + 1]
    /\ caller' = [caller EXCEPT ![t].calls = Append(@, [number |-> spent.calls + 1, level |-> level])]
    /\ UNCHANGED <<correlationId, threadIds, external, enabled, launches, written>>

(* The compact-information callback: ReportRtTaskTrack queues the kernel     *)
(* with what GetCorrelationId finds, and AppendTsTrack keeps the track.      *)
AppendTsTrack(t, record) ==
    IF "COMMUNICATION" \in enabled THEN [record EXCEPT !.lastTask = OpenCalls(t)] ELSE record

TaskTrack(t, isKernel) ==
    /\ At(t, "free") /\ InCall(t, "RUNTIME")
    /\ IF "KERNEL" \in enabled /\ isKernel
       THEN TakesId(t, "KERNEL")
       ELSE /\ caller' = [caller EXCEPT ![t] = AppendTsTrack(t, @)]
            /\ UNCHANGED correlationId
    /\ UNCHANGED <<threadIds, external, enabled, launches, written, spent>>

QueuesKernel(t) ==
    /\ At(t, "push") /\ caller[t].for = "KERNEL"
    /\ written' = written \cup {Entry("KERNEL", t, GetCorrelationId(t), Innermost(t).number)}
    /\ caller' = [caller EXCEPT ![t] = AppendTsTrack(t, [@ EXCEPT !.pc = "free"])]
    /\ UNCHANGED <<correlationId, threadIds, external, enabled, launches, spent>>

(* The API callback of each level.  A runtime or ACL call is written; a      *)
(* collective's call is kept if it holds the thread's last track; a node     *)
(* launch is written as NODE_API first, may then get an id for the           *)
(* collective it holds, and is written as API last.                          *)
Leaves(t, record) == [record EXCEPT !.calls = SubSeq(@, 1, Len(@) - 1)]
ApiKind(level) == CASE level = "ACL" -> "ACL_API" [] level = "NODE" -> "NODE_API" [] OTHER -> "RUNTIME_API"

ReportApi(t, level) ==
    /\ level \in {"ACL", "RUNTIME"} /\ At(t, "free") /\ InCall(t, level)
    /\ written' = written \cup {Entry(ApiKind(level), t, GetCorrelationId(t), Innermost(t).number)}
    /\ caller' = [caller EXCEPT ![t] = Leaves(t, @)]
    /\ UNCHANGED <<correlationId, threadIds, external, enabled, launches, spent>>

AppendCommunication(t) ==
    /\ At(t, "free") /\ InCall(t, "HCCL")
    /\ LET held == "COMMUNICATION" \in enabled /\ Innermost(t).number \in caller[t].lastTask
           left == Leaves(t, caller[t])
       IN caller' = [caller EXCEPT ![t] = IF held THEN [left EXCEPT !.lastCommunication = OpenCalls(t)] ELSE left]
    /\ UNCHANGED <<correlationId, threadIds, external, enabled, launches, written, spent>>

EndNodeLaunch(t) ==
    /\ At(t, "free") /\ InCall(t, "NODE")
    /\ written' = written \cup {Entry("NODE_API", t, GetCorrelationId(t), Innermost(t).number)}
    /\ IF "COMMUNICATION" \in enabled /\ Innermost(t).number \in caller[t].lastCommunication
       THEN TakesId(t, "COMMUNICATION")
       ELSE Continue(t, "api") /\ UNCHANGED correlationId
    /\ UNCHANGED <<threadIds, external, enabled, launches, spent>>

(* AppendApi2TaskInfo: the operation gets the id that was returned.          *)
AppendApi2TaskInfo(t) ==
    /\ At(t, "push") /\ caller[t].for = "COMMUNICATION" /\ Continue(t, "api")
    /\ written' = written \cup {Entry("COMMUNICATION", t, caller[t].id, Innermost(t).number)}
    /\ UNCHANGED <<correlationId, threadIds, external, enabled, launches, spent>>

ReportNodeApi(t) ==
    /\ At(t, "api")
    /\ written' = written \cup {Entry("API", t, GetCorrelationId(t), Innermost(t).number)}
    /\ caller' = [caller EXCEPT ![t] = Leaves(t, [@ EXCEPT !.pc = "free"])]
    /\ UNCHANGED <<correlationId, threadIds, external, enabled, launches, spent>>

CorrelationNext ==
    \E t \in CallThreads :
        \/ \E x \in Regions : PushExternalCorrelationId(t, x) \/ PopExternalCorrelationId(t, x)
        \/ \E level \in CallLevels : BeginCall(t, level)
        \/ \E level \in {"ACL", "RUNTIME"} : ReportApi(t, level)
        \/ \E isKernel \in BOOLEAN : TaskTrack(t, isKernel)
        \/ ReportsExternal(t) \/ NotesId(t) \/ QueuesKernel(t)
        \/ AppendCommunication(t) \/ EndNodeLaunch(t) \/ AppendApi2TaskInfo(t) \/ ReportNodeApi(t)

CorrelationSpec == CorrelationInit /\ [][CorrelationNext]_corrVars
----------------------------------------------------------------------------
(* Properties *)

CorrelationTypeOK ==
    /\ correlationId \in 1 .. MaxIds + 1 /\ threadIds \in [CallThreads -> 0 .. MaxIds]
    /\ \A t \in CallThreads : Len(caller[t].calls) <= Len(Levels) /\ caller[t].id \in 0 .. MaxIds
    /\ \A w \in written : w.thread \in CallThreads /\ w.id \in 0 .. MaxIds

(* No two launches, of whatever threads, are given one id.                   *)
IdsDiffer == \A l, m \in launches : l.id = m.id => l = m

InFlight(l) == ~At(l.thread, "free") /\ caller[l.thread].id = l.id

(* Each kernel's record has the id that its own launch was given, although   *)
(* the id is looked up again after it was stored: no launch is left without  *)
(* a record and none has two.                                                *)
KernelsKeepTheirs ==
    \A l \in launches : l.for = "KERNEL" /\ ~InFlight(l) =>
        Cardinality({w \in written : w.kind = "KERNEL" /\ w.id = l.id /\ w.thread = l.thread
                                       /\ w.call \in l.within}) = 1

(* The launches a call's record may name: those made before it was written.  *)
(* A collective's id comes after the NODE_API record of its node launch.     *)
LaunchesIn(w) ==
    {l \in launches : /\ w.call \in l.within
                      /\ w.kind = "NODE_API" => l.for = "KERNEL"}

(* The record of a call that launched something has the id of the last of    *)
(* its launches, and the record of one that launched nothing an earlier id   *)
(* of its own thread: never the id of another thread's launch.               *)
CallsNameTheirs ==
    \A w \in {w \in written : w.kind \in {"ACL_API", "NODE_API", "RUNTIME_API", "API"}} :
        IF LaunchesIn(w) # {}
        THEN w.id = Max({l.id : l \in LaunchesIn(w)})
        ELSE w.id = MSPTI_INVALID_CORRELATION_ID \/ \E l \in launches : l.id = w.id /\ l.thread = w.thread

(* A call that launched inside a region which only its thread is in is       *)
(* joined to the innermost one: when the call's record is written, the       *)
(* external record with its id is there, unless Record had refused one.      *)
RegionsJoined ==
    \A w \in {w \in written : w.kind \in {"RUNTIME_API", "API"}}, l \in launches, x \in Regions :
        /\ "EXTERNAL" \in enabled /\ l \in LaunchesIn(w) /\ l.id = w.id /\ ~l.cut
        /\ l.regions[x] # <<>> /\ \A i \in DOMAIN l.regions[x] : l.regions[x][i].by = l.thread
        => \E e \in written : /\ e.kind = "EXTERNAL" /\ e.id = w.id /\ e.region = x
                              /\ e.externalId = Max({region.id : region \in {l.regions[x][i] : i \in DOMAIN l.regions[x]}})

(* What the correlation ids promise, whatever the threads do.                *)
CorrelationInv ==
    CorrelationTypeOK /\ IdsDiffer /\ KernelsKeepTheirs /\ CallsNameTheirs /\ RegionsJoined

(* The development guide, 4.3.3: an API call's id is passed on to every      *)
(* kernel that the call triggers.                                            *)
SharedByCall ==
    \A a \in written, l \in launches :
        a.kind = "API" /\ l.for = "KERNEL" /\ a.call \in l.within => l.id = a.id

(* mspti_activity.h:986: a region is the calling thread's.                   *)
RegionsOfCaller ==
    \A l \in launches, x \in Regions :
        l.regions[x] # <<>> => l.regions[x][Len(l.regions[x])].by = l.thread
=============================================================================
