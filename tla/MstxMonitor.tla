----------------------------- MODULE MstxMonitor -----------------------------
(***************************************************************************)
(* What MstxMonitor does with the markers it is called back with: an       *)
(* instant goes to the user as it is, and the two markers of a range wait  *)
(* for each other in data_dict, under the range's id and source.  The      *)
(* library completes buffers on threads of their own, and the interpreter  *)
(* may switch threads between any two steps.                               *)
(***************************************************************************)
EXTENDS Naturals, FiniteSets

CONSTANTS
    Callers,       \* threads that complete buffers
    RangeIds,      \* ids of ranges
    InstantIds,    \* ids of instants
    Sources        \* source kinds: a range's markers come from the host and from a device

Flags == {"start", "end", "instant"}
MarkersOf(ids, flags) == [id: ids, source: Sources, flag: flags]
MarkerData == MarkersOf(RangeIds, {"start", "end"}) \cup MarkersOf(InstantIds, {"instant"})
Unset == [id |-> 0, source |-> "none", flag |-> "none"]

ASSUME MonitorAssumption ==
    RangeIds \cup InstantIds \subseteq Nat \ {0} /\ RangeIds \cap InstantIds = {} /\ "none" \notin Sources

VARIABLES
    coming,        \* markers in buffers that are not handed over yet
    caller,        \* a thread's place in _append_data, and the marker and the range it has
    dataDict,      \* data_dict: an entry's two markers, by id and source
    marked,        \* instants that the user has seen
    reported,      \* ranges that the user has been called with
    raised         \* ranges whose callback raised an exception

monitorVars == <<coming, caller, dataDict, marked, reported, raised>>

Keys == (RangeIds \cup InstantIds) \X Sources
EmptyEntry == [start |-> Unset, end |-> Unset]
Entries == [start: MarkerData \cup {Unset}, end: MarkerData \cup {Unset}]
Idle == [at |-> "idle", marker |-> Unset, range |-> EmptyEntry]

MonitorTypeOK ==
    /\ coming \subseteq MarkerData
    /\ caller \in [Callers -> [at: {"idle", "store", "test", "assemble", "call", "pop"}, marker: MarkerData \cup {Unset}, range: Entries]]
    /\ DOMAIN dataDict \subseteq Keys /\ \A k \in DOMAIN dataDict : dataDict[k] \in Entries
    /\ marked \subseteq MarkerData /\ reported \subseteq Entries /\ raised \subseteq Entries

MonitorInit ==
    /\ coming = MarkerData /\ caller = [t \in Callers |-> Idle] /\ dataDict = [k \in {} |-> EmptyEntry]
    /\ marked = {} /\ reported = {} /\ raised = {}

UniqueId_IdOnly(marker) == <<marker.id, CHOOSE s \in Sources : TRUE>>
UniqueId(marker) == <<marker.id, marker.source>>

(* data_dict[unique_id] makes the entry when there is none.                  *)
EntryOf(k) == IF k \in DOMAIN dataDict THEN dataDict[k] ELSE EmptyEntry
SetsEntry(k, e) == dataDict' = [j \in DOMAIN dataDict \cup {k} |-> IF j = k THEN e ELSE dataDict[j]]
Key(t) == UniqueId(caller[t].marker)

Stored_Alone(e, marker) == [EmptyEntry EXCEPT ![marker.flag] = marker]
Stored(e, marker) == [e EXCEPT ![marker.flag] = marker]

IsWhole(e) == e.start # Unset /\ e.end # Unset

CallsMonitor(t, marker) ==
    /\ caller[t] = Idle /\ marker \in coming /\ coming' = coming \ {marker}
    /\ caller' = [caller EXCEPT ![t] = [at |-> IF marker.flag = "instant" THEN "test" ELSE "store", marker |-> marker, range |-> EmptyEntry]]
    /\ marked' = IF marker.flag = "instant" THEN marked \cup {marker} ELSE marked
    /\ UNCHANGED <<dataDict, reported, raised>>

StoresMarker(t) ==
    /\ caller[t].at = "store" /\ caller' = [caller EXCEPT ![t].at = "test"]
    /\ SetsEntry(Key(t), Stored(EntryOf(Key(t)), caller[t].marker))
    /\ UNCHANGED <<coming, marked, reported, raised>>

TestsEntry(t) ==
    /\ caller[t].at = "test"
    /\ caller' = [caller EXCEPT ![t] = IF IsWhole(EntryOf(Key(t))) THEN [@ EXCEPT !.at = "assemble"] ELSE Idle]
    /\ SetsEntry(Key(t), EntryOf(Key(t)))
    /\ UNCHANGED <<coming, marked, reported, raised>>

(* The entry is read again: when another thread has popped it meanwhile, the *)
(* markers are None and the exception ends the call.                         *)
AssembleStartEnd(t) ==
    /\ caller[t].at = "assemble"
    /\ LET e == EntryOf(Key(t)) IN
       /\ SetsEntry(Key(t), e)
       /\ caller' = [caller EXCEPT ![t] = IF IsWhole(e) THEN [@ EXCEPT !.at = "call", !.range = e] ELSE Idle]
    /\ UNCHANGED <<coming, marked, reported, raised>>

CallsUser(t) ==
    /\ caller[t].at = "call" /\ reported' = reported \cup {caller[t].range}
    /\ \/ caller' = [caller EXCEPT ![t].at = "pop"] /\ UNCHANGED raised
       \/ caller' = [caller EXCEPT ![t] = Idle] /\ raised' = raised \cup {caller[t].range}
    /\ UNCHANGED <<coming, dataDict, marked>>

PopsEntry(t) ==
    /\ caller[t].at = "pop" /\ caller' = [caller EXCEPT ![t] = Idle]
    /\ dataDict' = [k \in DOMAIN dataDict \ {Key(t)} |-> dataDict[k]]
    /\ UNCHANGED <<coming, marked, reported, raised>>

MonitorNext ==
    \E t \in Callers :
        \/ \E marker \in coming : CallsMonitor(t, marker)
        \/ StoresMarker(t) \/ TestsEntry(t) \/ AssembleStartEnd(t) \/ CallsUser(t) \/ PopsEntry(t)

MonitorSpec == MonitorInit /\ [][MonitorNext]_monitorVars

----------------------------------------------------------------------------
(* A range that the user sees is made of the two markers of one range and of *)
(* one source.                                                               *)
RangesMatch ==
    \A e \in reported : e.start.flag = "start" /\ e.end.flag = "end" /\ <<e.start.id, e.start.source>> = <<e.end.id, e.end.source>>

(* However threads share the markers of a range and whichever comes first,   *)
(* once both have been handed over the user has seen the range, and none of  *)
(* them is kept, unless the user's callback raised an exception.             *)
RangesReported ==
    (coming = {} /\ \A t \in Callers : caller[t] = Idle) =>
        \A id \in RangeIds, s \in Sources :
            /\ \E e \in reported : e.start.id = id /\ e.start.source = s
            /\ (\A e \in raised : <<e.start.id, e.start.source>> # <<id, s>>) => EntryOf(<<id, s>>) = EmptyEntry

(* The ranges a user sees are whole, and each is seen.                       *)
RangesInv == MonitorTypeOK /\ RangesMatch /\ RangesReported
=============================================================================
