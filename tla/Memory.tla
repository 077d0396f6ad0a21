------------------------------- MODULE Memory -------------------------------
(***************************************************************************)
(* Allocations, releases and copies of device memory, reported in one of   *)
(* two ways.  A runtime that reports memory itself hands each operation to *)
(* MemoryParser, which keeps it under its thread until the API call around *)
(* it reports its own times.  For an older runtime the wrappers of         *)
(* acl_mem_inject.cpp report, when the call returns (MemoryReporter).      *)
(*                                                                         *)
(* Both learn the size of a released block from the table of allocations,  *)
(* whose lock is another one than that of the records.                     *)
(***************************************************************************)
EXTENDS Integers, Sequences, FiniteSets, SequencesExt

CONSTANTS
    MemThreads,   \* application threads
    Addresses,    \* addresses the runtime hands out, again and again
    Sizes,        \* sizes of blocks, positive
    MemKinds,     \* kinds of record among "memory" and "memcpy"
    MaxDepth,     \* a bound: API calls inside each other
    MaxTime,      \* a bound: readings of the clock in a thread
    MaxSwitches   \* a bound: times the client turns a kind on or off

ASSUME MemoryAssumption ==
    /\ Addresses \subseteq Nat \ {0} /\ Sizes \subseteq Nat \ {0}
    /\ MemKinds \subseteq {"memory", "memcpy"} /\ {MaxDepth, MaxTime, MaxSwitches} \subseteq Nat

VARIABLES
    supported,     \* IsRuntimeSupportMemoryReport(), read once
    memEnabled,    \* activity_switch_ of these kinds
    heap,          \* the real blocks: address -> size, 0 for none
    addrBytes,     \* addrBytesMap_, or addrBytesInfo_: address -> size, 0 for none
    dataCache,     \* kind -> thread -> records that wait for their API call
    calls,         \* thread -> the API calls it is in, innermost last
    doing,         \* thread -> the report it is in the middle of
    clock,         \* thread -> its last reading of the clock
    memOut,        \* the records given to ActivityManager::Record
    \* ghosts
    made,          \* the records entered in dataCache
    reported,      \* the API calls that have been reported
    blurred,       \* addresses whose operations were reported out of order, or not at all
    switches       \* how often a kind was turned on or off

memVars == <<supported, memEnabled, heap, addrBytes, dataCache, calls, doing, clock,
             memOut, made, reported, blurred, switches>>

NoBlock == 0
Idle == [step |-> "idle"]
Steps == {"idle", "report", "map", "push", "api"}
Readings == 1 .. MaxTime

MemoryInit ==
    /\ supported \in BOOLEAN
    /\ memEnabled \in SUBSET MemKinds
    /\ heap = [a \in Addresses |-> NoBlock] /\ addrBytes = [a \in Addresses |-> NoBlock]
    /\ dataCache = [k \in MemKinds |-> [t \in MemThreads |-> <<>>]]
    /\ calls = [t \in MemThreads |-> <<>>] /\ doing = [t \in MemThreads |-> Idle]
    /\ clock = [t \in MemThreads |-> 0]
    /\ memOut = {} /\ made = {} /\ reported = {} /\ blurred = {} /\ switches = 0

Doing(t, step) == doing[t].step = step
Now(t) == clock[t] + 1
Ticks(t) == Now(t) \in Readings /\ clock' = [clock EXCEPT ![t] = @ + 1]

(* The client: Register and UnRegister of a kind; neither touches the parser. *)
SwitchesKind(k) ==
    /\ switches < MaxSwitches
    /\ memEnabled' = IF k \in memEnabled THEN memEnabled \ {k} ELSE memEnabled \union {k}
    /\ switches' = switches + 1
    /\ UNCHANGED <<supported, heap, addrBytes, dataCache, calls, doing, clock, memOut, made,
                   reported, blurred>>

(* The runtime enters an API call of the white list, perhaps inside another. *)
BeginApi(t, k) ==
    /\ supported /\ Doing(t, "idle") /\ Len(calls[t]) < MaxDepth /\ Ticks(t)
    /\ calls' = [calls EXCEPT ![t] = Append(@, [kind |-> k, begin |-> Now(t), since |-> switches])]
    /\ UNCHANGED <<supported, memEnabled, heap, addrBytes, dataCache, doing, memOut, made,
                   reported, blurred, switches>>

-----------------------------------------------------------------------------
(* The operations: the runtime does the work, then it is reported.           *)

InReport(a) == {u \in MemThreads : ~Doing(u, "idle") /\ doing[u].kind = "memory" /\ doing[u].address = a}
Touching(t, a) == InReport(a) \ {t}

Performs(t, kind, op, a, size, freed) ==
    /\ Doing(t, "idle") /\ Ticks(t)
    /\ doing' = [doing EXCEPT ![t] =
            [step |-> "report", kind |-> kind, op |-> op, address |-> a, bytes |-> size,
             freed |-> freed, sure |-> TRUE, time |-> Now(t)]]
    /\ UNCHANGED <<supported, memEnabled, addrBytes, dataCache, calls, memOut, made, reported, switches>>

Allocates(t, a, size) ==
    /\ "memory" \in MemKinds /\ heap[a] = NoBlock
    /\ Performs(t, "memory", "allocation", a, size, NoBlock)
    /\ heap' = [heap EXCEPT ![a] = size]
    /\ blurred' = IF Touching(t, a) = {} THEN blurred ELSE blurred \union {a}

(* An older runtime's call that failed is reported all the same, with what *)
(* the caller's pointer held before.                                       *)
FailsToAllocate(t, a, size) ==
    /\ ~supported /\ "memory" \in MemKinds
    /\ Performs(t, "memory", "allocation", a, size, NoBlock)
    /\ blurred' = blurred \union {a}
    /\ UNCHANGED heap

Releases(t, a) ==
    /\ "memory" \in MemKinds /\ heap[a] # NoBlock
    /\ Performs(t, "memory", "release", a, 0, heap[a])
    /\ heap' = [heap EXCEPT ![a] = NoBlock]
    /\ blurred' = IF Touching(t, a) = {} THEN blurred ELSE blurred \union {a}

Copies(t) ==
    /\ "memcpy" \in MemKinds
    /\ Performs(t, "memcpy", "copy", NoBlock, 0, NoBlock)
    /\ UNCHANGED <<heap, blurred>>

(* ReportMemory and ReportMemcpy read the switch; so do the destructors of *)
(* MemoryRecord and MemcpyRecord.                                          *)
ReportChecks(t) ==
    LET d == doing[t]
    IN  /\ Doing(t, "report")
        /\ \/ /\ d.kind \in memEnabled
              /\ doing' = [doing EXCEPT ![t].step = IF d.kind = "memory" THEN "map" ELSE "push"]
              /\ UNCHANGED blurred
           \/ /\ d.kind \notin memEnabled
              /\ doing' = [doing EXCEPT ![t] = Idle]
              /\ blurred' = IF d.kind = "memory" THEN blurred \union {d.address} ELSE blurred
        /\ UNCHANGED <<supported, memEnabled, heap, addrBytes, dataCache, calls, clock, memOut,
                       made, reported, switches>>

(* Under addrMtx_: an allocation enters its size, whatever the address had; *)
(* a release takes the size out, or keeps the record's when there is none.  *)
KeptBytes_Never(d) == IF addrBytes[d.address] # NoBlock THEN addrBytes[d.address] ELSE d.bytes
KeptBytes(d) == IF d.op = "release" THEN NoBlock ELSE d.bytes
BytesOf_Reported(d) == d.bytes
BytesOf(d) == IF d.op = "release" /\ addrBytes[d.address] # NoBlock THEN addrBytes[d.address] ELSE d.bytes

MapsAddress(t) ==
    LET d == doing[t]
        settled == Touching(t, d.address) = {} /\ heap[d.address] = KeptBytes(d)
    IN  /\ Doing(t, "map")
        /\ addrBytes' = [addrBytes EXCEPT ![d.address] = KeptBytes(d)]
        /\ doing' = [doing EXCEPT ![t].step = "push", ![t].bytes = BytesOf(d),
                                  ![t].sure = d.address \notin blurred]
        /\ blurred' = IF settled THEN blurred \ {d.address} ELSE blurred
        /\ UNCHANGED <<supported, memEnabled, heap, dataCache, calls, clock, memOut, made, reported,
                       switches>>

(* The record enters its thread's queue; it knows when the calls began that *)
(* it is made in.                                                           *)
RecordOf(t) ==
    LET d == doing[t]
        around == {calls[t][i] : i \in DOMAIN calls[t]}
    IN  [thread |-> t, kind |-> d.kind, time |-> d.time, op |-> d.op, bytes |-> d.bytes,
         freed |-> d.freed, sure |-> d.sure, within |-> {c.begin : c \in {c \in around : c.kind = d.kind}}]

QueueOfReport(t) == t

PushesRecord(t) ==
    /\ supported /\ Doing(t, "push")
    /\ dataCache' = [dataCache EXCEPT ![doing[t].kind][QueueOfReport(t)] = Append(@, RecordOf(t))]
    /\ made' = made \union {RecordOf(t)}
    /\ doing' = [doing EXCEPT ![t] = Idle]
    /\ UNCHANGED <<supported, memEnabled, heap, addrBytes, calls, clock, memOut, reported, blurred,
                   switches>>

(* MemoryReporter has the times itself; Record reads the switch once more. *)
ReportsAtOnce(t) ==
    /\ ~supported /\ Doing(t, "push")
    /\ memOut' = IF doing[t].kind \in memEnabled
                 THEN memOut \union {[record |-> RecordOf(t), call |-> NoBlock, quiet |-> FALSE]} ELSE memOut
    /\ doing' = [doing EXCEPT ![t] = Idle]
    /\ UNCHANGED <<supported, memEnabled, heap, addrBytes, dataCache, calls, clock, made, reported,
                   blurred, switches>>

-----------------------------------------------------------------------------
(* The end of an API call. *)

EndApi(t) ==
    /\ supported /\ Doing(t, "idle") /\ calls[t] # <<>> /\ Ticks(t)
    /\ calls' = [calls EXCEPT ![t] = Front(@)]
    /\ doing' = [doing EXCEPT ![t] = IF Last(calls[t]).kind \in memEnabled
                    THEN [step |-> "api", kind |-> Last(calls[t]).kind, call |-> Last(calls[t]),
                          end |-> Now(t), address |-> NoBlock] ELSE Idle]
    /\ UNCHANGED <<supported, memEnabled, heap, addrBytes, dataCache, memOut, made, reported, blurred,
                   switches>>

(* lower_bound at the call's begin and upper_bound at its end.  The records *)
(* in between get the call's times; the older ones go with them.            *)
Covered_All(queue, call, end) == {i \in DOMAIN queue : queue[i].time <= end}
Covered(queue, call, end) == {i \in DOMAIN queue : call.begin <= queue[i].time /\ queue[i].time <= end}
Left_Kept(queue, call, end) == queue
Left(queue, call, end) ==
    LET later == {i \in DOMAIN queue : queue[i].time > end}
    IN  IF later = {} THEN <<>> ELSE SubSeq(queue, Min(later), Len(queue))

RecordApi(t) ==
    LET d == doing[t]
        queue == dataCache[d.kind][t]
        quiet == d.call.since = switches
    IN  /\ Doing(t, "api")
        /\ memOut' = IF d.kind \in memEnabled
                     THEN memOut \union {[record |-> queue[i], call |-> d.call.begin, quiet |-> quiet] :
                                            i \in Covered(queue, d.call, d.end)}
                     ELSE memOut
        /\ dataCache' = [dataCache EXCEPT ![d.kind][t] = Left(queue, d.call, d.end)]
        /\ reported' = reported \union {[thread |-> t, kind |-> d.kind, begin |-> d.call.begin, end |-> d.end,
                                   quiet |-> quiet]}
        /\ doing' = [doing EXCEPT ![t] = Idle]
        /\ UNCHANGED <<supported, memEnabled, heap, addrBytes, calls, clock, made, blurred, switches>>

MemoryNext ==
    \/ \E k \in MemKinds : SwitchesKind(k)
    \/ \E t \in MemThreads :
          \/ \E k \in MemKinds : BeginApi(t, k)
          \/ \E a \in Addresses, size \in Sizes : Allocates(t, a, size) \/ FailsToAllocate(t, a, size)
          \/ \E a \in Addresses : Releases(t, a)
          \/ Copies(t) \/ ReportChecks(t) \/ MapsAddress(t) \/ PushesRecord(t) \/ ReportsAtOnce(t)
          \/ EndApi(t) \/ RecordApi(t)

MemorySpec == MemoryInit /\ [][MemoryNext]_memVars
-----------------------------------------------------------------------------
(* The two locks and the searches are sound only for queues in the order of *)
(* time, and a record is never both waiting and delivered.                  *)
QueuesInOrder ==
    \A k \in MemKinds, t \in MemThreads : LET q == dataCache[k][t] IN
        /\ \A i, j \in DOMAIN q : i < j => q[i].time < q[j].time
        /\ \A i \in DOMAIN q, o \in memOut : o.record # q[i]

(* A record gets the times of a call it was made in and no other call's;    *)
(* while no switch is turned, those of the innermost one.  No record is     *)
(* delivered twice.                                                         *)
InnermostOf(record, begin) == begin \in record.within /\ \A b \in record.within : b <= begin

OwnCall ==
    /\ \A o \in memOut : o.call # NoBlock =>
          /\ o.call \in o.record.within
          /\ o.quiet => InnermostOf(o.record, o.call)
    /\ \A o, p \in memOut : o.record = p.record => o = p

(* When an API call has been reported, every record made in it is delivered, *)
(* unless a switch was turned during the call or a call of the same kind     *)
(* inside it, begun after the record, has thrown the record away.            *)
CallsComplete ==
    \A r \in made, e \in reported :
        (/\ e.thread = r.thread /\ e.kind = r.kind /\ e.quiet /\ InnermostOf(r, e.begin)
         /\ ~\E f \in reported : f.thread = r.thread /\ f.kind = r.kind /\ r.time < f.begin /\ f.end < e.end)
        => \E o \in memOut : o.record = r /\ o.call = e.begin

(* The table has the size of each block, and a release is reported with the *)
(* size of the block it released, for every address whose operations have   *)
(* been reported in the order they happened in since its last settled       *)
(* report: addresses are reused while an earlier report is on its way.      *)
SizesExact ==
    /\ \A a \in Addresses : (a \notin blurred /\ InReport(a) = {})
            => addrBytes[a] = heap[a]
    /\ \A o \in memOut : o.record.op = "release" /\ o.record.sure => o.record.bytes = o.record.freed

MemoryTypeOK ==
    /\ memEnabled \in SUBSET MemKinds /\ blurred \in SUBSET Addresses
    /\ \A t \in MemThreads : doing[t].step \in Steps /\ Len(calls[t]) <= MaxDepth
    /\ addrBytes \in [Addresses -> Sizes \union {NoBlock}]

(* Every memory record is delivered once, with its own call's times and the *)
(* size of its own block (memory_parser.cpp:205-242, 257-295,               *)
(* memory_reporter.cpp:124-155).                                            *)
MemoryInv == MemoryTypeOK /\ QueuesInOrder /\ OwnCall /\ CallsComplete /\ SizesExact
=============================================================================
