------------------------------ MODULE PyAdapter ------------------------------
(***************************************************************************)
(* The Python monitors over MsptiAdapter: threads that start and stop      *)
(* monitors, the count of those that run, the pool of buffers and the      *)
(* callbacks, as a client of the library.  Of the library there is what    *)
(* the adapter meets: one subscriber, buffers requested, queued, completed *)
(* by work threads or by a flush, which also waits for the work threads.   *)
(*                                                                         *)
(* start, stop and flush_all let go of the interpreter's lock; the calls   *)
(* that register and unregister a callback keep it.  Every completion of a *)
(* buffer takes it, and gives it up and takes it again while the user's    *)
(* callback runs.                                                          *)
(***************************************************************************)
EXTENDS Naturals, FiniteSets

CONSTANTS
    Monitors,      \* monitor objects, each used by a thread of its own
    KindOf,        \* a monitor's kind
    Buffers,       \* addresses
    BufferSizes,   \* sizes a buffer may be given
    DefaultSize,   \* DEFAULT_BUFFER_SIZE
    MaxBufferSize, \* MAX_BUFFER_SIZE
    UintValues,    \* 2^32: the values of refCnt_
    MaxStarts,     \* a bound: starts, and sessions of another client's
    MaxRequests,   \* a bound: buffers requested
    MaxResizes,    \* a bound: calls that set the size
    Nobody

ASSUME AdapterAssumption ==
    /\ Nobody \notin Monitors \cup Buffers /\ Monitors \cap Buffers = {}
    /\ BufferSizes \subseteq 1 .. MaxBufferSize /\ DefaultSize \in BufferSizes /\ MaxBufferSize \in Nat /\ MaxResizes \in Nat /\ UintValues \in Nat \ {0} /\ MaxStarts \in Nat /\ MaxRequests \in Nat
    /\ MaxStarts < UintValues

Kinds == {KindOf[m] : m \in Monitors}
Actors == Monitors \cup Buffers     \* a work thread goes by its buffer

VARIABLES
    pc,            \* a monitor's place
    frame,         \* the flush it runs: buffers it took, and the last one
    gil,           \* holder of the interpreter's lock
    keeps,         \* monitors whose call keeps that lock
    mtx,           \* holder of mtx_
    refCnt,        \* refCnt_
    pool,          \* allocedBuffers_, freeBuffers_, poolSize_ and bufferSize_
    bufferSize,    \* the adapter's bufferSize
    slot,          \* a kind's callback: a monitor's or Nobody
    refs,          \* references to a monitor's callback that the adapter counts
    calling,       \* completions that run a callback, and whose it is
    subscriber,    \* whose session it is, and holder of subscriber_mutex_
    lib,           \* the library: enabled kinds, current and queued buffers, work threads, ...
    starts, requests, resizes,
    missized,      \* a buffer was handed out with another size than it has
    failed,        \* starts that failed, whose count is not taken back
    overlapped,    \* calls that start and stop monitors have overlapped
    late           \* a thread recorded although the kinds were off

adapterVars == <<pc, frame, gil, keeps, mtx, refCnt, pool, bufferSize, slot, refs, calling, subscriber, lib,
                 starts, requests, resizes, missized, failed, overlapped, late>>

NoFrame == [taken |-> {}, joins |-> {}]
Starting == {"start", "subscribe", "clear", "callbacks"}
Stopping == {"lower", "look", "unsubscribe", "join"}

PyTypeOK ==
    /\ pc \in [Monitors -> Starting \cup Stopping \cup {"out", "register", "registerMtx", "running", "flushMtx", "unregister", "unregisterMtx",
                                                        "drain", "joinWorks", "last", "sizing"}]
    /\ frame \in [Monitors -> [taken: SUBSET Buffers, joins: SUBSET Buffers]]
    /\ gil \in Actors \cup {Nobody} /\ keeps \subseteq Monitors /\ mtx \in Monitors \cup {Nobody}
    /\ refCnt \in 0 .. UintValues - 1
    /\ pool \in [alloced: SUBSET Buffers, free: SUBSET Buffers, size: 0 .. MaxBufferSize, bytes: BufferSizes \cup {0}] /\ bufferSize \in BufferSizes
    /\ slot \in [Kinds -> Monitors \cup {Nobody}] /\ refs \in [Monitors -> Nat]
    /\ calling \in [Actors -> Monitors \cup {Nobody}]
    /\ subscriber \in [who: {"nobody", "adapter", "other"}, lock: Monitors \cup {Nobody}]
    /\ lib \in [kinds: SUBSET Kinds, cur: SUBSET Buffers, co: SUBSET Buffers, works: SUBSET Buffers, mgr: BOOLEAN,
                callbacks: BOOLEAN, passed: BOOLEAN]

AdapterInit ==
    /\ pc = [m \in Monitors |-> "out"] /\ frame = [m \in Monitors |-> NoFrame]
    /\ gil = Nobody /\ keeps = {} /\ mtx = Nobody /\ refCnt = 0
    /\ pool = [alloced |-> {}, free |-> {}, size |-> 0, bytes |-> 0]
    /\ bufferSize = DefaultSize
    /\ slot = [k \in Kinds |-> Nobody] /\ refs = [m \in Monitors |-> 0] /\ calling = [a \in Actors |-> Nobody]
    /\ subscriber = [who |-> "nobody", lock |-> Nobody]
    /\ lib = [kinds |-> {}, cur |-> {}, co |-> {}, works |-> {}, mgr |-> FALSE, callbacks |-> FALSE, passed |-> FALSE]
    /\ starts = 0 /\ requests = 0 /\ resizes = 0 /\ missized = FALSE /\ failed = 0 /\ overlapped = FALSE /\ late = FALSE

Goes(m, to) == pc' = [pc EXCEPT ![m] = to]
Busy(m) == pc[m] \notin {"out", "running"}
GilAsIs == UNCHANGED <<gil, keeps, slot, refs, calling, bufferSize>>
Ghosts == <<starts, requests, resizes, missized, failed, overlapped, late>>
Cleared == [alloced |-> {}, free |-> {}, size |-> 0, bytes |-> 0]

(* The buffers the library has or hands back just now.                       *)
Held == lib.cur \cup lib.co \cup lib.works \cup UNION {frame[m].taken : m \in Monitors}

----------------------------------------------------------------------------
(* MsptiAdapter::Start.  The count is raised first and stays when it fails.  *)
Counted_Unless(m) == IF subscriber.who = "other" THEN refCnt ELSE (refCnt + 1) % UintValues
Counted(m) == (refCnt + 1) % UintValues

Start(m) ==
    /\ pc[m] = "out" /\ starts < MaxStarts /\ starts' = starts + 1
    /\ refCnt' = Counted(m) /\ Goes(m, IF refCnt = 0 THEN "subscribe" ELSE "register")
    /\ overlapped' = (overlapped \/ \E n \in Monitors : Busy(n))
    /\ GilAsIs /\ UNCHANGED <<frame, mtx, pool, subscriber, lib, requests, resizes, missized, failed, late>>

Subscribes(m) ==
    /\ pc[m] = "subscribe" /\ subscriber.lock = Nobody
    /\ IF subscriber.who = "nobody"
       THEN /\ subscriber' = [subscriber EXCEPT !.who = "adapter"] /\ lib' = [lib EXCEPT !.mgr = TRUE]
            /\ Goes(m, "clear") /\ UNCHANGED failed
       ELSE Goes(m, "out") /\ failed' = failed + 1 /\ UNCHANGED <<subscriber, lib>>
    /\ GilAsIs /\ UNCHANGED <<frame, mtx, refCnt, pool, starts, requests, resizes, missized, overlapped, late>>

ClearsAndSizes(m) ==
    /\ pc[m] = "clear" /\ pool' = [Cleared EXCEPT !.size = MaxBufferSize \div bufferSize, !.bytes = bufferSize] /\ Goes(m, "callbacks")
    /\ GilAsIs /\ UNCHANGED <<frame, mtx, refCnt, subscriber, lib, Ghosts>>

RegistersCallbacks(m) ==
    /\ pc[m] = "callbacks" /\ lib' = [lib EXCEPT !.callbacks = TRUE, !.mgr = TRUE] /\ Goes(m, "register")
    /\ GilAsIs /\ UNCHANGED <<frame, mtx, refCnt, pool, subscriber, Ghosts>>

(* MsptiAdapter::Stop: a test, a decrement and a second look.                *)
StopTests(m) ==
    /\ pc[m] = "running" /\ Goes(m, IF refCnt >= 1 THEN "lower" ELSE "look")
    /\ overlapped' = (overlapped \/ \E n \in Monitors : Busy(n))
    /\ GilAsIs /\ UNCHANGED <<frame, mtx, refCnt, pool, subscriber, lib, starts, requests, resizes, missized, failed, late>>

StopLowers(m) ==
    /\ pc[m] = "lower" /\ refCnt' = (refCnt - 1) % UintValues /\ Goes(m, "look")
    /\ GilAsIs /\ UNCHANGED <<frame, mtx, pool, subscriber, lib, Ghosts>>

StopLooks(m) ==
    /\ pc[m] = "look" /\ Goes(m, IF refCnt = 0 THEN "unsubscribe" ELSE "flushMtx")
    /\ GilAsIs /\ UNCHANGED <<frame, mtx, refCnt, pool, subscriber, lib, Ghosts>>

(* msptiUnsubscribe: the manager thread and the work threads are joined and  *)
(* the kinds switched off.  Without a session it succeeds, with another's it *)
(* fails, and then the monitor's stop does no more.                          *)
Unsubscribes(m) ==
    /\ pc[m] = "unsubscribe" /\ subscriber.lock = Nobody
    /\ \/ subscriber.who = "nobody" /\ Goes(m, "flushMtx") /\ UNCHANGED <<subscriber, lib>>
       \/ subscriber.who = "other" /\ Goes(m, "out") /\ UNCHANGED <<subscriber, lib>>
       \/ subscriber.who = "adapter" /\ Goes(m, "join")
          /\ subscriber' = [who |-> "nobody", lock |-> m] /\ lib' = [lib EXCEPT !.mgr = FALSE]
    /\ GilAsIs /\ UNCHANGED <<frame, mtx, refCnt, pool, Ghosts>>

ManagerJoined_QueueEmpty == lib.works = {} /\ lib.co = {}
ManagerJoined == lib.works = {}

UnsubscribeJoins(m) ==
    /\ pc[m] = "join" /\ ManagerJoined
    /\ subscriber' = [subscriber EXCEPT !.lock = Nobody] /\ lib' = [lib EXCEPT !.kinds = {}] /\ Goes(m, "flushMtx")
    /\ GilAsIs /\ UNCHANGED <<frame, mtx, refCnt, pool, Ghosts>>

(* A client in C++ that subscribes when nobody has.                          *)
OtherSubscribes ==
    /\ subscriber = [who |-> "nobody", lock |-> Nobody] /\ subscriber' = [subscriber EXCEPT !.who = "other"]
    /\ starts < MaxStarts /\ starts' = starts + 1
    /\ GilAsIs /\ UNCHANGED <<pc, frame, mtx, refCnt, pool, lib, requests, resizes, missized, failed, overlapped, late>>

OtherLeaves ==
    /\ subscriber.who = "other" /\ subscriber' = [subscriber EXCEPT !.who = "nobody"]
    /\ GilAsIs /\ UNCHANGED <<pc, frame, mtx, refCnt, pool, lib, Ghosts>>

----------------------------------------------------------------------------
(* The calls that keep the interpreter's lock: mtx_ is waited for with it.   *)
Enters(m, from, to) ==
    /\ pc[m] = from /\ gil = Nobody /\ gil' = m /\ keeps' = keeps \cup {m} /\ Goes(m, to)
    /\ UNCHANGED <<frame, mtx, refCnt, bufferSize, pool, slot, refs, calling, subscriber, lib, Ghosts>>

EntersRegister(m) == Enters(m, "register", "registerMtx")
EntersUnregister(m) == Enters(m, "unregister", "unregisterMtx")

RegisterCallback(m) ==
    /\ pc[m] = "registerMtx" /\ mtx = Nobody
    /\ slot' = [slot EXCEPT ![KindOf[m]] = m] /\ refs' = [refs EXCEPT ![m] = @ + 1]
    /\ lib' = [lib EXCEPT !.kinds = @ \cup {KindOf[m]}]
    /\ gil' = Nobody /\ keeps' = keeps \ {m} /\ Goes(m, "running")
    /\ UNCHANGED <<frame, mtx, refCnt, bufferSize, pool, calling, subscriber, Ghosts>>

UnregisterCallback(m) ==
    /\ pc[m] = "unregisterMtx" /\ mtx = Nobody /\ mtx' = m
    /\ lib' = [lib EXCEPT !.kinds = @ \ {KindOf[m]}, !.co = {}]
    /\ frame' = [frame EXCEPT ![m].taken = lib.co] /\ Goes(m, "drain")
    /\ GilAsIs /\ UNCHANGED <<refCnt, pool, subscriber, Ghosts>>

(* SetBufferSize while a monitor runs.                                       *)
EntersSetBufferSize(m) == resizes < MaxResizes /\ Enters(m, "running", "sizing")

SetBufferSize(m) ==
    /\ pc[m] = "sizing" /\ mtx = Nobody /\ resizes' = resizes + 1
    /\ \E n \in BufferSizes \ {bufferSize} : bufferSize' = n
    /\ gil' = Nobody /\ keeps' = keeps \ {m} /\ Goes(m, "running")
    /\ UNCHANGED <<frame, mtx, refCnt, pool, slot, refs, calling, subscriber, lib, starts, requests, missized, failed, overlapped, late>>

(* MsptiAdapter::FlushAll, without the interpreter's lock.                   *)
FlushAll(m) ==
    /\ pc[m] = "flushMtx" /\ mtx = Nobody /\ mtx' = m
    /\ lib' = [lib EXCEPT !.co = {}] /\ frame' = [frame EXCEPT ![m].taken = lib.co] /\ Goes(m, "drain")
    /\ GilAsIs /\ UNCHANGED <<refCnt, pool, subscriber, Ghosts>>

(* The library's flush: what is queued is completed (see Completes), the     *)
(* work threads are joined, and the current buffer is completed.             *)
Drained(m) ==
    /\ pc[m] = "drain" /\ frame[m].taken = {}
    /\ frame' = [frame EXCEPT ![m].joins = lib.works] /\ Goes(m, "joinWorks")
    /\ GilAsIs /\ UNCHANGED <<mtx, refCnt, pool, subscriber, lib, Ghosts>>

JoinsWorks(m) ==
    /\ pc[m] = "joinWorks" /\ frame[m].joins \cap lib.works = {}
    /\ frame' = [frame EXCEPT ![m] = [taken |-> lib.cur, joins |-> {}]] /\ lib' = [lib EXCEPT !.cur = {}] /\ Goes(m, "last")
    /\ GilAsIs /\ UNCHANGED <<mtx, refCnt, pool, subscriber, Ghosts>>

(* The end of FlushAll, which empties the pool when no monitor runs, or of   *)
(* the call that unregisters, which gives the callback up.                   *)
Clears_Always(m) == TRUE
Clears(m) == refCnt = 0

FlushEnds(m) ==
    /\ pc[m] = "last" /\ frame[m].taken = {} /\ m \notin keeps
    /\ pool' = IF Clears(m) THEN Cleared ELSE pool
    /\ mtx' = Nobody /\ Goes(m, "unregister")
    /\ GilAsIs /\ UNCHANGED <<frame, refCnt, subscriber, lib, Ghosts>>

UnregisterEnds(m) ==
    /\ pc[m] = "last" /\ frame[m].taken = {} /\ m \in keeps
    /\ LET was == slot[KindOf[m]] IN refs' = IF was = Nobody THEN refs ELSE [refs EXCEPT ![was] = @ - 1]
    /\ slot' = [slot EXCEPT ![KindOf[m]] = Nobody]
    /\ mtx' = Nobody /\ gil' = Nobody /\ keeps' = keeps \ {m} /\ Goes(m, "out")
    /\ UNCHANGED <<frame, refCnt, bufferSize, pool, calling, subscriber, lib, Ghosts>>

----------------------------------------------------------------------------
(* UserBufferRequest, CheckCanAllocBuffer and GetBuffer.                     *)
GetBuffer(b) ==
    \/ b \in pool.free /\ pool' = [pool EXCEPT !.free = @ \ {b}]
    \/ /\ pool.free = {} /\ Cardinality(pool.alloced) + 1 <= pool.size /\ b \notin pool.alloced
       /\ pool' = [pool EXCEPT !.alloced = @ \cup {b}]

CanAlloc == pool.free # {} \/ Cardinality(pool.alloced) + 1 <= pool.size

(* The size that goes with the buffer is the adapter's, read without mtx_.   *)
SizeTold == bufferSize

(* A thread that records: the switch is read some time before.               *)
PassesSwitch ==
    /\ lib.kinds # {} /\ ~lib.passed /\ lib' = [lib EXCEPT !.passed = TRUE]
    /\ GilAsIs /\ UNCHANGED <<pc, frame, mtx, refCnt, pool, subscriber, Ghosts>>

Records ==
    /\ lib.passed /\ requests < MaxRequests /\ requests' = requests + 1
    /\ late' = (late \/ lib.kinds = {})
    /\ \A m \in Monitors : pc[m] = "last" => frame[m].taken = {}
    /\ LET rest == [lib EXCEPT !.passed = FALSE, !.cur = {}, !.co = @ \cup lib.cur] IN
       \/ lib' = rest /\ ~(lib.callbacks /\ CanAlloc) /\ UNCHANGED <<pool, missized>>
       \/ \E b \in Buffers : lib.callbacks /\ GetBuffer(b) /\ lib' = [rest EXCEPT !.cur = {b}]
                             /\ missized' = (missized \/ SizeTold # pool.bytes)
    /\ GilAsIs /\ UNCHANGED <<pc, frame, mtx, refCnt, subscriber, starts, resizes, failed, overlapped>>

(* ActivityManager::Run gives each queued buffer to a work thread.           *)
StartsWorks ==
    /\ lib.mgr /\ lib.co # {} /\ lib' = [lib EXCEPT !.works = @ \cup lib.co, !.co = {}]
    /\ GilAsIs /\ UNCHANGED <<pc, frame, mtx, refCnt, pool, subscriber, Ghosts>>

----------------------------------------------------------------------------
(* UserBufferComplete of the buffer b by the actor a: a work thread, or the  *)
(* monitor that flushes.  The callback is read and its reference taken with  *)
(* the interpreter's lock, which is given up while the callback runs.        *)
MayComplete(a, b) == IF a \in Monitors THEN b \in frame[a].taken ELSE a = b /\ b \in lib.works
GilFor(a) == gil = Nobody \/ gil = a

TakesReference_Never(c) == refs
TakesReference(c) == [refs EXCEPT ![c] = @ + 1]

CallsBack(a, b) ==
    /\ MayComplete(a, b) /\ calling[a] = Nobody /\ GilFor(a)
    /\ \E k \in Kinds :
          /\ slot[k] # Nobody /\ calling' = [calling EXCEPT ![a] = slot[k]] /\ refs' = TakesReference(slot[k])
    /\ gil' = Nobody
    /\ UNCHANGED <<pc, frame, keeps, mtx, refCnt, bufferSize, pool, slot, subscriber, lib, Ghosts>>

(* RecycleBuffer: an address that the pool does not know is left alone.      *)
Recycled(b) == IF b \in pool.alloced THEN [pool EXCEPT !.free = @ \cup {b}] ELSE pool

CompletionEnds(a, b) ==
    /\ MayComplete(a, b) /\ GilFor(a)
    /\ IF calling[a] = Nobody THEN UNCHANGED refs
       ELSE refs' = [refs EXCEPT ![calling[a]] = @ - 1]
    /\ calling' = [calling EXCEPT ![a] = Nobody]
    /\ pool' = Recycled(b)
    /\ IF a \in Monitors
       THEN frame' = [frame EXCEPT ![a].taken = @ \ {b}] /\ UNCHANGED lib
       ELSE lib' = [lib EXCEPT !.works = @ \ {b}] /\ UNCHANGED frame
    /\ gil' = IF a \in keeps THEN a ELSE Nobody
    /\ UNCHANGED <<pc, keeps, mtx, refCnt, bufferSize, slot, subscriber, Ghosts>>

CompletionSteps(a) == \E b \in Buffers : CallsBack(a, b) \/ CompletionEnds(a, b)

StartStopSteps(m) ==
    Subscribes(m) \/ ClearsAndSizes(m) \/ RegistersCallbacks(m) \/ StopLowers(m) \/ StopLooks(m) \/ Unsubscribes(m) \/ UnsubscribeJoins(m)
KeepingSteps(m) == SetBufferSize(m) \/ EntersRegister(m) \/ EntersUnregister(m) \/ RegisterCallback(m) \/ UnregisterCallback(m) \/ UnregisterEnds(m)
FlushSteps(m) == FlushAll(m) \/ Drained(m) \/ JoinsWorks(m) \/ FlushEnds(m)

AdapterNext ==
    \/ \E m \in Monitors : Start(m) \/ StopTests(m) \/ EntersSetBufferSize(m) \/ StartStopSteps(m) \/ KeepingSteps(m) \/ FlushSteps(m)
    \/ \E a \in Actors : CompletionSteps(a)
    \/ OtherSubscribes \/ OtherLeaves \/ PassesSwitch \/ Records \/ StartsWorks

AdapterSpec == AdapterInit /\ [][AdapterNext]_adapterVars

(* The threads run.  Calls are finitely many, so weak fairness is enough for *)
(* a waiter to get a lock that is given back.                                *)
MonitorSteps(m) == StartStopSteps(m) \/ KeepingSteps(m) \/ FlushSteps(m) \/ CompletionSteps(m)
AdapterFairness ==
    /\ \A m \in Monitors : WF_adapterVars(MonitorSteps(m))
    /\ \A b \in Buffers : WF_adapterVars(CompletionSteps(b))

----------------------------------------------------------------------------
(* A buffer that the library writes to or that is being completed is         *)
(* allocated and not handed out again, as long as starts and stops do not    *)
(* overlap and no thread records behind the switch.                          *)
BuffersLive == overlapped \/ late \/ (Held \subseteq pool.alloced /\ Held \cap pool.free = {})

(* A callback that runs is referenced, also when it is unregistered in the   *)
(* middle.                                                                   *)
CallbackAlive == \A a \in Actors : calling[a] # Nobody => refs[calling[a]] > 0

(* However starts and stops overlap, the count is that of the monitors that  *)
(* have been counted and have not yet been taken off, with the failed starts *)
(* that are never taken off: it does not wrap, and a session is not ended    *)
(* by a count too low.                                                       *)
CountsMonitors ==
    refCnt = failed + Cardinality({m \in Monitors : pc[m] \in (Starting \ {"start"}) \cup {"register", "registerMtx", "running", "sizing", "lower"}})

(* A call returns, unless a monitor waits for mtx_ or for a work thread with *)
(* the interpreter's lock: that is the only way in which the calls hang.     *)
Hung ==
    \E m \in keeps :
        /\ gil = m
        /\ \/ mtx # Nobody /\ pc[m] \in {"registerMtx", "unregisterMtx", "sizing"}
           \/ pc[m] = "joinWorks" /\ frame[m].joins \cap lib.works # {}
CallsReturn == \A m \in Monitors : pc[m] \notin {"out", "running"} ~> pc[m] \in {"out", "running"} \/ Hung

(* What SetBufferSize logs when a monitor runs: the new size takes effect at  *)
(* the next start.                                                           *)
SizeFromNextStart == ~missized

(* What the guide says of stop(): it stops, flushes, and then returns.       *)
StopReturns == \A m \in Monitors : pc[m] = "lower" ~> pc[m] = "out"

(* What the library has of the adapter is alive, and the adapter counts its  *)
(* monitors.                                                                 *)
AdapterInv == PyTypeOK /\ BuffersLive /\ CallbackAlive /\ CountsMonitors
=============================================================================
