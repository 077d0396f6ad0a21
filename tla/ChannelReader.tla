--------------------------- MODULE ChannelReader ---------------------------
(***************************************************************************)
(* One ChannelReader of csrc/activity/ascend/channel/channel_reader.cpp:   *)
(* the object that moves the bytes of one driver channel into the parsers. *)
(*                                                                         *)
(* Four threads meet in it.                                                *)
(*   worker    a ThreadPool thread running Execute()                       *)
(*   consumer  the reader's own "ChConsumer" thread (SOC_LOG only)         *)
(*   drainer   the UnRegister caller inside DrainToConsumer(wait)          *)
(*   remover   RemoveReader: SetChannelStopped, UnInit, then the           *)
(*             destructor once the last reference is gone                  *)
(*                                                                         *)
(* The channel's bytes are the offsets 0, 1, 2, ... of its stream; a block *)
(* is an interval [lo, hi) of it.  buffer_ is the block buf, of which      *)
(* curPos_ is the size.  The critical sections of bufferMutex_ are single  *)
(* steps, except the handoff, whose counter and queue accesses other       *)
(* threads observe while the mutex is held.                                *)
(***************************************************************************)
EXTENDS Integers, Sequences

CONSTANTS
    Kinds,          \* the channels considered: "SOC_LOG", "TS_FW", "AICPU"
    BufferSize,     \* bufferSize_, in bytes
    StructSize,     \* dataStructSize_, in bytes
    QueueCapacity,  \* CONSUME_QUEUE_CAPACITY
    MaxProduced,    \* bound: bytes the device writes to the channel
    ReadMayFail     \* whether prof_channel_read may return an error

ASSUME KindAssumption == Kinds \subseteq {"SOC_LOG", "TS_FW", "AICPU"}
ASSUME SizeAssumption ==
    /\ BufferSize \in Nat /\ StructSize \in Nat \ {0}
    /\ StructSize <= BufferSize
    /\ QueueCapacity \in Nat \ {0}
    /\ MaxProduced \in Nat
    /\ ReadMayFail \in BOOLEAN

VARIABLES
    kind,       \* channelId_: which channel the reader serves
    produced,   \* bytes the device has written to the driver's ring
    total,      \* totalSize_: bytes read from the driver
    buf,        \* the block held in buffer_[0 .. curPos_)
    queue,      \* consumerQueue_
    quit,       \* quit_ of consumerQueue_
    running,    \* consumerRunning_
    inited,     \* isInited_
    stopped,    \* isChannelStopped_
    pending,    \* pendingConsumeCount_
    owner,      \* the thread inside TryHandoffBufferedData, which holds bufferMutex_
    stage,      \* how far that handoff is
    push,       \* the block that handoff tries to enqueue
    item,       \* the block popped and not yet counted down
    eat,        \* how far ConsumeBufferData is with it
    wpc, cpc, dpc, rpc,   \* control of worker, consumer, drainer, remover
    wantWait,   \* the wait argument of DrainToConsumer
    drained,    \* the result of the last DrainToConsumer(true)
    parsed,     \* history: offsets given to the parsers
    dropped,    \* history: offsets thrown away
    goal,       \* history: end of the whole structs read when the drain took the lock
    keptBack    \* history: the drain's own handoff found the queue full

vars == <<kind, produced, total, buf, queue, quit, running, inited, stopped, pending,
          owner, stage, push, item, eat, wpc, cpc, dpc, rpc, wantWait, drained,
          parsed, dropped, goal, keptBack>>

pipeVars    == <<queue, pending, owner, stage, push>>
eatVars     == <<item, eat, parsed>>
drainVars   == <<dpc, wantWait, drained, goal, keptBack>>
lifeVars    == <<quit, running, inited, stopped>>
driverVars  == <<kind, produced, total>>
----------------------------------------------------------------------------
Block == [lo : Nat, hi : Nat]
Blk(l, h) == [lo |-> l, hi |-> h]
Empty == Blk(0, 0)
Offsets(b) == b.lo .. (b.hi - 1)
Size(b) == b.hi - b.lo

\* Faulty: no alignment.
Whole_Unaligned(n) == n

\* curPos_ / dataStructSize_ * dataStructSize_
Whole(n) == n - (n % StructSize)

\* handoffThreshold_, 0.8 of the buffer
Threshold == (BufferSize * 8) \div 10

IsAsyncChannel == kind = "SOC_LOG"
IsDiscardChannel == kind = "AICPU"

\* The state Init() leaves: only SOC_LOG has a queue and a consumer thread.
Init ==
    /\ kind \in Kinds
    /\ produced = 0 /\ total = 0 /\ buf = Empty
    /\ queue = <<>> /\ quit = FALSE /\ running = IsAsyncChannel
    /\ inited = TRUE /\ stopped = FALSE /\ pending = 0
    /\ owner = "none" /\ stage = "none" /\ push = Empty
    /\ item = Empty /\ eat = "none"
    /\ wpc = "idle" /\ dpc = "idle" /\ rpc = "idle"
    /\ cpc = IF IsAsyncChannel THEN "pop" ELSE "exited"
    /\ wantWait = FALSE /\ drained = "none"
    /\ parsed = {} /\ dropped = {} /\ goal = 0 /\ keptBack = FALSE
----------------------------------------------------------------------------
(* The driver's side: the device fills the channel.                        *)
Produce ==
    /\ produced < MaxProduced
    /\ produced' = produced + 1
    /\ UNCHANGED <<kind, total, buf, pipeVars, lifeVars, eatVars, drainVars,
                   wpc, cpc, rpc, dropped>>
----------------------------------------------------------------------------
(* TryHandoffBufferedData.  The mutex is taken and the count raised first, *)
(* then TryPush runs under the queue's own mutex, and a full queue makes   *)
(* the count go back down.  Each caller then carries on in its own way.    *)
\* Faulty: the block is not counted before it is enqueued.
HandoffBegin_NotCounted(a, b) ==
    /\ owner' = a /\ stage' = "push"
    /\ push' = Blk(b.lo, b.lo + Whole(Size(b)))
    /\ pending' = pending

HandoffBegin(a, b) ==
    /\ owner' = a /\ stage' = "push"
    /\ push' = Blk(b.lo, b.lo + Whole(Size(b)))
    /\ pending' = pending + 1

\* What the caller does once TryHandoffBufferedData has returned ok.
\* rest is the block then in buffer_.
HandoffReturn(ok, rest) ==
    /\ owner' = "none" /\ stage' = "none" /\ push' = Empty
    /\ \/ /\ owner = "worker"
          /\ wpc' = IF ok THEN "check" ELSE "idle"
          /\ buf' = rest
          /\ UNCHANGED <<dpc, rpc, dropped, keptBack>>
       \/ /\ owner = "drainer"
          /\ dpc' = IF wantWait THEN "wait" ELSE "idle"
          /\ keptBack' = ~ok
          /\ buf' = rest
          /\ UNCHANGED <<wpc, rpc, dropped>>
       \/ /\ owner = "remover"
          /\ rpc' = "stop"
          /\ dropped' = dropped \cup Offsets(rest)
          /\ buf' = Empty
          /\ UNCHANGED <<wpc, dpc, keptBack>>

PushOk ==
    /\ stage = "push"
    /\ Len(queue) < QueueCapacity
    /\ queue' = Append(queue, push)
    /\ HandoffReturn(TRUE, IF push.hi = buf.hi THEN Empty ELSE Blk(push.hi, buf.hi))
    /\ UNCHANGED <<driverVars, lifeVars, pending, eatVars, cpc, wantWait, drained, goal>>

PushFull ==
    /\ stage = "push"
    /\ Len(queue) >= QueueCapacity
    /\ stage' = "undo"
    /\ UNCHANGED <<driverVars, buf, queue, lifeVars, pending, owner, push, eatVars,
                   wpc, cpc, rpc, drainVars, dropped>>

\* Faulty: a full queue leaves the count raised.
PushUndo_StillCounted ==
    /\ stage = "undo"
    /\ pending' = pending
    /\ HandoffReturn(FALSE, buf)
    /\ UNCHANGED <<driverVars, queue, lifeVars, eatVars, cpc, wantWait, drained, goal>>

PushUndo ==
    /\ stage = "undo"
    /\ pending' = pending - 1
    /\ HandoffReturn(FALSE, buf)
    /\ UNCHANGED <<driverVars, queue, lifeVars, eatVars, cpc, wantWait, drained, goal>>
----------------------------------------------------------------------------
(* Execute on a worker thread.                                             *)

\* The pool dispatches the reader while the driver has data for it.  Dispatch
\* needs the pool's mtx_, which RemoveReader holds from its first line on.
Dispatch ==
    /\ wpc = "idle" /\ rpc = "idle"
    /\ produced > total
    /\ wpc' = "check"
    /\ UNCHANGED <<driverVars, buf, pipeVars, lifeVars, eatVars, drainVars,
                   cpc, rpc, dropped>>

\* The loop condition, read before bufferMutex_ is taken.
ExecCheck ==
    /\ wpc = "check"
    /\ wpc' = IF inited /\ ~stopped THEN "read" ELSE "idle"
    /\ UNCHANGED <<driverVars, buf, pipeVars, lifeVars, eatVars, drainVars,
                   cpc, rpc, dropped>>

\* Faulty: the tail left from the last handoff is overwritten.
Filled_TailForgotten(n) == Blk(total, total + n)

\* buffer_ after n more bytes.
Filled(n) == Blk(IF buf.lo = buf.hi THEN total ELSE buf.lo, total + n)

\* The driver hands over up to what fits, and the kind decides what follows.
ReadDiscard(b) ==
    /\ IsDiscardChannel
    /\ dropped' = dropped \cup Offsets(b)
    /\ buf' = Empty
    /\ wpc' = "check"
    /\ UNCHANGED <<pipeVars, parsed>>

ReadSync(b) ==
    /\ ~IsDiscardChannel /\ ~IsAsyncChannel
    /\ LET cut == b.lo + Whole(Size(b))
       IN /\ parsed' = parsed \cup Offsets(Blk(b.lo, cut))
          /\ buf' = IF cut = b.hi THEN Empty ELSE Blk(cut, b.hi)
    /\ wpc' = "check"
    /\ UNCHANGED <<pipeVars, dropped>>

ReadBatch(b) ==
    /\ IsAsyncChannel
    /\ Size(b) < Threshold \/ Whole(Size(b)) = 0
    /\ buf' = b
    /\ wpc' = "check"
    /\ UNCHANGED <<pipeVars, parsed, dropped>>

ReadHandoff(b) ==
    /\ IsAsyncChannel
    /\ Size(b) >= Threshold /\ Whole(Size(b)) > 0
    /\ buf' = b
    /\ IF running
       THEN HandoffBegin("worker", b) /\ wpc' = "handoff" /\ UNCHANGED queue
       ELSE wpc' = "idle" /\ UNCHANGED pipeVars
    /\ UNCHANGED <<parsed, dropped>>

ExecRead(n) ==
    /\ wpc = "read" /\ owner = "none"
    /\ total + n <= produced /\ Size(buf) + n <= BufferSize
    /\ total' = total + n
    /\ LET b == Filled(n)
       IN ReadDiscard(b) \/ ReadSync(b) \/ ReadBatch(b) \/ ReadHandoff(b)
    /\ UNCHANGED <<kind, produced, lifeVars, item, eat, drainVars, cpc, rpc>>

\* No data, no room (a zero-length read), or an error: the loop ends.
ExecReadNothing ==
    /\ wpc = "read" /\ owner = "none"
    /\ total = produced \/ Size(buf) = BufferSize \/ ReadMayFail
    /\ wpc' = "idle"
    /\ UNCHANGED <<driverVars, buf, pipeVars, lifeVars, eatVars, drainVars,
                   cpc, rpc, dropped>>
----------------------------------------------------------------------------
(* ConsumeBufferData, on the consumer thread or, after the join, on the    *)
(* thread that called StopConsumerThread.                                  *)
Pop ==
    /\ eat = "none" /\ queue # <<>>
    /\ (cpc = "pop" \/ rpc = "leftover")
    /\ item' = Head(queue) /\ queue' = Tail(queue)
    /\ eat' = "parse"
    /\ UNCHANGED <<driverVars, buf, lifeVars, pending, owner, stage, push, parsed,
                   wpc, cpc, rpc, drainVars, dropped>>

Parse ==
    /\ eat = "parse"
    /\ parsed' = parsed \cup Offsets(item)
    /\ eat' = "dec"
    /\ UNCHANGED <<driverVars, buf, pipeVars, lifeVars, item, wpc, cpc, rpc,
                   drainVars, dropped>>

\* The compare-exchange that counts the block down unless already at zero.
CountDown ==
    /\ eat = "dec"
    /\ pending' = IF pending > 0 THEN pending - 1 ELSE pending
    /\ eat' = IF pending = 1 THEN "notify" ELSE "none"
    /\ item' = Empty
    /\ UNCHANGED <<driverVars, buf, queue, lifeVars, owner, stage, push, parsed,
                   wpc, cpc, rpc, drainVars, dropped>>

Notify ==
    /\ eat = "notify"
    /\ eat' = "none"
    /\ dpc' = IF dpc = "asleep" THEN "wait" ELSE dpc
    /\ UNCHANGED <<driverVars, buf, pipeVars, lifeVars, item, parsed, wpc, cpc, rpc,
                   wantWait, drained, goal, keptBack, dropped>>

\* Pop returns false only when the queue was quit and is empty.
ConsumerExit ==
    /\ cpc = "pop" /\ eat = "none"
    /\ quit /\ queue = <<>>
    /\ cpc' = "exited"
    /\ UNCHANGED <<driverVars, buf, pipeVars, lifeVars, eatVars, drainVars,
                   wpc, rpc, dropped>>
----------------------------------------------------------------------------
(* DrainToConsumer(wait).                                                  *)

\* The pool looks the reader up under mtx_, so not once RemoveReader runs.
DrainCall(w) ==
    /\ dpc = "idle" /\ rpc = "idle"
    /\ wantWait' = w /\ drained' = "none"
    /\ dpc' = "enter"
    /\ UNCHANGED <<driverVars, buf, pipeVars, lifeVars, eatVars, wpc, cpc, rpc,
                   dropped, goal, keptBack>>

\* No queue: nothing to drain.
DrainNoQueue ==
    /\ dpc = "enter" /\ ~IsAsyncChannel
    /\ dpc' = "idle"
    /\ UNCHANGED <<driverVars, buf, pipeVars, lifeVars, eatVars, wpc, cpc, rpc,
                   wantWait, drained, dropped, goal, keptBack>>

DrainLock ==
    /\ dpc = "enter" /\ IsAsyncChannel /\ owner = "none"
    /\ LET whole == IF inited THEN Whole(Size(buf)) ELSE 0
       IN /\ goal' = IF buf = Empty THEN total ELSE buf.lo + whole
          /\ IF whole > 0 /\ running
             THEN /\ HandoffBegin("drainer", buf)
                  /\ dpc' = "handoff"
                  /\ keptBack' = FALSE
                  /\ UNCHANGED queue
             ELSE /\ dpc' = IF wantWait THEN "wait" ELSE "idle"
                  /\ keptBack' = (whole > 0)
                  /\ UNCHANGED pipeVars
    /\ UNCHANGED <<driverVars, buf, lifeVars, eatVars, wpc, cpc, rpc, wantWait,
                   drained, dropped>>

\* The predicate of wait_for, checked under consumeWaitMutex_.
DrainWait ==
    /\ dpc = "wait"
    /\ dpc' = IF pending = 0 THEN "final" ELSE "asleep"
    /\ UNCHANGED <<driverVars, buf, pipeVars, lifeVars, eatVars, wpc, cpc, rpc,
                   wantWait, drained, dropped, goal, keptBack>>

\* Faulty: the wait has no bound.
DrainTimeout_Never ==
    /\ dpc = "asleep" /\ pending < 0
    /\ dpc' = "final"
    /\ UNCHANGED <<driverVars, buf, pipeVars, lifeVars, eatVars, wpc, cpc, rpc,
                   wantWait, drained, dropped, goal, keptBack>>

\* DRAIN_MAX_WAIT_MS has passed.
DrainTimeout ==
    /\ dpc = "asleep"
    /\ dpc' = "final"
    /\ UNCHANGED <<driverVars, buf, pipeVars, lifeVars, eatVars, wpc, cpc, rpc,
                   wantWait, drained, dropped, goal, keptBack>>

\* Faulty: a timeout is reported as success.
DrainReturn_AlwaysSuccess ==
    /\ dpc = "final"
    /\ drained' = "success"
    /\ dpc' = "idle"
    /\ UNCHANGED <<driverVars, buf, pipeVars, lifeVars, eatVars, wpc, cpc, rpc,
                   wantWait, dropped, goal, keptBack>>

\* The counter is loaded once more, and decides the result.
DrainReturn ==
    /\ dpc = "final"
    /\ drained' = IF pending = 0 THEN "success" ELSE "error"
    /\ dpc' = "idle"
    /\ UNCHANGED <<driverVars, buf, pipeVars, lifeVars, eatVars, wpc, cpc, rpc,
                   wantWait, dropped, goal, keptBack>>
----------------------------------------------------------------------------
(* RemoveReader and the destructor.                                        *)
SetChannelStopped ==
    /\ rpc = "idle"
    /\ stopped' = TRUE
    /\ rpc' = "uninit"
    /\ UNCHANGED <<driverVars, buf, pipeVars, quit, running, inited, eatVars, drainVars,
                   wpc, cpc, dropped>>

\* Faulty: isInited_ is still set while the reader shuts down.
UnInit_StaysInited ==
    /\ rpc = "uninit"
    /\ rpc' = "drain"
    /\ UNCHANGED <<driverVars, buf, pipeVars, quit, running, inited, stopped, eatVars,
                   drainVars, wpc, cpc, dropped>>

UnInit ==
    /\ rpc = "uninit"
    /\ inited' = FALSE
    /\ rpc' = "drain"
    /\ UNCHANGED <<driverVars, buf, pipeVars, quit, running, stopped, eatVars, drainVars,
                   wpc, cpc, dropped>>

\* No consumer: whole structs are parsed on the spot and the tail is dropped.
DrainDirectly ==
    LET cut == buf.lo + Whole(Size(buf))
    IN /\ parsed' = parsed \cup Offsets(Blk(buf.lo, cut))
       /\ dropped' = dropped \cup Offsets(Blk(cut, buf.hi))
       /\ buf' = Empty
       /\ UNCHANGED pipeVars

\* DrainBufferedDataToConsumer; next is the remover's step after it.
DrainBufferedData(next) ==
    /\ owner = "none"
    /\ \/ /\ ~running
          /\ DrainDirectly
          /\ rpc' = next
       \/ /\ running /\ Whole(Size(buf)) = 0
          /\ dropped' = dropped \cup Offsets(buf)
          /\ buf' = Empty
          /\ rpc' = next
          /\ UNCHANGED <<pipeVars, parsed>>
       \/ /\ running /\ Whole(Size(buf)) > 0
          /\ HandoffBegin("remover", buf)
          /\ rpc' = "handoff"
          /\ UNCHANGED <<buf, queue, parsed, dropped>>
    /\ UNCHANGED <<driverVars, lifeVars, item, eat, drainVars, wpc, cpc>>

\* Faulty: the rest is parsed on the spot although earlier blocks are queued.
UnInitDrain_Directly ==
    /\ rpc = "drain" /\ owner = "none"
    /\ DrainDirectly
    /\ rpc' = "stop"
    /\ UNCHANGED <<driverVars, lifeVars, item, eat, drainVars, wpc, cpc>>

UnInitDrain == rpc = "drain" /\ DrainBufferedData("stop")

\* Faulty: consumerRunning_ is cleared without bufferMutex_.
StopConsumerThread_NoLock ==
    /\ rpc = "stop"
    /\ running' = FALSE
    /\ quit' = IsAsyncChannel
    /\ rpc' = "join"
    /\ UNCHANGED <<driverVars, buf, pipeVars, inited, stopped, eatVars, drainVars,
                   wpc, cpc, dropped>>

\* Faulty: the queue is not told to quit.
StopConsumerThread_NoQuit ==
    /\ rpc = "stop" /\ owner = "none"
    /\ running' = FALSE
    /\ rpc' = "join"
    /\ UNCHANGED <<driverVars, buf, pipeVars, quit, inited, stopped, eatVars, drainVars,
                   wpc, cpc, dropped>>

StopConsumerThread ==
    /\ rpc = "stop" /\ owner = "none"
    /\ running' = FALSE
    /\ quit' = IsAsyncChannel
    /\ rpc' = "join"
    /\ UNCHANGED <<driverVars, buf, pipeVars, inited, stopped, eatVars, drainVars,
                   wpc, cpc, dropped>>

JoinConsumer ==
    /\ rpc = "join" /\ cpc = "exited"
    /\ rpc' = "leftover"
    /\ UNCHANGED <<driverVars, buf, pipeVars, lifeVars, eatVars, drainVars,
                   wpc, cpc, dropped>>

\* TryPop found the queue empty: UnInit returns and the pool forgets the reader.
LeftoverDone ==
    /\ rpc = "leftover" /\ eat = "none" /\ queue = <<>>
    /\ rpc' = "erased"
    /\ UNCHANGED <<driverVars, buf, pipeVars, lifeVars, eatVars, drainVars,
                   wpc, cpc, dropped>>

\* Faulty: the destructor does not drain what a late Execute has read.
Destroy_NoDrain ==
    /\ rpc = "erased" /\ wpc = "idle" /\ dpc = "idle"
    /\ rpc' = "dead"
    /\ UNCHANGED <<driverVars, buf, pipeVars, lifeVars, eatVars, drainVars,
                   wpc, cpc, dropped>>

\* The last shared_ptr goes away: no Execute and no drain is using the reader.
Destroy ==
    /\ rpc = "erased" /\ wpc = "idle" /\ dpc = "idle"
    /\ DrainBufferedData("dead")

Terminated == rpc = "dead" /\ produced = MaxProduced /\ UNCHANGED vars
----------------------------------------------------------------------------
Worker   == ExecCheck \/ (\E n \in 1..BufferSize : ExecRead(n)) \/ ExecReadNothing
Handoff  == PushOk \/ PushFull \/ PushUndo
Consumer == Pop \/ Parse \/ CountDown \/ Notify \/ ConsumerExit
Drainer  == DrainNoQueue \/ DrainLock \/ DrainWait \/ DrainTimeout \/ DrainReturn
Remover  == UnInit \/ UnInitDrain \/ StopConsumerThread \/ JoinConsumer
            \/ LeftoverDone \/ Destroy

Next ==
    \/ Produce \/ Dispatch \/ Worker \/ Handoff \/ Consumer
    \/ (\E w \in BOOLEAN : DrainCall(w)) \/ Drainer
    \/ SetChannelStopped \/ Remover
    \/ Terminated

Spec == Init /\ [][Next]_vars

\* Every thread keeps running; calls (a drain, a removal) need not come, and the
\* device need not produce.  bufferMutex_ is granted to a waiting thread
\* eventually even while others keep taking it.
Fairness ==
    /\ WF_vars(Dispatch)
    /\ WF_vars(ExecCheck) /\ SF_vars(ExecReadNothing)
    /\ SF_vars(\E n \in 1..BufferSize : ExecRead(n))
    /\ WF_vars(Handoff) /\ WF_vars(Consumer)
    /\ SF_vars(DrainLock) /\ WF_vars(DrainNoQueue \/ DrainWait \/ DrainTimeout \/ DrainReturn)
    /\ WF_vars(UnInit) /\ SF_vars(UnInitDrain) /\ SF_vars(StopConsumerThread)
    /\ WF_vars(JoinConsumer \/ LeftoverDone \/ Destroy)

FairSpec == Spec /\ Fairness
----------------------------------------------------------------------------
(* Type correctness.                                                       *)
Threads == {"worker", "drainer", "remover"}

TypeOK ==
    /\ kind \in Kinds
    /\ produced \in Nat /\ total \in Nat
    /\ buf \in Block /\ queue \in Seq(Block) /\ push \in Block /\ item \in Block
    /\ quit \in BOOLEAN /\ running \in BOOLEAN
    /\ inited \in BOOLEAN /\ stopped \in BOOLEAN
    /\ pending \in Nat
    /\ owner \in Threads \cup {"none"} /\ stage \in {"none", "push", "undo"}
    /\ eat \in {"none", "parse", "dec", "notify"}
    /\ wpc \in {"idle", "check", "read", "handoff"}
    /\ cpc \in {"pop", "exited"}
    /\ dpc \in {"idle", "enter", "handoff", "wait", "asleep", "final"}
    /\ rpc \in {"idle", "uninit", "drain", "handoff", "stop", "join", "leftover",
                "erased", "dead"}
    /\ wantWait \in BOOLEAN /\ drained \in {"none", "success", "error"}
    /\ parsed \subseteq Nat /\ dropped \subseteq Nat
    /\ goal \in Nat /\ keptBack \in BOOLEAN
----------------------------------------------------------------------------
(* Safety.                                                                 *)

\* pendingConsumeCount_ is exactly the blocks handed over and not yet counted
\* down, so it neither goes negative nor reads zero while a block is in flight
\* (channel_reader.cpp:506, channel_reader.h:129).
BeingParsed == IF eat \in {"parse", "dec"} THEN 1 ELSE 0
BeingPushed == IF stage = "none" THEN 0 ELSE 1
PendingExact == pending = Len(queue) + BeingParsed + BeingPushed

\* Every byte read from the driver is in exactly one place: parsed, popped,
\* queued, still in buffer_, or dropped on purpose.
Popped == IF eat = "parse" THEN Offsets(item) ELSE {}
Queued == UNION {Offsets(queue[i]) : i \in DOMAIN queue}
NothingLost ==
    /\ parsed \cup Popped \cup Queued \cup Offsets(buf) \cup dropped = 0 .. (total - 1)
    /\ parsed \cap (Popped \cup Queued \cup Offsets(buf) \cup dropped) = {}
    /\ Popped \cap (Queued \cup Offsets(buf) \cup dropped) = {}
    /\ Queued \cap (Offsets(buf) \cup dropped) = {}
    /\ Offsets(buf) \cap dropped = {}

\* The parsers see the channel's bytes in the order the driver produced them,
\* whichever thread runs them.
InOrder ==
    [][\A o \in parsed' \ parsed : \A q \in parsed : q < o]_parsed

\* A reader in use drops nothing, however slow its consumer is
\* (channel_reader.cpp:479 "never lose data").
NoDropWhileInited == (inited /\ ~IsDiscardChannel) => dropped = {}

\* Until UnInit, whatever leaves buffer_ starts and ends on a record boundary.
AlignedWhileInited ==
    inited => \A b \in {buf, item} \cup {queue[i] : i \in DOMAIN queue} :
                  b.lo % StructSize = 0

\* Once StopConsumerThread has cleared consumerRunning_, no block enters the
\* queue any more (channel_reader.cpp:234-236).
StopFence == [][~running => Len(queue') <= Len(queue)]_queue

\* DrainToConsumer(true) that returned success and whose handoff found room has
\* let the parsers see every whole struct read before it was called.
Settled(o) == o \in parsed \/ o \in dropped
DrainSound ==
    (drained = "success" /\ ~keptBack) => \A o \in 0 .. (goal - 1) : Settled(o)

\* A destroyed reader has handed every byte it read to the parsers or dropped it
\* in the last drain; nothing stays in the queue or in buffer_.
DestroyedClean == rpc = "dead" => parsed \cup dropped = 0 .. (total - 1)
----------------------------------------------------------------------------
(* Liveness.                                                               *)

\* RemoveReader always comes to its end: the join returns.
RemovalCompletes == (rpc = "uninit") ~> (rpc = "dead")

\* DrainToConsumer always returns.
DrainReturns == (dpc = "enter") ~> (dpc = "idle")
----------------------------------------------------------------------------
(* What comments in the code say, and the code does not do.                *)

\* channel_reader.h:52 "hand over the whole structs left in buffer_; with
\* wait=true also wait until the consumer has processed everything".
DrainLeavesNothing ==
    drained = "success" => \A o \in 0 .. (goal - 1) : Settled(o)

\* channel_reader.cpp:479 "back-pressure: keep the rest, the next scheduling
\* retries": a batch that is ready is handed over while there is more to read.
Backlog == running /\ inited /\ Size(buf) >= Threshold /\ produced > total
BackpressureRetried == Backlog ~> ~Backlog

(* The invariants on what leaves the reader: while it is inited it drops     *)
(* nothing and hands over whole structs; a drain that reports success, and a *)
(* reader that is destroyed, leave nothing behind.                           *)
HandoverInv == NoDropWhileInited /\ AlignedWhileInited /\ DrainSound /\ DestroyedClean

(* A removal and a drain that have begun come to their end.                  *)
CallsEnd == RemovalCompletes /\ DrainReturns
============================================================================
