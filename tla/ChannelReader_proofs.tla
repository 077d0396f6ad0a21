------------------------ MODULE ChannelReader_proofs ------------------------
(***************************************************************************)
(* What TLAPS proves of ChannelReader, for every kind of channel, buffer   *)
(* and struct size, queue capacity and amount of data.                     *)
(*                                                                         *)
(* PendingExact, StopFence, NothingLost and InOrder are not inductive: the *)
(* counter is right only because one handoff at a time is under way, and   *)
(* the stream is in order only because the blocks in the pipeline are      *)
(* sorted by position, from the one popped to the one in buffer_.  IInv    *)
(* says both.                                                              *)
(***************************************************************************)
EXTENDS ChannelReader, TLAPS

\* Who is inside a handoff, and with what.
HandoffInv ==
    /\ stage = "none" <=> owner = "none"
    /\ owner = "worker" <=> wpc = "handoff"
    /\ owner = "drainer" <=> dpc = "handoff"
    /\ owner = "remover" <=> rpc = "handoff"
    /\ stage # "none" => /\ running
                         /\ push.lo = buf.lo /\ push.lo < push.hi /\ push.hi <= buf.hi

\* What the remover's progress says of the consumer.
ShutdownInv ==
    /\ rpc \in {"idle", "uninit", "drain", "handoff", "stop"} => (running <=> IsAsyncChannel)
    /\ rpc \in {"join", "leftover", "erased", "dead"} => ~running
    /\ ~IsAsyncChannel => queue = <<>> /\ eat = "none" /\ ~running
    /\ rpc \in {"erased", "dead"} => queue = <<>> /\ eat = "none"

\* The blocks between the driver and the parsers, nearest the parsers first.
\* A block is whole (lo < hi) and lies below every later one.
BufInv == buf = Empty \/ (buf.lo < buf.hi /\ buf.hi = total)
ItemInv ==
    eat = "parse" => /\ item.lo < item.hi /\ item.hi <= total
                     /\ \A i \in 1..Len(queue) : item.hi <= queue[i].lo
                     /\ buf # Empty => item.hi <= buf.lo
QueueInv ==
    \A i \in 1..Len(queue) : /\ queue[i].lo < queue[i].hi /\ queue[i].hi <= total
                             /\ buf # Empty => queue[i].hi <= buf.lo
SortedInv == \A i, j \in 1..Len(queue) : i < j => queue[i].hi <= queue[j].lo
PipelineInv == BufInv /\ ItemInv /\ QueueInv /\ SortedInv

\* Offsets already parsed lie below all of those blocks.
ParsedInv ==
    \A o \in parsed :
        /\ o < total
        /\ eat = "parse" => o < item.lo
        /\ \A i \in 1..Len(queue) : o < queue[i].lo
        /\ buf # Empty => o < buf.lo

\* Offsets dropped are nowhere else.
InItem(o)  == eat = "parse" /\ item.lo <= o /\ o < item.hi
InQueue(o) == \E i \in 1..Len(queue) : queue[i].lo <= o /\ o < queue[i].hi
DroppedInv ==
    \A o \in dropped :
        /\ o < total /\ o \notin parsed
        /\ ~InItem(o) /\ ~InQueue(o)
        /\ buf # Empty => o < buf.lo

\* Every offset read is somewhere.
InBuf(o) == buf.lo <= o /\ o < buf.hi
CoverInv ==
    \A o \in Nat : o < total =>
        o \in parsed \/ o \in dropped \/ InItem(o) \/ InQueue(o) \/ InBuf(o)

CountInv == TypeOK /\ PendingExact /\ HandoffInv /\ ShutdownInv
StreamInv == PipelineInv /\ ParsedInv /\ DroppedInv /\ CoverInv
----------------------------------------------------------------------------
\* Cutting at a record boundary never goes past the data.
LEMMA WholeBounds ==
    ASSUME NEW n \in Nat
    PROVE  Whole(n) \in Nat /\ Whole(n) <= n
BY SizeAssumption DEF Whole

\* Blocks and their offsets.
LEMMA BlockFacts ==
    /\ Empty \in Block /\ Empty.lo = 0 /\ Empty.hi = 0
    /\ \A l, h \in Nat : Blk(l, h) \in Block /\ Blk(l, h).lo = l /\ Blk(l, h).hi = h
    /\ \A b \in Block : b.lo \in Nat /\ b.hi \in Nat /\ b = Blk(b.lo, b.hi)
    /\ \A l, h \in Nat : Blk(l, h) = Empty <=> l = 0 /\ h = 0
BY DEF Empty, Blk, Block

LEMMA OffsetsFacts ==
    ASSUME NEW b \in Block
    PROVE  /\ Offsets(b) \subseteq Nat
           /\ \A o \in Nat : o \in Offsets(b) <=> b.lo <= o /\ o < b.hi
BY DEF Block, Offsets

LEMMA InitCount == Init => CountInv
<1> SUFFICES ASSUME Init PROVE CountInv
  OBVIOUS
<1>0. Empty \in Block
  BY BlockFacts
<1>a. running \in BOOLEAN /\ cpc \in {"pop", "exited"}
  BY DEF Init, IsAsyncChannel
<1>b. queue \in Seq(Block)
  BY DEF Init
<1>1. TypeOK
  BY <1>0, <1>a, <1>b DEF Init, TypeOK, Threads
<1>2. PendingExact /\ HandoffInv /\ ShutdownInv
  BY DEF Init, PendingExact, BeingParsed, BeingPushed, HandoffInv, ShutdownInv
<1> QED BY <1>1, <1>2 DEF CountInv

LEMMA HandoffCount ==
    ASSUME CountInv, PipelineInv, Handoff
    PROVE  CountInv'
<1> USE SizeAssumption, KindAssumption
<1>0. ASSUME NEW b \in Block, NEW ok \in BOOLEAN, HandoffReturn(ok, b)
      PROVE  /\ buf' \in Block /\ push' \in Block /\ dropped' \subseteq Nat
             /\ owner' = "none" /\ stage' = "none"
             /\ keptBack' \in BOOLEAN
             /\ wpc' \in {"idle", "check", "read", "handoff"}
             /\ dpc' \in {"idle", "enter", "handoff", "wait", "asleep", "final"}
             /\ rpc' \in {"idle", "uninit", "drain", "handoff", "stop", "join", "leftover",
                         "erased", "dead"}
  BY <1>0, BlockFacts, OffsetsFacts DEF HandoffReturn, CountInv, TypeOK
<1>1. CASE PushOk
  <2>1. queue' \in Seq(Block) /\ Len(queue') = Len(queue) + 1
    BY <1>1 DEF PushOk, CountInv, TypeOK
  <2>2. PICK b \in Block : HandoffReturn(TRUE, b)
    BY <1>1, BlockFacts DEF PushOk, CountInv, TypeOK
  <2>3. TypeOK'
    BY <1>0, <1>1, <2>1, <2>2
       DEF PushOk, CountInv, TypeOK, driverVars, lifeVars, eatVars, Threads
  <2>4. PendingExact' /\ HandoffInv' /\ ShutdownInv'
    BY <1>1, <2>1 DEF PushOk, HandoffReturn, CountInv, TypeOK, PendingExact, BeingParsed,
       BeingPushed, HandoffInv, ShutdownInv, IsAsyncChannel, driverVars, lifeVars, eatVars
  <2> QED BY <2>3, <2>4 DEF CountInv
<1>2. CASE PushFull
  BY <1>2 DEF PushFull, CountInv, TypeOK, PendingExact, BeingParsed, BeingPushed,
              HandoffInv, ShutdownInv, IsAsyncChannel, driverVars, lifeVars, eatVars, drainVars
<1>3. CASE PushUndo
  <2>1. HandoffReturn(FALSE, buf) /\ buf \in Block
    BY <1>3 DEF PushUndo, CountInv, TypeOK
  <2>2. pending' \in Nat /\ PendingExact'
    BY <1>3 DEF PushUndo, HandoffReturn, CountInv, TypeOK, PendingExact, BeingParsed,
                BeingPushed, HandoffInv, eatVars
  <2>3. TypeOK'
    BY <1>0, <1>3, <2>1, <2>2
       DEF PushUndo, CountInv, TypeOK, driverVars, lifeVars, eatVars, Threads
  <2>4. HandoffInv' /\ ShutdownInv'
    BY <1>3 DEF PushUndo, HandoffReturn, CountInv, TypeOK, HandoffInv, ShutdownInv,
       IsAsyncChannel, driverVars, lifeVars, eatVars
  <2> QED BY <2>2, <2>3, <2>4 DEF CountInv
<1> QED BY <1>1, <1>2, <1>3 DEF Handoff

LEMMA WorkerCount ==
    ASSUME CountInv, PipelineInv, Dispatch \/ Worker
    PROVE  CountInv'
<1> USE SizeAssumption, KindAssumption
<1>1. CASE Dispatch \/ ExecCheck \/ ExecReadNothing
  <2>0. /\ wpc' \in {"idle", "check", "read"}
        /\ UNCHANGED <<driverVars, buf, pipeVars, lifeVars, eatVars, drainVars,
                       cpc, rpc, dropped>>
    BY <1>1 DEF Dispatch, ExecCheck, ExecReadNothing
  <2>1. TypeOK'
    BY <2>0 DEF CountInv, TypeOK, driverVars, pipeVars, lifeVars, eatVars, drainVars
  <2>2. PendingExact'
    BY <1>1 DEF Dispatch, ExecCheck, ExecReadNothing, CountInv, PendingExact,
                BeingParsed, BeingPushed, pipeVars, eatVars
  <2>3. HandoffInv'
    BY <1>1 DEF Dispatch, ExecCheck, ExecReadNothing, CountInv, HandoffInv,
                pipeVars, lifeVars, drainVars
  <2>4. ShutdownInv'
    BY <1>1 DEF Dispatch, ExecCheck, ExecReadNothing, CountInv, ShutdownInv, IsAsyncChannel,
       driverVars, pipeVars, lifeVars, eatVars
  <2> QED BY <2>1, <2>2, <2>3, <2>4 DEF CountInv
<1>2. ASSUME NEW n \in 1..BufferSize, ExecRead(n) PROVE CountInv'
  <2> DEFINE b == Filled(n)
  <2>1. total' = total + n /\ total' \in Nat
    BY <1>2 DEF ExecRead, CountInv, TypeOK
  <2>2. b \in Block /\ b.lo \in Nat /\ b.hi = total + n /\ b.lo < b.hi
    BY <2>1, BlockFacts DEF Filled, CountInv, TypeOK, PipelineInv, BufInv
  <2>3. /\ Size(b) \in Nat
        /\ Whole(Size(b)) \in Nat /\ Whole(Size(b)) <= Size(b)
        /\ Size(b) = b.hi - b.lo
    BY <2>1, <2>2, WholeBounds DEF Size
  <2> DEFINE cut == b.lo + Whole(Size(b))
  <2>4. cut \in Nat /\ b.lo <= cut /\ cut <= b.hi
    BY <2>1, <2>2, <2>3
  <2>5. /\ Blk(b.lo, cut) \in Block /\ Blk(cut, b.hi) \in Block
        /\ Offsets(b) \subseteq Nat /\ Offsets(Blk(b.lo, cut)) \subseteq Nat
    BY <2>2, <2>4, BlockFacts, OffsetsFacts, <2>1
  <2> HIDE DEF b
  <2>6. owner = "none" /\ stage = "none" /\ wpc = "read"
    BY <1>2 DEF ExecRead, CountInv, HandoffInv
  <2>7. CASE ReadDiscard(b) \/ ReadSync(b) \/ ReadBatch(b)
    <3>1. buf' \in Block /\ parsed' \subseteq Nat /\ dropped' \subseteq Nat /\ wpc' = "check"
      BY <2>2, <2>5, <2>7, BlockFacts
         DEF ReadDiscard, ReadSync, ReadBatch, CountInv, TypeOK
    <3>2. UNCHANGED <<pipeVars, lifeVars, drainVars, item, eat, kind, produced, cpc, rpc>>
      BY <1>2, <2>7 DEF ExecRead, ReadDiscard, ReadSync, ReadBatch
    <3>3. TypeOK'
      BY <2>1, <3>1, <3>2 DEF CountInv, TypeOK, pipeVars, lifeVars, drainVars
    <3>4. PendingExact' /\ HandoffInv' /\ ShutdownInv'
      BY <2>6, <3>1, <3>2 DEF CountInv, PendingExact, BeingParsed, BeingPushed, HandoffInv,
         ShutdownInv, IsAsyncChannel, driverVars, pipeVars, lifeVars, drainVars
    <3> QED BY <3>3, <3>4 DEF CountInv
  <2>8. CASE ReadHandoff(b)
    <3>1. /\ buf' = b
          /\ UNCHANGED <<lifeVars, drainVars, eatVars, queue, kind, produced, cpc, rpc, dropped>>
      BY <1>2, <2>8 DEF ExecRead, ReadHandoff, eatVars, pipeVars
    <3>2. CASE running
      <4>1. HandoffBegin("worker", b) /\ wpc' = "handoff" /\ Whole(Size(b)) > 0
        BY <2>8, <3>2 DEF ReadHandoff
      <4>2. push' \in Block /\ push'.lo = b.lo /\ b.lo < push'.hi /\ push'.hi <= b.hi
        BY <2>2, <2>3, <2>4, <2>5, <4>1, BlockFacts DEF HandoffBegin
      <4>3. TypeOK'
        BY <2>1, <2>2, <3>1, <4>1, <4>2
           DEF HandoffBegin, CountInv, TypeOK, Threads, lifeVars, drainVars, eatVars
      <4>4. PendingExact' /\ ShutdownInv'
        BY <2>6, <3>1, <4>1
           DEF HandoffBegin, CountInv, TypeOK, PendingExact, BeingParsed, BeingPushed,
               ShutdownInv, IsAsyncChannel, driverVars, lifeVars, eatVars
      <4>5. HandoffInv'
        BY <2>6, <3>1, <3>2, <4>1, <4>2
           DEF HandoffBegin, CountInv, HandoffInv, lifeVars, drainVars
      <4> QED BY <4>3, <4>4, <4>5 DEF CountInv
    <3>3. CASE ~running
      <4>1. wpc' = "idle" /\ UNCHANGED pipeVars
        BY <2>8, <3>3 DEF ReadHandoff
      <4>2. TypeOK'
        BY <2>1, <2>2, <3>1, <4>1 DEF CountInv, TypeOK, pipeVars, lifeVars, drainVars, eatVars
      <4>3. PendingExact' /\ HandoffInv' /\ ShutdownInv'
        BY <2>6, <3>1, <4>1 DEF CountInv, PendingExact, BeingParsed, BeingPushed, HandoffInv,
           ShutdownInv, IsAsyncChannel, driverVars, pipeVars, lifeVars, drainVars, eatVars
      <4> QED BY <4>2, <4>3 DEF CountInv
    <3> QED BY <3>2, <3>3
  <2> QED BY <1>2, <2>7, <2>8 DEF ExecRead, b
<1> QED BY <1>1, <1>2 DEF Worker

LEMMA ConsumerCount ==
    ASSUME CountInv, PipelineInv, Consumer
    PROVE  CountInv'
<1>1. CASE Pop
  <2>1. /\ item' \in Block /\ queue' \in Seq(Block) /\ Len(queue') = Len(queue) - 1
        /\ eat = "none" /\ eat' = "parse" /\ queue # <<>> /\ Len(queue) \in Nat
    BY <1>1 DEF Pop, CountInv, TypeOK
  <2>2. TypeOK'
    BY <1>1, <2>1 DEF Pop, CountInv, TypeOK, driverVars, lifeVars, drainVars
  <2>3. PendingExact'
    <3>1. pending' = pending /\ stage' = stage
      BY <1>1 DEF Pop
    <3> QED BY <2>1, <3>1 DEF CountInv, PendingExact, BeingParsed, BeingPushed
  <2>4. HandoffInv' /\ ShutdownInv'
    BY <1>1, <2>1 DEF Pop, CountInv, HandoffInv, ShutdownInv, IsAsyncChannel, driverVars,
       lifeVars, drainVars
  <2> QED BY <2>2, <2>3, <2>4 DEF CountInv
<1>2. CASE Parse
  <2>0. parsed' \subseteq Nat
    BY <1>2, OffsetsFacts DEF Parse, CountInv, TypeOK
  <2>1. TypeOK'
    BY <1>2, <2>0 DEF Parse, CountInv, TypeOK, driverVars, pipeVars, lifeVars, drainVars
  <2>2. PendingExact' /\ HandoffInv' /\ ShutdownInv'
    BY <1>2 DEF Parse, CountInv, PendingExact, BeingParsed, BeingPushed, HandoffInv,
                ShutdownInv, IsAsyncChannel, driverVars, pipeVars, lifeVars, drainVars
  <2> QED BY <2>1, <2>2 DEF CountInv
<1>3. CASE CountDown
  <2>1. pending > 0 /\ pending' = pending - 1 /\ pending' \in Nat
    BY <1>3 DEF CountDown, CountInv, TypeOK, PendingExact, BeingParsed, BeingPushed
  <2>2. TypeOK'
    BY <1>3, <2>1, BlockFacts
       DEF CountDown, CountInv, TypeOK, driverVars, lifeVars, drainVars
  <2>3. PendingExact' /\ HandoffInv' /\ ShutdownInv'
    BY <1>3, <2>1 DEF CountDown, CountInv, TypeOK, PendingExact, BeingParsed, BeingPushed,
                HandoffInv, ShutdownInv, IsAsyncChannel, driverVars, lifeVars, drainVars
  <2> QED BY <2>2, <2>3 DEF CountInv
<1>4. CASE Notify
  <2>1. TypeOK'
    BY <1>4 DEF Notify, CountInv, TypeOK, driverVars, pipeVars, lifeVars
  <2>2. PendingExact' /\ HandoffInv' /\ ShutdownInv'
    BY <1>4 DEF Notify, CountInv, PendingExact, BeingParsed, BeingPushed, HandoffInv,
                ShutdownInv, IsAsyncChannel, driverVars, pipeVars, lifeVars
  <2> QED BY <2>1, <2>2 DEF CountInv
<1>5. CASE ConsumerExit
  <2>1. TypeOK'
    BY <1>5 DEF ConsumerExit, CountInv, TypeOK, driverVars, pipeVars, lifeVars, eatVars,
                drainVars
  <2>2. PendingExact' /\ HandoffInv' /\ ShutdownInv'
    BY <1>5 DEF ConsumerExit, CountInv, PendingExact, BeingParsed, BeingPushed, HandoffInv,
                ShutdownInv, IsAsyncChannel, driverVars, pipeVars, lifeVars, eatVars, drainVars
  <2> QED BY <2>1, <2>2 DEF CountInv
<1> QED BY <1>1, <1>2, <1>3, <1>4, <1>5 DEF Consumer

LEMMA DrainerCount ==
    ASSUME CountInv, PipelineInv, Drainer \/ \E w \in BOOLEAN : DrainCall(w)
    PROVE  CountInv'
<1>1. ASSUME NEW w \in BOOLEAN, DrainCall(w) PROVE CountInv'
  <2>1. TypeOK'
    BY <1>1 DEF DrainCall, CountInv, TypeOK, driverVars, pipeVars, lifeVars, eatVars
  <2>2. PendingExact' /\ HandoffInv' /\ ShutdownInv'
    BY <1>1 DEF DrainCall, CountInv, PendingExact, BeingParsed, BeingPushed, HandoffInv,
                ShutdownInv, IsAsyncChannel, driverVars, pipeVars, lifeVars, eatVars
  <2> QED BY <2>1, <2>2 DEF CountInv
<1>2. CASE DrainNoQueue \/ DrainWait \/ DrainTimeout \/ DrainReturn
  <2>1. /\ dpc # "handoff" /\ dpc' \in {"idle", "wait", "asleep", "final"}
        /\ drained' \in {"none", "success", "error"}
        /\ UNCHANGED <<driverVars, buf, pipeVars, lifeVars, eatVars, wpc, cpc, rpc,
                       wantWait, dropped, goal, keptBack>>
    BY <1>2 DEF DrainNoQueue, DrainWait, DrainTimeout, DrainReturn, CountInv, TypeOK
  <2>2. TypeOK'
    BY <2>1 DEF CountInv, TypeOK, driverVars, pipeVars, lifeVars, eatVars
  <2>3. PendingExact' /\ HandoffInv' /\ ShutdownInv'
    BY <2>1 DEF CountInv, PendingExact, BeingParsed, BeingPushed, HandoffInv, ShutdownInv,
       IsAsyncChannel, driverVars, pipeVars, lifeVars, eatVars
  <2> QED BY <2>2, <2>3 DEF CountInv
<1>3. CASE DrainLock
  <2> DEFINE whole == IF inited THEN Whole(Size(buf)) ELSE 0
  <2>0. /\ Size(buf) \in Nat /\ buf.lo \in Nat /\ buf.hi = buf.lo + Size(buf)
    BY BlockFacts DEF CountInv, TypeOK, PipelineInv, BufInv, Size
  <2>1. /\ Size(buf) \in Nat /\ buf.lo \in Nat /\ buf.hi = buf.lo + Size(buf)
        /\ Whole(Size(buf)) \in Nat /\ Whole(Size(buf)) <= Size(buf)
    BY <2>0, WholeBounds
  <2>a. whole \in Nat
    BY <2>1
  <2>b. goal' = IF buf = Empty THEN total ELSE buf.lo + whole
    BY <1>3 DEF DrainLock
  <2>2. goal' \in Nat
    BY <2>1, <2>a, <2>b DEF CountInv, TypeOK
  <2>3. owner = "none" /\ stage = "none" /\ dpc = "enter"
    BY <1>3 DEF DrainLock, CountInv, HandoffInv
  <2>4. UNCHANGED <<driverVars, buf, queue, lifeVars, eatVars, wpc, cpc, rpc, wantWait,
                    drained, dropped>>
    BY <1>3 DEF DrainLock, pipeVars
  <2>5. CASE whole > 0 /\ running
    <3>1. HandoffBegin("drainer", buf) /\ dpc' = "handoff" /\ keptBack' = FALSE /\ inited
      BY <1>3, <2>5 DEF DrainLock
    <3>2. push' \in Block /\ push'.lo = buf.lo /\ buf.lo < push'.hi /\ push'.hi <= buf.hi
      BY <2>1, <2>5, <3>1, BlockFacts DEF HandoffBegin
    <3>b. keptBack' \in BOOLEAN
      BY <3>1
    <3>a. owner' = "drainer" /\ stage' = "push" /\ pending' \in Nat /\ dpc' = "handoff"
      BY <3>1 DEF HandoffBegin, CountInv, TypeOK
    <3>3. TypeOK'
      <4>1. UNCHANGED <<kind, produced, total, buf, queue, quit, running, inited, stopped, item,
                        eat, parsed, wpc, cpc, rpc, wantWait, drained, dropped>>
        BY <2>4 DEF driverVars, lifeVars, eatVars
      <4> QED BY <2>2, <3>a, <3>b, <3>2, <4>1 DEF CountInv, TypeOK, Threads
    <3>4. PendingExact' /\ ShutdownInv'
      BY <2>3, <2>4, <3>1
         DEF HandoffBegin, CountInv, TypeOK, PendingExact, BeingParsed, BeingPushed,
             ShutdownInv, IsAsyncChannel, driverVars, lifeVars, eatVars
    <3>5. HandoffInv'
      BY <2>3, <2>4, <2>5, <3>1, <3>2 DEF HandoffBegin, CountInv, HandoffInv, lifeVars
    <3> QED BY <3>3, <3>4, <3>5 DEF CountInv
  <2>6. CASE ~(whole > 0 /\ running)
    <3>0. /\ dpc' = IF wantWait THEN "wait" ELSE "idle"
          /\ keptBack' = (whole > 0) /\ UNCHANGED pipeVars
      BY <1>3, <2>6 DEF DrainLock
    <3>1. dpc' \in {"wait", "idle"} /\ keptBack' \in BOOLEAN /\ UNCHANGED pipeVars
      BY <3>0
    <3>2. TypeOK'
      BY <2>2, <2>4, <3>1 DEF CountInv, TypeOK, driverVars, pipeVars, lifeVars, eatVars
    <3>3. PendingExact' /\ HandoffInv' /\ ShutdownInv'
      BY <2>3, <2>4, <3>1 DEF CountInv, PendingExact, BeingParsed, BeingPushed, HandoffInv,
         ShutdownInv, IsAsyncChannel, driverVars, pipeVars, lifeVars, eatVars
    <3> QED BY <3>2, <3>3 DEF CountInv
  <2> QED BY <2>5, <2>6
<1> QED BY <1>1, <1>2, <1>3 DEF Drainer

LEMMA RemoverCount ==
    ASSUME CountInv, PipelineInv, SetChannelStopped \/ Remover
    PROVE  CountInv'
<1> USE KindAssumption
<1>1. CASE SetChannelStopped \/ UnInit
  <2>0. /\ rpc \in {"idle", "uninit"} /\ rpc' \in {"uninit", "drain"}
        /\ stopped' \in BOOLEAN /\ inited' \in BOOLEAN
        /\ UNCHANGED <<driverVars, buf, pipeVars, quit, running, eatVars, drainVars,
                       wpc, cpc, dropped>>
    BY <1>1 DEF SetChannelStopped, UnInit, CountInv, TypeOK
  <2>1. TypeOK'
    BY <2>0 DEF CountInv, TypeOK, driverVars, pipeVars, eatVars, drainVars
  <2>2. PendingExact' /\ HandoffInv' /\ ShutdownInv'
    BY <2>0 DEF CountInv, PendingExact, BeingParsed, BeingPushed, HandoffInv, ShutdownInv,
       IsAsyncChannel, driverVars, pipeVars, eatVars, drainVars
  <2> QED BY <2>1, <2>2 DEF CountInv
<1>2. CASE StopConsumerThread
  <2>0. /\ rpc = "stop" /\ rpc' = "join" /\ owner = "none" /\ stage = "none"
        /\ ~running' /\ running' \in BOOLEAN /\ quit' \in BOOLEAN
        /\ UNCHANGED <<driverVars, buf, pipeVars, inited, stopped, eatVars, drainVars,
                       wpc, cpc, dropped>>
    BY <1>2 DEF StopConsumerThread, CountInv, HandoffInv, IsAsyncChannel
  <2>1. TypeOK'
    BY <2>0 DEF CountInv, TypeOK, driverVars, pipeVars, eatVars, drainVars
  <2>2. PendingExact' /\ HandoffInv' /\ ShutdownInv'
    BY <2>0 DEF CountInv, PendingExact, BeingParsed, BeingPushed, HandoffInv, ShutdownInv,
       IsAsyncChannel, driverVars, pipeVars, eatVars, drainVars
  <2> QED BY <2>1, <2>2 DEF CountInv
<1>3. CASE JoinConsumer \/ LeftoverDone
  <2>0. /\ rpc \in {"join", "leftover"} /\ rpc' \in {"leftover", "erased"}
        /\ rpc' = "erased" => queue = <<>> /\ eat = "none"
        /\ UNCHANGED <<driverVars, buf, pipeVars, lifeVars, eatVars, drainVars,
                       wpc, cpc, dropped>>
    BY <1>3 DEF JoinConsumer, LeftoverDone
  <2>1. TypeOK'
    BY <2>0 DEF CountInv, TypeOK, driverVars, pipeVars, eatVars, drainVars, lifeVars
  <2>2. PendingExact' /\ HandoffInv' /\ ShutdownInv'
    BY <2>0 DEF CountInv, PendingExact, BeingParsed, BeingPushed, HandoffInv, ShutdownInv,
       IsAsyncChannel, driverVars, pipeVars, eatVars, drainVars, lifeVars
  <2> QED BY <2>1, <2>2 DEF CountInv
<1>4. ASSUME NEW from \in {"drain", "erased"}, NEW next \in {"stop", "dead"},
             rpc = from, next = IF from = "drain" THEN "stop" ELSE "dead",
             DrainBufferedData(next)
      PROVE  CountInv'
  <2> DEFINE cut == buf.lo + Whole(Size(buf))
  <2>a. /\ Size(buf) \in Nat /\ buf.lo \in Nat /\ buf.hi = buf.lo + Size(buf)
    BY BlockFacts DEF CountInv, TypeOK, PipelineInv, BufInv, Size
  <2>b. Whole(Size(buf)) \in Nat /\ Whole(Size(buf)) <= Size(buf)
    BY <2>a, WholeBounds
  <2>c. /\ Blk(buf.lo, cut) \in Block /\ Blk(cut, buf.hi) \in Block
        /\ buf.lo <= cut /\ cut <= buf.hi /\ cut \in Nat
    BY <2>a, <2>b, BlockFacts
  <2>d. /\ Offsets(Blk(buf.lo, cut)) \subseteq Nat /\ Offsets(Blk(cut, buf.hi)) \subseteq Nat
        /\ Offsets(buf) \subseteq Nat
    BY <2>c, OffsetsFacts DEF CountInv, TypeOK
  <2>e. /\ owner = "none" /\ stage = "none"
        /\ UNCHANGED <<driverVars, lifeVars, item, eat, drainVars, wpc, cpc>>
    BY <1>4 DEF DrainBufferedData, CountInv, HandoffInv
  <2>1. CASE ~running \/ Whole(Size(buf)) = 0
    <3>1. /\ buf' = Empty /\ parsed' \subseteq Nat /\ dropped' \subseteq Nat
          /\ rpc' = next /\ UNCHANGED pipeVars
      <4>1. CASE DrainDirectly /\ rpc' = next
        BY <4>1, <2>d DEF DrainDirectly, CountInv, TypeOK
      <4>2. CASE /\ dropped' = dropped \cup Offsets(buf) /\ buf' = Empty
                 /\ rpc' = next /\ UNCHANGED <<pipeVars, parsed>>
        BY <4>2, <2>d DEF CountInv, TypeOK
      <4> QED BY <1>4, <2>1, <2>b, <4>1, <4>2 DEF DrainBufferedData
    <3>2. TypeOK'
      BY <1>4, <2>e, <3>1, BlockFacts
         DEF CountInv, TypeOK, driverVars, pipeVars, drainVars, lifeVars
    <3>3. PendingExact' /\ HandoffInv' /\ ShutdownInv'
      BY <1>4, <2>e, <3>1 DEF CountInv, PendingExact, BeingParsed, BeingPushed, HandoffInv,
         ShutdownInv, IsAsyncChannel, driverVars, pipeVars, drainVars, lifeVars
    <3> QED BY <3>2, <3>3 DEF CountInv
  <2>2. CASE running /\ Whole(Size(buf)) > 0
    <3>1. /\ HandoffBegin("remover", buf) /\ rpc' = "handoff"
          /\ UNCHANGED <<buf, queue, parsed, dropped>>
      BY <1>4, <2>2, <2>b DEF DrainBufferedData
    <3>2. push' \in Block /\ push'.lo = buf.lo /\ buf.lo < push'.hi /\ push'.hi <= buf.hi
      BY <2>2, <2>c, <2>a, <2>b, <3>1, BlockFacts DEF HandoffBegin
    <3>3. owner' = "remover" /\ stage' = "push" /\ pending' = pending + 1
      BY <3>1 DEF HandoffBegin
    <3>4. TypeOK'
      <4>1. pending' \in Nat /\ rpc' = "handoff"
        BY <3>1, <3>3 DEF CountInv, TypeOK
      <4>2. UNCHANGED <<kind, produced, total, buf, queue, lifeVars, item, eat, parsed, dropped,
                        drainVars, wpc, cpc>>
        BY <2>e, <3>1 DEF driverVars
      <4> QED BY <3>2, <3>3, <4>1, <4>2 DEF CountInv, TypeOK, drainVars, lifeVars, Threads
    <3>5. from = "drain"
      BY <1>4, <2>2 DEF CountInv, ShutdownInv, IsAsyncChannel, driverVars
    <3>6. PendingExact'
      BY <2>e, <3>1, <3>3 DEF CountInv, TypeOK, PendingExact, BeingParsed, BeingPushed
    <3>7. HandoffInv' /\ ShutdownInv'
      BY <1>4, <2>2, <2>e, <3>1, <3>2, <3>3, <3>5
         DEF CountInv, HandoffInv, ShutdownInv, IsAsyncChannel, driverVars, drainVars, lifeVars
    <3> QED BY <3>4, <3>6, <3>7 DEF CountInv
  <2> QED BY <2>1, <2>2, <2>b
<1> QED BY <1>1, <1>2, <1>3, <1>4 DEF Remover, UnInitDrain, Destroy

LEMMA CountStep ==
    ASSUME CountInv, PipelineInv, [Next]_vars
    PROVE  CountInv'
<1>1. CASE Produce
  <2>1. TypeOK'
    BY <1>1 DEF Produce, CountInv, TypeOK, pipeVars, lifeVars, eatVars, drainVars
  <2>2. PendingExact' /\ HandoffInv' /\ ShutdownInv'
    BY <1>1 DEF Produce, CountInv, PendingExact, BeingParsed, BeingPushed, HandoffInv,
                ShutdownInv, IsAsyncChannel, driverVars, pipeVars, lifeVars, eatVars, drainVars
  <2> QED BY <2>1, <2>2 DEF CountInv
<1>2. CASE UNCHANGED vars
  <2>1. TypeOK'
    BY <1>2 DEF vars, CountInv, TypeOK
  <2>2. PendingExact' /\ HandoffInv' /\ ShutdownInv'
    BY <1>2 DEF vars, CountInv, PendingExact, BeingParsed, BeingPushed, HandoffInv,
                ShutdownInv, IsAsyncChannel, driverVars
  <2> QED BY <2>1, <2>2 DEF CountInv
<1> QED BY <1>1, <1>2, HandoffCount, WorkerCount, ConsumerCount, DrainerCount, RemoverCount
        DEF Next, Terminated
----------------------------------------------------------------------------
(* The stream.                                                             *)
LEMMA InitStream == Init => StreamInv
BY BlockFacts DEF Init, StreamInv, PipelineInv, BufInv, ItemInv, QueueInv, SortedInv,
   ParsedInv, DroppedInv, CoverInv

\* A step that moves no byte.
LEMMA StreamKept ==
    ASSUME StreamInv, UNCHANGED <<total, buf, queue, item, parsed, dropped>>,
           eat' = "parse" <=> eat = "parse"
    PROVE  StreamInv'
<1>1. PipelineInv'
  BY DEF StreamInv, PipelineInv, BufInv, ItemInv, QueueInv, SortedInv
<1>2. ParsedInv' /\ DroppedInv' /\ CoverInv'
  BY DEF StreamInv, ParsedInv, DroppedInv, CoverInv, InItem, InQueue, InBuf
<1> QED BY <1>1, <1>2 DEF StreamInv

\* The end of a handoff: the block is in the queue and rest is what buffer_ keeps.
LEMMA PushOkStream ==
    ASSUME CountInv, StreamInv, PushOk
    PROVE  StreamInv'
<1> DEFINE n == Len(queue)
           rest == IF push.hi = buf.hi THEN Empty ELSE Blk(push.hi, buf.hi)
<1>1. /\ push \in Block /\ buf \in Block /\ queue \in Seq(Block) /\ n \in Nat
      /\ push.lo = buf.lo /\ push.lo < push.hi /\ push.hi <= buf.hi
      /\ buf # Empty /\ buf.lo < buf.hi /\ buf.hi = total
      /\ push.lo \in Nat /\ push.hi \in Nat /\ total \in Nat
  BY BlockFacts DEF PushOk, CountInv, TypeOK, HandoffInv, StreamInv, PipelineInv, BufInv
<1>2. /\ queue' = Append(queue, push) /\ Len(queue') = n + 1
      /\ \A i \in 1..n : queue'[i] = queue[i]
      /\ queue'[n + 1] = push
  BY <1>1 DEF PushOk
<1>3. /\ UNCHANGED <<total, item, eat, parsed>> /\ HandoffReturn(TRUE, rest)
  BY DEF PushOk, driverVars, eatVars
<1>4. /\ rest \in Block
      /\ rest = Empty \/ (rest.lo = push.hi /\ rest.hi = total /\ push.hi < total)
      /\ rest = Empty => push.hi = total
  BY <1>1, BlockFacts
<1>5. /\ buf' = rest \/ buf' = Empty
      /\ \/ buf' = rest /\ dropped' = dropped
         \/ buf' = Empty /\ dropped' = dropped \cup Offsets(rest)
  BY <1>3 DEF HandoffReturn
<1>6. \A o \in Offsets(rest) : o \in Nat /\ push.hi <= o /\ o < total
  BY <1>1, <1>4, BlockFacts, OffsetsFacts
<1>7. \A o \in Nat : push.hi <= o /\ o < total => o \in Offsets(rest)
  BY <1>1, <1>4, BlockFacts, OffsetsFacts
<1> HIDE DEF rest
<1>8. \A i \in 1..n : queue[i] \in Block /\ queue[i].lo \in Nat /\ queue[i].hi \in Nat
  BY <1>1, BlockFacts
<1>a. PipelineInv'
  <2>1. buf' = Empty \/ (buf'.lo < buf'.hi /\ buf'.hi = total' /\ buf'.lo = push.hi)
    BY <1>1, <1>3, <1>4, <1>5
  <2>2. BufInv'
    BY <2>1 DEF BufInv
  <2>3. ItemInv'
    <3> SUFFICES ASSUME eat = "parse" PROVE ItemInv'
      BY <1>3 DEF ItemInv
    <3>1. /\ item.lo < item.hi /\ item.hi <= push.lo /\ item.lo \in Nat /\ item.hi \in Nat
          /\ \A i \in 1..n : item.hi <= queue[i].lo
      BY <1>1, BlockFacts DEF StreamInv, PipelineInv, ItemInv, CountInv, TypeOK
    <3>2. \A i \in 1..Len(queue') : item.hi <= queue'[i].lo
      BY <1>1, <1>2, <3>1
    <3>3. item' = item /\ total' = total
      BY <1>3
    <3>4. item.hi <= total /\ (buf' # Empty => item.hi <= buf'.lo)
      BY <1>1, <2>1, <3>1
    <3> QED BY <3>1, <3>2, <3>3, <3>4 DEF ItemInv
  <2>4. QueueInv'
    BY <1>1, <1>2, <1>3, <1>8, <2>1 DEF StreamInv, PipelineInv, QueueInv
  <2>5. SortedInv'
    <3> SUFFICES ASSUME NEW i \in 1..(n + 1), NEW j \in 1..(n + 1), i < j
                 PROVE  queue'[i].hi <= queue'[j].lo
      BY <1>2 DEF SortedInv
    <3>1. i \in 1..n /\ queue'[i] = queue[i] /\ queue[i].hi <= push.lo
      BY <1>1, <1>2 DEF StreamInv, PipelineInv, QueueInv
    <3>2. CASE j = n + 1
      BY <1>2, <3>1, <3>2
    <3>3. CASE j \in 1..n
      BY <1>2, <3>1, <3>3 DEF StreamInv, PipelineInv, SortedInv
    <3> QED BY <1>1, <3>2, <3>3
  <2> QED BY <2>2, <2>3, <2>4, <2>5 DEF PipelineInv
<1>b. ParsedInv'
  BY <1>1, <1>2, <1>3, <1>4, <1>5 DEF StreamInv, ParsedInv, CountInv, TypeOK
<1>c. \A o \in Nat : InQueue(o)' <=> InQueue(o) \/ (push.lo <= o /\ o < push.hi)
  BY <1>1, <1>2, <1>8 DEF InQueue
<1>d. \A o \in Nat : InItem(o)' <=> InItem(o)
  BY <1>3 DEF InItem
<1>e. \A o \in parsed : o < push.lo
  BY <1>1 DEF StreamInv, ParsedInv
<1>f. \A o \in Nat : InItem(o) => o < push.lo
  BY <1>1, BlockFacts DEF StreamInv, PipelineInv, BufInv, ItemInv, QueueInv, SortedInv,
     InItem, CountInv, TypeOK
<1>g. \A o \in Nat : InQueue(o) => o < push.lo
  BY <1>1, <1>8 DEF StreamInv, PipelineInv, BufInv, ItemInv, QueueInv, SortedInv, InQueue
<1>h. DroppedInv'
  <2>1. ASSUME NEW o \in dropped
        PROVE  /\ o < total' /\ o \notin parsed' /\ ~InItem(o)' /\ ~InQueue(o)'
               /\ buf' # Empty => o < buf'.lo
    BY <1>1, <1>3, <1>4, <1>5, <1>c, <1>d DEF StreamInv, DroppedInv, CountInv, TypeOK
  <2>2. ASSUME NEW o \in Offsets(rest), buf' = Empty
        PROVE  /\ o < total' /\ o \notin parsed' /\ ~InItem(o)' /\ ~InQueue(o)'
               /\ buf' # Empty => o < buf'.lo
    BY <1>1, <1>3, <1>6, <1>c, <1>d, <1>e, <1>f, <1>g, <2>2 DEF CountInv, TypeOK
  <2> QED BY <1>5, <2>1, <2>2 DEF DroppedInv, Empty, Blk
<1>i. CoverInv'
  <2> SUFFICES ASSUME NEW o \in Nat, o < total
               PROVE  o \in parsed' \/ o \in dropped' \/ InItem(o)' \/ InQueue(o)' \/ InBuf(o)'
    BY <1>3 DEF CoverInv
  <2>1. CASE ~InBuf(o)
    BY <1>3, <1>5, <1>c, <1>d, <2>1 DEF StreamInv, CoverInv
  <2>2. CASE InBuf(o) /\ o < push.hi
    BY <1>1, <1>c, <2>2 DEF InBuf
  <2>3. CASE InBuf(o) /\ ~(o < push.hi)
    <3>1. push.hi <= o /\ o \in Offsets(rest)
      BY <1>1, <1>7, <2>3
    <3>2. CASE buf' = rest
      BY <1>1, <1>4, <3>1, <3>2 DEF InBuf
    <3>3. CASE dropped' = dropped \cup Offsets(rest)
      BY <3>1, <3>3
    <3> QED BY <1>5, <3>2, <3>3
  <2> QED BY <2>1, <2>2, <2>3
<1> QED BY <1>a, <1>b, <1>h, <1>i DEF StreamInv

\* What buffer_ holds is thrown away.
LEMMA DropStream ==
    ASSUME CountInv, StreamInv, UNCHANGED <<total, queue, item, parsed>>,
           eat' = "parse" <=> eat = "parse",
           buf' = Empty, dropped' = dropped \cup Offsets(buf)
    PROVE  StreamInv'
<1>1. /\ buf \in Block /\ total \in Nat /\ queue \in Seq(Block) /\ item \in Block
      /\ \A o \in Nat : o \in Offsets(buf) <=> InBuf(o)
      /\ Offsets(buf) \subseteq Nat
  BY OffsetsFacts DEF CountInv, TypeOK, InBuf
<1>2. /\ buf.lo \in Nat /\ buf.hi \in Nat /\ item.lo \in Nat /\ item.hi \in Nat
      /\ \A i \in 1..Len(queue) : queue[i].lo \in Nat /\ queue[i].hi \in Nat
  BY <1>1, BlockFacts
<1>3. /\ \A o \in Nat : InItem(o)' <=> InItem(o)
      /\ \A o \in Nat : InQueue(o)' <=> InQueue(o)
  BY DEF InItem, InQueue
<1>4. PipelineInv'
  BY DEF StreamInv, PipelineInv, BufInv, ItemInv, QueueInv, SortedInv
<1>5. ParsedInv'
  BY DEF StreamInv, ParsedInv
<1>6. ASSUME NEW o \in Offsets(buf)
      PROVE  /\ buf # Empty /\ o \in Nat /\ o < total /\ buf.lo <= o /\ o \notin parsed
             /\ ~InItem(o) /\ ~InQueue(o)
  <2>1. o \in Nat /\ buf.lo <= o /\ o < buf.hi
    BY <1>1, <1>6 DEF InBuf
  <2>2. buf # Empty /\ o < total
    BY <1>2, <2>1, BlockFacts DEF StreamInv, PipelineInv, BufInv
  <2>3. o \notin parsed
    BY <1>2, <2>1, <2>2 DEF StreamInv, ParsedInv
  <2>4. ~InItem(o)
    BY <1>2, <2>1, <2>2 DEF StreamInv, PipelineInv, ItemInv, InItem
  <2>5. ~InQueue(o)
    BY <1>2, <2>1, <2>2 DEF StreamInv, PipelineInv, QueueInv, InQueue
  <2> QED BY <2>1, <2>2, <2>3, <2>4, <2>5
<1>7. DroppedInv'
  <2> SUFFICES ASSUME NEW o \in dropped'
               PROVE  o < total' /\ o \notin parsed' /\ ~InItem(o)' /\ ~InQueue(o)'
    BY DEF DroppedInv
  <2>1. o \in Nat
    BY <1>1 DEF CountInv, TypeOK
  <2> QED BY <1>3, <1>6, <2>1 DEF StreamInv, DroppedInv
<1>8. CoverInv'
  BY <1>1, <1>3 DEF StreamInv, CoverInv
<1> QED BY <1>4, <1>5, <1>7, <1>8 DEF StreamInv

\* More bytes are read behind what buffer_ holds.
LEMMA FillStream ==
    ASSUME CountInv, StreamInv, NEW n \in Nat \ {0}, total' = total + n, buf' = Filled(n),
           UNCHANGED <<queue, item, eat, parsed, dropped>>
    PROVE  StreamInv'
<1>1. /\ buf \in Block /\ total \in Nat /\ queue \in Seq(Block) /\ item \in Block
      /\ parsed \subseteq Nat /\ dropped \subseteq Nat
  BY DEF CountInv, TypeOK
<1>2. /\ buf.lo \in Nat /\ buf.hi \in Nat /\ item.lo \in Nat /\ item.hi \in Nat
      /\ \A i \in 1..Len(queue) : queue[i].lo \in Nat /\ queue[i].hi \in Nat
  BY <1>1, BlockFacts
<1>3. \/ buf = Empty /\ buf.lo = buf.hi /\ buf'.lo = total /\ buf'.hi = total'
      \/ buf # Empty /\ buf.lo < total /\ buf.hi = total /\ buf'.lo = buf.lo /\ buf'.hi = total'
  BY <1>1, <1>2, BlockFacts DEF Filled, StreamInv, PipelineInv, BufInv
<1>4. /\ \A o \in Nat : InItem(o)' <=> InItem(o)
      /\ \A o \in Nat : InQueue(o)' <=> InQueue(o)
  BY DEF InItem, InQueue
<1>5. BufInv'
  BY <1>1, <1>2, <1>3 DEF BufInv
<1>6. ItemInv'
  BY <1>1, <1>2, <1>3 DEF StreamInv, PipelineInv, ItemInv
<1>7. QueueInv' /\ SortedInv'
  BY <1>1, <1>2, <1>3 DEF StreamInv, PipelineInv, QueueInv, SortedInv
<1>8. ParsedInv'
  BY <1>1, <1>2, <1>3 DEF StreamInv, ParsedInv
<1>9. DroppedInv'
  <2> SUFFICES ASSUME NEW o \in dropped
               PROVE  /\ o < total' /\ o \notin parsed' /\ ~InItem(o)' /\ ~InQueue(o)'
                      /\ o < buf'.lo
    BY DEF DroppedInv
  <2> QED BY <1>1, <1>2, <1>3, <1>4 DEF StreamInv, DroppedInv
<1>10. CoverInv'
  <2> SUFFICES ASSUME NEW o \in Nat, o < total'
               PROVE  o \in parsed \/ o \in dropped \/ InItem(o) \/ InQueue(o) \/ InBuf(o)'
    BY <1>4 DEF CoverInv
  <2>1. CASE o < total
    BY <1>1, <1>2, <1>3, <2>1 DEF StreamInv, CoverInv, InBuf
  <2>2. CASE total <= o
    BY <1>1, <1>2, <1>3, <2>2 DEF InBuf
  <2> QED BY <1>1, <2>1, <2>2
<1> QED BY <1>5, <1>6, <1>7, <1>8, <1>9, <1>10 DEF StreamInv, PipelineInv

\* With nothing in the pipeline, a prefix of the block b is parsed on the spot and the
\* rest is kept or thrown away.
LEMMA DirectStream ==
    ASSUME TypeOK, TypeOK', NEW b \in Block, NEW cut \in Nat, b.lo <= cut, cut <= b.hi,
           \A o \in parsed \cup dropped : o < b.lo /\ o < b.hi, parsed \cap dropped = {},
           \A o \in Nat : o < b.lo => o \in parsed \/ o \in dropped,
           total' = b.hi, queue' = <<>>, eat' # "parse",
           parsed' = parsed \cup Offsets(Blk(b.lo, cut)),
           \/ dropped' = dropped /\ buf' = IF cut = b.hi THEN Empty ELSE Blk(cut, b.hi)
           \/ dropped' = dropped \cup Offsets(Blk(cut, b.hi)) /\ buf' = Empty
    PROVE  StreamInv'
<1>1. b.lo \in Nat /\ b.hi \in Nat /\ parsed \subseteq Nat /\ dropped \subseteq Nat
  BY BlockFacts DEF TypeOK
<1>2. /\ \A o \in Nat : o \in Offsets(Blk(b.lo, cut)) <=> b.lo <= o /\ o < cut
      /\ \A o \in Nat : o \in Offsets(Blk(cut, b.hi)) <=> cut <= o /\ o < b.hi
      /\ Offsets(Blk(b.lo, cut)) \subseteq Nat /\ Offsets(Blk(cut, b.hi)) \subseteq Nat
  BY <1>1, BlockFacts, OffsetsFacts
<1>3. \/ buf' = Empty /\ (cut = b.hi \/ dropped' = dropped \cup Offsets(Blk(cut, b.hi)))
      \/ buf'.lo = cut /\ buf'.hi = b.hi /\ cut < b.hi /\ dropped' = dropped
  BY <1>1, BlockFacts
<1>4. /\ \A o \in Nat : ~InItem(o)'
      /\ \A o \in Nat : ~InQueue(o)'
  BY DEF InItem, InQueue
<1>5. BufInv' /\ ItemInv' /\ QueueInv' /\ SortedInv'
  BY <1>1, <1>3 DEF BufInv, ItemInv, QueueInv, SortedInv
<1>6. ParsedInv'
  <2> SUFFICES ASSUME NEW o \in parsed'
               PROVE  o < total' /\ (buf' # Empty => o < buf'.lo)
    BY DEF ParsedInv
  <2> QED BY <1>1, <1>2, <1>3
<1>7. DroppedInv'
  <2> SUFFICES ASSUME NEW o \in dropped'
               PROVE  /\ o < total' /\ o \notin parsed' /\ o \in Nat
                      /\ (buf' # Empty => o < buf'.lo)
    BY <1>4 DEF DroppedInv
  <2>1. CASE o \in dropped
    BY <1>1, <1>2, <1>3, <2>1
  <2>2. CASE o \in Offsets(Blk(cut, b.hi)) /\ buf' = Empty
    BY <1>1, <1>2, <2>2
  <2> QED BY <2>1, <2>2
<1>8. CoverInv'
  <2> SUFFICES ASSUME NEW o \in Nat, o < b.hi
               PROVE  o \in parsed' \/ o \in dropped' \/ InBuf(o)'
    BY DEF CoverInv
  <2>1. CASE o < cut
    BY <1>1, <1>2, <2>1
  <2>2. CASE cut <= o
    BY <1>1, <1>2, <1>3, <2>2 DEF InBuf
  <2> QED BY <2>1, <2>2
<1> QED BY <1>5, <1>6, <1>7, <1>8 DEF StreamInv, PipelineInv

\* The block at the head of the queue is the next one parsed.
LEMMA PopStream ==
    ASSUME CountInv, StreamInv, Pop
    PROVE  StreamInv'
<1> DEFINE n == Len(queue)
<1>1. /\ queue \in Seq(Block) /\ queue # <<>> /\ total \in Nat /\ n \in Nat /\ n > 0
      /\ item' = queue[1] /\ Len(queue') = n - 1
      /\ \A i \in 1..(n - 1) : queue'[i] = queue[i + 1]
      /\ eat = "none" /\ eat' = "parse"
      /\ parsed \subseteq Nat /\ dropped \subseteq Nat
  BY DEF Pop, CountInv, TypeOK
<1>2. UNCHANGED <<total, buf, parsed, dropped>>
  BY DEF Pop, driverVars
<1>3. \A i \in 1..n : /\ queue[i] \in Block /\ queue[i].lo \in Nat /\ queue[i].hi \in Nat
  BY <1>1, BlockFacts
<1>4. BufInv'
  BY <1>2 DEF StreamInv, PipelineInv, BufInv
<1>5. ItemInv'
  <2>1. item'.lo < item'.hi /\ item'.hi <= total /\ (buf # Empty => item'.hi <= buf.lo)
    BY <1>1, <1>3 DEF StreamInv, PipelineInv, QueueInv
  <2>2. \A i \in 1..(n - 1) : item'.hi <= queue'[i].lo
    <3> SUFFICES ASSUME NEW i \in 1..(n - 1) PROVE queue[1].hi <= queue[i + 1].lo
      BY <1>1
    <3>1. i + 1 \in 1..n /\ 1 \in 1..n /\ 1 < i + 1
      BY <1>1
    <3> QED BY <3>1 DEF StreamInv, PipelineInv, SortedInv
  <2> QED BY <1>1, <1>2, <2>1, <2>2 DEF ItemInv
<1>6. QueueInv'
  <2> SUFFICES ASSUME NEW i \in 1..(n - 1)
               PROVE  /\ queue[i + 1].lo < queue[i + 1].hi /\ queue[i + 1].hi <= total
                      /\ buf # Empty => queue[i + 1].hi <= buf.lo
    BY <1>1, <1>2 DEF QueueInv
  <2>1. i + 1 \in 1..n
    BY <1>1
  <2> QED BY <2>1 DEF StreamInv, PipelineInv, QueueInv
<1>7. SortedInv'
  <2> SUFFICES ASSUME NEW i \in 1..(n - 1), NEW j \in 1..(n - 1), i < j
               PROVE  queue[i + 1].hi <= queue[j + 1].lo
    BY <1>1 DEF SortedInv
  <2>1. i + 1 \in 1..n /\ j + 1 \in 1..n /\ i + 1 < j + 1
    BY <1>1
  <2> QED BY <2>1 DEF StreamInv, PipelineInv, SortedInv
<1>8. \A o \in Nat : InItem(o)' \/ InQueue(o)' <=> InQueue(o)
  <2> SUFFICES ASSUME NEW o \in Nat PROVE InItem(o)' \/ InQueue(o)' <=> InQueue(o)
    OBVIOUS
  <2>1. InItem(o)' <=> queue[1].lo <= o /\ o < queue[1].hi
    BY <1>1 DEF InItem
  <2>2. InQueue(o)' <=> \E i \in 1..(n - 1) : queue[i + 1].lo <= o /\ o < queue[i + 1].hi
    BY <1>1 DEF InQueue
  <2>3. ASSUME NEW i \in 1..n, queue[i].lo <= o, o < queue[i].hi, i # 1
        PROVE  InQueue(o)'
    <3>1. i - 1 \in 1..(n - 1) /\ (i - 1) + 1 = i
      BY <1>1, <2>3
    <3> QED BY <2>2, <2>3, <3>1
  <2>4. ASSUME NEW i \in 1..(n - 1), queue[i + 1].lo <= o, o < queue[i + 1].hi
        PROVE  InQueue(o)
    <3>1. i + 1 \in 1..n
      BY <1>1
    <3> QED BY <2>4, <3>1 DEF InQueue
  <2>5. 1 \in 1..n
    BY <1>1
  <2> QED BY <2>1, <2>2, <2>3, <2>4, <2>5 DEF InQueue
<1>9. ParsedInv'
  <2> SUFFICES ASSUME NEW o \in parsed
               PROVE  /\ o < total /\ o < queue[1].lo
                      /\ \A i \in 1..(n - 1) : o < queue[i + 1].lo
                      /\ buf # Empty => o < buf.lo
    BY <1>1, <1>2 DEF ParsedInv
  <2>1. 1 \in 1..n /\ \A i \in 1..(n - 1) : i + 1 \in 1..n
    BY <1>1
  <2> QED BY <2>1 DEF StreamInv, ParsedInv
<1>10. DroppedInv'
  BY <1>1, <1>2, <1>8 DEF StreamInv, DroppedInv
<1>11. CoverInv'
  <2>1. \A o \in Nat : ~InItem(o)
    BY <1>1 DEF InItem
  <2> QED BY <1>1, <1>2, <1>8, <2>1 DEF StreamInv, CoverInv, InBuf
<1> QED BY <1>4, <1>5, <1>6, <1>7, <1>9, <1>10, <1>11 DEF StreamInv, PipelineInv

\* A popped block becomes parsed.
LEMMA ParseStream ==
    ASSUME CountInv, StreamInv, Parse
    PROVE  StreamInv'
<1>1. /\ eat = "parse" /\ eat' = "dec" /\ parsed' = parsed \cup Offsets(item)
      /\ UNCHANGED <<total, buf, queue, item, dropped>>
  BY DEF Parse, driverVars, pipeVars
<1>2. /\ queue \in Seq(Block) /\ total \in Nat /\ item.lo \in Nat /\ item.hi \in Nat
      /\ buf.lo \in Nat /\ buf.hi \in Nat
      /\ \A i \in 1..Len(queue) : queue[i].lo \in Nat /\ queue[i].hi \in Nat
      /\ parsed \subseteq Nat /\ dropped \subseteq Nat /\ Offsets(item) \subseteq Nat
      /\ \A o \in Nat : o \in Offsets(item) <=> InItem(o)
  BY <1>1, BlockFacts, OffsetsFacts DEF CountInv, TypeOK, InItem
<1>3. /\ \A o \in Nat : ~InItem(o)'
      /\ \A o \in Nat : InQueue(o)' <=> InQueue(o)
  BY <1>1 DEF InItem, InQueue
<1>4. PipelineInv'
  BY <1>1 DEF StreamInv, PipelineInv, BufInv, ItemInv, QueueInv, SortedInv
<1>5. ParsedInv'
  <2> SUFFICES ASSUME NEW o \in parsed'
               PROVE  /\ o < total /\ \A i \in 1..Len(queue) : o < queue[i].lo
                      /\ buf # Empty => o < buf.lo
    BY <1>1 DEF ParsedInv
  <2>1. CASE o \in parsed
    BY <2>1 DEF StreamInv, ParsedInv
  <2>2. CASE o \in Offsets(item)
    <3>1. o \in Nat /\ o < item.hi
      BY <1>2, <2>2 DEF InItem
    <3> QED BY <1>1, <1>2, <3>1 DEF StreamInv, PipelineInv, ItemInv
  <2> QED BY <1>1, <2>1, <2>2
<1>6. DroppedInv'
  BY <1>1, <1>2, <1>3 DEF StreamInv, DroppedInv
<1>7. CoverInv'
  BY <1>1, <1>2, <1>3 DEF StreamInv, CoverInv, InBuf
<1> QED BY <1>4, <1>5, <1>6, <1>7 DEF StreamInv

\* A read of the driver.
LEMMA ReadStream ==
    ASSUME CountInv, CountInv', StreamInv, NEW n \in 1..BufferSize, ExecRead(n)
    PROVE  StreamInv'
<1> USE SizeAssumption
<1> DEFINE b == Filled(n)
           cut == b.lo + Whole(Size(b))
<1>1. /\ total \in Nat /\ total' = total + n /\ n \in Nat \ {0}
      /\ UNCHANGED <<item, eat>>
  BY DEF ExecRead, CountInv, TypeOK
<1>2. CASE buf' = b /\ UNCHANGED <<queue, parsed, dropped>>
  BY <1>1, <1>2, FillStream
<1>3. /\ b \in Block /\ b.lo \in Nat /\ b.hi = total + n /\ b.lo <= total
      /\ buf = Empty => b.lo = total
      /\ buf # Empty => b.lo = buf.lo
  BY <1>1, BlockFacts DEF Filled, CountInv, TypeOK, StreamInv, PipelineInv, BufInv
<1>4. Size(b) = b.hi - b.lo /\ Size(b) \in Nat
  BY <1>1, <1>3 DEF Size
<1>5. cut \in Nat /\ b.lo <= cut /\ cut <= b.hi
  <2>1. Whole(Size(b)) \in Nat /\ Whole(Size(b)) <= Size(b)
    BY <1>4, WholeBounds
  <2> QED BY <1>1, <1>3, <1>4, <2>1
<1> HIDE DEF b
<1>6. CASE ~IsAsyncChannel /\ (ReadDiscard(b) \/ ReadSync(b))
  <2>1. queue = <<>> /\ eat = "none" /\ queue' = <<>>
    BY <1>6 DEF CountInv, ShutdownInv, IsAsyncChannel, driverVars, ReadDiscard, ReadSync,
       pipeVars
  <2>2. \A o \in Nat : ~InItem(o) /\ ~InQueue(o)
    BY <2>1 DEF InItem, InQueue
  <2>3. parsed \subseteq Nat /\ dropped \subseteq Nat
    BY DEF CountInv, TypeOK
  <2>4. \A o \in parsed \cup dropped : o < b.lo /\ o < b.hi
    BY <1>1, <1>3, <2>3 DEF StreamInv, ParsedInv, DroppedInv
  <2>5. parsed \cap dropped = {}
    BY DEF StreamInv, DroppedInv
  <2>6. \A o \in Nat : o < b.lo => o \in parsed \/ o \in dropped
    BY <1>1, <1>3, <2>2, BlockFacts DEF StreamInv, CoverInv, InBuf, PipelineInv, BufInv
  <2>7. CASE ReadSync(b)
    <3>1. /\ parsed' = parsed \cup Offsets(Blk(b.lo, cut))
          /\ buf' = IF cut = b.hi THEN Empty ELSE Blk(cut, b.hi)
          /\ dropped' = dropped
      BY <2>7 DEF ReadSync
    <3> HIDE DEF cut
    <3> QED BY <1>1, <1>3, <1>5, <2>1, <2>4, <2>5, <2>6, <3>1, DirectStream DEF CountInv
  <2>8. CASE ReadDiscard(b)
    <3>1. /\ dropped' = dropped \cup Offsets(Blk(b.lo, b.hi)) /\ buf' = Empty
          /\ parsed' = parsed
      BY <1>3, <2>8, BlockFacts DEF ReadDiscard
    <3>2. Offsets(Blk(b.lo, b.lo)) = {}
      BY <1>3 DEF Offsets, Blk
    <3>3. parsed' = parsed \cup Offsets(Blk(b.lo, b.lo))
      BY <3>1, <3>2
    <3>4. b.lo <= b.lo /\ b.lo <= b.hi
      BY <1>1, <1>3
    <3> QED BY <1>1, <1>3, <2>1, <2>4, <2>5, <2>6, <3>1, <3>3, <3>4, DirectStream DEF CountInv
  <2> QED BY <1>6, <2>7, <2>8
<1>7. CASE ReadBatch(b) \/ ReadHandoff(b)
  BY <1>2, <1>7 DEF ReadBatch, ReadHandoff, pipeVars, b
<1> QED BY <1>6, <1>7 DEF ExecRead, ReadDiscard, ReadSync, IsAsyncChannel, IsDiscardChannel, b

\* DrainBufferedDataToConsumer without a handoff.
LEMMA DrainStream ==
    ASSUME CountInv, CountInv', StreamInv, NEW next, DrainBufferedData(next),
           rpc = "drain" \/ (rpc = "erased" /\ next = "dead")
    PROVE  StreamInv'
<1> DEFINE cut == buf.lo + Whole(Size(buf))
<1>1. /\ UNCHANGED <<total, item, eat>> /\ total \in Nat
      /\ parsed \subseteq Nat /\ dropped \subseteq Nat
  BY DEF DrainBufferedData, driverVars, CountInv, TypeOK
<1>2. CASE ~running /\ DrainDirectly /\ buf # Empty
  <2>1. /\ queue = <<>> /\ eat = "none" /\ queue' = <<>>
    BY <1>2 DEF CountInv, ShutdownInv, IsAsyncChannel, driverVars, DrainDirectly, pipeVars
  <2>2. \A o \in Nat : ~InItem(o) /\ ~InQueue(o)
    BY <2>1 DEF InItem, InQueue
  <2>3. /\ buf \in Block /\ buf.lo \in Nat /\ buf.hi = total /\ buf.lo < buf.hi
    BY <1>2, BlockFacts DEF CountInv, TypeOK, StreamInv, PipelineInv, BufInv
  <2>4. Size(buf) = buf.hi - buf.lo /\ Size(buf) \in Nat
    BY <1>1, <2>3 DEF Size
  <2>5. Whole(Size(buf)) \in Nat /\ Whole(Size(buf)) <= Size(buf)
    BY <2>4, WholeBounds
  <2>6. cut \in Nat /\ buf.lo <= cut /\ cut <= buf.hi
    BY <1>1, <2>3, <2>4, <2>5
  <2>7. \A o \in parsed \cup dropped : o < buf.lo /\ o < buf.hi
    BY <1>1, <1>2, <2>3 DEF StreamInv, ParsedInv, DroppedInv
  <2>8. parsed \cap dropped = {}
    BY DEF StreamInv, DroppedInv
  <2>9. \A o \in Nat : o < buf.lo => o \in parsed \/ o \in dropped
    BY <1>1, <2>2, <2>3 DEF StreamInv, CoverInv, InBuf
  <2>10. /\ parsed' = parsed \cup Offsets(Blk(buf.lo, cut)) /\ buf' = Empty
         /\ dropped' = dropped \cup Offsets(Blk(cut, buf.hi))
    BY <1>2 DEF DrainDirectly
  <2> HIDE DEF cut
  <2> QED BY <1>1, <2>1, <2>3, <2>6, <2>7, <2>8, <2>9, <2>10, DirectStream DEF CountInv
<1>3. CASE ~running /\ DrainDirectly /\ buf = Empty
  <2>1. Whole(Size(buf)) \in Nat /\ Whole(Size(buf)) <= 0 /\ buf.lo = 0 /\ buf.hi = 0
    BY <1>3, BlockFacts, WholeBounds DEF Size
  <2>2. cut = 0
    BY <2>1
  <2>3. Offsets(Blk(buf.lo, cut)) = {} /\ Offsets(Blk(cut, buf.hi)) = {}
    BY <2>1, <2>2 DEF Offsets, Blk
  <2>4. UNCHANGED <<buf, queue, parsed, dropped>>
    BY <1>3, <2>3 DEF DrainDirectly, pipeVars
  <2> QED BY <1>1, <2>4, StreamKept
<1>4. CASE running /\ dropped' = dropped \cup Offsets(buf) /\ buf' = Empty
           /\ UNCHANGED <<pipeVars, parsed>>
  BY <1>1, <1>4, DropStream DEF pipeVars
<1>5. CASE running /\ UNCHANGED <<buf, queue, parsed, dropped>>
  BY <1>1, <1>5, StreamKept
<1> QED BY <1>2, <1>3, <1>4, <1>5 DEF DrainBufferedData

LEMMA StreamStep ==
    ASSUME CountInv, CountInv', StreamInv, [Next]_vars
    PROVE  StreamInv'
<1>1. CASE PushUndo
  <2>1. UNCHANGED <<total, queue, item, eat, parsed>> /\ HandoffReturn(FALSE, buf)
    BY <1>1 DEF PushUndo, driverVars, eatVars
  <2>2. CASE buf' = buf /\ dropped' = dropped
    BY <2>1, <2>2, StreamKept
  <2>3. CASE buf' = Empty /\ dropped' = dropped \cup Offsets(buf)
    BY <2>1, <2>3, DropStream
  <2> QED BY <2>1, <2>2, <2>3 DEF HandoffReturn
<1>2. CASE CountDown
  <2>1. /\ UNCHANGED <<total, buf, queue, parsed, dropped>> /\ eat # "parse" /\ eat' # "parse"
    BY <1>2 DEF CountDown, driverVars
  <2>2. \A o \in Nat : InItem(o)' <=> InItem(o)
    BY <2>1 DEF InItem
  <2>3. PipelineInv'
    BY <2>1 DEF StreamInv, PipelineInv, BufInv, ItemInv, QueueInv, SortedInv
  <2>4. ParsedInv' /\ DroppedInv' /\ CoverInv'
    BY <2>1, <2>2 DEF StreamInv, ParsedInv, DroppedInv, CoverInv, InItem, InQueue, InBuf
  <2> QED BY <2>3, <2>4 DEF StreamInv
<1>3. CASE Produce \/ PushFull \/ Dispatch \/ ExecCheck \/ ExecReadNothing \/ Notify
           \/ ConsumerExit \/ (\E w \in BOOLEAN : DrainCall(w)) \/ Drainer
           \/ SetChannelStopped \/ UnInit \/ StopConsumerThread \/ JoinConsumer
           \/ LeftoverDone \/ UNCHANGED vars
  <2>1. /\ UNCHANGED <<total, buf, queue, item, parsed, dropped>>
        /\ eat' = "parse" <=> eat = "parse"
    BY <1>3 DEF Produce, PushFull, Dispatch, ExecCheck, ExecReadNothing, Notify, ConsumerExit,
           DrainCall, Drainer, DrainNoQueue, DrainLock, DrainWait, DrainTimeout, DrainReturn,
           HandoffBegin, SetChannelStopped, UnInit, StopConsumerThread, JoinConsumer,
           LeftoverDone, vars, pipeVars, eatVars, driverVars
  <2> QED BY <2>1, StreamKept
<1>4. CASE UnInitDrain \/ Destroy
  BY <1>4, DrainStream DEF UnInitDrain, Destroy
<1> QED BY <1>1, <1>2, <1>3, <1>4, PushOkStream, PopStream, ParseStream, ReadStream
        DEF Next, Worker, Handoff, Consumer, Remover, Terminated
----------------------------------------------------------------------------
(* The theorems.                                                           *)
IInv == CountInv /\ StreamInv

\* IInv is an inductive invariant of the reader.
THEOREM Inductive == Spec => []IInv
<1>1. Init => IInv
  BY InitCount, InitStream DEF IInv
<1>2. IInv /\ [Next]_vars => IInv'
  BY CountStep, StreamStep DEF IInv, StreamInv
<1> QED BY <1>1, <1>2, PTL DEF Spec

\* Every variable keeps its type; in particular the pending count never goes negative.
THEOREM TypeCorrect == Spec => []TypeOK
<1>1. IInv => TypeOK
  BY DEF IInv, CountInv
<1> QED BY <1>1, Inductive, PTL

\* pendingConsumeCount_ is exactly the number of chunks handed over and not yet parsed,
\* which is what DrainToConsumer waits for (channel_reader.cpp:506).
THEOREM PendingCorrect == Spec => []PendingExact
<1>1. IInv => PendingExact
  BY DEF IInv, CountInv
<1> QED BY <1>1, Inductive, PTL

\* Whatever the interleaving of the four threads, every byte read from the driver is in
\* exactly one place.
THEOREM NothingLostCorrect == Spec => []NothingLost
<1>1. IInv => NothingLost
  <2> SUFFICES ASSUME IInv PROVE NothingLost
    OBVIOUS
  <2>1. /\ queue \in Seq(Block) /\ total \in Nat /\ item \in Block /\ buf \in Block
        /\ parsed \subseteq Nat /\ dropped \subseteq Nat
        /\ DOMAIN queue = 1..Len(queue)
    BY DEF IInv, CountInv, TypeOK
  <2>2. /\ item.lo \in Nat /\ item.hi \in Nat /\ buf.lo \in Nat /\ buf.hi \in Nat
        /\ \A i \in 1..Len(queue) : /\ queue[i] \in Block
                                     /\ queue[i].lo \in Nat /\ queue[i].hi \in Nat
    BY <2>1, BlockFacts
  <2>3. Popped \subseteq Nat /\ \A o \in Nat : o \in Popped <=> InItem(o)
    BY <2>1, OffsetsFacts DEF Popped, InItem
  <2>4. Queued \subseteq Nat /\ \A o \in Nat : o \in Queued <=> InQueue(o)
    BY <2>1, <2>2, OffsetsFacts DEF Queued, InQueue
  <2>5. Offsets(buf) \subseteq Nat /\ \A o \in Nat : o \in Offsets(buf) <=> InBuf(o)
    BY <2>1, OffsetsFacts DEF InBuf
  <2>6. \A o \in Nat : InBuf(o) => buf # Empty /\ o < total /\ buf.lo <= o
    BY <2>1, <2>2, BlockFacts DEF InBuf, IInv, StreamInv, PipelineInv, BufInv
  <2>7. \A o \in Nat : InItem(o) => o < total /\ ~InQueue(o) /\ ~InBuf(o) /\ o \notin parsed
    BY <2>1, <2>2, <2>6
       DEF InItem, InQueue, InBuf, IInv, StreamInv, PipelineInv, ItemInv, ParsedInv
  <2>8. \A o \in Nat : InQueue(o) => o < total /\ ~InBuf(o) /\ o \notin parsed
    BY <2>1, <2>2, <2>6 DEF InQueue, InBuf, IInv, StreamInv, PipelineInv, QueueInv, ParsedInv
  <2>9. \A o \in Nat : InBuf(o) => o \notin parsed /\ o \notin dropped
    BY <2>1, <2>2, <2>6 DEF IInv, StreamInv, ParsedInv, DroppedInv
  <2>10. /\ \A o \in parsed : o < total
         /\ \A o \in dropped : o < total /\ o \notin parsed /\ ~InItem(o) /\ ~InQueue(o)
    BY DEF IInv, StreamInv, ParsedInv, DroppedInv
  <2>11. parsed \cup Popped \cup Queued \cup Offsets(buf) \cup dropped = 0 .. (total - 1)
    <3> DEFINE S == parsed \cup Popped \cup Queued \cup Offsets(buf) \cup dropped
    <3>1. \A o \in Nat : o < total => o \in S
      BY <2>3, <2>4, <2>5 DEF IInv, StreamInv, CoverInv
    <3>2. \A o \in S : o \in Nat /\ o < total
      BY <2>1, <2>3, <2>4, <2>5, <2>6, <2>7, <2>8, <2>10
    <3>3. \A o : o \in 0 .. (total - 1) <=> o \in Nat /\ o < total
      BY <2>1
    <3> HIDE DEF S
    <3>4. S = 0 .. (total - 1)
      BY <3>1, <3>2, <3>3
    <3> QED BY <3>4 DEF S
  <2> HIDE DEF Popped, Queued
  <2>12. parsed \cap (Popped \cup Queued \cup Offsets(buf) \cup dropped) = {}
    BY <2>1, <2>3, <2>4, <2>5, <2>7, <2>8, <2>9, <2>10
  <2>13. Popped \cap (Queued \cup Offsets(buf) \cup dropped) = {}
    BY <2>1, <2>3, <2>4, <2>5, <2>7, <2>10
  <2>14. Queued \cap (Offsets(buf) \cup dropped) = {}
    BY <2>1, <2>4, <2>5, <2>8, <2>10
  <2>15. Offsets(buf) \cap dropped = {}
    BY <2>1, <2>5, <2>9
  <2> QED BY <2>11, <2>12, <2>13, <2>14, <2>15 DEF NothingLost
<1> QED BY <1>1, Inductive, PTL

\* Whichever thread parses, it parses later bytes after earlier ones.
THEOREM InOrderCorrect == Spec => InOrder
<1>1. ASSUME IInv, [Next]_vars
      PROVE  [\A o \in parsed' \ parsed : \A q \in parsed : q < o]_parsed
  <2>0. /\ parsed \subseteq Nat /\ total \in Nat /\ buf \in Block /\ item \in Block
        /\ buf.lo \in Nat /\ item.lo \in Nat
    BY <1>1, BlockFacts DEF IInv, CountInv, TypeOK
  <2>1. CASE Parse
    <3>1. /\ parsed' = parsed \cup Offsets(item) /\ \A q \in parsed : q < item.lo
          /\ \A o \in Offsets(item) : o \in Nat /\ item.lo <= o
      BY <1>1, <2>0, <2>1, OffsetsFacts DEF Parse, IInv, StreamInv, ParsedInv
    <3> QED BY <2>0, <3>1
  <2>2. ASSUME NEW b \in Block, NEW c, parsed' = parsed \cup Offsets(Blk(b.lo, c)),
               \A q \in parsed : q < b.lo
        PROVE  [\A o \in parsed' \ parsed : \A q \in parsed : q < o]_parsed
    <3>1. \A o \in Offsets(Blk(b.lo, c)) : o \in Int /\ b.lo <= o
      BY BlockFacts DEF Offsets, Blk, Block
    <3> QED BY <2>0, <2>2, <3>1, BlockFacts
  <2>3. CASE DrainDirectly
    <3>1. CASE buf # Empty
      <4>1. \A q \in parsed : q < buf.lo
        BY <1>1, <3>1 DEF IInv, StreamInv, ParsedInv
      <4> QED BY <2>0, <2>2, <2>3, <4>1 DEF DrainDirectly
    <3>2. CASE buf = Empty
      <4>1. buf.lo = 0 /\ buf.hi = 0 /\ Size(buf) = 0
        BY <3>2, BlockFacts DEF Size
      <4>2. Whole(Size(buf)) = 0
        BY <4>1, WholeBounds
      <4>3. Offsets(Blk(buf.lo, buf.lo + Whole(Size(buf)))) = {}
        BY <4>1, <4>2 DEF Offsets, Blk
      <4> QED BY <2>3, <4>3 DEF DrainDirectly
    <3> QED BY <3>1, <3>2
  <2>4. ASSUME NEW n \in 1..BufferSize, ExecRead(n), ReadSync(Filled(n))
        PROVE  [\A o \in parsed' \ parsed : \A q \in parsed : q < o]_parsed
    <3>1. total + n \in Nat
      BY <2>0, SizeAssumption
    <3>2. Filled(n) \in Block /\ \A q \in parsed : q < Filled(n).lo
      BY <1>1, <2>0, <3>1, BlockFacts
         DEF Filled, IInv, StreamInv, ParsedInv, PipelineInv, BufInv
    <3> QED BY <2>2, <2>4, <3>2 DEF ReadSync
  <2>5. CASE UNCHANGED parsed
    BY <2>5
  <2>6. ASSUME NEW n \in 1..BufferSize, ExecRead(n)
        PROVE  ReadSync(Filled(n)) \/ UNCHANGED parsed
    BY <2>6 DEF ExecRead, ReadDiscard, ReadBatch, ReadHandoff
  <2>7. CASE UnInitDrain \/ Destroy
    BY <2>3, <2>5, <2>7 DEF UnInitDrain, Destroy, DrainBufferedData
  <2>8. CASE PushOk \/ PushFull \/ PushUndo \/ Pop \/ CountDown \/ Notify \/ ConsumerExit
    BY <2>8 DEF PushOk, PushFull, PushUndo, Pop, CountDown, Notify, ConsumerExit, eatVars
  <2>9. CASE Produce \/ Dispatch \/ ExecCheck \/ ExecReadNothing
             \/ (\E w \in BOOLEAN : DrainCall(w)) \/ Drainer \/ UNCHANGED vars
    BY <2>9 DEF Produce, Dispatch, ExecCheck, ExecReadNothing, DrainCall, Drainer, DrainNoQueue,
                DrainLock, DrainWait, DrainTimeout, DrainReturn, vars, eatVars
  <2>10. CASE SetChannelStopped \/ UnInit \/ StopConsumerThread \/ JoinConsumer \/ LeftoverDone
    BY <2>10 DEF SetChannelStopped, UnInit, StopConsumerThread, JoinConsumer, LeftoverDone,
       eatVars
  <2> QED BY <1>1, <2>1, <2>4, <2>5, <2>6, <2>7, <2>8, <2>9, <2>10
          DEF Next, Worker, Handoff, Consumer, Remover, Terminated
<1> QED BY <1>1, Inductive, PTL DEF Spec, InOrder

\* Once consumerRunning_ is cleared no block enters the queue.
THEOREM StopFenceCorrect == Spec => StopFence
<1>1. ASSUME IInv, [Next]_vars
      PROVE  [~running => Len(queue') <= Len(queue)]_queue
  <2>1. CASE PushOk
    BY <1>1, <2>1 DEF PushOk, IInv, CountInv, HandoffInv
  <2>2. CASE Pop
    BY <1>1, <2>2 DEF Pop, IInv, CountInv, TypeOK
  <2>3. CASE PushFull \/ PushUndo \/ Parse \/ CountDown \/ Notify \/ ConsumerExit
    BY <2>3 DEF PushFull, PushUndo, Parse, CountDown, Notify, ConsumerExit, pipeVars
  <2>4. CASE Produce \/ Dispatch \/ Worker
             \/ (\E w \in BOOLEAN : DrainCall(w)) \/ Drainer \/ UNCHANGED vars
    BY <2>4 DEF Produce, Dispatch, Worker, ExecCheck, ExecRead, ReadDiscard, ReadSync,
       ReadBatch, ReadHandoff, ExecReadNothing, DrainCall, Drainer, DrainNoQueue, DrainLock,
       DrainWait, DrainTimeout, DrainReturn, vars, pipeVars
  <2>5. CASE SetChannelStopped \/ Remover
    BY <2>5 DEF SetChannelStopped, Remover, UnInit, UnInitDrain, StopConsumerThread,
       JoinConsumer, LeftoverDone, Destroy, DrainBufferedData, DrainDirectly, pipeVars
  <2> QED BY <1>1, <2>1, <2>2, <2>3, <2>4, <2>5 DEF Next, Handoff, Consumer, Terminated
<1> QED BY <1>1, Inductive, PTL DEF Spec, StopFence
----------------------------------------------------------------------------
(* What leaves the reader.  HandoverInv is not inductive either: that no    *)
(* cut falls inside a record needs the position of the next read, a drain's *)
(* result what became of the bytes below its goal while it waited, and the  *)
(* destroyed reader that nothing is left to run on it.                      *)

\* inited follows the remover.
LifeInv == (inited <=> rpc \in {"idle", "uninit"}) /\ NoDropWhileInited

\* Blocks start on record boundaries, and so does the next read into an empty buffer_.
AlignInv ==
    inited => /\ \A i \in 1..Len(queue) : queue[i].lo % StructSize = 0
              /\ item.lo % StructSize = 0 /\ buf.lo % StructSize = 0
              /\ ~IsDiscardChannel /\ buf = Empty => total % StructSize = 0
              /\ stage # "none" => push.hi % StructSize = 0

\* What was read before the drain has left buffer_ when the drain's handoff is done.
GoalInv ==
    /\ dpc # "idle" => drained = "none"
    /\ dpc = "handoff" => goal = push.hi
    /\ dpc \in {"wait", "asleep", "final"} /\ ~keptBack =>
           goal <= total /\ (buf # Empty => goal <= buf.lo)
    /\ DrainSound

DeadInv == rpc = "dead" => wpc = "idle" /\ dpc = "idle" /\ buf = Empty

HInv == LifeInv /\ AlignInv /\ GoalInv /\ DeadInv

LEMMA DivModInt ==
    ASSUME NEW S \in Int, S > 0, NEW a \in Int
    PROVE  a = (S * (a \div S)) + (a % S)
BY SMTT(30)

LEMMA DivMod ==
    ASSUME NEW S \in Nat \ {0}, NEW a \in Nat
    PROVE  a = (S * (a \div S)) + (a % S) /\ a \div S \in Nat /\ a % S \in 0 .. (S - 1)
<1>1. a \div S \in Nat /\ a % S \in 0 .. (S - 1)
  OBVIOUS
<1>2. S \in Int /\ S > 0 /\ a \in Int
  OBVIOUS
<1>3. a = (S * (a \div S)) + (a % S)
  BY <1>2, DivModInt
<1> QED BY <1>1, <1>3

LEMMA SmallMultiple ==
    ASSUME NEW S \in Nat \ {0}, NEW k \in Int, NEW r \in Int, r = S * k, 0 <= r, r < S
    PROVE  r = 0
<1>1. CASE k >= 1
  <2>1. S * k >= S
    BY <1>1
  <2> QED BY <2>1
<1>2. CASE k <= -1
  <2>1. S * k <= -S
    BY <1>2
  <2> QED BY <2>1
<1> QED BY <1>1, <1>2

LEMMA MultiplesAdd ==
    ASSUME NEW S \in Nat \ {0}, NEW p \in Nat, NEW q \in Nat
    PROVE  ((S * p) + (S * q)) % S = 0
<1> DEFINE y == (S * p) + (S * q)
           d == y \div S
           r == y % S
<1>1. y \in Nat /\ p + q - d \in Int
  OBVIOUS
<1>2. y = (S * d) + r /\ d \in Nat /\ r \in 0 .. (S - 1)
  <2> HIDE DEF y
  <2> QED BY <1>1, DivMod
<1>3. r = S * (p + q - d)
  <2>1. y = (S * d) + r /\ r \in Nat
    BY <1>2
  <2>2. y = (S * p) + (S * q)
    OBVIOUS
  <2> HIDE DEF r, y, d
  <2> QED BY <1>2, <2>1, <2>2
<1> HIDE DEF y
<1> QED BY <1>1, <1>2, <1>3, SmallMultiple

\* A cut keeps the alignment of where it starts.
LEMMA CutAligned ==
    ASSUME NEW a \in Nat, NEW n \in Nat, a % StructSize = 0
    PROVE  (a + Whole(n)) % StructSize = 0
<1> DEFINE S == StructSize
           m == n % S
           d == n \div S
           e == a \div S
<1>1. S \in Nat \ {0}
  BY SizeAssumption
<1>2. n = (S * d) + m /\ d \in Nat /\ m \in Nat
  BY <1>1, DivMod
<1>3. a = (S * e) + 0 /\ e \in Nat
  BY <1>1, DivMod
<1>4. Whole(n) = n - m
  BY DEF Whole
<1> HIDE DEF S, m, d, e
<1>5. a + Whole(n) = (S * e) + (S * d)
  BY <1>1, <1>2, <1>3, <1>4
<1> QED BY <1>1, <1>2, <1>3, <1>5, MultiplesAdd DEF S

LEMMA ZeroAligned == 0 % StructSize = 0
BY SizeAssumption

LEMMA InitHandover == Init => HInv
<1> SUFFICES ASSUME Init PROVE HInv
  OBVIOUS
<1>1. LifeInv /\ DeadInv
  BY DEF Init, LifeInv, NoDropWhileInited, DeadInv
<1>2. AlignInv
  BY ZeroAligned, BlockFacts DEF Init, AlignInv
<1>3. GoalInv
  BY DEF Init, GoalInv, DrainSound
<1> QED BY <1>1, <1>2, <1>3 DEF HInv

LEMMA LifeStep ==
    ASSUME IInv, LifeInv, [Next]_vars
    PROVE  LifeInv'
<1> USE DEF LifeInv, NoDropWhileInited
<1>1. CASE PushOk \/ PushUndo
  <2>1. PICK b, ok : HandoffReturn(ok, b)
    BY <1>1 DEF PushOk, PushUndo
  <2>2. inited' = inited /\ IsDiscardChannel' = IsDiscardChannel
    BY <1>1 DEF PushOk, PushUndo, lifeVars, driverVars, IsDiscardChannel
  <2>3. CASE owner = "remover"
    BY <2>1, <2>2, <2>3 DEF HandoffReturn, IInv, CountInv, HandoffInv
  <2>4. CASE owner # "remover"
    BY <2>1, <2>2, <2>4 DEF HandoffReturn
  <2> QED BY <2>3, <2>4
<1>2. CASE PushFull \/ Consumer
  BY <1>2 DEF PushFull, Consumer, Pop, Parse, CountDown, Notify, ConsumerExit, lifeVars, driverVars, IsDiscardChannel
<1>3. CASE Produce \/ Dispatch \/ ExecCheck \/ ExecReadNothing \/ (\E w \in BOOLEAN : DrainCall(w)) \/ Drainer \/ UNCHANGED vars
  BY <1>3 DEF Produce, Dispatch, ExecCheck, ExecReadNothing, DrainCall, Drainer, DrainNoQueue, DrainLock, DrainWait,
     DrainTimeout, DrainReturn, vars, lifeVars, driverVars, IsDiscardChannel
<1>4. ASSUME NEW n \in 1..BufferSize, ExecRead(n) PROVE LifeInv'
  BY <1>4 DEF ExecRead, ReadDiscard, ReadSync, ReadBatch, ReadHandoff, lifeVars, IsDiscardChannel
<1>5. CASE SetChannelStopped \/ UnInit \/ StopConsumerThread \/ JoinConsumer \/ LeftoverDone
  BY <1>5 DEF SetChannelStopped, UnInit, StopConsumerThread, JoinConsumer, LeftoverDone, lifeVars, driverVars, IsDiscardChannel
<1>6. CASE UnInitDrain \/ Destroy
  BY <1>6 DEF UnInitDrain, Destroy, DrainBufferedData, lifeVars, driverVars, IsDiscardChannel
<1> QED BY <1>1, <1>2, <1>3, <1>4, <1>5, <1>6 DEF Next, Worker, Handoff, Remover, Terminated

LEMMA DeadStep ==
    ASSUME IInv, DeadInv, [Next]_vars
    PROVE  DeadInv'
<1> USE DEF DeadInv
<1>1. CASE Handoff
  <2>1. owner # "none" \/ stage # "none"
    BY <1>1 DEF Handoff, PushOk, PushFull, PushUndo
  <2>2. rpc # "dead" \/ (wpc # "idle" \/ dpc # "idle")
    BY <2>1 DEF IInv, CountInv, HandoffInv, TypeOK, Threads
  <2>3. rpc # "dead"
    BY <2>2
  <2>4. rpc' = rpc \/ rpc' = "stop"
    BY <1>1 DEF Handoff, PushOk, PushFull, PushUndo, HandoffReturn
  <2> QED BY <2>3, <2>4
<1>2. CASE Consumer
  <2>1. UNCHANGED <<rpc, wpc, buf>> /\ (dpc = "idle" => dpc' = "idle")
    BY <1>2 DEF Consumer, Pop, Parse, CountDown, Notify, ConsumerExit, drainVars
  <2> QED BY <2>1
<1>3. CASE Produce \/ Dispatch \/ Worker \/ (\E w \in BOOLEAN : DrainCall(w)) \/ Drainer \/ UNCHANGED vars
  BY <1>3 DEF Produce, Dispatch, Worker, ExecCheck, ExecRead, ExecReadNothing, DrainCall, Drainer, DrainNoQueue, DrainLock,
     DrainWait, DrainTimeout, DrainReturn, vars, drainVars
<1>4. CASE SetChannelStopped \/ UnInit \/ StopConsumerThread \/ JoinConsumer \/ LeftoverDone
  BY <1>4 DEF SetChannelStopped, UnInit, StopConsumerThread, JoinConsumer, LeftoverDone
<1>5. CASE UnInitDrain
  BY <1>5 DEF UnInitDrain, DrainBufferedData
<1>6. CASE Destroy
  BY <1>6 DEF Destroy, DrainBufferedData, DrainDirectly, drainVars, IInv, CountInv, ShutdownInv
<1> QED BY <1>1, <1>2, <1>3, <1>4, <1>5, <1>6 DEF Next, Remover, Terminated

\* A step that moves no byte and starts no handoff keeps the alignment.
LEMMA AlignKept ==
    ASSUME AlignInv, UNCHANGED <<kind, total, buf, queue, item>>, inited' => inited,
           stage' = "none" \/ (stage # "none" /\ push' = push)
    PROVE  AlignInv'
BY DEF AlignInv, IsDiscardChannel

LEMMA AlignPushOk ==
    ASSUME IInv, LifeInv, AlignInv, PushOk
    PROVE  AlignInv'
<1> SUFFICES ASSUME inited PROVE AlignInv'
  BY DEF PushOk, lifeVars, AlignInv
<1> DEFINE rest == IF push.hi = buf.hi THEN Empty ELSE Blk(push.hi, buf.hi)
<1>1. /\ push \in Block /\ buf \in Block /\ queue \in Seq(Block) /\ push.lo = buf.lo /\ push.lo < push.hi /\ push.hi <= buf.hi
      /\ owner # "remover" /\ stage = "push"
  BY DEF PushOk, IInv, CountInv, TypeOK, HandoffInv, LifeInv
<1>2. UNCHANGED <<total, kind, item, inited>> /\ stage' = "none" /\ queue' = Append(queue, push) /\ buf' = rest
  BY <1>1 DEF PushOk, HandoffReturn, driverVars, eatVars, lifeVars
<1>3. push.lo % StructSize = 0 /\ push.hi % StructSize = 0 /\ item.lo % StructSize = 0
  BY <1>1 DEF AlignInv
<1>4. \A i \in 1..Len(queue') : queue'[i].lo % StructSize = 0
  <2>1. \A i \in 1..Len(queue') : (i \in 1..Len(queue) /\ queue'[i] = queue[i]) \/ queue'[i] = push
    BY <1>1, <1>2
  <2> QED BY <1>3, <2>1 DEF AlignInv
<1>5. rest.lo % StructSize = 0
  BY <1>1, <1>3, ZeroAligned, BlockFacts
<1>6. rest = Empty => total % StructSize = 0
  <2>1. buf.hi = total
    BY <1>1, BlockFacts DEF IInv, StreamInv, PipelineInv, BufInv
  <2>2. rest = Empty => push.hi = buf.hi
    BY <1>1, BlockFacts
  <2> QED BY <1>3, <2>1, <2>2
<1> QED BY <1>2, <1>3, <1>4, <1>5, <1>6 DEF AlignInv

\* Where buffer_ starts after a read, and how long it is.
LEMMA FilledAligned ==
    ASSUME IInv, AlignInv, inited, ~IsDiscardChannel, NEW n \in 1..BufferSize
    PROVE  /\ Filled(n) \in Block /\ Filled(n).lo % StructSize = 0 /\ Size(Filled(n)) \in Nat
           /\ Filled(n).hi = total + n /\ Filled(n) # Empty
<1>1. buf \in Block /\ total \in Nat /\ n \in Nat \ {0}
  BY SizeAssumption DEF IInv, CountInv, TypeOK
<1>2. buf = Empty \/ (buf.lo < buf.hi /\ buf.hi = total)
  BY DEF IInv, StreamInv, PipelineInv, BufInv
<1>3. CASE buf = Empty
  <2>1. Filled(n) = Blk(total, total + n)
    BY <1>3, BlockFacts DEF Filled
  <2> QED BY <1>1, <1>3, <2>1, BlockFacts DEF AlignInv, Size
<1>4. CASE buf.lo < buf.hi /\ buf.hi = total
  <2>1. Filled(n) = Blk(buf.lo, total + n) /\ buf.lo \in Nat /\ buf.lo < total
    BY <1>1, <1>4, BlockFacts DEF Filled
  <2> QED BY <1>1, <1>4, <2>1, BlockFacts DEF AlignInv, Size
<1> QED BY <1>2, <1>3, <1>4

LEMMA AlignRead ==
    ASSUME IInv, LifeInv, AlignInv, NEW n \in 1..BufferSize, ExecRead(n)
    PROVE  AlignInv'
<1> SUFFICES ASSUME inited PROVE AlignInv'
  BY DEF ExecRead, lifeVars, AlignInv
<1> DEFINE b == Filled(n)
           cut == b.lo + Whole(Size(b))
<1>1. UNCHANGED <<kind, item, inited>> /\ stage = "none" /\ total' = total + n /\ (ReadDiscard(b) \/ ReadSync(b) \/ ReadBatch(b) \/ ReadHandoff(b))
  BY DEF ExecRead, lifeVars, IInv, CountInv, HandoffInv
<1>2. CASE ReadDiscard(b)
  BY <1>1, <1>2, ZeroAligned, BlockFacts DEF ReadDiscard, pipeVars, AlignInv, IsDiscardChannel
<1>3. CASE ~IsDiscardChannel
  <2>1. /\ b \in Block /\ b.lo % StructSize = 0 /\ Size(b) \in Nat /\ b.hi = total + n /\ b # Empty /\ b.lo \in Nat
        /\ b.hi = b.lo + Size(b)
    BY <1>3, FilledAligned, BlockFacts DEF Size
  <2>2. cut % StructSize = 0 /\ cut \in Nat
    BY <2>1, CutAligned, WholeBounds
  <2> HIDE DEF b
  <2>3. CASE ReadSync(b)
    <3>1. stage' = "none" /\ queue' = queue /\ buf' = IF cut = b.hi THEN Empty ELSE Blk(cut, b.hi)
      BY <1>1, <2>3 DEF ReadSync, pipeVars
    <3>2. buf'.lo % StructSize = 0 /\ (buf' = Empty => total' % StructSize = 0)
      BY <1>1, <2>1, <2>2, <3>1, ZeroAligned, BlockFacts
    <3> QED BY <1>1, <3>1, <3>2 DEF AlignInv
  <2>4. CASE ReadBatch(b)
    BY <1>1, <2>1, <2>4 DEF ReadBatch, pipeVars, AlignInv
  <2>5. CASE ReadHandoff(b)
    <3>1. queue' = queue /\ buf' = b /\ (stage' = "none" \/ push' = Blk(b.lo, cut))
      BY <1>1, <2>5 DEF ReadHandoff, HandoffBegin, pipeVars
    <3>2. stage' # "none" => push'.hi % StructSize = 0
      BY <2>1, <2>2, <3>1, BlockFacts
    <3> QED BY <1>1, <2>1, <3>1, <3>2 DEF AlignInv
  <2>6. ~ReadDiscard(b)
    BY <1>3 DEF ReadDiscard
  <2> QED BY <1>1, <2>3, <2>4, <2>5, <2>6
<1>4. IsDiscardChannel => ReadDiscard(b)
  BY <1>1 DEF ReadSync, ReadBatch, ReadHandoff, IsAsyncChannel, IsDiscardChannel
<1> QED BY <1>2, <1>3, <1>4

LEMMA AlignStep ==
    ASSUME IInv, LifeInv, LifeInv', AlignInv, [Next]_vars
    PROVE  AlignInv'
<1>1. CASE PushOk
  BY <1>1, AlignPushOk
<1>2. CASE PushFull
  BY <1>2, AlignKept DEF PushFull, driverVars, lifeVars, eatVars
<1>3. CASE PushUndo
  <2>1. CASE owner = "remover"
    BY <1>3, <2>1 DEF PushUndo, lifeVars, AlignInv, LifeInv, IInv, CountInv, HandoffInv
  <2>2. CASE owner # "remover"
    BY <1>3, <2>2, AlignKept DEF PushUndo, HandoffReturn, driverVars, lifeVars, eatVars
  <2> QED BY <2>1, <2>2
<1>4. CASE Pop
  <2>1. queue \in Seq(Block) /\ queue # <<>>
    BY <1>4 DEF Pop, IInv, CountInv, TypeOK
  <2>2. item' = queue[1] /\ 1 \in 1..Len(queue) /\ \A i \in 1..Len(queue') : queue'[i] = queue[i + 1] /\ i + 1 \in 1..Len(queue)
    BY <1>4, <2>1 DEF Pop
  <2>3. UNCHANGED <<kind, total, buf, stage, push, inited>>
    BY <1>4 DEF Pop, driverVars, lifeVars
  <2> QED BY <2>2, <2>3 DEF AlignInv, IsDiscardChannel
<1>5. CASE CountDown
  BY <1>5, ZeroAligned, BlockFacts DEF CountDown, driverVars, lifeVars, AlignInv, IsDiscardChannel
<1>6. CASE Parse \/ Notify \/ ConsumerExit
  <2>1. UNCHANGED <<kind, total, buf, queue, item, inited, stage, push>>
    BY <1>6 DEF Parse, Notify, ConsumerExit, driverVars, lifeVars, pipeVars, eatVars
  <2> QED BY <2>1, AlignKept
<1>7. CASE Produce \/ Dispatch \/ ExecCheck \/ ExecReadNothing \/ (\E w \in BOOLEAN : DrainCall(w))
           \/ DrainNoQueue \/ DrainWait \/ DrainTimeout \/ DrainReturn \/ UNCHANGED vars
  <2>1. UNCHANGED <<kind, total, buf, queue, item, inited, stage, push>>
    BY <1>7 DEF Produce, Dispatch, ExecCheck, ExecReadNothing, DrainCall, DrainNoQueue, DrainWait, DrainTimeout, DrainReturn,
       vars, driverVars, lifeVars, pipeVars, eatVars
  <2> QED BY <2>1, AlignKept
<1>8. ASSUME NEW n \in 1..BufferSize, ExecRead(n) PROVE AlignInv'
  BY <1>8, AlignRead
<1>9. CASE DrainLock
  <2>1. UNCHANGED <<kind, total, buf, queue, item, inited>>
    BY <1>9 DEF DrainLock, driverVars, lifeVars, eatVars, pipeVars
  <2>2. stage = "none"
    BY <1>9 DEF DrainLock, IInv, CountInv, HandoffInv
  <2>3. CASE stage' = "none"
    BY <2>1, <2>3, AlignKept
  <2>4. CASE stage' # "none"
    <3>1. inited /\ push' = Blk(buf.lo, buf.lo + Whole(Size(buf)))
      BY <1>9, <2>2, <2>4, WholeBounds, SizeAssumption DEF DrainLock, HandoffBegin, pipeVars
    <3>2. buf \in Block /\ buf.lo \in Nat /\ Size(buf) \in Nat
      BY BlockFacts DEF IInv, CountInv, TypeOK, StreamInv, PipelineInv, BufInv, Size
    <3>3. push'.hi % StructSize = 0
      <4>1. (buf.lo + Whole(Size(buf))) % StructSize = 0 /\ Whole(Size(buf)) \in Nat
        BY <3>1, <3>2, CutAligned, WholeBounds DEF AlignInv
      <4>2. push'.hi = buf.lo + Whole(Size(buf))
        BY <3>1, <3>2, <4>1, BlockFacts
      <4> QED BY <4>1, <4>2
    <3> QED BY <2>1, <3>3 DEF AlignInv, IsDiscardChannel
  <2> QED BY <2>3, <2>4
<1>10. CASE SetChannelStopped \/ UnInit \/ StopConsumerThread \/ JoinConsumer \/ LeftoverDone
  <2>1. UNCHANGED <<kind, total, buf, queue, item, stage, push>> /\ (inited' => inited)
    BY <1>10 DEF SetChannelStopped, UnInit, StopConsumerThread, JoinConsumer, LeftoverDone, driverVars, lifeVars, pipeVars, eatVars
  <2> QED BY <2>1, AlignKept
<1>11. CASE UnInitDrain \/ Destroy
  BY <1>11 DEF UnInitDrain, Destroy, DrainBufferedData, lifeVars, AlignInv, LifeInv
<1> QED BY <1>1, <1>2, <1>3, <1>4, <1>5, <1>6, <1>7, <1>8, <1>9, <1>10, <1>11
        DEF Next, Worker, Handoff, Consumer, Drainer, Remover, Terminated

\* A step of another thread: buffer_ only loses bytes at its front or gains new ones
\* at its end, and what was parsed or dropped stays so.
LEMMA GoalKept ==
    ASSUME TypeOK, TypeOK', GoalInv, UNCHANGED drainVars, dpc = "handoff" => push' = push, total <= total',
           buf' = Empty \/ (buf # Empty /\ buf.lo <= buf'.lo) \/ (buf = Empty /\ total <= buf'.lo),
           parsed \subseteq parsed', dropped \subseteq dropped'
    PROVE  GoalInv'
<1>1. /\ goal \in Nat /\ total \in Nat /\ total' \in Nat /\ buf.lo \in Nat /\ buf'.lo \in Nat
      /\ UNCHANGED <<dpc, drained, goal, keptBack>>
  BY BlockFacts DEF TypeOK, drainVars
<1>2. DrainSound'
  BY <1>1 DEF GoalInv, DrainSound, Settled
<1>3. goal <= total /\ (buf # Empty => goal <= buf.lo) => goal <= total' /\ (buf' # Empty => goal <= buf'.lo)
  BY <1>1
<1> QED BY <1>1, <1>2, <1>3 DEF GoalInv

\* A handoff that ends: what it leaves in buffer_ lies above what it took.
LEMMA GoalHandoffEnds ==
    ASSUME IInv, TypeOK', GoalInv, stage # "none", UNCHANGED <<total, parsed, wantWait, drained, goal>>,
           \/ /\ HandoffReturn(TRUE, IF push.hi = buf.hi THEN Empty ELSE Blk(push.hi, buf.hi))
           \/ HandoffReturn(FALSE, buf)
    PROVE  GoalInv'
<1> DEFINE rest == IF push.hi = buf.hi THEN Empty ELSE Blk(push.hi, buf.hi)
<1>1. /\ push \in Block /\ buf \in Block /\ push.lo = buf.lo /\ push.lo < push.hi /\ push.hi <= buf.hi
      /\ total \in Nat /\ goal \in Nat /\ dropped \subseteq Nat
      /\ owner \in Threads /\ (owner = "worker" <=> wpc = "handoff") /\ (owner = "drainer" <=> dpc = "handoff")
  BY DEF IInv, CountInv, TypeOK, HandoffInv
<1>2. buf.hi = total /\ buf # Empty /\ buf.lo \in Nat /\ push.hi \in Nat /\ buf.hi \in Nat
  BY <1>1, BlockFacts DEF IInv, StreamInv, PipelineInv, BufInv
<1>3. rest = Empty \/ (rest.lo = push.hi /\ buf.lo <= rest.lo)
  BY <1>1, <1>2, BlockFacts
<1>4. buf' = Empty \/ buf' = rest \/ buf' = buf
  BY DEF HandoffReturn
<1>5. CASE owner # "drainer"
  <2>1. UNCHANGED <<dpc, keptBack>> /\ dropped \subseteq dropped'
    BY <1>1, <1>5 DEF HandoffReturn
  <2>2. buf' = Empty \/ (buf # Empty /\ buf.lo <= buf'.lo)
    BY <1>2, <1>3, <1>4
  <2> QED BY <1>1, <1>5, <2>1, <2>2, GoalKept DEF drainVars, IInv, CountInv
<1>6. CASE owner = "drainer" /\ HandoffReturn(TRUE, rest)
  <2>1. dpc' \in {"wait", "idle"} /\ keptBack' = FALSE /\ buf' = rest /\ drained = "none" /\ goal = push.hi
    BY <1>1, <1>6 DEF HandoffReturn, GoalInv
  <2>2. goal <= total' /\ (buf' # Empty => goal <= buf'.lo)
    BY <1>1, <1>2, <1>3, <2>1
  <2> QED BY <2>1, <2>2 DEF GoalInv, DrainSound
<1>7. CASE owner = "drainer" /\ HandoffReturn(FALSE, buf)
  <2>1. dpc' \in {"wait", "idle"} /\ keptBack' = TRUE /\ drained = "none"
    BY <1>1, <1>7 DEF HandoffReturn, GoalInv
  <2> QED BY <2>1 DEF GoalInv, DrainSound
<1> QED BY <1>5, <1>6, <1>7

\* A drain that finds the count at zero: what lay below its goal is in neither the
\* queue nor buffer_ nor with the consumer.
LEMMA GoalReturn ==
    ASSUME IInv, GoalInv, DrainReturn
    PROVE  GoalInv'
<1>1. dpc = "final" /\ dpc' = "idle" /\ drained' = (IF pending = 0 THEN "success" ELSE "error") /\ UNCHANGED <<goal, keptBack, parsed, dropped>>
  BY DEF DrainReturn, eatVars
<1>2. ASSUME pending = 0, ~keptBack, NEW o \in 0 .. (goal - 1) PROVE Settled(o)
  <2>1. goal \in Nat /\ total \in Nat /\ goal <= total /\ (buf # Empty => goal <= buf.lo) /\ buf \in Block
    BY <1>1, <1>2 DEF GoalInv, IInv, CountInv, TypeOK
  <2>2. o \in Nat /\ o < goal /\ o < total
    BY <2>1
  <2>3. Len(queue) = 0 /\ eat # "parse"
    <3>1. Len(queue) \in Nat /\ BeingParsed \in {0, 1} /\ BeingPushed \in {0, 1} /\ (BeingParsed = 0 => eat # "parse")
      BY DEF IInv, CountInv, TypeOK, BeingParsed, BeingPushed
    <3>2. 0 = Len(queue) + BeingParsed + BeingPushed
      BY <1>2 DEF IInv, CountInv, PendingExact
    <3> QED BY <3>1, <3>2
  <2>4. ~InBuf(o)
    BY <2>1, <2>2, BlockFacts DEF InBuf
  <2>5. ~InItem(o) /\ ~InQueue(o)
    BY <2>3 DEF InItem, InQueue
  <2> QED BY <2>2, <2>4, <2>5 DEF IInv, StreamInv, CoverInv, Settled
<1>3. DrainSound'
  BY <1>1, <1>2 DEF DrainSound, Settled
<1> QED BY <1>1, <1>3 DEF GoalInv

LEMMA GoalLock ==
    ASSUME IInv, GoalInv, DrainLock
    PROVE  GoalInv'
<1> DEFINE whole == IF inited THEN Whole(Size(buf)) ELSE 0
<1>1. /\ UNCHANGED <<buf, total, drained, wantWait>> /\ drained = "none" /\ buf \in Block /\ total \in Nat /\ buf.lo \in Nat
      /\ (buf = Empty \/ (buf.lo < buf.hi /\ buf.hi = total))
  BY BlockFacts DEF DrainLock, driverVars, IInv, CountInv, TypeOK, StreamInv, PipelineInv, BufInv, GoalInv
<1>2. whole \in Nat /\ (buf # Empty => whole <= buf.hi - buf.lo)
  <2>1. buf.lo \in Nat /\ buf.hi \in Nat /\ buf.lo <= buf.hi
    BY <1>1, BlockFacts
  <2>2. Size(buf) \in Nat /\ Size(buf) = buf.hi - buf.lo
    BY <2>1 DEF Size
  <2>3. Whole(Size(buf)) \in Nat /\ Whole(Size(buf)) <= Size(buf)
    BY <2>2, WholeBounds
  <2> QED BY <2>2, <2>3
<1>3. goal' = IF buf = Empty THEN total ELSE buf.lo + whole
  BY DEF DrainLock
<1>4. CASE whole > 0 /\ running
  <2>1. dpc' = "handoff" /\ push' = Blk(buf.lo, buf.lo + Whole(Size(buf))) /\ whole = Whole(Size(buf))
    BY <1>4 DEF DrainLock, HandoffBegin
  <2>2. buf # Empty
    BY <1>4, WholeBounds, BlockFacts DEF Size
  <2>3. push'.hi = buf.lo + whole
    BY <1>1, <1>2, <2>1, BlockFacts
  <2> QED BY <1>1, <1>3, <2>1, <2>2, <2>3 DEF GoalInv, DrainSound
<1>5. CASE ~(whole > 0 /\ running)
  <2>1. dpc' \in {"wait", "idle"} /\ keptBack' = (whole > 0)
    BY <1>5 DEF DrainLock
  <2>2. ASSUME ~keptBack' PROVE goal' <= total' /\ (buf' # Empty => goal' <= buf'.lo)
    <3>1. whole = 0
      <4>1. ~(whole > 0)
        BY <2>1, <2>2, Zenon
      <4> HIDE DEF whole
      <4> QED BY <1>2, <4>1
    <3>2. goal' = IF buf = Empty THEN total ELSE buf.lo
      BY <1>1, <1>3, <3>1
    <3>3. buf # Empty => buf.lo <= total
      BY <1>1, BlockFacts
    <3> QED BY <1>1, <3>2, <3>3
  <2> QED BY <1>1, <2>1, <2>2 DEF GoalInv, DrainSound
<1> QED BY <1>4, <1>5

LEMMA GoalStep ==
    ASSUME IInv, IInv', GoalInv, [Next]_vars
    PROVE  GoalInv'
<1>a. TypeOK /\ TypeOK' /\ total \in Nat /\ total' \in Nat /\ buf \in Block /\ buf.lo \in Nat
  BY BlockFacts DEF IInv, CountInv, TypeOK
<1>1. CASE PushOk \/ PushUndo
  BY <1>1, <1>a, GoalHandoffEnds DEF PushOk, PushUndo, driverVars, eatVars
<1>2. CASE PushFull \/ Pop \/ Parse \/ CountDown \/ ConsumerExit
  <2>1. UNCHANGED <<total, buf, push, dropped>> /\ UNCHANGED drainVars /\ parsed \subseteq parsed'
    BY <1>2 DEF PushFull, Pop, Parse, CountDown, ConsumerExit, driverVars, pipeVars, eatVars
  <2> QED BY <1>a, <2>1, GoalKept
<1>3. CASE Notify
  BY <1>3 DEF Notify, driverVars, pipeVars, GoalInv, DrainSound, Settled
<1>4. CASE Produce \/ Dispatch \/ ExecCheck \/ ExecReadNothing \/ UNCHANGED vars
  <2>1. UNCHANGED <<total, buf, push, parsed, dropped>> /\ UNCHANGED drainVars
    BY <1>4 DEF Produce, Dispatch, ExecCheck, ExecReadNothing, vars, driverVars, pipeVars, eatVars, drainVars
  <2> QED BY <1>a, <2>1, GoalKept
<1>5. ASSUME NEW n \in 1..BufferSize, ExecRead(n) PROVE GoalInv'
  <2> DEFINE b == Filled(n)
             cut == b.lo + Whole(Size(b))
  <2>1. /\ UNCHANGED drainVars /\ total' = total + n /\ owner = "none" /\ n \in Nat /\ dpc # "handoff"
        /\ (ReadDiscard(b) \/ ReadSync(b) \/ ReadBatch(b) \/ ReadHandoff(b))
    BY <1>5, SizeAssumption DEF ExecRead, IInv, CountInv, HandoffInv
  <2>2. /\ buf = Empty \/ (buf.lo < buf.hi /\ buf.hi = total)
        /\ b = Blk(IF buf.lo = buf.hi THEN total ELSE buf.lo, total + n)
    BY DEF Filled, IInv, StreamInv, PipelineInv, BufInv
  <2>3. b \in Block /\ b.lo \in Nat /\ b.hi \in Nat /\ b.lo <= b.hi /\ Size(b) \in Nat /\ (buf # Empty => buf.lo <= b.lo) /\ (buf = Empty => total <= b.lo)
    BY <1>a, <2>1, <2>2, BlockFacts DEF Size
  <2> HIDE DEF b
  <2>4. cut \in Nat /\ b.lo <= cut
    BY <2>3, WholeBounds
  <2> HIDE DEF cut
  <2>5. parsed \subseteq parsed' /\ dropped \subseteq dropped'
    BY <2>1 DEF ReadDiscard, ReadSync, ReadBatch, ReadHandoff
  <2>6. buf' = Empty \/ buf' = b \/ buf' = Blk(cut, b.hi)
    BY <2>1 DEF ReadDiscard, ReadSync, ReadBatch, ReadHandoff, cut
  <2>7. buf' = Empty \/ (buf # Empty /\ buf.lo <= buf'.lo) \/ (buf = Empty /\ total <= buf'.lo)
    BY <1>a, <2>3, <2>4, <2>6, BlockFacts
  <2> QED BY <1>a, <2>1, <2>5, <2>7, GoalKept
<1>6. CASE DrainReturn \/ DrainLock
  BY <1>6, GoalReturn, GoalLock
<1>7. CASE \E w \in BOOLEAN : DrainCall(w)
  BY <1>7 DEF DrainCall, GoalInv, DrainSound
<1>8. CASE DrainNoQueue \/ DrainWait \/ DrainTimeout
  BY <1>8 DEF DrainNoQueue, DrainWait, DrainTimeout, driverVars, pipeVars, eatVars, GoalInv, DrainSound, Settled
<1>9. CASE SetChannelStopped \/ UnInit \/ StopConsumerThread \/ JoinConsumer \/ LeftoverDone
  <2>1. UNCHANGED <<total, buf, push, parsed, dropped>> /\ UNCHANGED drainVars
    BY <1>9 DEF SetChannelStopped, UnInit, StopConsumerThread, JoinConsumer, LeftoverDone, driverVars, pipeVars, eatVars
  <2> QED BY <1>a, <2>1, GoalKept
<1>10. ASSUME NEW next, DrainBufferedData(next) PROVE GoalInv'
  <2>1. /\ UNCHANGED drainVars /\ UNCHANGED total /\ owner = "none" /\ dpc # "handoff" /\ buf' \in {buf, Empty}
        /\ parsed \subseteq parsed' /\ dropped \subseteq dropped'
    BY <1>10 DEF DrainBufferedData, DrainDirectly, driverVars, IInv, CountInv, HandoffInv
  <2> QED BY <1>a, <2>1, GoalKept
<1> QED BY <1>1, <1>2, <1>3, <1>4, <1>5, <1>6, <1>7, <1>8, <1>9, <1>10
        DEF Next, Worker, Handoff, Consumer, Drainer, Remover, Terminated, UnInitDrain, Destroy

\* What leaves the reader while it is in use is whole and complete, and a drain that
\* reports success, or a reader that is destroyed, leaves nothing behind.
THEOREM HandoverCorrect == Spec => []HandoverInv
<1>1. Init => HInv
  BY InitHandover
<1>2. IInv /\ IInv' /\ HInv /\ [Next]_vars => HInv'
  BY LifeStep, AlignStep, GoalStep, DeadStep DEF HInv
<1>3. IInv /\ HInv => HandoverInv
  <2> SUFFICES ASSUME IInv, HInv PROVE HandoverInv
    OBVIOUS
  <2>1. NoDropWhileInited /\ DrainSound
    BY DEF HInv, LifeInv, GoalInv
  <2>2. AlignedWhileInited
    <3>1. queue \in Seq(Block)
      BY DEF IInv, CountInv, TypeOK
    <3>2. DOMAIN queue = 1..Len(queue)
      BY <3>1
    <3> QED BY <3>2 DEF HInv, AlignInv, AlignedWhileInited
  <2>3. DestroyedClean
    <3> SUFFICES ASSUME rpc = "dead" PROVE parsed \cup dropped = 0 .. (total - 1)
      BY DEF DestroyedClean
    <3>1. queue = <<>> /\ eat = "none" /\ buf = Empty /\ total \in Nat /\ parsed \subseteq Nat /\ dropped \subseteq Nat
      BY DEF IInv, CountInv, TypeOK, ShutdownInv, HInv, DeadInv
    <3>2. \A o \in Nat : ~InItem(o) /\ ~InQueue(o) /\ ~InBuf(o)
      BY <3>1, BlockFacts DEF InItem, InQueue, InBuf
    <3>3. \A o \in 0 .. (total - 1) : o \in parsed \cup dropped
      BY <3>1, <3>2 DEF IInv, StreamInv, CoverInv
    <3>4. \A o \in parsed \cup dropped : o \in 0 .. (total - 1)
      BY <3>1 DEF IInv, StreamInv, ParsedInv, DroppedInv
    <3> QED BY <3>3, <3>4
  <2> QED BY <2>1, <2>2, <2>3 DEF HandoverInv
<1> QED BY <1>1, <1>2, <1>3, Inductive, PTL DEF Spec
============================================================================
