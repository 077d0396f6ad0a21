# Formal model of msPTI

This directory holds TLA+ modules that model msPTI, the profiling tool interface
of Ascend NPUs (the C++ library under `src/csrc` and the Python adapter under
`src/mspti`), the TLC configurations that check them and the theorems TLAPS proves
about them. Paths below are relative to the repository.

1. [The system](#1-the-system) · 2. [Modules](#2-modules) · 3. [Runs](#3-runs) ·
4. [Fairness](#4-fairness) · 5. [Proofs](#5-proofs) · 6. [Disagreements found](#6-disagreements-found) ·
7. [Limits](#7-limits) · 8. [What remains](#8-what-remains)

## 1. The system

A profiled program links or preloads `libmspti.so`. Host-side events (API calls,
task launches, marks) enter through injected functions and through report
callbacks registered with CANN; device-side events are read from the driver's
profiling channels. Parsers join both into *activity records*, which are written
to buffers the client provides and handed back to it when they are full or when
it flushes. A second, independent path samples performance metrics periodically
(PM sampling).

```
 app threads ──> injections, CANN reports ──────────┐
      │  msptiActivityEnable/Disable/Flush,          v
      │  msptiSubscribe/Unsubscribe/Finalize      parsers ──> ActivityManager::Record
      v                                              ^              │ buffers
 CallbackManager, ActivityManager (session)          │              v
      │ Register/SetDevice ...             ConsumeBufferData    manager thread
      v                                              │              │ work threads
 DevTaskManager ──> DevProfTask ──> ChannelPool ─> ChannelReader    v
      │ CANN command    │ driver job     │ poll, dispatch       client's completion
      v                 v                v                      callback
    CANN             driver <── prof_channel_read
```

### Inventory

| component | state | operations | hard behaviour | what makes it correct |
|---|---|---|---|---|
| **ChannelReader** `csrc/activity/ascend/channel/channel_reader.*` | `buffer_`, `curPos_`, consumer queue, `pendingConsumeCount_`, run flags | `Execute`, handoff, `ConsumeBufferData`, `DrainToConsumer`, `UnInit`, destructor | four threads, a bounded queue, a drain with a timeout, removal with a read in flight | no byte lost, repeated or reordered; the count is exact; a drain that reports success has drained; removal ends |
| ChannelReader's flush handshake | `needWait_`, `flushBufSize_`, `flushCurSize_` | `FlushDrvBuff`, `CheckIfSendFlush` | two mutexes, a 20 ms timeout, a late answer | a flush that returns before its timeout has seen its bytes read |
| ChannelPool, ChannelPoolManager | map of readers, poll thread, scheduling flags | `AddReader`, `RemoveReader`, `DispatchChannel`, `Start`, `Stop` | creation outside the lock, dispatch under it | one reader per channel; no read after removal; no deadlock |
| ThreadPool, BoundQueue, MpscQueue | task queues, quit flags | push, pop, quit, start, stop | waiting producers and consumers, quit with a backlog | no lost wake-up, nothing lost on quit |
| **DevTaskManager, DevProfTask** `csrc/activity/ascend/dev_*` | `task_map_`, `ref_cnts_`, `profSwitch_`, AICPU tasks | `StartDevProfTask`, `StopDevProfTask` | shared channels, each call may fail, API threads against the runtime's device callback | counts exact; a job has a reader; an enabled kind runs on a set device |
| AICPU event thread | `channelStarted_`, `readerAdded_`, event thread | `StartTask`, `WaitEvent`, `StopTask` | an event or a timeout against a stop | no channel left running, at most one start |
| **ActivityManager** `csrc/activity/activity_manager.*` | `activity_switch_`, current buffer, queue, manager and work threads | `Record`, `FlushAll`, `Run`, start and stop, `Register`, `UnRegister`, `SetDevice` | two mutexes, client callbacks, recursion through the OVERHEAD kind, joins | a buffer has one owner; delivered is final; stop leaves no thread; nobody waits for ever |
| **CallbackManager** | subscriber, bitmap per domain, `init_` | subscribe, enable, `ExecuteCallback`, teardown | callbacks in flight while the subscriber changes | a subscriber gets only callbacks it enabled; teardown is complete |
| KernelParser | host task list, kernels per stream and task, pending count | `ReportRtTaskTrack`, `ReportSocLog`, `Clear` | host and device records in any order, `Clear` in between | a kernel gets its own times; the count returns to zero |
| DeviceTaskCalculator, CommunicationCalculator | tasks, callbacks, operations, additional information, pending count | `AppendCommunicationTask`, `AppendApi2TaskInfo`, `Record`, `Clear` | the last task of an operation known late, two workers | an operation is reported once, with its own tasks |
| CannTrackCache, CannApiParser | per-thread queues and one analysis thread | append, analyse, stop | a stop with a backlog | every task is attached to the API that launched it |
| correlation ids, ExternalCorrelationReporter | last id per thread, stacks of external ids | assign, look up, push, pop, record | calls that nest, regions shared by threads | a record joins the API that made it |
| ContextManager's clock | a base of counter and time, a period thread, the client's clock | calibrate, convert, register, repeat | base replaced between two conversions | times keep their order |
| record walking, SocLog decoders | - | `ReportToUser`-side walking of a block, one decoder per chip | a record cut at the end of a block, chips with other layouts | every record is reported once, under the key the host used |
| MstxParser, MstxDomainMgr | marks in flight, ranges, domains | mark, range start and end, domain create and destroy | host and device halves of a mark, domains switched in between | a range has one start and one end |
| HcclReporter | operations of inner marks | wrapper of a collective, device marks | device marks before the wrapper has stored its operation | an operation gets its own description and times |
| MemoryParser, MemoryReporter | one deque per thread, sizes by address | report, search by time | nested intervals, addresses used again | an allocation is attributed to its own API |
| PM sampling sessions | handles, states, parsers, sample queue | enable, configure, start, stop, decode, disable | concurrent calls with one handle | a stale handle is refused; a running session gets data |
| DCMI collector | tick generation, workers, coordinator | start, stop, tick | a barrier that is stopped and restarted | ticks do not overlap; no deadlock on stop |
| PM sampling image, metric table | layout, queue of samples, symbols found | size, initialise, decode, read back | sizes at their limits, metrics a chip lacks | what is decoded is what was sampled |
| Python adapter and monitors | count of monitors, buffer pool, callbacks | start, stop, flush, request, complete | the interpreter's lock against `mtx_` and joins | a buffer is freed only when the library does not hold it |
| injections, function loader, `CannHashCache`, `OverheadReporter`, utilities | tables and pointers filled once | forwarding, conversion | - | left to unit tests |

`PROJECT.json` lists each component with its sources, and under `hazards` every
place where this code can go wrong in a way tests hardly reach, with the
properties that cover it.

## 2. Modules

| module | models | composed in |
|---|---|---|
| `ChannelReader` | one reader with its worker, consumer, drainer and remover | `MCChannelReader` |
| `DevTaskManager` | one device's kinds, tasks, channels and reference counts under the API and the device callback | `MCDevTaskManager` |
| `ActivityManager`, `Delivery` | activity buffers, `FlushAll`, the manager and work threads, start and stop; what the activity API promises (abstract) | `MCActivityManager` |
| `CallbackManager` | the subscription, the bitmap, callback sites, teardown | `MCHostCalls` |
| `Memory` | memory records, from the runtime's reports and from the wrappers | `MCHostCalls` |
| `Correlation` | correlation ids and external regions | `MCHostCalls` |
| `HostGate`, `KernelParser`, `Communication` | a kind's registration with its drain (`RetryFlushUntilDrained`); kernels; collective operations with their tracks | `MCParsers` |
| `MstxDomains`, `Marker`, `HcclMarks` | domains; marks and ranges; operations made of inner marks | `MCMarkers` |
| `PmSampling`, `DcmiCollector` | sessions, handles and parsers on top of the collector's tick barrier | `MCPmSampling` |
| `PmImage`, `PmSource` | a session's counter data image; where metric values come from | `MCConversions` |
| `Records` | from a block's bytes to tasks and keys, by chip | `MCConversions` |
| `ClockSync` | calibrations and conversions of device time | `MCConversions`, `MCPool` |
| `ChannelPool`, `AicpuTask`, `DrvFlush` | pool, thread pool and bound queue; the AICPU event thread; the flush handshake | `MCPool` |
| `MpscQueue`, `MpscFifo` | the lock-free queue, and the FIFO it implements (abstract) | `MCPool` |
| `PyAdapter`, `MstxMonitor` | the Python monitors over the adapter, as a client of the library; the pairing of a range's markers | `MCClients` |
| `..._proofs` | theorems | |

The comments at the head of each module say what its state stands for. What a
reader should know besides:

**ChannelReader.** The bytes of a channel are the offsets of its stream, so that
loss, repetition and order can be stated; what the bytes mean is abstracted. A
block is an interval. `owner` and `stage` follow `TryHandoffBufferedData`, whose
count goes up before the queue is tried and down again when it is full: other
threads see each of these moments. Everything else done under `bufferMutex_` is
one step. The drainer's `goal` and `keptBack` record what it was asked to drain
and whether its own handoff found room. `Kinds` selects the asynchronous channel
(`SOC_LOG`), the synchronous ones and the discarding one (`AICPU`). The driver's
`prof_channel_read` is external: it returns some of the bytes the device has
produced, at most what fits, nothing, or an error.

**DevTaskManager.** A kind needs a set of channels (`kindToChannel_map_`); a
channel shared by two kinds is counted in `ref_cnts_`. `StartTasks` and `StopTasks`
do what the task threads of one kind do: `DevProfTask::Start` joins each thread
under `task_map_mtx_`, so nothing can be seen in between. The counts are unsigned
(`CountMod`). `Faults` names the calls that may fail. `msptiFinalize` (`Detach`)
requires that no other API call runs (`src/csrc/include/mspti_callback.h:364-407`),
which is its guard. `Subscribe` and `TeardownLocked` are what `CallbackManager` does
to the pool of readers: made with the session, dropped with it (after the tasks were
stopped, by `msptiUnsubscribe` without any lock that keeps others from starting new
ones). Without a pool `AddReader` succeeds and adds nothing, so a job that is started
then, or that outlives its pool, has no reader: `unread` records which, and
`JobHasReader` says that no job is without one otherwise.

**ActivityManager.** A buffer is a number, its contents the set of records in it.
Each thread has a `pc`; `frame` is the `Record` call it is in and the place it
returns to, so that the nested `Record` of an overhead record needs no stack: the
nested calls inside `ActivityBuffer::Init` differ only in their `depth`.
`buf_mtx_` is recursive and is held by `FlushAll` around the last completion. A
work thread goes by the number of the buffer it completes. Records are sized, so
that the 80 percent threshold, a record that does not fit and a buffer that is
full exactly are all reached. The completion callback does nothing the library can
see: calling MSPTI from it is forbidden (`src/csrc/include/mspti_callback.h:393-398`).

**CallbackManager, Memory, Correlation.** Subscriptions are numbered while
handles are addresses, so that a handle used again is seen. A callback site reads
`init_`, the bitmap and the subscriber in three steps. In `Memory`, memory sets go
the copies' way; `blurred` names addresses whose size cannot be right (an address
used again while an earlier report is under way, or reported while the kind is
off) until a settled report. A report's `threadId` is taken to be the calling
thread's, as `kernel_parser.cpp:129` and `:134` both need.

**HostGate, KernelParser, Communication.** A launch and a run on the device have
numbers; a time is the number of the run it was taken from. `crossed`, `raced` and
`stale` mark where a kind was switched while reports were under way, and the
properties say what holds outside such crossings. `IsHostReportAllowed` is read in
two steps in `KernelParser` and in one in `Communication`, where what follows it, a
count or an insertion under a lock, is a step of its own. Whether a launch is aging
comes with its report (`unaging`). The first task of a graph reported under a key stays
in `unaging_kernel_map_` for all sessions: `Clear` does not empty that map
(`kernel_parser.cpp:324-333`). It keeps every later run of the key, an aging launch's
too, whose own entry then waits until the session ends. `Claims` names these records:
`KernelOwnTimes` and `KernelComplete` ask that a run be recorded for its own launch or
for that task, with the run's times in either case. `Clear` of the operations empties
the tasks, the infos and the count in three steps (`clearing`); `debt` is what the
count is short of when they fall between the steps of a report.

**MstxDomains, Marker, HcclMarks.** That one name is the beginning of another,
which is all the manager compares, is a relation. What a bandwidth is reckoned
from is kept as the call whose counts and whose rank size are read; `HcclScatter`
never asks for the rank size, which stays 0 (section 6).
`innerMarkIds` may see the device's record before the wrapper stored its
operation (`early`); the 32-bit `markId` meets 64-bit look-ups (`OpKeys`).

**PmSampling, DcmiCollector, PmImage, PmSource.** An object's address is free
again once no table and no call holds it. `crossed` names the devices whose
sessions' controlling calls overlapped, which the API leaves to its caller
(`mspti_pm_sampling_api.cpp:76-78`); the promises about a running session are made
outside it. Image sizes are scaled down (`Word = 1024`, `ImageMaxSize = 200`), so
that the budget, the queue's limit and the wrap of a size are all reached.

**ClockSync.** A calibration asks the driver for the frequency, reads the counter
and the clock and stores them later, with no lock between. `freq` is what the
counters run at, of which the driver is asked once whether the host has one
(`IsHostFreqEnabled`); an `info` has what the driver said that time: where it
fails, the host's frequency is `ERR_FREQ`, the device's a default and the device's
count 0, all of which are stored and converted by. `sound` marks an `info` for
which it answered. A conversion looks the base up once; the start and the end of an
API call are two conversions. By any `info` conversions keep the order of counts
(`OrderKept`); by a sound one they are accurate (`Accurate`), and each round of the
repeating thread makes the bases sound again (`ClockSettles`).

**ChannelPool, AicpuTask, DrvFlush, MpscQueue.** The pool's loop waits for room
in a worker's queue with `mtx_` held. A manager's call holds `channelPollMutex_`
throughout. A reader's hash mixes channel, device and the time of its `Init`, so
that the reader that follows another on one channel may be any worker's; `late`
counts the chunks a worker reads through a reader removed since it looked. A producer of `MPSCQueue` first becomes the head and links its node
after, so that the list may be broken in between; `count_` wraps for a moment
when the consumer is ahead of it.

**PyAdapter, MstxMonitor.** `gil` is the interpreter's lock: `start`, `stop` and
`flush_all` let go of it, the calls that register and unregister a callback keep
it, and every completion takes it. Ghosts say what a promise is about: `overlapped`
(calls that start and stop monitors have overlapped), `late` (a record was made
behind a switch already off), `failed` (failed starts, whose count is not taken back).

## 3. Runs

Where a run has several *loads*, the initial state chooses one: a load is a
small program (its actors, sets and bounds), and only one is under way in a
behaviour. Times are of two workers.

| run | instance | question |
|---|---|---|
| `reader` | all kinds; 5-byte buffer, 2-byte structs, queue of 1, 6 bytes | Is every byte parsed once, in order, whatever the four threads do? Is the count exact, a successful drain complete, and do drains and removal end? |
| `tasks` | 2 kinds sharing a channel; *races*: 2 API threads and the device callback; *faults*: 1 API thread, everything but `AddReader` may fail | Does an enabled kind end with its tasks on a set device? Do the counts stay exact and every job keep its reader? |
| `buffers` | *overhead*: the OVERHEAD kind, NULL buffers, records of 2 and 3 in buffers of 5; *alone*: one thread that records, flushes and stops | Is any buffer lost, handed over twice or overfilled? Does a lone client get what it recorded, and do its stops return? |
| `buffers_clients` | 1 recorder, 2 clients that flush, start and stop, 2 manager threads | Are delivered batches final, does the queue get served, does `FlushAll` return, is a stopped session quiet? |
| `callbacks` | *sessions*, *lists*; *nested*, *blocks*, *older*; *regions*, *calls*, *threads* | Does a subscriber see only what it enabled? Are memory records complete, in order and sized? Do ids join records to their calls? |
| `parsers` | *shared*, *graph*; *sequence*, *tasks*, *replays*, *threads* | Does a kernel get the times of its own run, and an operation its own tasks, once? |
| `markers` | *ranges*, *failures*, *domains*; *ops*, *mixed* | Are ranges paired, marks kept by the switches of their domain, operations described by their own call? |
| `sampling` | *calls*, *decode*, *sessions*, *ticks*; 2 sessions, 4 ticks | Are stale handles refused, do sessions get their device's samples, do ticks not overlap, does every stop return? |
| `conversions` | *CHIP_910B*, *CHIP_V6*, *CHIP_MAX*; *keys*, *walks*; *conv*, *moved*, *api* | Is an image read back as sampled? Is a device record reported once and under the host's key? Do converted times keep their order, by what the driver failed to give too, and are they accurate when it answered? |
| `pool` | *pool*: 2 channels, 2 readers, 2 workers, queue of 1; *aicpu*; *flush*; *mpsc*: 2 producers, 4 nodes; *rounds* | One reader per channel and one task per reader? Is an AICPU channel closed with its task? Is a flush complete? Is the queue a FIFO? Are they served? |
| `clients` | *alone*, *beside*: 2 monitors, 2 buffers; *markers* | Is a buffer alive while the library has it, and a callback while it runs? Is the count right, are ranges paired, do calls return? |
| `clients_size_claim` | as `clients` | refutes what the adapter logs of a new buffer size (section 6) |

**Properties** are conjunctions of named parts, each with a comment that states
it: `ChannelReader!HandoverInv` is `NoDropWhileInited`, `AlignedWhileInited`,
`DrainSound` and `DestroyedClean`; `MCDevTaskManager!RacesInv` is
`CollectsWhileUsed`, `RacesEndRunning` and `RacesEndReleased`;
`SubscriptionInv` is `SessionWhole`, `OwnBits`, `BufferBounded`, `NoLateCallback` and
the types; and so on for `MemoryInv`, `CorrelationInv`, `KernelInv`, `CommInv`,
`MarkerInv`, `HcclInv`, `SessionsInv`, `SamplesInv`, `ImageInv`, `RecordsInv`, `ClockInv`,
`PoolInv`, `AicpuInv`, `FlushInv`, `MpscCorrect`, `AdapterInv` and `RangesInv`. The
temporal ones are `CallsEnd`, `BuffersServed`, `AloneStopReturns`, `TicksAndCalls`,
`DeviceServes` and `CallsReturn`, and the refinement `Implements`.

**Bounds.** Every bound is a constant. In `reader`, five bytes against two-byte
structs make an empty buffer, a half struct, the threshold (four) and a full
buffer with a tail all different; one queue slot makes full and empty reachable
with few bytes; six bytes fill the buffer and the queue and leave one byte. In
`tasks` two kinds, one using a subset of the other's channels, give shared and
unshared channels; `CountMod = 8` is small enough for a wrap to show and larger
than the number of kinds, as 2^32 is. The run's `VIEW` leaves out `aicpu` and
`commanded`, which no guard and no property of the run depends on. In `buffers`, two calls and two buffers make
one buffer current while another is queued, worked on or flushed; with four in
*overhead* nested requests also meet a full queue; `StackDepth` stands for the
thread's stack. In `callbacks` two subscriptions are what it takes to reuse a
handle. In `parsers` one or two sessions, `FLUSH_RETRY_MAX_COUNT` of 0 or 1 and two launches
that may take one key reach every crossing of reports and switches; with
`MaxGraphs = 2` a key has a graph's task before, after or beside an aging one, and
`MaxReplays = 2` replays it. In
`sampling` two sessions and four ticks give a restart with a tick under way. In
`pool` a queue of one blocks the loop; `MaxFlushes = 3` lets one flush time out
and the next find its answer. In `clients` three starts between two monitors let one start while the other stops.
For the components of section 5 the proofs do not depend on these bounds.

Deadlock is checked in `reader`, `tasks` and `buffers_clients`. In the other runs
a behaviour ends when its bound is used up, so a state without a successor says
nothing.

Beside the definitions stand faulty variants (`..._Unaligned`, `..._Keeps`,
`..._Always`, commented as faulty or as mutants): with one of them in place of the
definition a property of the run fails. They show that no property holds by the
shape of the model.

## 4. Fairness

Threads inside the library run on (the operating system schedules them), so
steps of a thread are weakly fair; calls by the application, data from the device
and failures are never promised. `ChannelReader!Fairness` asks strong fairness of
the steps that need `bufferMutex_`, because a thread waiting for a mutex that
others take again and again gets it eventually. The sleeping drainer is woken by
a notification or by its timeout (`DRAIN_MAX_WAIT_MS`), which is why `DrainTimeout`
is fair. In `ActivityManager` the manager's `wait_for` has a period, so a round
of `Serve` always comes; no fairness is asked of `RecordCall`, `FlushAll`'s first
step, `StopActivityMgrThread` or the registrations. In the load *alone* the program
has one thread, which is what makes `AloneStopReturns` true there; section 6 says
how a second thread makes it false. In `PmSampling` the collector's threads and
the calls under way are fair. In `MCPool` the loop, the workers and the consumer
are; a channel that never runs dry keeps its worker, so data is bounded. In
`PyAdapter` the threads of the monitors and the completions are weakly fair: calls
are finitely many, so a lock that is given back is free in the end.

## 5. Proofs

Every theorem is for every value of the constants under their `ASSUME`s, which
TLC evaluates in the runs. An invariant of a run is seldom inductive; each
`..._proofs` module states the inductive one, which TLC checked on the run's
instance before it was proved.

**`ChannelReader_proofs`.** `TypeOK`, `PendingExact`, `NothingLost`, `InOrder`,
`StopFence` and `HandoverInv`. `IInv` adds: who is in a handoff and that the
block it pushes is a prefix of `buf` (`HandoffInv`), what the remover's progress
says of the consumer (`ShutdownInv`), and that the blocks on their way - popped,
queued, in `buffer_` - are non-empty and sorted by position, below the bytes read
and above the bytes parsed (`PipelineInv`, `ParsedInv`, `DroppedInv`, `CoverInv`).
Order and no-loss follow because the only block ever parsed is the lowest. The
hand-over's promises need four more arguments, `HInv`: that `isInited_` follows the
remover (`LifeInv`), that blocks, and the next read into an empty `buffer_`, start
at a struct while the reader is initialised (`AlignInv`), that what was read before
a drain has left `buffer_` when the drain's own handoff is done (`GoalInv`), and that
nothing runs on a destroyed reader (`DeadInv`).

**`DevTaskManager_proofs`.** `TypeOK` and `JobHasReader` whatever fails and however
sessions begin and end; `RefExact`
and the action property `StopsWithLast` where `AddReader` cannot fail. The key lemma
is that counts never wrap, since a count is the cardinality of a set of at most
`MaxKind` kinds. `RacesCorrect` is `RacesInv` for any kinds and API threads under two
hypotheses: the calls it depends on do not fail (`Reliable`), and the runtime
reports a device's open and close from one thread (`OneCallback`). `KindsInv` says
that an enabled kind on a set device has its tasks, or has lapsed, or some thread is
about to start them (`Reached`), thread by thread (`Placed`). `OneCallback` is needed:
with two runtime threads TLC finds one thread's `ResetDevice` stopping the tasks
that the other's later `SetDevice` has started.

**`ActivityManager_proofs`.** `TypeOK`, `OneOwner`, `QueueSignalled`,
`StoppedIsQuiet` and the refinement `Implements` (module `Delivery`). `IInv` says
buffer by buffer where it is (`Ownership`), that the steps of `Record` under
`buf_mtx_` belong to its holder (`Locked`), that `FlushAll` holds buffers only
while it completes them (`HeldOK`), that a fresh buffer is empty, and that every
running thread has someone who will join it (`Joined`). The refinement needs that
a completed buffer is not current, so that `Write` never touches it.

**`HostCalls_proofs`.** `SubscriptionInv`. `SInv` says which address a subscription
owns and until when (`Owned`), what each place of a teardown has already done
(`Stands`), that every bit set was set by the session under way (`Bits`), what a
listing has copied (`Lists`), and that the subscription there is later than all that
were ended, and the one a callback site holds later than those ended before the
site was entered (`Later`).

`CorrelationCorrect` is for any threads and nesting. Every id under way belongs to one
thread (`IdsDiffer`, `LastOfThread`), and a call's later launches are all inside it
(`OpenSince`), so that the thread's entry in `correlationIdMap_` is the greatest of the
launches in a call being left; what was made in a call that has ended is not left
without its id (`CallsShut`, `CallsNameTheirs`), and a node launch's `NODE_API` comes before
the id of its collective is drawn (`NodeKernels`). Regions' ids only grow, and a region
keeps them until its record is out (`RegionsRise`, `RegionsKept`).

`MemoryCorrect`: a thread's clock orders its calls, records and reports. A record is
made in all the calls of its kind around it (`MadeWithin`), waits unless a report has
passed it (`RecordsPast`), and waits for the innermost of them unless that one ended
while the kind was off (`WaitsFor`); so a report finds its own call's records
(`OwnCall`) and all of them (`CallsComplete`). For the sizes: an address that nobody
blurred is in at most one report on its way, and its entry in the table is what the
block had before that report (`SizesFollow`, `SureSizes`). The records of a thread are a
sequence, and what `Left` keeps of it is a suffix, so no induction is needed.

**`Parsers_proofs`.** `KernelCorrect`, for any keys, threads and devices. The gate's
sessions are what `HostGate` promises (`GateSessions`); a launch is in one list only
(`HostsApart`, `EntriesApart`), and only aging ones wait (`AgingWaits`). A device runs the
aging launches of a key once and in order (`RunsInOrder`), and a
channel's logs come in pairs whose ENDs rise (`LogsPaired`, `EndsRise`, `EndsLast`), so an
END at the head of a channel is that of the least pending run of its device
(`ChannelInOrder`), and the staged run is the one whose END comes next
(`StagedInOrder`). While a key that nothing crossed has no graph's task, each of its
launches is on its way, waits in launch order, or is aging and has ended
(`AgingInOrder`): a launch of a graph is never among the last, so the END that comes is
the first waiting launch's. A key's graph's task is, unless something crossed the key,
the first of its launches that is a graph's (`GraphInOrder`), so it `Claims` the END.
`AllRecorded` counts what is left, and `DrainHolds` says what a drain that has succeeded
leaves.

`MarksCorrect` and `HcclCorrect` are for any threads, domains, shapes and readings, over
the union of the loads that the run takes one at a time (`MarksSpec`). An id is open,
while its end may still be told, by one holder only: a range between its start and its
end, or an operation (`IdsGivenOut`, `OneHolder`), and nothing has come of the end of
what is open (`OpenNotEnded`). The traces that the device's consumer has not read are
each there once, an end after its start (`TracesOrdered`), and the reading that a start
was converted with is the one that its end will find, on the device (`DeviceClocks`) and
on the host (`HostClocks`). An operation is kept before the device is told of its end
(`OperationsKept`), so that what the consumer takes for an operation's mark is one
(`ReaderTells`). Hypothesis: `MaxMarks < OpKeys`, since `RecordHcclOp` keeps 32 bits of
an id; after 2^32 marks one operation overwrites another.

**`DeviceChannels_proofs`.** `PoolInv`:
`PoolIInv` says where a reader's one task is - being pushed, in the queue of the
worker its hash names, or run by it (`AtHome`, `Once`, `PushedOnce`, `Scheduled`,
`Running`) - and what a stop leaves (`LeftEmpty`, `Rests`); `PoolReads` says that a
reader that was not removed is its channel's in the table, so that there is one,
and that a worker about to read has not read late before. `FlushInv` and `AicpuInv`: the handshake's counts
against the bytes read, and the event thread's progress against the flags that
`StopTask` reads. `MpscCorrect`, which contains the refinement of `MpscFifo`: `MpscIInv`
says that links go forward in the order of the exchanges (`Numbered`,
`LinksForward`) and that two producers never write the same link (`WritesApart`).
`ClockCorrect`, for any counter frequency, offset and failures of the driver: a
calibration has read the clock, and if the driver answered (`Counted`) the counter,
inside its own span (`Calibrating`, `ReadSoFar`), what is stored was read so (`Stored`,
`ReadAsStored`, `ReadsRegistered`), the two divisions of a conversion lose less than a
tick of the counter and a nanosecond (`ConversionError`), and they keep the order of
counts whatever frequency they divide by (`ScaledOrder`, `RealTimeOrder`).

**`Clients_proofs`.** `RangesInv`: a thread goes by its own marker (`OwnMarker`), an
entry holds its own key's markers that have arrived (`EntriesOwn`), and one that is
whole has a thread that attends to it (`WholeOrEmpty`). `AdapterInv`: three
arguments in `AdapterIInv`. The count is the cardinality of the monitors counted in
(`Counting`), and stays below 2^32 because starts do. A callback's references are at
least its slot and its runs (`References`). And while calls that start and stop do
not overlap, only one monitor is between (`OneActive`), it has the adapter's session
under it (`Subscribed`), the last stop empties the library step by step before the
pool is cleared (`Emptied`), and a buffer the library has is allocated, not free and
in one place (`Apart`).

**`PmSampling_proofs`.** `SessionsInv`, `SamplesInv` and the action property
`TicksDontOverlap`, for any devices, callers, configurations and queue sizes. Four
layers. `CollectorIInv`: whoever holds `mtx_` is joining the threads (`Life`), and a
tick under way has as many reports as `doneCount_` says and its coordinator waiting
for the others (`Barrier`). `ControlIInv` adds where each call is and what it holds
(`Placed`), and that the tables agree (`Tables`); every step of a call is one `Turn`,
which touches its own object and its device's parser. `SessionIInv` adds that a
controlling call whose device is not in `crossed` is alone there and holds the
registered session (`Alone`), that a running session has the threads or a Start
about to bring them or to take the state back (`Served`: `StopCollector` looks at the
demand with `mtx_` held), and that the device's parser is its running session's but
between the two steps of a call (`Feeds`). `SampleIInv` adds that the tick's needs,
the copy in `tickWork_` and the worker's copy cover the parser's metrics (`AskedAt`),
and that a queue is a `Chain` whose last window reaches the parser's base or stops
short of it with the client told. A session whose first windows a full queue
refused has no chain to continue, so `first` marks the first window that the queue
*took*: the proof failed, and then TLC on a longer clock, for as long as it marked
the first one offered.

**Only model-checked.** Liveness (`CallsEnd`, `BuffersServed`, `AloneStopReturns`,
the part of `TicksAndCalls` about returns, `DeviceServes`, `CallsReturn`): the prover
handles neither fairness nor `ENABLED`. `ImageInv` and `RecordsInv`: they compare
recursive computations over data, and induction over data is out of the prover's
reach. `AloneFlushDelivers` and `CommInv`: their inductive invariants have not been
worked out (section 8).

## 6. Disagreements found

One is kept as a run:

- **A buffer may be told a size it does not have** (`clients_size_claim`,
  `mspti_adapter.cpp:246`). `SetBufferSize` while a monitor runs logs that the size
  takes effect at the next start (`:389`), but the request callback gives the
  library the adapter's current size with a buffer of the old one.

The others are stated in the modules as properties that no passing run lists. Each
can be seen again by checking the property with the constants named:

- **A scatter has no bandwidth** (`BandwidthReckoned`, `hccl_inject.cpp:276`,
  against `docs/en/user_guide/activity_api.md:130`). `HcclScatter` fills the same
  description as the other collectives but never calls `HcclGetRankSize`, and
  `CalculateCollectiveBandWidth` multiplies by the rank size: every scatter is
  reported with a bandwidth of 0. (`MCMarkers`, the constants of `markers.cfg`.)
- **A drain that keeps data and reports success** (`DrainLeavesNothing`,
  `channel_reader.cpp:148`, against `channel_reader.h:52-53`). When the queue is full,
  `DrainToConsumer(true)` only logs, waits for the blocks queued before and returns
  success; whole records stay in `buffer_`. `DrainSound` says what does hold: success
  is right when the handoff found room. (`Spec`, `Kinds = {"SOC_LOG"}`, `MaxProduced = 14`.)
- **Back-pressure that is not retried** (`BackpressureRetried`,
  `channel_reader.cpp:395`, against `:479`). With `buffer_` full to the last byte the
  next read has length zero and `Execute` leaves before the handoff, however empty
  the queue is; only a drain or the removal gets the data out. (`FairSpec`,
  `BufferSize = 2`, `StructSize = 1`, `MaxProduced = 4`, `ReadMayFail = FALSE`.)
- **A kind's disabling stops another's channel** (`StopsWithLast`,
  `dev_prof_task.cpp:229`, against `:177-178`), after an `AddReader` that failed:
  `StartTask` takes the count back, `DevProfTask::Start` ignores the failure.
  (`RacesSpec`, one API thread, `Faults = {"noreader"}`.)
- **A refused command closes the AICPU channels of an accepted one**
  (`AicpuWhileCommanded`, `dev_task_manager.cpp:370`, against `:357`). (`RacesSpec`,
  one API thread, `Faults = {"nocommand"}`.)
- **NULL from the request callback recurses when OVERHEAD is on** (`NullDiscards`,
  `activity_manager.cpp:685`): the overhead record of the failed request finds an
  empty buffer full and requests another; the English design document says under
  "Feature Design Specifications" (`msPTI-Feature-Design-Specifications.md:575`) that
  records are discarded. (`OneSpec`, one recorder, `Sizes = {1}`, `StackDepth = 3`.)
- **A stop that waits for a manager that was started again** (`StopReturns` of
  `ActivityManager`, `activity_manager.cpp:341`): `RegisterCallbacks` during the join
  sets `thread_run_` again. (`FairOneSpec`, no recorder, two clients and managers.)
- **A running session without a parser** (`NoSilentSession`,
  `pm_sampling_manager.cpp:107`, against `:138-139`): `Disable` gives up the device in
  one critical section and its parser in another. (The constants of `sampling`.)
- **A metric configured twice** (`ConfigDistinct`, `pm_sampling_object.cpp:106`,
  against `mspti_pm_sampling.h:487`): `SetConfig` accepts it and every later
  `GetCounterDataSize` fails. (The constants of `conversions`.)
- **A callback after its subscription ended** (`NoFutureCallbacks`,
  `callback_manager.cpp:360`, against `mspti_callback.h:197`): a site has read the
  subscriber, `msptiUnsubscribe` returns, the site calls. (The constants of
  `callbacks`; so too the next three.)
- **The kernels of one API call do not share its correlation id** (`SharedByCall`,
  `kernel_parser.cpp:129`, against lines 396 and 402-403 of the design document in
  `docs/zh/development_guide`): each launch draws a new id and the call's record has
  the last. And **external regions belong to all threads**
  (`RegionsOfCaller`, `external_correlation_reporter.cpp`, against
  `mspti_activity.h:986` and `:1001`, "for the calling thread"). In the same header
  `:1007-1008` lets `lastId` be NULL, which is refused
  (`external_correlation_reporter.cpp:80-83`), and `:989-991` announces external
  records that do not appear when the KERNEL and COMMUNICATION kinds are off, since
  no id is given then.
- **Times of two devices or across a registration** (`RegistrationCalibrates`,
  `OneAxis`, `ApiEndsAfter`): a clock registered during a calibration may be
  overtaken by it until the next round, and a registration does not recalibrate the
  devices; the guide's section 4.3.5 puts all on one axis.
- **Counts after a drain** (`PendingRests`, `activity_manager.cpp:473`;
  `CommCountNatural`, `communication_calculator.h:73-74`): a report that passed the
  gate before it closed leaves the kernels' count above zero, or takes the
  operations' below. **Two consumers in the assembly** (`AssemblyExclusive`): the
  consumers of two devices assemble operations beside each other without a lock.
- **Records of a disabled domain** (`DisabledRecordsNothing`, `mstx_inject.cpp:88-95`,
  against `mspti_activity.h:917-921`): the prefix comparison gives "ab" the handle
  of "a".
- **A Python call that never returns** (`StopReturns` of `PyAdapter`): the calls that
  register and unregister keep the interpreter's lock while they wait for `mtx_` or
  join work threads whose completion needs it (`python_api.md:16`). `CallsReturn`
  says that this is the only way to hang.

Behaviours noted and not claimed as disagreements: a failed push may lower the
drained count to zero without a notification, and the drainer sleeps until its
timeout. A `Record` beside `FlushAll` may move a buffer into the queue that was
already emptied: `AloneFlushDelivers` is stated for one thread. A channel that is
never dry starves the others on its worker and holds up `UnInit`. A poll error
leaves `isStarted_` set. A calibration for which the driver fails replaces a good base,
and the times until the next round are wrong by as much. A Start between another monitor's stop and its flush clears
the adapter's pool under the library's current buffer; two stops may both
unsubscribe. A device mark that comes before `HcclReporter` has its operation is
lost, and a failed wrapper leaves its operation behind. A card that fails
`dcmi_get_device_id_in_card` shifts the flat ids of those after it
(`dcmi_api.cpp:194-198`).

## 7. Limits

Weak memory is not modelled: each atomic access is one step, in program order.
One device (two where devices meet), one reader, one client process. Formatting,
logging and the contents of records are abstracted. In `ActivityManager`,
`FlushPeriod` is a wake-up, which the model allows at any time; `UnRegister` is its
effect on the switch, and its drain is `HostGate`'s; `GetNextRecord` reads a buffer
the client owns. In `DevTaskManager`, `FlushDevProfData` and `DrainDevProfData` change
none of the state. In `AicpuTask` two tasks share a device attachment in the code,
which is not modelled. In `Memory` a nested API of the same kind discards the outer
call's earlier records (`memory_parser.cpp:235-240`), which `CallsComplete` excludes.
In `Marker` the limit of the message cache is left out, and the clock's base is
checked with two readings in one thread's load only. In `PyAdapter` one callback is
kept per kind, `maxNumRecords` is ignored as `mspti_activity.h:820-823` allows, and
`FlushPeriod` is left out with the library's timer. Components with status
`not_modelled` in `PROJECT.json` carry the reason.

## 8. What remains

Everything the inventory names is modelled except what its last row lists. What
remains is to prove, in this order, with the argument each needs:

| invariant | argument to find |
|---|---|
| `CommInv` | an operation's tasks are those of its launch; the count is the number of aging tasks |
