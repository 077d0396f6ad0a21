----------------------------- MODULE ChannelPool -----------------------------
(***************************************************************************)
(* ChannelPoolManager, its ChannelPool and the ThreadPool under it.  The   *)
(* pool's loop polls the driver and hands the reader of each channel that  *)
(* has data to the worker that the reader's hash names, through a bounded  *)
(* queue; the manager's clients add and remove readers.  A manager's call  *)
(* holds channelPollMutex_ throughout; the loop holds mtx_ while it waits  *)
(* for room in a queue.                                                    *)
(***************************************************************************)
EXTENDS Integers, FiniteSets, SequencesExt

CONSTANTS
    PoolChannels,  \* numbers of channels
    Workers,       \* threadNum_: workers 0 .. Workers - 1
    QueueSize,     \* CHANNELPOLL_THREAD_QUEUE_SIZE
    MaxPools,      \* a bound: times the manager is initialised
    MaxReaders,    \* a bound: readers ever made
    MaxData        \* a bound: chunks that the device writes; it pauses now and then

ASSUME PoolAssumption ==
    /\ PoolChannels \subseteq Nat /\ Workers \in Nat \ {0} /\ QueueSize \in Nat \ {0}
    /\ MaxPools \in Nat /\ MaxReaders \in Nat /\ MaxData \in Nat

VARIABLES
    pool,          \* the manager's pool: whether it is there, and isStarted_
    loop,          \* the pool's loop: its place and the channel it deals with
    todo,          \* channels the poll returned that are not dealt with yet
    readerOf,      \* readers_map_: a channel's reader, or 0
    reader,        \* the readers ever made
    queue,         \* a worker's queue
    worker,        \* a worker: gone, idle or executing a reader
    checked,       \* workers whose reader was not stopped when they looked, and that have yet to read
    quit,          \* workers whose queue has been told to quit
    chunks,        \* chunks a channel has for the reading
    written,       \* chunks written so far
    pools          \* pools made so far

poolVars == <<pool, loop, todo, readerOf, reader, queue, worker, checked, quit, chunks, written, pools>>

WorkerIds == 0 .. Workers - 1
ReaderIds == 1 .. Len(reader)
Gone == -1
Idle == 0
NoPool == [there |-> FALSE, started |-> FALSE, stopping |-> FALSE]

PoolTypeOK ==
    /\ pool \in [there: BOOLEAN, started: BOOLEAN, stopping: BOOLEAN]
    /\ loop \in [pc: {"none", "poll", "dispatch", "push", "left"}, at: PoolChannels \cup {Gone}] /\ todo \subseteq PoolChannels
    /\ readerOf \in [PoolChannels -> 0 .. Len(reader)]
    /\ reader \in Seq([channel: PoolChannels, worker: WorkerIds, alive: BOOLEAN, scheduling: BOOLEAN, late: Nat])
    /\ \A w \in WorkerIds : queue[w] \in Seq(ReaderIds) /\ Len(queue[w]) <= QueueSize /\ worker[w] \in {Gone, Idle} \cup ReaderIds
    /\ checked \subseteq WorkerIds /\ quit \subseteq WorkerIds /\ chunks \in [PoolChannels -> 0 .. MaxData] /\ written \in 0 .. MaxData /\ pools \in 0 .. MaxPools

PoolInit ==
    /\ pool = NoPool /\ loop = [pc |-> "none", at |-> Gone] /\ todo = {}
    /\ readerOf = [c \in PoolChannels |-> 0] /\ reader = <<>>
    /\ queue = [w \in WorkerIds |-> <<>>] /\ worker = [w \in WorkerIds |-> Gone] /\ checked = {} /\ quit = {}
    /\ chunks = [c \in PoolChannels |-> 0] /\ written = 0 /\ pools = 0

(* Whom the two locks let in.                                                *)
ManagerIsFree == ~pool.stopping
ReadersAreFree == loop.pc # "push"

DriverFills(c) ==
    /\ written < MaxData /\ written' = written + 1
    /\ readerOf[c] # 0 /\ chunks' = [chunks EXCEPT ![c] = @ + 1]
    /\ UNCHANGED <<pool, loop, todo, readerOf, reader, queue, worker, checked, quit, pools>>

----------------------------------------------------------------------------
(* ChannelPoolManager::Init: ChannelPool::Start starts workers and loop.     *)
InitPool ==
    /\ ManagerIsFree /\ ~pool.there /\ pools < MaxPools
    /\ pool' = [there |-> TRUE, started |-> TRUE, stopping |-> FALSE] /\ pools' = pools + 1
    /\ loop' = [pc |-> "poll", at |-> Gone] /\ todo' = {} /\ quit' = {}
    /\ worker' = [w \in WorkerIds |-> Idle] /\ queue' = [w \in WorkerIds |-> <<>>]
    /\ UNCHANGED <<written, readerOf, reader, checked, chunks>>

(* AddReader and RemoveReader.  A reader's worker comes of its channel, its  *)
(* device and the time of its Init: two readers of one channel may have two. *)
(* A reader that is removed stops and is no longer in the table, though a    *)
(* worker may still hold it.                                                 *)
AddReader(c, w) ==
    /\ ManagerIsFree /\ ReadersAreFree /\ pool.there /\ readerOf[c] = 0 /\ Len(reader) < MaxReaders
    /\ reader' = Append(reader, [channel |-> c, worker |-> w, alive |-> TRUE, scheduling |-> FALSE, late |-> 0])
    /\ readerOf' = [readerOf EXCEPT ![c] = Len(reader) + 1]
    /\ UNCHANGED <<written, pool, loop, todo, queue, worker, checked, quit, chunks, pools>>

RemoveReader(c) ==
    /\ ManagerIsFree /\ ReadersAreFree /\ pool.there /\ readerOf[c] # 0
    /\ reader' = [reader EXCEPT ![readerOf[c]].alive = FALSE]
    /\ readerOf' = [readerOf EXCEPT ![c] = 0] /\ chunks' = [chunks EXCEPT ![c] = 0]
    /\ UNCHANGED <<written, pool, loop, todo, queue, worker, checked, quit, pools>>

(* UnInit and ChannelPool::Stop: the flag, the loop joined, the workers told *)
(* and joined one after the other, and the pool with its readers let go.     *)
UnInit ==
    /\ ManagerIsFree /\ pool.there
    /\ pool' = [pool EXCEPT !.started = FALSE, !.stopping = TRUE]
    /\ UNCHANGED <<written, loop, todo, readerOf, reader, queue, worker, checked, quit, chunks, pools>>

LoopJoined_Never == TRUE
LoopJoined == loop.pc = "left"

Told_None(w) == quit
Told(w) == quit \cup {w}

StopsWorker(w) ==
    /\ pool.stopping /\ LoopJoined /\ \A v \in 0 .. w - 1 : worker[v] = Gone
    /\ w \notin quit /\ quit' = Told(w)
    /\ UNCHANGED <<written, pool, loop, todo, readerOf, reader, queue, worker, checked, chunks, pools>>

DropsPool ==
    /\ pool.stopping /\ LoopJoined /\ \A w \in WorkerIds : worker[w] = Gone
    /\ pool' = NoPool /\ loop' = [loop EXCEPT !.pc = IF loop.pc = "left" THEN "none" ELSE @]
    /\ reader' = [r \in ReaderIds |-> [reader[r] EXCEPT !.alive = FALSE]]
    /\ readerOf' = [c \in PoolChannels |-> 0] /\ chunks' = [c \in PoolChannels |-> 0]
    /\ UNCHANGED <<written, todo, queue, worker, checked, quit, pools>>

----------------------------------------------------------------------------
(* ChannelPool::Run: the channels that have data, an answer that is none, or *)
(* an error, after which the loop has left though isStarted_ stays.          *)
Polls ==
    /\ loop.pc = "poll"
    /\ \/ /\ pool.started /\ todo' = {c \in PoolChannels : chunks[c] > 0} /\ todo' # {}
          /\ loop' = [loop EXCEPT !.pc = "dispatch"]
       \/ loop' = [loop EXCEPT !.pc = "left"] /\ ~pool.started /\ UNCHANGED todo
    /\ UNCHANGED <<written, pool, readerOf, reader, queue, worker, checked, quit, chunks, pools>>

PollFails ==
    /\ loop.pc = "poll" /\ pool.started /\ loop' = [loop EXCEPT !.pc = "left"]
    /\ UNCHANGED <<written, pool, todo, readerOf, reader, queue, worker, checked, quit, chunks, pools>>

(* DispatchChannel: the reader is marked scheduled and pushed.               *)
IsScheduling_Ignored(r) == FALSE
IsScheduling(r) == reader[r].scheduling

DispatchChannel(c) ==
    /\ loop.pc = "dispatch" /\ c \in todo /\ todo' = todo \ {c}
    /\ IF readerOf[c] = 0 \/ (readerOf[c] # 0 /\ IsScheduling(readerOf[c]))
       THEN UNCHANGED <<written, loop, reader>>
       ELSE loop' = [pc |-> "push", at |-> c] /\ reader' = [reader EXCEPT ![readerOf[c]].scheduling = TRUE]
    /\ UNCHANGED <<written, pool, readerOf, queue, worker, checked, quit, chunks, pools>>

PollsAgain ==
    /\ loop.pc = "dispatch" /\ todo = {} /\ loop' = [loop EXCEPT !.pc = "poll"]
    /\ UNCHANGED <<written, pool, todo, readerOf, reader, queue, worker, checked, quit, chunks, pools>>

(* ThreadPool::Dispatch by the reader's hash, and BoundQueue::Push.          *)
WorkerOf(r) == reader[r].worker

HasRoom_OffByOne(w) == Len(queue[w]) <= QueueSize
HasRoom(w) == Len(queue[w]) < QueueSize

Pushes ==
    LET r == readerOf[loop.at]  w == WorkerOf(r) IN
    /\ loop.pc = "push" /\ (HasRoom(w) \/ w \in quit)
    /\ queue' = IF w \in quit THEN queue ELSE [queue EXCEPT ![w] = Append(@, r)]
    /\ loop' = [pc |-> "dispatch", at |-> Gone]
    /\ UNCHANGED <<written, pool, todo, readerOf, reader, worker, checked, quit, chunks, pools>>

----------------------------------------------------------------------------
(* Thread::Run: what is queued is executed before the worker leaves.         *)
WorkerTakes(w) ==
    /\ worker[w] = Idle /\ queue[w] # <<>>
    /\ worker' = [worker EXCEPT ![w] = Head(queue[w])] /\ queue' = [queue EXCEPT ![w] = Tail(@)]
    /\ UNCHANGED <<written, pool, loop, todo, readerOf, reader, checked, quit, chunks, pools>>

WorkerLeaves(w) ==
    /\ worker[w] = Idle /\ queue[w] = <<>> /\ w \in quit
    /\ worker' = [worker EXCEPT ![w] = Gone]
    /\ UNCHANGED <<written, pool, loop, todo, readerOf, reader, queue, checked, quit, chunks, pools>>

(* ChannelReader::Execute: chunk by chunk until there is none or the reader  *)
(* is stopped, and then the flag is cleared.  The stop is looked for before  *)
(* each chunk and outside the lock that the read takes, so that the reader   *)
(* may be removed in between; what it reads all the same is counted.         *)
Executes(w) == worker[w] > 0
ChunksOf(r) == chunks[reader[r].channel]

WorkerChecks(w) ==
    /\ Executes(w) /\ w \notin checked /\ reader[worker[w]].alive
    /\ checked' = checked \cup {w}
    /\ UNCHANGED <<written, pool, loop, todo, readerOf, reader, queue, worker, quit, chunks, pools>>

Rechecked_Never(w) == checked
Rechecked(w) == checked \ {w}

WorkerReads(w) ==
    LET r == worker[w] IN
    /\ w \in checked /\ ChunksOf(r) > 0
    /\ chunks' = [chunks EXCEPT ![reader[r].channel] = @ - 1]
    /\ reader' = IF reader[r].alive THEN reader ELSE [reader EXCEPT ![r].late = @ + 1]
    /\ checked' = Rechecked(w)
    /\ UNCHANGED <<written, pool, loop, todo, readerOf, queue, worker, quit, pools>>

Cleared_Never(r) == reader
Cleared(r) == [reader EXCEPT ![r].scheduling = FALSE]

WorkerEnds(w) ==
    /\ Executes(w) /\ IF w \in checked THEN ChunksOf(worker[w]) = 0 ELSE ~reader[worker[w]].alive
    /\ reader' = Cleared(worker[w])
    /\ worker' = [worker EXCEPT ![w] = Idle] /\ checked' = checked \ {w}
    /\ UNCHANGED <<written, pool, loop, todo, readerOf, queue, quit, chunks, pools>>

LoopSteps == Polls \/ PollsAgain \/ Pushes \/ \E c \in PoolChannels : DispatchChannel(c)
WorkerSteps(w) == WorkerTakes(w) \/ WorkerChecks(w) \/ WorkerReads(w) \/ WorkerEnds(w) \/ WorkerLeaves(w)

PoolNext ==
    \/ \E c \in PoolChannels : DriverFills(c) \/ RemoveReader(c) \/ \E w \in WorkerIds : AddReader(c, w)
    \/ InitPool \/ UnInit \/ DropsPool \/ LoopSteps \/ PollFails
    \/ \E w \in WorkerIds : StopsWorker(w) \/ WorkerSteps(w)

PoolSpec == PoolInit /\ [][PoolNext]_poolVars
PoolFairness ==
    /\ WF_poolVars(LoopSteps) /\ WF_poolVars(DropsPool)
    /\ \A w \in 0 .. Workers - 1 : WF_poolVars(WorkerSteps(w)) /\ WF_poolVars(StopsWorker(w))

----------------------------------------------------------------------------
Held(r) ==
    Cardinality({p \in WorkerIds \X (1 .. QueueSize) : p[2] <= Len(queue[p[1]]) /\ queue[p[1]][p[2]] = r})
      + Cardinality({w \in WorkerIds : worker[w] = r})
      + (IF loop.pc = "push" /\ readerOf[loop.at] = r THEN 1 ELSE 0)

(* A reader that counts as scheduled is with a worker or on its way to one,  *)
(* and once: never forgotten with the flag set, which would end its reading, *)
(* nor queued twice.                                                         *)
ScheduledIsHeld == \A r \in ReaderIds : Held(r) = (IF reader[r].scheduling THEN 1 ELSE 0)

(* A channel may be removed and added again while the reader it had is still *)
(* queued or executed, by another worker than the new one's.  Of two workers *)
(* at one channel at most one has a reader that is not removed, and a reader *)
(* takes at most one more chunk after it was removed.                        *)
OneReaderReads ==
    /\ \A v, w \in WorkerIds :
          v # w /\ Executes(v) /\ Executes(w) /\ reader[worker[v]].channel = reader[worker[w]].channel =>
             ~reader[worker[v]].alive \/ ~reader[worker[w]].alive
    /\ \A r \in ReaderIds : reader[r].late <= 1

(* Nothing of a pool outlives UnInit.                                        *)
PoolStoppedClean ==
    ~pool.there => /\ loop.pc = "none" /\ \A w \in WorkerIds : worker[w] = Gone /\ queue[w] = <<>>
                   /\ \A r \in ReaderIds : ~reader[r].alive /\ ~reader[r].scheduling

(* Data of a channel with a reader is read, though the loop may wait for     *)
(* room in a full queue with mtx_ held, unless the reader is removed, the    *)
(* pool stopped or the poll has failed.                                      *)
DataIsRead ==
    \A c \in PoolChannels : chunks[c] > 0 ~> chunks[c] = 0 \/ ~pool.started \/ loop.pc = "left"

(* UnInit returns.                                                           *)
UnInitReturns == pool.stopping ~> ~pool.stopping

(* A scheduled reader is in one place, a channel's data goes to one reader   *)
(* but for a chunk, and a stopped pool holds none.                           *)
PoolInv == PoolTypeOK /\ ScheduledIsHeld /\ OneReaderReads /\ PoolStoppedClean

(* The data of a channel is read, and UnInit returns.                        *)
PoolServes == DataIsRead /\ UnInitReturns
=============================================================================
