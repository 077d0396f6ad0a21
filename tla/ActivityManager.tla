-------------------------- MODULE ActivityManager --------------------------
(***************************************************************************)
(* The activity buffers of csrc/activity/activity_manager.cpp: Record,     *)
(* FlushAll, the manager thread (Run) with its work threads, and the start *)
(* and stop of a session.  The device side of the same class is module     *)
(* DevTaskManager.                                                         *)
(*                                                                         *)
(* A buffer has a number, given when its ActivityBuffer gets memory from   *)
(* the client's request callback; the work thread that completes a buffer  *)
(* goes by the buffer's number.  The deque co_activity_buffers_ is a set,  *)
(* since buffers enter it in the order of their numbers.                   *)
(*                                                                         *)
(* With the OVERHEAD kind enabled, the destructor of OverheadRecord makes  *)
(* the thread that ran a client callback call Record once more, inside     *)
(* ActivityBuffer::Init (buf_mtx_, which is recursive, is held) or after   *)
(* ActivityBuffer::UnInit.                                                 *)
(***************************************************************************)
EXTENDS Naturals, FiniteSets

CONSTANTS
    Recorders,  \* app and parser threads that call Record
    Clients,    \* threads that call the MSPTI API; may be recorders too
    Managers,   \* the threads StartActivityMgrThread may create
    Kinds,      \* kinds the client enables: "data", "overhead"
    Nulls,      \* the request callback may return NULL
    Capacity,   \* size of the client's buffers
    Sizes,      \* sizes of records; an overhead record has size 1
    StackDepth, \* nested Record calls a thread's stack can hold
    MaxCalls,   \* bound: Record calls for the "data" kind
    MaxBuffers, \* bound: buffers
    Nobody

Buffers == 1 .. MaxBuffers
Threads == Recorders \cup Clients \cup Managers
Actors  == Threads \cup Buffers

ASSUME BoundAssumption ==
    /\ Capacity \in Nat \ {0} /\ Sizes \subseteq Nat \ {0}
    /\ StackDepth \in Nat \ {0} /\ MaxCalls \in Nat /\ MaxBuffers \in Nat
ASSUME ActorAssumption ==
    /\ Threads \cap Nat = {} /\ Managers \cap (Recorders \cup Clients) = {}
    /\ Nobody \notin Threads \cup Nat
    /\ Clients \cap {"current", "queue", "worker", "client"} = {}
ASSUME KindAssumption == Kinds \subseteq {"data", "overhead"} /\ Nulls \in BOOLEAN

VARIABLES
    switch,      \* activity_switch_
    registered,  \* the callbacks are set
    thread_run,  \* thread_run_
    mgr_thread,  \* activity_mgr_thread_
    subscriber,  \* holder of subscriber_mutex_, taken around every stop
    buf_mtx,     \* holder of buf_mtx_
    cur,         \* cur_buf_
    co,          \* co_activity_buffers_
    buf_full,    \* buf_full_
    jobs,        \* work_thread_
    made,        \* buffers made so far
    content,     \* size_, valid_size_ and the records of each buffer
    depth,       \* nested Record calls of the thread in TryInitActivityBuffer
    pc,
    frame,       \* the Record call of each actor, and where it returns to
    held,        \* local flushBuffers or consumeBuf of FlushAll
    joining,     \* threads a thread joins
    calls,       \* Record calls so far, which number the records
    completed,   \* history: buffers given to the client
    owed,        \* history: records written when FlushAll was called
    crashed      \* the process has died

sessionVars == <<switch, registered, thread_run, mgr_thread, subscriber>>
queueVars   == <<cur, co, buf_full, jobs>>
bufferVars  == <<made, content>>
flushVars   == <<held, owed>>
controlVars == <<pc, frame, joining, depth, buf_mtx>>
vars == <<sessionVars, queueVars, bufferVars, flushVars, controlVars,
          calls, completed, crashed>>
----------------------------------------------------------------------------
NoBuffer == 0
NoFrame  == [rec |-> 0, size |-> 0, back |-> "off"]
Empty(n) == [size |-> n, valid |-> 0, recs |-> {}]
Fitting(n) == IF n <= Capacity THEN n ELSE Capacity

Init ==
    /\ switch = {} /\ registered = FALSE /\ thread_run = FALSE
    /\ mgr_thread = Nobody /\ subscriber = Nobody /\ buf_mtx = Nobody
    /\ cur = NoBuffer /\ co = {} /\ buf_full = FALSE /\ jobs = {}
    /\ made = 0 /\ content = [b \in Buffers |-> Empty(0)]
    /\ depth = 0 /\ calls = 0
    /\ pc = [a \in Actors |-> "off"]
    /\ frame = [a \in Actors |-> NoFrame]
    /\ held = [c \in Clients |-> {}]
    /\ owed = [c \in Clients |-> {}]
    /\ joining = [t \in Clients \cup Managers |-> {}]
    /\ completed = {} /\ crashed = FALSE

\* A thread that is "off" is outside the code: a client or recorder between
\* two calls, a manager or work thread that has not started or has ended.
At(a, p) == pc[a] = p /\ ~crashed
Goto(a, from, to) == At(a, from) /\ pc' = [pc EXCEPT ![a] = to]
Ended(S) == \A a \in S : pc[a] = "off"
Written  == UNION {content[b].recs : b \in Buffers}
Delivered == UNION {content[b].recs : b \in completed}
----------------------------------------------------------------------------
(* ActivityManager::Record.  The switch is read before buf_mtx_ is taken.  *)

RecordCall(t) ==
    /\ "data" \in switch /\ calls < MaxCalls
    /\ Goto(t, "off", "lock")
    /\ calls' = calls + 1
    /\ \E s \in Sizes :
         frame' = [frame EXCEPT ![t] = [rec |-> calls + 1, size |-> s, back |-> "off"]]
    /\ UNCHANGED <<sessionVars, queueVars, bufferVars, flushVars, joining, depth,
                   buf_mtx, completed, crashed>>

\* 80 percent of the buffer is ACTIVITY_BUFFER_THRESHOLD.
Full(b) == 5 * content[b].valid >= 4 * content[b].size

LockBuffer(a) ==
    /\ buf_mtx \in {Nobody, a}
    /\ buf_mtx' = a
    /\ Goto(a, "lock", IF cur = NoBuffer THEN "request"
                       ELSE IF Full(cur) THEN "handover" ELSE "write")
    /\ UNCHANGED <<sessionVars, queueVars, bufferVars, flushVars, frame, joining,
                   depth, calls, completed, crashed>>

\* Mutant of HandOver: buf_full_ is not set.
HandOver_Silent(a) ==
    /\ Goto(a, "handover", "request")
    /\ co' = co \cup {cur} /\ cur' = NoBuffer
    /\ UNCHANGED <<sessionVars, buf_full, jobs, bufferVars, flushVars, frame, joining,
                   depth, buf_mtx, calls, completed, crashed>>

HandOver(a) ==
    /\ Goto(a, "handover", "request")
    /\ co' = co \cup {cur} /\ cur' = NoBuffer /\ buf_full' = TRUE
    /\ UNCHANGED <<sessionVars, jobs, bufferVars, flushVars, frame, joining, depth,
                   buf_mtx, calls, completed, crashed>>

\* Record returns; buf_mtx_ stays with a FlushAll that had taken it before.
Return(a) ==
    /\ pc' = [pc EXCEPT ![a] = frame[a].back]
    /\ frame' = [frame EXCEPT ![a] = NoFrame]
    /\ buf_mtx' = IF frame[a].back = "unlock" THEN a ELSE Nobody

\* TryInitActivityBuffer, where the request callback returns a buffer: each
\* ActivityBuffer::Init that ends adds its overhead record to that buffer.
RequestAnswered(a) ==
    /\ registered /\ made < MaxBuffers
    /\ Goto(a, "request", "write")
    /\ made' = made + 1 /\ cur' = made + 1 /\ depth' = 0
    /\ content' = [content EXCEPT ![made + 1] =
                     [size |-> Capacity, recs |-> {},
                      valid |-> Fitting(depth + IF "overhead" \in switch THEN 1 ELSE 0)]]
    /\ UNCHANGED <<sessionVars, co, buf_full, jobs, flushVars, frame, joining,
                   buf_mtx, calls, completed, crashed>>

\* It returns NULL, or no callback is set: Record fails.  Inside a nested call
\* the outer TryInitActivityBuffer goes on with cur_buf_ reset.
RequestFailed(a) ==
    /\ At(a, "request")
    /\ ~registered \/ (Nulls /\ "overhead" \notin switch)
    /\ crashed' = (depth > 0)
    /\ depth' = 0
    /\ Return(a)
    /\ UNCHANGED <<sessionVars, queueVars, bufferVars, flushVars, joining, calls,
                   completed>>

\* It returns NULL and the OVERHEAD kind is on: the nested Record finds the
\* empty buffer full (0 >= 0.8 * 0), hands it over and asks for another.
\* Mutant of RequestNested: the empty buffer is dropped instead of handed over.
RequestNested_Drops(a) ==
    /\ At(a, "request") /\ registered /\ Nulls /\ "overhead" \in switch
    /\ made < MaxBuffers
    /\ made' = made + 1
    /\ content' = [content EXCEPT ![made + 1] = Empty(0)]
    /\ depth' = depth + 1
    /\ crashed' = (depth + 1 = StackDepth)
    /\ UNCHANGED <<sessionVars, queueVars, flushVars, pc, frame, joining, buf_mtx,
                   calls, completed>>

RequestNested(a) ==
    /\ At(a, "request") /\ registered /\ Nulls /\ "overhead" \in switch
    /\ made < MaxBuffers
    /\ made' = made + 1
    /\ content' = [content EXCEPT ![made + 1] = Empty(0)]
    /\ co' = co \cup {made + 1} /\ buf_full' = TRUE
    /\ depth' = depth + 1
    /\ crashed' = (depth + 1 = StackDepth)
    /\ UNCHANGED <<sessionVars, cur, jobs, flushVars, pc, frame, joining, buf_mtx,
                   calls, completed>>

\* ActivityBuffer::Record drops the record when it does not fit.
\* Mutant of Fits: the size of the record is not compared with the room left.
Fits_AnyRoom(a) == content[cur].valid < content[cur].size
Fits(a) == frame[a].size <= content[cur].size - content[cur].valid

Write(a) ==
    /\ At(a, "write")
    /\ content' = IF ~Fits(a) THEN content ELSE
         [content EXCEPT
            ![cur].valid = @ + frame[a].size,
            ![cur].recs = IF frame[a].rec = 0 THEN @ ELSE @ \cup {frame[a].rec}]
    /\ Return(a)
    /\ UNCHANGED <<sessionVars, queueVars, made, flushVars, joining, depth, calls,
                   completed, crashed>>
----------------------------------------------------------------------------
\* ActivityBuffer::UnInit of b by actor a, which goes on at next.
Complete(a, b, next) ==
    /\ completed' = completed \cup {b}
    /\ IF "overhead" \in switch
       THEN /\ pc' = [pc EXCEPT ![a] = "lock"]
            /\ frame' = [frame EXCEPT ![a] = [rec |-> 0, size |-> 1, back |-> next]]
       ELSE /\ pc' = [pc EXCEPT ![a] = next]
            /\ UNCHANGED frame

(* ActivityManager::FlushAll *)

TakeQueue(c) ==
    /\ Goto(c, "off", "complete")
    /\ held' = [held EXCEPT ![c] = co] /\ co' = {}
    /\ owed' = [owed EXCEPT ![c] = Written]
    /\ UNCHANGED <<sessionVars, cur, buf_full, jobs, bufferVars, frame, joining, depth,
                   buf_mtx, calls, completed, crashed>>

CompleteQueued(c) ==
    /\ At(c, "complete")
    /\ \E b \in held[c] :
         /\ \A d \in held[c] : b <= d
         /\ Complete(c, b, "complete")
         /\ held' = [held EXCEPT ![c] = @ \ {b}]
    /\ UNCHANGED <<sessionVars, queueVars, bufferVars, owed, joining, depth, buf_mtx,
                   calls, crashed>>

TakeWorkers(c) ==
    /\ held[c] = {}
    /\ Goto(c, "complete", "join")
    /\ joining' = [joining EXCEPT ![c] = jobs] /\ jobs' = {}
    /\ UNCHANGED <<sessionVars, cur, co, buf_full, bufferVars, flushVars, frame, depth,
                   buf_mtx, calls, completed, crashed>>

\* Mutant of JoinWorkThreads: the work threads are detached, not joined.
JoinWorkThreads_Detached(c) ==
    /\ Goto(c, "join", "take")
    /\ joining' = [joining EXCEPT ![c] = {}]
    /\ UNCHANGED <<sessionVars, queueVars, bufferVars, flushVars, frame, depth, buf_mtx,
                   calls, completed, crashed>>

JoinWorkThreads(c) ==
    /\ Ended(joining[c])
    /\ Goto(c, "join", "take")
    /\ joining' = [joining EXCEPT ![c] = {}]
    /\ UNCHANGED <<sessionVars, queueVars, bufferVars, flushVars, frame, depth, buf_mtx,
                   calls, completed, crashed>>

\* Mutant of TakeCurrent: cur_buf_ is completed without being moved away.
TakeCurrent_Keeps(c) ==
    /\ buf_mtx = Nobody
    /\ IF cur = NoBuffer
       THEN /\ Goto(c, "take", "off")
            /\ UNCHANGED <<held, buf_mtx>>
       ELSE /\ Goto(c, "take", "last")
            /\ held' = [held EXCEPT ![c] = {cur}]
            /\ buf_mtx' = c
    /\ UNCHANGED <<sessionVars, queueVars, bufferVars, owed, frame, joining, depth,
                   calls, completed, crashed>>

\* Mutant of TakeCurrent: returning without a buffer leaves buf_mtx_ locked.
TakeCurrent_Leaks(c) ==
    /\ buf_mtx = Nobody
    /\ buf_mtx' = c
    /\ IF cur = NoBuffer
       THEN /\ Goto(c, "take", "off")
            /\ UNCHANGED <<held, cur>>
       ELSE /\ Goto(c, "take", "last")
            /\ held' = [held EXCEPT ![c] = {cur}]
            /\ cur' = NoBuffer
    /\ UNCHANGED <<sessionVars, co, buf_full, jobs, bufferVars, owed, frame, joining,
                   depth, calls, completed, crashed>>

TakeCurrent(c) ==
    /\ buf_mtx = Nobody
    /\ IF cur = NoBuffer
       THEN /\ Goto(c, "take", "off")
            /\ UNCHANGED <<held, cur, buf_mtx>>
       ELSE /\ Goto(c, "take", "last")
            /\ held' = [held EXCEPT ![c] = {cur}]
            /\ cur' = NoBuffer /\ buf_mtx' = c
    /\ UNCHANGED <<sessionVars, co, buf_full, jobs, bufferVars, owed, frame, joining,
                   depth, calls, completed, crashed>>

CompleteLast(c) ==
    /\ At(c, "last")
    /\ \E b \in held[c] : Complete(c, b, "unlock")
    /\ held' = [held EXCEPT ![c] = {}]
    /\ UNCHANGED <<sessionVars, queueVars, bufferVars, owed, joining, depth, buf_mtx,
                   calls, crashed>>

UnlockBuffer(c) ==
    /\ Goto(c, "unlock", "off")
    /\ buf_mtx' = Nobody
    /\ UNCHANGED <<sessionVars, queueVars, bufferVars, flushVars, frame, joining, depth,
                   calls, completed, crashed>>

FlushAll(c) == \/ TakeQueue(c) \/ CompleteQueued(c) \/ TakeWorkers(c)
               \/ JoinWorkThreads(c) \/ TakeCurrent(c) \/ CompleteLast(c)
               \/ UnlockBuffer(c)
----------------------------------------------------------------------------
(* The session. *)

\* Register and UnRegister, as far as Record sees them.
Register(c, k) ==
    /\ At(c, "off")
    /\ switch' = switch \cup {k}
    /\ UNCHANGED <<registered, thread_run, mgr_thread, subscriber, queueVars, bufferVars,
                   flushVars, controlVars, calls, completed, crashed>>

UnRegister(c, k) ==
    /\ At(c, "off")
    /\ switch' = switch \ {k}
    /\ UNCHANGED <<registered, thread_run, mgr_thread, subscriber, queueVars, bufferVars,
                   flushVars, controlVars, calls, completed, crashed>>

\* RegisterCallbacks with StartActivityMgrThread.  A thread object that is
\* still being joined is not free for a new thread.
RegisterCallbacks(c) ==
    /\ At(c, "off")
    /\ registered' = TRUE /\ thread_run' = TRUE
    /\ IF thread_run \/ mgr_thread # Nobody
       THEN UNCHANGED <<mgr_thread, pc>>
       ELSE \E m \in Managers :
              /\ \A t \in Clients : m \notin joining[t]
              /\ Goto(m, "off", "run")
              /\ mgr_thread' = m
    /\ UNCHANGED <<switch, subscriber, queueVars, bufferVars, flushVars, frame, joining,
                   depth, buf_mtx, calls, completed, crashed>>

\* Mutant of StopActivityMgrThread: thread_run_ is not cleared.
StopActivityMgrThread_Runs(c) ==
    /\ subscriber = Nobody /\ (thread_run \/ mgr_thread # Nobody)
    /\ Goto(c, "off", "joinManager")
    /\ mgr_thread' = Nobody /\ subscriber' = c
    /\ joining' = [joining EXCEPT ![c] = {mgr_thread} \ {Nobody}]
    /\ UNCHANGED <<switch, registered, thread_run, queueVars, bufferVars, flushVars,
                   frame, depth, buf_mtx, calls, completed, crashed>>

\* Mutant of StopActivityMgrThread: the manager thread is detached, not joined.
StopActivityMgrThread_Detaches(c) ==
    /\ subscriber = Nobody /\ (thread_run \/ mgr_thread # Nobody)
    /\ Goto(c, "off", "joinManager")
    /\ thread_run' = FALSE /\ mgr_thread' = Nobody /\ subscriber' = c
    /\ UNCHANGED <<switch, registered, queueVars, bufferVars, flushVars, frame, joining,
                   depth, buf_mtx, calls, completed, crashed>>

\* StopActivityMgrThread; it returns at once when no manager thread runs.
StopActivityMgrThread(c) ==
    /\ subscriber = Nobody /\ (thread_run \/ mgr_thread # Nobody)
    /\ Goto(c, "off", "joinManager")
    /\ thread_run' = FALSE /\ mgr_thread' = Nobody /\ subscriber' = c
    /\ joining' = [joining EXCEPT ![c] = {mgr_thread} \ {Nobody}]
    /\ UNCHANGED <<switch, registered, queueVars, bufferVars, flushVars, frame, depth,
                   buf_mtx, calls, completed, crashed>>

JoinManager(c) ==
    /\ Ended(joining[c])
    /\ Goto(c, "joinManager", "joinRest")
    /\ joining' = [joining EXCEPT ![c] = jobs] /\ jobs' = {}
    /\ UNCHANGED <<sessionVars, cur, co, buf_full, bufferVars, flushVars, frame, depth,
                   buf_mtx, calls, completed, crashed>>

ResetActivitySwitch(c) ==
    /\ Ended(joining[c])
    /\ Goto(c, "joinRest", "off")
    /\ joining' = [joining EXCEPT ![c] = {}]
    /\ switch' = {} /\ subscriber' = Nobody
    /\ UNCHANGED <<registered, thread_run, mgr_thread, queueVars, bufferVars, flushVars,
                   frame, depth, buf_mtx, calls, completed, crashed>>
----------------------------------------------------------------------------
(* ActivityManager::Run.  wait_for also ends by its timeout, so the thread *)
(* may do a round at any time; the work threads it reaps have ended.       *)

\* Mutant of Serve: co_activity_buffers_.clear() is left out.
Serve_Keeps(m) ==
    /\ At(m, "run") /\ thread_run
    /\ pc' = [a \in DOMAIN pc |-> IF a \in co THEN "working" ELSE pc[a]]
    /\ jobs' = {b \in jobs : pc[b] # "off"} \cup co
    /\ buf_full' = FALSE
    /\ UNCHANGED <<sessionVars, co, cur, bufferVars, flushVars, frame, joining, depth,
                   buf_mtx, calls, completed, crashed>>

\* Mutant of Serve: a single buffer waits for a second one.
Serve_Batches(m) ==
    /\ At(m, "run") /\ thread_run /\ Cardinality(co) > 1
    /\ pc' = [a \in DOMAIN pc |-> IF a \in co THEN "working" ELSE pc[a]]
    /\ jobs' = {b \in jobs : pc[b] # "off"} \cup co
    /\ co' = {} /\ buf_full' = FALSE
    /\ UNCHANGED <<sessionVars, cur, bufferVars, flushVars, frame, joining, depth,
                   buf_mtx, calls, completed, crashed>>

Serve(m) ==
    /\ At(m, "run") /\ thread_run
    /\ pc' = [a \in DOMAIN pc |-> IF a \in co THEN "working" ELSE pc[a]]
    /\ jobs' = {b \in jobs : pc[b] # "off"} \cup co
    /\ co' = {} /\ buf_full' = FALSE
    /\ UNCHANGED <<sessionVars, cur, bufferVars, flushVars, frame, joining, depth,
                   buf_mtx, calls, completed, crashed>>

Leave(m) ==
    /\ ~thread_run
    /\ Goto(m, "run", "leave")
    /\ UNCHANGED <<sessionVars, queueVars, bufferVars, flushVars, frame, joining, depth,
                   buf_mtx, calls, completed, crashed>>

TakePending(m) ==
    /\ Goto(m, "leave", "joinPending")
    /\ joining' = [joining EXCEPT ![m] = jobs] /\ jobs' = {}
    /\ UNCHANGED <<sessionVars, cur, co, buf_full, bufferVars, flushVars, frame, depth,
                   buf_mtx, calls, completed, crashed>>

EndRun(m) ==
    /\ Ended(joining[m])
    /\ Goto(m, "joinPending", "off")
    /\ joining' = [joining EXCEPT ![m] = {}]
    /\ UNCHANGED <<sessionVars, queueVars, bufferVars, flushVars, frame, depth, buf_mtx,
                   calls, completed, crashed>>

Run(m) == Serve(m) \/ Leave(m) \/ TakePending(m) \/ EndRun(m)

\* A work thread sets its done flag as the last thing it does.
Work(b) ==
    /\ At(b, "working")
    /\ Complete(b, b, "off")
    /\ UNCHANGED <<sessionVars, queueVars, bufferVars, flushVars, joining, depth, buf_mtx,
                   calls, crashed>>
----------------------------------------------------------------------------
Record(a) == \/ LockBuffer(a) \/ HandOver(a) \/ RequestAnswered(a)
             \/ RequestFailed(a) \/ RequestNested(a) \/ Write(a)
Session(c) == \/ \E k \in Kinds : Register(c, k) \/ UnRegister(c, k)
              \/ RegisterCallbacks(c) \/ StopActivityMgrThread(c)
              \/ JoinManager(c) \/ ResetActivitySwitch(c)

Next ==
    \/ \E t \in Recorders : RecordCall(t)
    \/ \E a \in Actors : Record(a)
    \/ \E c \in Clients : FlushAll(c) \/ Session(c)
    \/ \E m \in Managers : Run(m)
    \/ \E b \in Buffers : Work(b)

Spec == Init /\ [][Next]_vars

\* Threads inside the code run on, joins and locks end when they can, and the
\* timeout of wait_for wakes the manager; no call is ever promised.
Fairness ==
    /\ \A a \in Actors : WF_vars(Record(a))
    /\ \A c \in Clients :
         /\ WF_vars(FlushAll(c) /\ pc[c] # "off")
         /\ WF_vars(JoinManager(c) \/ ResetActivitySwitch(c))
    /\ \A m \in Managers : WF_vars(Run(m))
    /\ \A b \in Buffers : WF_vars(Work(b))

FairSpec == Spec /\ Fairness
----------------------------------------------------------------------------
(* Properties *)

RecordPcs == {"lock", "handover", "request", "write"}
ClientPcs == {"complete", "join", "take", "last", "unlock", "joinManager", "joinRest"}
Pcs == {"off", "working", "run", "leave", "joinPending"} \cup RecordPcs \cup ClientPcs

SessionOK ==
    /\ switch \subseteq Kinds /\ registered \in BOOLEAN /\ thread_run \in BOOLEAN
    /\ mgr_thread \in Managers \cup {Nobody} /\ subscriber \in Clients \cup {Nobody}
QueueOK ==
    /\ cur \in Buffers \cup {NoBuffer} /\ buf_full \in BOOLEAN
    /\ co \subseteq Buffers /\ jobs \subseteq Buffers /\ completed \subseteq Buffers
    /\ made \in 0 .. MaxBuffers
ContentOK ==
    /\ content \in [Buffers -> [size : {0, Capacity}, valid : 0 .. Capacity,
                                recs : SUBSET (1 .. MaxCalls)]]
    /\ \A b \in Buffers : content[b].valid <= content[b].size
FlushOK ==
    /\ held \in [Clients -> SUBSET Buffers]
    /\ owed \in [Clients -> SUBSET (1 .. MaxCalls)]
FrameOK ==
    frame \in [Actors -> [rec : 0 .. MaxCalls, size : Sizes \cup {0, 1},
                         back : {"off", "complete", "unlock"}]]
ControlOK ==
    /\ pc \in [Actors -> Pcs] /\ buf_mtx \in Actors \cup {Nobody}
    /\ joining \in [Clients \cup Managers -> SUBSET (Buffers \cup Managers)]
    /\ depth \in 0 .. StackDepth /\ calls \in 0 .. MaxCalls /\ crashed \in BOOLEAN

\* Types; a buffer is never filled beyond its size, whatever the sizes of the
\* records (the subtraction in ActivityBuffer::Record is unsigned).
TypeOK == SessionOK /\ QueueOK /\ ContentOK /\ FlushOK /\ FrameOK /\ ControlOK

\* Where a buffer can be: cur_buf_, the queue, a work thread, a FlushAll, or
\* back with the client.
Homes == {"current", "queue", "worker", "client"} \cup Clients
In(home) ==
    CASE home = "current" -> {cur} \ {NoBuffer}
      [] home = "queue"   -> co
      [] home = "worker"  -> {b \in Buffers : pc[b] = "working"}
      [] home = "client"  -> completed
      [] OTHER            -> held[home]

\* Every buffer the client provided is in exactly one place, so that it comes
\* back once and is never lost, however Record, FlushAll, the manager thread
\* and the work threads interleave.
OneOwner ==
    /\ UNION {In(h) : h \in Homes} = 1 .. made
    /\ \A g, h \in Homes : g # h => In(g) \cap In(h) = {}

\* No lost wake-up: while a full buffer waits, the manager's predicate holds,
\* so it does not sleep through its period.
QueueSignalled == co # {} => buf_full

\* When FlushAll returns, the client has every record written before the call
\* (mspti_activity.h:955).  True of a program that uses one thread.
FlushDelivers == \A c \in Clients : pc[c] = "off" => owed[c] \subseteq Delivered

\* Once StopActivityMgrThread has returned, no thread of the session is left
\* to call the client's completion callback.
StoppedIsQuiet ==
    ~thread_run /\ (\A c \in Clients : pc[c] = "off") => Ended(Managers \cup Buffers)

\* The buffers implement module Delivery: what the client has been given is
\* final, since a buffer handed over is not written again, and nothing that was
\* accepted gets lost.
RecordsDelivered == INSTANCE Delivery WITH
    Records <- 1 .. MaxCalls, accepted <- Written, delivered <- Delivered
Implements == RecordsDelivered!Spec

\* The manager thread completes what Record queues, unless the session stops.
QueueServed == \A b \in Buffers :
    b \in co /\ thread_run ~> b \in completed \/ ~thread_run

\* FlushAll and StopActivityMgrThread return: no join or lock waits forever.
FlushReturns == \A c \in Clients : pc[c] = "complete" ~> pc[c] = "off"
StopReturns  == \A c \in Clients : pc[c] = "joinManager" ~> pc[c] = "off"

\* A request callback that returns NULL costs records, never the process.
NullDiscards == ~crashed

(* A buffer that is full is taken up although nobody flushes, and a flush    *)
(* returns although work threads record.                                     *)
BuffersServed == QueueServed /\ FlushReturns
=============================================================================
