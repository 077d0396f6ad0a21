----------------------- MODULE ActivityManager_proofs -----------------------
(***************************************************************************)
(* What TLAPS proves of ActivityManager, for all sets of threads, buffer   *)
(* and record sizes, and whatever the bounds: types, that every buffer has *)
(* exactly one owner, that a queued buffer is signalled, and that the      *)
(* buffers implement module Delivery.                                      *)
(***************************************************************************)
EXTENDS ActivityManager, TLAPS

(***************************************************************************)
(* The inductive invariant.                                                *)
(***************************************************************************)

\* OneOwner, buffer by buffer.
Owned(b) ==
    /\ b <= made <=> \/ b = cur \/ b \in co \/ pc[b] = "working" \/ b \in completed
                     \/ \E c \in Clients : b \in held[c]
    /\ b = cur => b \notin co /\ b \notin completed /\ pc[b] # "working"
    /\ b \in co => b \notin completed /\ pc[b] # "working"
    /\ b \in completed => pc[b] # "working"
    /\ \A c \in Clients : b \in held[c] =>
         b # cur /\ b \notin co /\ b \notin completed /\ pc[b] # "working"
    /\ \A c, d \in Clients : b \in held[c] /\ b \in held[d] => c = d

Ownership == \A b \in Buffers : Owned(b)

\* What is done under buf_mtx_ is done by its holder.
Locked == \A a \in Actors :
    (\/ pc[a] \in {"handover", "request", "write", "last", "unlock"}
     \/ pc[a] = "lock" /\ frame[a].back = "unlock") => buf_mtx = a

\* The current buffer between the steps of Record.
CurrentOK == \A a \in Actors :
    /\ pc[a] \in {"handover", "write"} => cur # NoBuffer
    /\ pc[a] = "request" => cur = NoBuffer

\* FlushAll holds buffers only while it completes them, and cur_buf_ alone.
HeldOK == \A c \in Clients :
    /\ pc[c] = "last" => \E b \in Buffers : held[c] = {b}
    /\ held[c] # {} => \/ pc[c] \in {"complete", "last"}
                       \/ pc[c] \in RecordPcs /\ frame[c].back = "complete"

DepthOK == ~crashed => depth < StackDepth

\* A buffer that is not made yet holds no records.
FreshEmpty == \A b \in Buffers : b > made => content[b].recs = {}

\* Every thread that runs has someone who will join it: a manager thread is in
\* activity_mgr_thread_ or being joined by the call that stops it; a work
\* thread is in work_thread_ or being joined; and without a session and a call
\* that is stopping one, no work thread is left in work_thread_.
ManagerJoined == \A m \in Managers : pc[m] # "off" =>
    \/ m = mgr_thread
    \/ \E c \in Clients : pc[c] = "joinManager" /\ m \in joining[c]
WorkersJoined == \A b \in Buffers : pc[b] # "off" =>
    \/ b \in jobs
    \/ \E c \in Clients : pc[c] \in {"join", "joinRest"} /\ b \in joining[c]
    \/ \E m \in Managers : pc[m] = "joinPending" /\ b \in joining[m]
NoJobsLeft ==
    \/ thread_run
    \/ \E c \in Clients : pc[c] = "joinManager"
    \/ \A b \in jobs : pc[b] = "off"
Joined ==
    /\ thread_run <=> mgr_thread # Nobody
    /\ ManagerJoined /\ WorkersJoined /\ NoJobsLeft

IInv ==
    /\ TypeOK /\ Ownership /\ Locked /\ CurrentOK /\ HeldOK
    /\ QueueSignalled /\ DepthOK /\ FreshEmpty /\ Joined

(***************************************************************************)
(* The control helpers keep the types.                                     *)
(***************************************************************************)
LEMMA ActorFacts ==
    /\ Clients \subseteq Actors /\ Recorders \subseteq Actors /\ Managers \subseteq Actors
    /\ Buffers \subseteq Actors /\ Nobody \notin Actors /\ NoBuffer \notin Buffers
    /\ Clients \cap Buffers = {} /\ Managers \cap Buffers = {} /\ Recorders \cap Buffers = {}
    /\ Managers \cap Clients = {} /\ Managers \cap Recorders = {}
BY ActorAssumption, BoundAssumption DEF Actors, Threads, Buffers, NoBuffer

LEMMA GotoType ==
    ASSUME pc \in [Actors -> Pcs], NEW a \in Actors, NEW from, NEW to \in Pcs,
           Goto(a, from, to)
    PROVE  /\ pc' \in [Actors -> Pcs] /\ pc[a] = from /\ pc'[a] = to /\ ~crashed
           /\ \A x \in Actors \ {a} : pc'[x] = pc[x]
BY DEF Goto, At

LEMMA ReturnType ==
    ASSUME ControlOK, FrameOK, NEW a \in Actors, Return(a)
    PROVE  /\ pc' \in [Actors -> Pcs] /\ FrameOK' /\ buf_mtx' \in Actors \cup {Nobody}
           /\ pc'[a] = frame[a].back /\ pc'[a] \in {"off", "complete", "unlock"}
           /\ frame'[a] = NoFrame
           /\ \A x \in Actors \ {a} : pc'[x] = pc[x] /\ frame'[x] = frame[x]
<1>1. /\ frame[a].back \in {"off", "complete", "unlock"}
      /\ frame[a].back \in Pcs
  BY DEF FrameOK, Pcs, ClientPcs
<1>2. NoFrame \in [rec : 0 .. MaxCalls, size : Sizes \cup {0, 1},
                   back : {"off", "complete", "unlock"}]
  BY BoundAssumption DEF NoFrame
<1>3. FrameOK'
  BY <1>2 DEF Return, FrameOK
<1> QED BY <1>1, <1>3 DEF Return, ControlOK, FrameOK

LEMMA CompleteType ==
    ASSUME ControlOK, FrameOK, QueueOK, NEW a \in Actors, NEW b \in Buffers,
           NEW next \in {"off", "complete", "unlock"}, Complete(a, b, next)
    PROVE  /\ pc' \in [Actors -> Pcs] /\ FrameOK' /\ completed' = completed \cup {b}
           /\ \/ pc'[a] = "lock" /\ frame'[a].back = next
              \/ pc'[a] = next /\ frame' = frame
           /\ \A x \in Actors \ {a} : pc'[x] = pc[x] /\ frame'[x] = frame[x]
<1>1. next \in Pcs /\ "lock" \in Pcs
  BY DEF Pcs, ClientPcs, RecordPcs
<1>2. [rec |-> 0, size |-> 1, back |-> next]
         \in [rec : 0 .. MaxCalls, size : Sizes \cup {0, 1},
              back : {"off", "complete", "unlock"}]
  BY BoundAssumption
<1>3. CASE "overhead" \in switch
  <2>1. /\ pc' = [pc EXCEPT ![a] = "lock"]
        /\ frame' = [frame EXCEPT ![a] = [rec |-> 0, size |-> 1, back |-> next]]
    BY <1>3 DEF Complete
  <2>2. FrameOK'
    BY <1>2, <2>1 DEF FrameOK
  <2>3. completed' = completed \cup {b}
    BY DEF Complete
  <2> QED BY <1>1, <2>1, <2>2, <2>3 DEF ControlOK, FrameOK
<1>4. CASE "overhead" \notin switch
  BY <1>1, <1>4 DEF Complete, ControlOK, FrameOK
<1> QED BY <1>3, <1>4

(***************************************************************************)
(* Types.                                                                  *)
(***************************************************************************)
LEMMA TypeInit == Init => TypeOK
<1> SUFFICES ASSUME Init PROVE TypeOK
  OBVIOUS
<1> USE BoundAssumption DEF Init
<1>1. SessionOK
  BY DEF SessionOK
<1>5. QueueOK
  <2>1. cur \in Buffers \cup {NoBuffer} /\ made \in 0 .. MaxBuffers
    OBVIOUS
  <2>2. co \subseteq Buffers /\ jobs \subseteq Buffers /\ completed \subseteq Buffers
    OBVIOUS
  <2>3. buf_full \in BOOLEAN
    OBVIOUS
  <2> QED BY <2>1, <2>2, <2>3 DEF QueueOK
<1>6. FlushOK
  BY DEF FlushOK
<1>2. ContentOK
  BY DEF ContentOK, Empty
<1>3. FrameOK
  BY DEF FrameOK, NoFrame
<1>4. ControlOK
  <2>1. joining \in [Clients \cup Managers -> SUBSET (Buffers \cup Managers)]
    BY Zenon
  <2>2. pc \in [Actors -> Pcs]
    BY DEF Pcs
  <2>3. depth \in 0 .. StackDepth /\ calls \in 0 .. MaxCalls
    OBVIOUS
  <2>4. buf_mtx \in Actors \cup {Nobody} /\ crashed \in BOOLEAN
    OBVIOUS
  <2> QED BY <2>1, <2>2, <2>3, <2>4 DEF ControlOK
<1> QED BY <1>1, <1>2, <1>3, <1>4, <1>5, <1>6 DEF TypeOK

LEMMA WrittenType == ContentOK => Written \subseteq 1 .. MaxCalls
BY DEF ContentOK, Written

LEMMA RecordTypes ==
    ASSUME TypeOK, CurrentOK, DepthOK, NEW a \in Actors, Record(a)
    PROVE  TypeOK'
<1> USE DEF TypeOK
<1>1. CASE LockBuffer(a)
  <2>1. ControlOK'
    BY <1>1, GotoType, ActorFacts, BoundAssumption
       DEF LockBuffer, ControlOK, QueueOK, Pcs, RecordPcs, ClientPcs, Goto, At
  <2> QED BY <1>1, <2>1 DEF LockBuffer,
         SessionOK, QueueOK, ContentOK, FlushOK, FrameOK, sessionVars, queueVars, bufferVars, flushVars
<1>2. CASE HandOver(a)
  <2>1. ControlOK'
    BY <1>2, GotoType, ActorFacts, BoundAssumption
       DEF HandOver, ControlOK, QueueOK, Pcs, RecordPcs, ClientPcs, Goto, At
  <2>2. QueueOK'
    BY <1>2 DEF HandOver, QueueOK, CurrentOK, bufferVars, queueVars, At, Goto
  <2> QED BY <1>2, <2>1, <2>2 DEF HandOver,
         SessionOK, ContentOK, FlushOK, FrameOK, sessionVars, queueVars, bufferVars, flushVars
<1>3. CASE RequestAnswered(a)
  <2>1. ControlOK'
    <3>1. pc' \in [Actors -> Pcs]
      BY <1>3, GotoType DEF RequestAnswered, ControlOK, Pcs, RecordPcs
    <3> QED BY <1>3, <3>1, BoundAssumption DEF RequestAnswered, ControlOK
  <2>2. QueueOK'
    BY <1>3, BoundAssumption DEF RequestAnswered, QueueOK, Buffers
  <2>3. ContentOK'
    <3>1. made + 1 \in Buffers
      BY <1>3, BoundAssumption DEF RequestAnswered, QueueOK, Buffers
    <3>2. Fitting(depth + IF "overhead" \in switch THEN 1 ELSE 0) \in 0 .. Capacity
      BY BoundAssumption DEF Fitting, ControlOK
    <3>3. content' = [content EXCEPT ![made + 1] = [size |-> Capacity, recs |-> {},
                 valid |-> Fitting(depth + IF "overhead" \in switch THEN 1 ELSE 0)]]
      BY <1>3 DEF RequestAnswered
    <3> DEFINE V == Fitting(depth + IF "overhead" \in switch THEN 1 ELSE 0)
    <3> HIDE DEF V
    <3>4. V \in 0 .. Capacity
      BY <3>2 DEF V
    <3>5. content' = [content EXCEPT ![made + 1] = [size |-> Capacity, recs |-> {}, valid |-> V]]
      BY <3>3 DEF V
    <3> QED BY <3>1, <3>4, <3>5, BoundAssumption DEF ContentOK
  <2> QED BY <1>3, <2>1, <2>2, <2>3 DEF RequestAnswered,
         SessionOK, FlushOK, FrameOK, sessionVars, queueVars, bufferVars, flushVars
<1>4. CASE RequestFailed(a)
  <2>1. ControlOK'
    <3>1. Return(a)
      BY <1>4 DEF RequestFailed
    <3>2. frame[a].back \in Pcs
      BY DEF FrameOK, Pcs, ClientPcs
    <3> QED BY <1>4, <3>1, <3>2, ReturnType, BoundAssumption DEF RequestFailed, ControlOK
  <2>2. FrameOK'
    BY <1>4, ReturnType DEF RequestFailed
  <2> QED BY <1>4, <2>1, <2>2 DEF RequestFailed,
         SessionOK, QueueOK, ContentOK, FlushOK, sessionVars, queueVars, bufferVars, flushVars
<1>5. CASE RequestNested(a)
  <2>1. ControlOK'
    BY <1>5, BoundAssumption DEF RequestNested, ControlOK, DepthOK, At
  <2>2. QueueOK'
    BY <1>5, BoundAssumption DEF RequestNested, QueueOK, Buffers
  <2>3. ContentOK'
    BY <1>5, BoundAssumption DEF RequestNested, ContentOK, QueueOK, Buffers, Empty
  <2>4. FrameOK'
    BY <1>5 DEF RequestNested, FrameOK
  <2> QED BY <1>5, <2>1, <2>2, <2>3, <2>4 DEF RequestNested,
         SessionOK, FlushOK, sessionVars, queueVars, bufferVars, flushVars
<1>6. CASE Write(a)
  <2>1. ControlOK'
    <3>1. Return(a)
      BY <1>6 DEF Write
    <3>2. frame[a].back \in Pcs
      BY DEF FrameOK, Pcs, ClientPcs
    <3> QED BY <1>6, <3>1, <3>2, ReturnType, BoundAssumption DEF Write, ControlOK
  <2>2. FrameOK'
    BY <1>6, ReturnType DEF Write
  <2>3. ContentOK'
    <3>1. cur \in Buffers
      BY <1>6 DEF Write, QueueOK, CurrentOK, At
    <3>2. CASE ~Fits(a)
      BY <1>6, <3>2 DEF Write, ContentOK
    <3>3. CASE Fits(a)
      <4>1. /\ frame[a].size \in Nat /\ frame[a].rec \in 0 .. MaxCalls
            /\ content[cur].size \in {0, Capacity} /\ content[cur].valid \in 0 .. Capacity
            /\ content[cur].recs \subseteq 1 .. MaxCalls
            /\ content[cur].valid <= content[cur].size
        <5>1. frame[a].size \in Sizes \cup {0, 1} /\ frame[a].rec \in 0 .. MaxCalls
          BY DEF FrameOK
        <5>2. \A n \in Sizes \cup {0, 1} : n \in Nat
          BY BoundAssumption
        <5> QED BY <3>1, <5>1, <5>2 DEF ContentOK
      <4>2. /\ content[cur].valid + frame[a].size <= content[cur].size
            /\ content[cur].valid + frame[a].size \in 0 .. Capacity
        BY <3>3, <4>1, BoundAssumption DEF Fits
      <4> DEFINE R == IF frame[a].rec = 0 THEN content[cur].recs
                      ELSE content[cur].recs \cup {frame[a].rec}
      <4>3. R \subseteq 1 .. MaxCalls
        BY <4>1
      <4>4. content' = [content EXCEPT ![cur] = [content[cur] EXCEPT
                !.valid = content[cur].valid + frame[a].size, !.recs = R]]
        BY <1>6, <3>1, <3>3 DEF Write, ContentOK
      <4> HIDE DEF R
      <4> QED BY <3>1, <4>1, <4>2, <4>3, <4>4 DEF ContentOK
    <3> QED BY <3>2, <3>3
  <2> QED BY <1>6, <2>1, <2>2, <2>3 DEF Write,
         SessionOK, QueueOK, FlushOK, sessionVars, queueVars, bufferVars, flushVars
<1> QED BY <1>1, <1>2, <1>3, <1>4, <1>5, <1>6 DEF Record

LEMMA FlushTypes ==
    ASSUME TypeOK, NEW c \in Clients, FlushAll(c)
    PROVE  TypeOK'
<1> USE DEF TypeOK
<1>1. CASE TakeQueue(c)
  <2>1. ControlOK'
    BY <1>1, GotoType, ActorFacts DEF TakeQueue, ControlOK, Pcs, RecordPcs, ClientPcs
  <2>2. QueueOK'
    BY <1>1 DEF TakeQueue, QueueOK, bufferVars
  <2>3. FlushOK'
    BY <1>1, WrittenType DEF TakeQueue, FlushOK, QueueOK
  <2> QED BY <1>1, <2>1, <2>2, <2>3 DEF TakeQueue,
         SessionOK, ContentOK, FrameOK, sessionVars, queueVars, bufferVars, flushVars
<1>2. CASE CompleteQueued(c)
  <2>1. ControlOK'
    <3>1. PICK b \in held[c] : Complete(c, b, "complete")
      BY <1>2 DEF CompleteQueued
    <3>2. b \in Buffers
      BY DEF FlushOK
    <3> QED BY <1>2, <3>1, <3>2, CompleteType, ActorFacts DEF CompleteQueued, ControlOK
  <2>2. FrameOK'
    <3>1. PICK b \in held[c] : Complete(c, b, "complete")
      BY <1>2 DEF CompleteQueued
    <3>2. b \in Buffers
      BY DEF FlushOK
    <3> QED BY <3>1, <3>2, CompleteType, ActorFacts
  <2>3. QueueOK'
    <3>1. PICK b \in held[c] : Complete(c, b, "complete")
      BY <1>2 DEF CompleteQueued
    <3>2. b \in Buffers
      BY DEF FlushOK
    <3>3. completed' \subseteq Buffers
      BY <3>1, <3>2 DEF Complete, QueueOK
    <3> QED BY <1>2, <3>3 DEF CompleteQueued, QueueOK, queueVars, bufferVars
  <2>4. FlushOK'
    BY <1>2 DEF CompleteQueued, FlushOK
  <2> QED BY <1>2, <2>1, <2>2, <2>3, <2>4 DEF CompleteQueued,
         SessionOK, ContentOK, sessionVars, queueVars, bufferVars, flushVars
<1>3. CASE TakeWorkers(c)
  <2>1. ControlOK'
    <3>1. pc' \in [Actors -> Pcs]
      BY <1>3, GotoType, ActorFacts DEF TakeWorkers, ControlOK, Pcs, RecordPcs, ClientPcs
    <3>2. joining' \in [Clients \cup Managers -> SUBSET (Buffers \cup Managers)]
      BY <1>3 DEF TakeWorkers, ControlOK, QueueOK
    <3> QED BY <1>3, <3>1, <3>2 DEF TakeWorkers, ControlOK
  <2>2. QueueOK'
    BY <1>3 DEF TakeWorkers, QueueOK, bufferVars
  <2> QED BY <1>3, <2>1, <2>2 DEF TakeWorkers,
         SessionOK, ContentOK, FlushOK, FrameOK, sessionVars, queueVars, bufferVars, flushVars
<1>4. CASE JoinWorkThreads(c)
  <2>1. ControlOK'
    <3>1. pc' \in [Actors -> Pcs]
      BY <1>4, GotoType, ActorFacts DEF JoinWorkThreads, ControlOK, Pcs, RecordPcs, ClientPcs
    <3>2. joining' \in [Clients \cup Managers -> SUBSET (Buffers \cup Managers)]
      BY <1>4 DEF JoinWorkThreads, ControlOK
    <3> QED BY <1>4, <3>1, <3>2 DEF JoinWorkThreads, ControlOK
  <2> QED BY <1>4, <2>1 DEF JoinWorkThreads,
         SessionOK, QueueOK, ContentOK, FlushOK, FrameOK, sessionVars, queueVars, bufferVars, flushVars
<1>5. CASE TakeCurrent(c)
  <2>1. ControlOK'
    <3>1. pc' \in [Actors -> Pcs]
      BY <1>5, GotoType, ActorFacts DEF TakeCurrent, ControlOK, Pcs, ClientPcs
    <3> QED BY <1>5, <3>1, ActorFacts DEF TakeCurrent, ControlOK
  <2>2. QueueOK'
    BY <1>5 DEF TakeCurrent, QueueOK, bufferVars
  <2>3. FlushOK'
    BY <1>5 DEF TakeCurrent, FlushOK, QueueOK
  <2> QED BY <1>5, <2>1, <2>2, <2>3 DEF TakeCurrent,
         SessionOK, ContentOK, FrameOK, sessionVars, queueVars, bufferVars, flushVars
<1>6. CASE CompleteLast(c)
  <2>1. ControlOK'
    <3>1. PICK b \in held[c] : Complete(c, b, "unlock")
      BY <1>6 DEF CompleteLast
    <3>2. b \in Buffers
      BY DEF FlushOK
    <3> QED BY <1>6, <3>1, <3>2, CompleteType, ActorFacts DEF CompleteLast, ControlOK
  <2>2. FrameOK'
    <3>1. PICK b \in held[c] : Complete(c, b, "unlock")
      BY <1>6 DEF CompleteLast
    <3>2. b \in Buffers
      BY DEF FlushOK
    <3> QED BY <3>1, <3>2, CompleteType, ActorFacts
  <2>3. QueueOK'
    <3>1. PICK b \in held[c] : Complete(c, b, "unlock")
      BY <1>6 DEF CompleteLast
    <3>2. b \in Buffers
      BY DEF FlushOK
    <3>3. completed' \subseteq Buffers
      BY <3>1, <3>2 DEF Complete, QueueOK
    <3> QED BY <1>6, <3>3 DEF CompleteLast, QueueOK, queueVars, bufferVars
  <2>4. FlushOK'
    BY <1>6 DEF CompleteLast, FlushOK
  <2> QED BY <1>6, <2>1, <2>2, <2>3, <2>4 DEF CompleteLast,
         SessionOK, ContentOK, sessionVars, queueVars, bufferVars, flushVars
<1>7. CASE UnlockBuffer(c)
  <2>1. ControlOK'
    BY <1>7, GotoType, ActorFacts DEF UnlockBuffer, ControlOK, Pcs, RecordPcs, ClientPcs
  <2> QED BY <1>7, <2>1 DEF UnlockBuffer,
         SessionOK, QueueOK, ContentOK, FlushOK, FrameOK, sessionVars, queueVars, bufferVars, flushVars
<1> QED BY <1>1, <1>2, <1>3, <1>4, <1>5, <1>6, <1>7 DEF FlushAll

LEMMA SessionTypes ==
    ASSUME TypeOK, NEW c \in Clients, Session(c)
    PROVE  TypeOK'
<1> USE DEF TypeOK
<1>1. ASSUME NEW k \in Kinds, Register(c, k) \/ UnRegister(c, k)
      PROVE  TypeOK'
  <2>1. SessionOK'
    BY <1>1 DEF Register, UnRegister, SessionOK
  <2> QED BY <1>1, <2>1 DEF Register, UnRegister, QueueOK, ContentOK, FlushOK, FrameOK, ControlOK,
             queueVars, bufferVars, flushVars, controlVars
<1>2. CASE RegisterCallbacks(c)
  <2>1. SessionOK'
    BY <1>2 DEF RegisterCallbacks, SessionOK
  <2>2. ControlOK'
    <3>1. pc' \in [Actors -> Pcs]
      BY <1>2, GotoType, ActorFacts DEF RegisterCallbacks, ControlOK, Pcs
    <3> QED BY <1>2, <3>1 DEF RegisterCallbacks, ControlOK
  <2> QED BY <1>2, <2>1, <2>2 DEF RegisterCallbacks,
         QueueOK, ContentOK, FlushOK, FrameOK, sessionVars, queueVars, bufferVars, flushVars
<1>3. CASE StopActivityMgrThread(c)
  <2>1. SessionOK'
    BY <1>3 DEF StopActivityMgrThread, SessionOK
  <2>2. ControlOK'
    <3>1. pc' \in [Actors -> Pcs]
      BY <1>3, GotoType, ActorFacts DEF StopActivityMgrThread, ControlOK, Pcs, RecordPcs, ClientPcs
    <3>2. joining' \in [Clients \cup Managers -> SUBSET (Buffers \cup Managers)]
      BY <1>3 DEF StopActivityMgrThread, ControlOK, SessionOK
    <3> QED BY <1>3, <3>1, <3>2 DEF StopActivityMgrThread, ControlOK
  <2> QED BY <1>3, <2>1, <2>2 DEF StopActivityMgrThread,
         QueueOK, ContentOK, FlushOK, FrameOK, sessionVars, queueVars, bufferVars, flushVars
<1>4. CASE JoinManager(c)
  <2>1. ControlOK'
    <3>1. pc' \in [Actors -> Pcs]
      BY <1>4, GotoType, ActorFacts DEF JoinManager, ControlOK, Pcs, RecordPcs, ClientPcs
    <3>2. joining' \in [Clients \cup Managers -> SUBSET (Buffers \cup Managers)]
      BY <1>4 DEF JoinManager, ControlOK, QueueOK
    <3> QED BY <1>4, <3>1, <3>2 DEF JoinManager, ControlOK
  <2>2. QueueOK'
    BY <1>4 DEF JoinManager, QueueOK, bufferVars
  <2> QED BY <1>4, <2>1, <2>2 DEF JoinManager,
         SessionOK, ContentOK, FlushOK, FrameOK, sessionVars, queueVars, bufferVars, flushVars
<1>5. CASE ResetActivitySwitch(c)
  <2>1. SessionOK'
    BY <1>5 DEF ResetActivitySwitch, SessionOK
  <2>2. ControlOK'
    <3>1. pc' \in [Actors -> Pcs]
      BY <1>5, GotoType, ActorFacts DEF ResetActivitySwitch, ControlOK, Pcs, RecordPcs, ClientPcs
    <3>2. joining' \in [Clients \cup Managers -> SUBSET (Buffers \cup Managers)]
      BY <1>5 DEF ResetActivitySwitch, ControlOK
    <3> QED BY <1>5, <3>1, <3>2 DEF ResetActivitySwitch, ControlOK
  <2> QED BY <1>5, <2>1, <2>2 DEF ResetActivitySwitch,
         QueueOK, ContentOK, FlushOK, FrameOK, sessionVars, queueVars, bufferVars, flushVars
<1> QED BY <1>1, <1>2, <1>3, <1>4, <1>5 DEF Session

LEMMA RunTypes ==
    ASSUME TypeOK, NEW m \in Managers, Run(m)
    PROVE  TypeOK'
<1> USE DEF TypeOK
<1>1. CASE Serve(m)
  <2>1. ControlOK'
    <3>1. pc' \in [Actors -> Pcs]
      BY <1>1 DEF Serve, ControlOK, Pcs
    <3> QED BY <1>1, <3>1 DEF Serve, ControlOK
  <2>2. QueueOK'
    <3>1. jobs' \subseteq Buffers
      BY <1>1 DEF Serve, QueueOK
    <3> QED BY <1>1, <3>1 DEF Serve, QueueOK, bufferVars
  <2> QED BY <1>1, <2>1, <2>2 DEF Serve,
         SessionOK, ContentOK, FlushOK, FrameOK, sessionVars, queueVars, bufferVars, flushVars
<1>2. CASE Leave(m)
  <2>1. ControlOK'
    BY <1>2, GotoType, ActorFacts DEF Leave, ControlOK, Pcs, RecordPcs, ClientPcs
  <2> QED BY <1>2, <2>1 DEF Leave,
         SessionOK, QueueOK, ContentOK, FlushOK, FrameOK, sessionVars, queueVars, bufferVars, flushVars
<1>3. CASE TakePending(m)
  <2>1. ControlOK'
    <3>1. pc' \in [Actors -> Pcs]
      BY <1>3, GotoType, ActorFacts DEF TakePending, ControlOK, Pcs, RecordPcs, ClientPcs
    <3>2. joining' \in [Clients \cup Managers -> SUBSET (Buffers \cup Managers)]
      BY <1>3 DEF TakePending, ControlOK, QueueOK
    <3> QED BY <1>3, <3>1, <3>2 DEF TakePending, ControlOK
  <2>2. QueueOK'
    BY <1>3 DEF TakePending, QueueOK, bufferVars
  <2> QED BY <1>3, <2>1, <2>2 DEF TakePending,
         SessionOK, ContentOK, FlushOK, FrameOK, sessionVars, queueVars, bufferVars, flushVars
<1>4. CASE EndRun(m)
  <2>1. ControlOK'
    <3>1. pc' \in [Actors -> Pcs]
      BY <1>4, GotoType, ActorFacts DEF EndRun, ControlOK, Pcs, RecordPcs, ClientPcs
    <3>2. joining' \in [Clients \cup Managers -> SUBSET (Buffers \cup Managers)]
      BY <1>4 DEF EndRun, ControlOK
    <3> QED BY <1>4, <3>1, <3>2 DEF EndRun, ControlOK
  <2> QED BY <1>4, <2>1 DEF EndRun,
         SessionOK, QueueOK, ContentOK, FlushOK, FrameOK, sessionVars, queueVars, bufferVars, flushVars
<1> QED BY <1>1, <1>2, <1>3, <1>4 DEF Run

LEMMA WorkTypes ==
    ASSUME TypeOK, NEW b \in Buffers, Work(b)
    PROVE  TypeOK'
<1> USE DEF TypeOK
<1>1. Complete(b, b, "off")
  BY DEF Work
<1>2. pc' \in [Actors -> Pcs] /\ FrameOK' /\ completed' = completed \cup {b}
  BY <1>1, CompleteType, ActorFacts
<1>3. ControlOK'
  BY <1>2 DEF Work, ControlOK
<1>4. QueueOK'
  BY <1>2 DEF Work, QueueOK, queueVars, bufferVars
<1> QED BY <1>2, <1>3, <1>4 DEF Work, SessionOK, ContentOK, FlushOK, sessionVars, bufferVars,
           flushVars

LEMMA CallTypes ==
    ASSUME TypeOK, NEW t \in Recorders, RecordCall(t)
    PROVE  TypeOK'
<1> USE DEF TypeOK
<1>1. PICK s \in Sizes :
        frame' = [frame EXCEPT ![t] = [rec |-> calls + 1, size |-> s, back |-> "off"]]
  BY DEF RecordCall
<1>2. calls + 1 \in 0 .. MaxCalls
  BY BoundAssumption DEF RecordCall, ControlOK
<1>3. FrameOK'
  BY <1>1, <1>2 DEF FrameOK
<1>4. ControlOK'
  <2>1. pc' \in [Actors -> Pcs]
    BY GotoType, ActorFacts DEF RecordCall, ControlOK, Pcs, RecordPcs
  <2> QED BY <1>2, <2>1 DEF RecordCall, ControlOK
<1> QED BY <1>3, <1>4 DEF RecordCall, SessionOK, QueueOK, ContentOK, FlushOK, sessionVars,
           queueVars, bufferVars, flushVars

LEMMA TypeNext ==
    ASSUME TypeOK, CurrentOK, DepthOK, [Next]_vars
    PROVE  TypeOK'
<1>1. CASE UNCHANGED vars
  BY <1>1 DEF vars, TypeOK, SessionOK, QueueOK, ContentOK, FlushOK, FrameOK, ControlOK, sessionVars,
     queueVars, bufferVars, flushVars, controlVars
<1> QED BY <1>1, CallTypes, RecordTypes, FlushTypes, SessionTypes, RunTypes, WorkTypes DEF Next

(***************************************************************************)
(* Who holds buf_mtx_, and what each actor has in hand.                    *)
(***************************************************************************)
LEMMA RecordControl ==
    ASSUME TypeOK, Locked, CurrentOK, HeldOK, NEW a \in Actors, Record(a)
    PROVE  Locked' /\ CurrentOK' /\ HeldOK'
<1> USE DEF TypeOK
<1>0. /\ pc \in [Actors -> Pcs] /\ ControlOK /\ FrameOK /\ QueueOK /\ FlushOK
  BY DEF ControlOK
<1>1. CASE LockBuffer(a)
  <2>1. /\ pc[a] = "lock" /\ buf_mtx \in {Nobody, a} /\ buf_mtx' = a
        /\ pc'[a] = (IF cur = NoBuffer THEN "request" ELSE IF Full(cur) THEN "handover" ELSE "write")
        /\ \A x \in Actors \ {a} : pc'[x] = pc[x]
    BY <1>0, <1>1, GotoType DEF LockBuffer, Pcs, RecordPcs
  <2>2. Locked'
    BY <1>0, <1>1, <2>1, ActorFacts DEF LockBuffer, Locked, RecordPcs, flushVars, queueVars
  <2>3. CurrentOK'
    BY <1>0, <1>1, <2>1, ActorFacts DEF LockBuffer, CurrentOK, RecordPcs, flushVars, queueVars, Locked, QueueOK, NoBuffer
  <2>4. HeldOK'
    BY <1>0, <1>1, <2>1, ActorFacts DEF LockBuffer, HeldOK, RecordPcs, flushVars, queueVars
  <2> QED BY <2>2, <2>3, <2>4
<1>2. CASE HandOver(a)
  <2>1. /\ pc[a] = "handover" /\ pc'[a] = "request" /\ ~crashed
        /\ \A x \in Actors \ {a} : pc'[x] = pc[x]
    BY <1>0, <1>2, GotoType, ActorFacts DEF HandOver, Pcs, RecordPcs, ClientPcs
  <2>2. Locked'
    BY <1>0, <1>2, <2>1, ActorFacts DEF HandOver, Locked, RecordPcs, flushVars
  <2>3. CurrentOK'
    BY <1>0, <1>2, <2>1, ActorFacts DEF HandOver, CurrentOK, RecordPcs, flushVars, Locked, QueueOK, NoBuffer
  <2>4. HeldOK'
    BY <1>0, <1>2, <2>1, ActorFacts DEF HandOver, HeldOK, RecordPcs, flushVars
  <2> QED BY <2>2, <2>3, <2>4
<1>3. CASE RequestAnswered(a)
  <2>1. /\ pc[a] = "request" /\ pc'[a] = "write" /\ ~crashed
        /\ \A x \in Actors \ {a} : pc'[x] = pc[x]
    BY <1>0, <1>3, GotoType, ActorFacts DEF RequestAnswered, Pcs, RecordPcs, ClientPcs
  <2>2. Locked'
    BY <1>0, <1>3, <2>1, ActorFacts DEF RequestAnswered, Locked, RecordPcs, flushVars
  <2>3. CurrentOK'
    BY <1>0, <1>3, <2>1, ActorFacts DEF RequestAnswered, CurrentOK, RecordPcs, flushVars, Locked, QueueOK, NoBuffer
  <2>4. HeldOK'
    BY <1>0, <1>3, <2>1, ActorFacts DEF RequestAnswered, HeldOK, RecordPcs, flushVars
  <2> QED BY <2>2, <2>3, <2>4
<1>4. CASE RequestFailed(a)
  <2>1. /\ pc[a] \in {"request", "write"} /\ pc'[a] = frame[a].back
        /\ pc'[a] \in {"off", "complete", "unlock"} /\ frame'[a] = NoFrame
        /\ \A x \in Actors \ {a} : pc'[x] = pc[x] /\ frame'[x] = frame[x]
    BY <1>0, <1>4, ReturnType DEF RequestFailed, At
  <2>2. Locked'
    BY <1>0, <1>4, <2>1, ActorFacts DEF RequestFailed, Locked, RecordPcs, Return, flushVars, queueVars
  <2>3. CurrentOK'
    BY <1>0, <1>4, <2>1, ActorFacts DEF RequestFailed, CurrentOK, RecordPcs, Return, flushVars, queueVars, Locked, QueueOK, NoBuffer
  <2>4. HeldOK'
    BY <1>0, <1>4, <2>1, ActorFacts DEF RequestFailed, HeldOK, RecordPcs, Return, flushVars, queueVars
  <2> QED BY <2>2, <2>3, <2>4
<1>5. CASE RequestNested(a)
  <2>1. pc[a] = "request" /\ pc' = pc
    BY <1>5 DEF RequestNested, At
  <2>2. Locked'
    BY <1>0, <1>5, <2>1, ActorFacts DEF RequestNested, Locked, RecordPcs, flushVars
  <2>3. CurrentOK'
    BY <1>0, <1>5, <2>1, ActorFacts DEF RequestNested, CurrentOK, RecordPcs, flushVars, Locked, QueueOK, NoBuffer
  <2>4. HeldOK'
    BY <1>0, <1>5, <2>1, ActorFacts DEF RequestNested, HeldOK, RecordPcs, flushVars
  <2> QED BY <2>2, <2>3, <2>4
<1>6. CASE Write(a)
  <2>1. /\ pc[a] \in {"request", "write"} /\ pc'[a] = frame[a].back
        /\ pc'[a] \in {"off", "complete", "unlock"} /\ frame'[a] = NoFrame
        /\ \A x \in Actors \ {a} : pc'[x] = pc[x] /\ frame'[x] = frame[x]
    BY <1>0, <1>6, ReturnType DEF Write, At
  <2>2. Locked'
    BY <1>0, <1>6, <2>1, ActorFacts DEF Write, Locked, RecordPcs, Return, flushVars, queueVars
  <2>3. CurrentOK'
    BY <1>0, <1>6, <2>1, ActorFacts DEF Write, CurrentOK, RecordPcs, Return, flushVars, queueVars, Locked, QueueOK, NoBuffer
  <2>4. HeldOK'
    BY <1>0, <1>6, <2>1, ActorFacts DEF Write, HeldOK, RecordPcs, Return, flushVars, queueVars
  <2> QED BY <2>2, <2>3, <2>4
<1> QED BY <1>1, <1>2, <1>3, <1>4, <1>5, <1>6 DEF Record

LEMMA FlushControl ==
    ASSUME TypeOK, Locked, CurrentOK, HeldOK, NEW c \in Clients, FlushAll(c)
    PROVE  Locked' /\ CurrentOK' /\ HeldOK'
<1> USE DEF TypeOK
<1>0. /\ pc \in [Actors -> Pcs] /\ ControlOK /\ FrameOK /\ QueueOK /\ FlushOK
  BY DEF ControlOK
<1>1. CASE TakeQueue(c)
  <2>1. /\ pc[c] = "off" /\ pc'[c] = "complete" /\ ~crashed
        /\ \A x \in Actors \ {c} : pc'[x] = pc[x]
    BY <1>0, <1>1, GotoType, ActorFacts DEF TakeQueue, Pcs, RecordPcs, ClientPcs
  <2>2. Locked'
    BY <1>0, <1>1, <2>1, ActorFacts DEF TakeQueue, Locked, RecordPcs, flushVars
  <2>3. CurrentOK'
    BY <1>0, <1>1, <2>1, ActorFacts DEF TakeQueue, CurrentOK, RecordPcs, flushVars, Locked, QueueOK, NoBuffer
  <2>4. HeldOK'
    BY <1>0, <1>1, <2>1, ActorFacts DEF TakeQueue, HeldOK, RecordPcs, flushVars
  <2> QED BY <2>2, <2>3, <2>4
<1>2. CASE CompleteQueued(c)
  <2>1. \E b \in held[c] :
           /\ pc[c] = "complete" /\ Complete(c, b, "complete") /\ b \in Buffers
           /\ \/ pc'[c] = "lock" /\ frame'[c].back = "complete"
              \/ pc'[c] = "complete" /\ frame' = frame
           /\ \A x \in Actors \ {c} : pc'[x] = pc[x] /\ frame'[x] = frame[x]
    <3>1. PICK b \in held[c] : Complete(c, b, "complete")
      BY <1>2 DEF CompleteQueued
    <3>2. b \in Buffers
      BY <1>0 DEF FlushOK
    <3> QED BY <1>0, <1>2, <3>1, <3>2, CompleteType, ActorFacts DEF CompleteQueued, At
  <2>2. Locked'
    BY <1>0, <1>2, <2>1, ActorFacts DEF CompleteQueued, Locked, RecordPcs, queueVars, FlushOK
  <2>3. CurrentOK'
    BY <1>0, <1>2, <2>1, ActorFacts DEF CompleteQueued, CurrentOK, RecordPcs, queueVars, FlushOK, Locked, QueueOK, NoBuffer
  <2>4. HeldOK'
    BY <1>0, <1>2, <2>1, ActorFacts DEF CompleteQueued, HeldOK, RecordPcs, queueVars, FlushOK
  <2> QED BY <2>2, <2>3, <2>4
<1>3. CASE TakeWorkers(c)
  <2>1. /\ pc[c] = "complete" /\ pc'[c] = "join" /\ ~crashed
        /\ \A x \in Actors \ {c} : pc'[x] = pc[x]
    BY <1>0, <1>3, GotoType, ActorFacts DEF TakeWorkers, Pcs, RecordPcs, ClientPcs
  <2>2. Locked'
    BY <1>0, <1>3, <2>1, ActorFacts DEF TakeWorkers, Locked, RecordPcs, flushVars
  <2>3. CurrentOK'
    BY <1>0, <1>3, <2>1, ActorFacts DEF TakeWorkers, CurrentOK, RecordPcs, flushVars, Locked, QueueOK, NoBuffer
  <2>4. HeldOK'
    BY <1>0, <1>3, <2>1, ActorFacts DEF TakeWorkers, HeldOK, RecordPcs, flushVars
  <2> QED BY <2>2, <2>3, <2>4
<1>4. CASE JoinWorkThreads(c)
  <2>1. /\ pc[c] = "join" /\ pc'[c] = "take" /\ ~crashed
        /\ \A x \in Actors \ {c} : pc'[x] = pc[x]
    BY <1>0, <1>4, GotoType, ActorFacts DEF JoinWorkThreads, Pcs, RecordPcs, ClientPcs
  <2>2. Locked'
    BY <1>0, <1>4, <2>1, ActorFacts DEF JoinWorkThreads, Locked, RecordPcs, flushVars, queueVars
  <2>3. CurrentOK'
    BY <1>0, <1>4, <2>1, ActorFacts DEF JoinWorkThreads, CurrentOK, RecordPcs, flushVars, queueVars, Locked, QueueOK, NoBuffer
  <2>4. HeldOK'
    BY <1>0, <1>4, <2>1, ActorFacts DEF JoinWorkThreads, HeldOK, RecordPcs, flushVars, queueVars
  <2> QED BY <2>2, <2>3, <2>4
<1>5. CASE TakeCurrent(c)
  <2>1. /\ pc[c] = "take" /\ pc'[c] = IF cur = NoBuffer THEN "off" ELSE "last"
        /\ buf_mtx = Nobody /\ \A x \in Actors \ {c} : pc'[x] = pc[x]
    BY <1>0, <1>5, GotoType, ActorFacts DEF TakeCurrent, Pcs, ClientPcs
  <2>2. Locked'
    BY <1>0, <1>5, <2>1, ActorFacts DEF TakeCurrent, Locked, RecordPcs, flushVars, QueueOK, FlushOK
  <2>3. CurrentOK'
    BY <1>0, <1>5, <2>1, ActorFacts DEF TakeCurrent, CurrentOK, RecordPcs, flushVars, QueueOK, FlushOK, Locked, QueueOK, NoBuffer
  <2>4. HeldOK'
    BY <1>0, <1>5, <2>1, ActorFacts DEF TakeCurrent, HeldOK, RecordPcs, flushVars, QueueOK, FlushOK
  <2> QED BY <2>2, <2>3, <2>4
<1>6. CASE CompleteLast(c)
  <2>1. \E b \in held[c] :
           /\ pc[c] = "last" /\ Complete(c, b, "unlock") /\ b \in Buffers
           /\ \/ pc'[c] = "lock" /\ frame'[c].back = "unlock"
              \/ pc'[c] = "unlock" /\ frame' = frame
           /\ \A x \in Actors \ {c} : pc'[x] = pc[x] /\ frame'[x] = frame[x]
    <3>1. PICK b \in held[c] : Complete(c, b, "unlock")
      BY <1>6 DEF CompleteLast
    <3>2. b \in Buffers
      BY <1>0 DEF FlushOK
    <3> QED BY <1>0, <1>6, <3>1, <3>2, CompleteType, ActorFacts DEF CompleteLast, At
  <2>2. Locked'
    BY <1>0, <1>6, <2>1, ActorFacts DEF CompleteLast, Locked, RecordPcs, queueVars, FlushOK
  <2>3. CurrentOK'
    BY <1>0, <1>6, <2>1, ActorFacts DEF CompleteLast, CurrentOK, RecordPcs, queueVars, FlushOK, Locked, QueueOK, NoBuffer
  <2>4. HeldOK'
    BY <1>0, <1>6, <2>1, ActorFacts DEF CompleteLast, HeldOK, RecordPcs, queueVars, FlushOK
  <2> QED BY <2>2, <2>3, <2>4
<1>7. CASE UnlockBuffer(c)
  <2>1. /\ pc[c] = "unlock" /\ pc'[c] = "off" /\ ~crashed
        /\ \A x \in Actors \ {c} : pc'[x] = pc[x]
    BY <1>0, <1>7, GotoType, ActorFacts DEF UnlockBuffer, Pcs, RecordPcs, ClientPcs
  <2>2. Locked'
    BY <1>0, <1>7, <2>1, ActorFacts DEF UnlockBuffer, Locked, RecordPcs, flushVars
  <2>3. CurrentOK'
    BY <1>0, <1>7, <2>1, ActorFacts DEF UnlockBuffer, CurrentOK, RecordPcs, flushVars, Locked, QueueOK, NoBuffer
  <2>4. HeldOK'
    BY <1>0, <1>7, <2>1, ActorFacts DEF UnlockBuffer, HeldOK, RecordPcs, flushVars
  <2> QED BY <2>2, <2>3, <2>4
<1> QED BY <1>1, <1>2, <1>3, <1>4, <1>5, <1>6, <1>7 DEF FlushAll

LEMMA RunControl ==
    ASSUME TypeOK, Locked, CurrentOK, HeldOK, NEW m \in Managers, Run(m)
    PROVE  Locked' /\ CurrentOK' /\ HeldOK'
<1> USE DEF TypeOK
<1>0. /\ pc \in [Actors -> Pcs] /\ ControlOK /\ FrameOK /\ QueueOK /\ FlushOK
  BY DEF ControlOK
<1>1. CASE Serve(m)
  <2>1. \A x \in Actors : pc'[x] = IF x \in co THEN "working" ELSE pc[x]
    BY <1>1 DEF Serve, TypeOK, ControlOK
  <2>2. Locked'
    BY <1>0, <1>1, <2>1, ActorFacts DEF Serve, Locked, RecordPcs, flushVars, QueueOK
  <2>3. CurrentOK'
    BY <1>0, <1>1, <2>1, ActorFacts DEF Serve, CurrentOK, RecordPcs, flushVars, QueueOK, Locked, QueueOK, NoBuffer
  <2>4. HeldOK'
    BY <1>0, <1>1, <2>1, ActorFacts DEF Serve, HeldOK, RecordPcs, flushVars, QueueOK
  <2> QED BY <2>2, <2>3, <2>4
<1>2. CASE Leave(m)
  <2>1. /\ pc[m] = "run" /\ pc'[m] = "leave" /\ ~crashed
        /\ \A x \in Actors \ {m} : pc'[x] = pc[x]
    BY <1>0, <1>2, GotoType, ActorFacts DEF Leave, Pcs, RecordPcs, ClientPcs
  <2>2. Locked'
    BY <1>0, <1>2, <2>1, ActorFacts DEF Leave, Locked, RecordPcs, flushVars, queueVars
  <2>3. CurrentOK'
    BY <1>0, <1>2, <2>1, ActorFacts DEF Leave, CurrentOK, RecordPcs, flushVars, queueVars, Locked, QueueOK, NoBuffer
  <2>4. HeldOK'
    BY <1>0, <1>2, <2>1, ActorFacts DEF Leave, HeldOK, RecordPcs, flushVars, queueVars
  <2> QED BY <2>2, <2>3, <2>4
<1>3. CASE TakePending(m)
  <2>1. /\ pc[m] = "leave" /\ pc'[m] = "joinPending" /\ ~crashed
        /\ \A x \in Actors \ {m} : pc'[x] = pc[x]
    BY <1>0, <1>3, GotoType, ActorFacts DEF TakePending, Pcs, RecordPcs, ClientPcs
  <2>2. Locked'
    BY <1>0, <1>3, <2>1, ActorFacts DEF TakePending, Locked, RecordPcs, flushVars
  <2>3. CurrentOK'
    BY <1>0, <1>3, <2>1, ActorFacts DEF TakePending, CurrentOK, RecordPcs, flushVars, Locked, QueueOK, NoBuffer
  <2>4. HeldOK'
    BY <1>0, <1>3, <2>1, ActorFacts DEF TakePending, HeldOK, RecordPcs, flushVars
  <2> QED BY <2>2, <2>3, <2>4
<1>4. CASE EndRun(m)
  <2>1. /\ pc[m] = "joinPending" /\ pc'[m] = "off" /\ ~crashed
        /\ \A x \in Actors \ {m} : pc'[x] = pc[x]
    BY <1>0, <1>4, GotoType, ActorFacts DEF EndRun, Pcs, RecordPcs, ClientPcs
  <2>2. Locked'
    BY <1>0, <1>4, <2>1, ActorFacts DEF EndRun, Locked, RecordPcs, flushVars, queueVars
  <2>3. CurrentOK'
    BY <1>0, <1>4, <2>1, ActorFacts DEF EndRun, CurrentOK, RecordPcs, flushVars, queueVars, Locked, QueueOK, NoBuffer
  <2>4. HeldOK'
    BY <1>0, <1>4, <2>1, ActorFacts DEF EndRun, HeldOK, RecordPcs, flushVars, queueVars
  <2> QED BY <2>2, <2>3, <2>4
<1> QED BY <1>1, <1>2, <1>3, <1>4 DEF Run

LEMMA SessionControl ==
    ASSUME TypeOK, Locked, CurrentOK, HeldOK, NEW c \in Clients, Session(c)
    PROVE  Locked' /\ CurrentOK' /\ HeldOK'
<1> USE DEF TypeOK
<1>0. /\ pc \in [Actors -> Pcs] /\ ControlOK /\ FrameOK /\ QueueOK /\ FlushOK
  BY DEF ControlOK
<1>1. CASE RegisterCallbacks(c)
  <2>1. /\ \/ pc' = pc
           \/ \E m \in Managers : pc[m] = "off" /\ pc'[m] = "run" /\ \A x \in Actors \ {m} : pc'[x] = pc[x]
    BY <1>0, <1>1, GotoType, ActorFacts DEF RegisterCallbacks, Pcs
  <2>2. Locked'
    BY <1>0, <1>1, <2>1, ActorFacts DEF RegisterCallbacks, Locked, RecordPcs, flushVars, queueVars
  <2>3. CurrentOK'
    BY <1>0, <1>1, <2>1, ActorFacts DEF RegisterCallbacks, CurrentOK, RecordPcs, flushVars, queueVars, Locked, QueueOK, NoBuffer
  <2>4. HeldOK'
    BY <1>0, <1>1, <2>1, ActorFacts DEF RegisterCallbacks, HeldOK, RecordPcs, flushVars, queueVars
  <2> QED BY <2>2, <2>3, <2>4
<1>2. CASE StopActivityMgrThread(c)
  <2>1. /\ pc[c] = "off" /\ pc'[c] = "joinManager" /\ ~crashed
        /\ \A x \in Actors \ {c} : pc'[x] = pc[x]
    BY <1>0, <1>2, GotoType, ActorFacts DEF StopActivityMgrThread, Pcs, RecordPcs, ClientPcs
  <2>2. Locked'
    BY <1>0, <1>2, <2>1, ActorFacts DEF StopActivityMgrThread, Locked, RecordPcs, flushVars, queueVars
  <2>3. CurrentOK'
    BY <1>0, <1>2, <2>1, ActorFacts DEF StopActivityMgrThread, CurrentOK, RecordPcs, flushVars, queueVars, Locked, QueueOK, NoBuffer
  <2>4. HeldOK'
    BY <1>0, <1>2, <2>1, ActorFacts DEF StopActivityMgrThread, HeldOK, RecordPcs, flushVars, queueVars
  <2> QED BY <2>2, <2>3, <2>4
<1>3. CASE JoinManager(c)
  <2>1. /\ pc[c] = "joinManager" /\ pc'[c] = "joinRest" /\ ~crashed
        /\ \A x \in Actors \ {c} : pc'[x] = pc[x]
    BY <1>0, <1>3, GotoType, ActorFacts DEF JoinManager, Pcs, RecordPcs, ClientPcs
  <2>2. Locked'
    BY <1>0, <1>3, <2>1, ActorFacts DEF JoinManager, Locked, RecordPcs, flushVars
  <2>3. CurrentOK'
    BY <1>0, <1>3, <2>1, ActorFacts DEF JoinManager, CurrentOK, RecordPcs, flushVars, Locked, QueueOK, NoBuffer
  <2>4. HeldOK'
    BY <1>0, <1>3, <2>1, ActorFacts DEF JoinManager, HeldOK, RecordPcs, flushVars
  <2> QED BY <2>2, <2>3, <2>4
<1>4. CASE ResetActivitySwitch(c)
  <2>1. /\ pc[c] = "joinRest" /\ pc'[c] = "off" /\ ~crashed
        /\ \A x \in Actors \ {c} : pc'[x] = pc[x]
    BY <1>0, <1>4, GotoType, ActorFacts DEF ResetActivitySwitch, Pcs, RecordPcs, ClientPcs
  <2>2. Locked'
    BY <1>0, <1>4, <2>1, ActorFacts DEF ResetActivitySwitch, Locked, RecordPcs, flushVars, queueVars
  <2>3. CurrentOK'
    BY <1>0, <1>4, <2>1, ActorFacts DEF ResetActivitySwitch, CurrentOK, RecordPcs, flushVars, queueVars, Locked, QueueOK, NoBuffer
  <2>4. HeldOK'
    BY <1>0, <1>4, <2>1, ActorFacts DEF ResetActivitySwitch, HeldOK, RecordPcs, flushVars, queueVars
  <2> QED BY <2>2, <2>3, <2>4
<1>5. CASE \E k \in Kinds : Register(c, k) \/ UnRegister(c, k)
  BY <1>5 DEF Register, UnRegister, Locked, CurrentOK, HeldOK, queueVars, flushVars, controlVars
<1> QED BY <1>1, <1>2, <1>3, <1>4, <1>5 DEF Session

LEMMA WorkControl ==
    ASSUME TypeOK, Locked, CurrentOK, HeldOK, NEW b \in Buffers, Work(b)
    PROVE  Locked' /\ CurrentOK' /\ HeldOK'
<1>1. /\ \/ pc'[b] = "lock" /\ frame'[b].back = "off"
         \/ pc'[b] = "off" /\ frame' = frame
      /\ \A x \in Actors \ {b} : pc'[x] = pc[x] /\ frame'[x] = frame[x]
  <2>1. Complete(b, b, "off")
    BY DEF Work
  <2> QED BY <2>1, CompleteType, ActorFacts DEF TypeOK
<1>2. Locked'
  BY <1>1, ActorFacts DEF Work, Locked
<1>3. CurrentOK'
  BY <1>1, ActorFacts DEF Work, CurrentOK, queueVars
<1>4. HeldOK'
  BY <1>1, ActorFacts DEF Work, HeldOK, flushVars
<1> QED BY <1>2, <1>3, <1>4

LEMMA CallControl ==
    ASSUME TypeOK, Locked, CurrentOK, HeldOK, NEW t \in Recorders, RecordCall(t)
    PROVE  Locked' /\ CurrentOK' /\ HeldOK'
<1>1. /\ pc[t] = "off" /\ pc'[t] = "lock" /\ frame'[t].back = "off"
      /\ \A x \in Actors \ {t} : pc'[x] = pc[x] /\ frame'[x] = frame[x]
  <2>1. PICK s \in Sizes :
          frame' = [frame EXCEPT ![t] = [rec |-> calls + 1, size |-> s, back |-> "off"]]
    BY DEF RecordCall
  <2>2. /\ pc[t] = "off" /\ pc'[t] = "lock"
        /\ \A x \in Actors \ {t} : pc'[x] = pc[x]
    BY GotoType, ActorFacts DEF RecordCall, TypeOK, ControlOK, Pcs, RecordPcs
  <2> QED BY <2>1, <2>2, ActorFacts DEF TypeOK, FrameOK
<1>2. Locked'
  BY <1>1, ActorFacts DEF RecordCall, Locked
<1>3. CurrentOK'
  BY <1>1, ActorFacts DEF RecordCall, CurrentOK, queueVars
<1>4. HeldOK'
  BY <1>1, ActorFacts DEF RecordCall, HeldOK, RecordPcs, flushVars
<1> QED BY <1>2, <1>3, <1>4

LEMMA ControlNext ==
    ASSUME TypeOK, Locked, CurrentOK, HeldOK, [Next]_vars
    PROVE  Locked' /\ CurrentOK' /\ HeldOK'
<1>1. CASE UNCHANGED vars
  BY <1>1 DEF vars, Locked, CurrentOK, HeldOK, queueVars, flushVars, controlVars
<1> QED BY <1>1, CallControl, RecordControl, FlushControl, SessionControl, RunControl,
           WorkControl DEF Next

(***************************************************************************)
(* Who owns the buffers.                                                   *)
(***************************************************************************)
LEMMA SameOwners ==
    ASSUME Ownership, UNCHANGED <<made, cur, co, completed, held>>,
           \A b \in Buffers : pc'[b] = "working" <=> pc[b] = "working"
    PROVE  Ownership'
BY DEF Ownership, Owned

LEMMA RecordOwners ==
    ASSUME TypeOK, CurrentOK, Ownership, NEW a \in Actors, Record(a)
    PROVE  Ownership'
<1> USE DEF TypeOK
<1>0. pc \in [Actors -> Pcs] /\ Buffers \subseteq Actors /\ QueueOK
  BY ActorFacts DEF ControlOK
<1>1. CASE LockBuffer(a)
  <2>1. \A b \in Buffers : pc'[b] = "working" <=> pc[b] = "working"
    BY <1>0, <1>1 DEF LockBuffer, Goto, At
  <2> QED BY <1>1, <2>1, SameOwners DEF LockBuffer, queueVars, bufferVars, flushVars
<1>2. CASE HandOver(a)
  <2>1. \A b \in Buffers : pc'[b] = "working" <=> pc[b] = "working"
    BY <1>0, <1>2 DEF HandOver, Goto, At
  <2>2. cur \in Buffers /\ cur' \notin Buffers /\ cur' = NoBuffer
    BY <1>0, <1>2, ActorFacts DEF HandOver, CurrentOK, QueueOK, Goto, At
  <2> QED BY <1>2, <2>1, <2>2 DEF HandOver, Ownership, Owned, bufferVars, flushVars
<1>3. CASE RequestAnswered(a)
  <2>1. \A b \in Buffers : pc'[b] = "working" <=> pc[b] = "working"
    BY <1>0, <1>3 DEF RequestAnswered, Goto, At
  <2>2. cur = NoBuffer /\ cur \notin Buffers
    BY <1>3, ActorFacts DEF RequestAnswered, CurrentOK, Goto, At
  <2>3. /\ made' = made + 1 /\ cur' = made + 1 /\ made + 1 \in Buffers
        /\ ~(made + 1 <= made) /\ \A b \in Buffers : b <= made + 1 <=> b <= made \/ b = made + 1
    BY <1>0, <1>3, BoundAssumption DEF RequestAnswered, QueueOK, Buffers
  <2>4. UNCHANGED <<co, completed, held>>
    BY <1>3 DEF RequestAnswered, flushVars
  <2> QED BY <2>1, <2>2, <2>3, <2>4 DEF Ownership, Owned
<1>4. CASE RequestFailed(a)
  <2>1. \A b \in Buffers : pc'[b] = "working" <=> pc[b] = "working"
    BY <1>0, <1>4, ReturnType DEF RequestFailed, At
  <2> QED BY <1>4, <2>1, SameOwners DEF RequestFailed, queueVars, bufferVars, flushVars
<1>5. CASE RequestNested(a)
  <2>1. cur = NoBuffer /\ cur \notin Buffers
    BY <1>5, ActorFacts DEF RequestNested, CurrentOK, At
  <2>2. /\ made' = made + 1 /\ co' = co \cup {made + 1} /\ made + 1 \in Buffers
        /\ ~(made + 1 <= made) /\ \A b \in Buffers : b <= made + 1 <=> b <= made \/ b = made + 1
    BY <1>0, <1>5, BoundAssumption DEF RequestNested, QueueOK, Buffers
  <2>3. UNCHANGED <<cur, completed, held, pc>>
    BY <1>5 DEF RequestNested, flushVars
  <2> QED BY <2>1, <2>2, <2>3 DEF Ownership, Owned
<1>6. CASE Write(a)
  <2>1. \A b \in Buffers : pc'[b] = "working" <=> pc[b] = "working"
    BY <1>0, <1>6, ReturnType DEF Write, At
  <2> QED BY <1>6, <2>1, SameOwners DEF Write, queueVars, flushVars
<1> QED BY <1>1, <1>2, <1>3, <1>4, <1>5, <1>6 DEF Record

LEMMA FlushOwners ==
    ASSUME TypeOK, HeldOK, Ownership, NEW c \in Clients, FlushAll(c)
    PROVE  Ownership'
<1> USE DEF TypeOK
<1>0. /\ pc \in [Actors -> Pcs] /\ Buffers \subseteq Actors /\ c \in Actors /\ c \notin Buffers
      /\ held \in [Clients -> SUBSET Buffers] /\ QueueOK /\ NoBuffer \notin Buffers
  BY ActorFacts DEF ControlOK, FlushOK
<1>1. CASE TakeQueue(c)
  <2>1. UNCHANGED <<made, cur, completed>> /\ \A b \in Buffers : pc'[b] = pc[b]
    BY <1>0, <1>1 DEF TakeQueue, Goto, At, bufferVars
  <2>2. held[c] = {}
    BY <1>1 DEF TakeQueue, HeldOK, RecordPcs, Goto, At
  <2>3. /\ co' = {} /\ held' \in [Clients -> SUBSET Buffers] /\ held'[c] = co
        /\ \A d \in Clients \ {c} : held'[d] = held[d]
    BY <1>0, <1>1 DEF TakeQueue, QueueOK
  <2> QED BY <1>0, <2>1, <2>2, <2>3 DEF Ownership, Owned
<1>2. CASE CompleteQueued(c)
  <2>1. PICK b \in held[c] : /\ Complete(c, b, "complete")
                             /\ held' = [held EXCEPT ![c] = @ \ {b}]
    BY <1>2 DEF CompleteQueued
  <2>2. b \in Buffers /\ completed' = completed \cup {b} /\ \A x \in Buffers : pc'[x] = pc[x]
    BY <1>0, <2>1, CompleteType
  <2>3. UNCHANGED <<made, cur, co>>
    BY <1>2 DEF CompleteQueued, queueVars, bufferVars
  <2>4. held'[c] = held[c] \ {b} /\ \A d \in Clients \ {c} : held'[d] = held[d]
    BY <1>0, <2>1
  <2> QED BY <1>0, <2>1, <2>2, <2>3, <2>4 DEF Ownership, Owned
<1>3. CASE TakeWorkers(c)
  <2>1. \A b \in Buffers : pc'[b] = "working" <=> pc[b] = "working"
    BY <1>0, <1>3 DEF TakeWorkers, Goto, At
  <2> QED BY <1>3, <2>1, SameOwners DEF TakeWorkers, bufferVars, flushVars
<1>4. CASE JoinWorkThreads(c)
  <2>1. \A b \in Buffers : pc'[b] = "working" <=> pc[b] = "working"
    BY <1>0, <1>4 DEF JoinWorkThreads, Goto, At
  <2> QED BY <1>4, <2>1, SameOwners DEF JoinWorkThreads, queueVars, bufferVars, flushVars
<1>5. CASE TakeCurrent(c)
  <2>1. \A b \in Buffers : pc'[b] = pc[b]
    BY <1>0, <1>5 DEF TakeCurrent, Goto, At
  <2>2. UNCHANGED <<made, co, completed>>
    BY <1>5 DEF TakeCurrent, bufferVars
  <2>3. CASE cur = NoBuffer
    BY <1>5, <2>1, <2>2, <2>3, SameOwners DEF TakeCurrent
  <2>4. CASE cur # NoBuffer
    <3>1. held[c] = {}
      BY <1>5, <2>4 DEF TakeCurrent, HeldOK, RecordPcs, Goto, At
    <3>2. /\ cur' = NoBuffer /\ held'[c] = {cur} /\ cur \in Buffers
          /\ \A d \in Clients \ {c} : held'[d] = held[d]
      BY <1>0, <1>5, <2>4 DEF TakeCurrent, QueueOK
    <3> QED BY <1>0, <2>1, <2>2, <3>1, <3>2 DEF Ownership, Owned
  <2> QED BY <2>3, <2>4
<1>6. CASE CompleteLast(c)
  <2>1. PICK b \in held[c] : Complete(c, b, "unlock")
    BY <1>6 DEF CompleteLast
  <2>2. b \in Buffers /\ completed' = completed \cup {b} /\ \A x \in Buffers : pc'[x] = pc[x]
    BY <1>0, <2>1, CompleteType
  <2>3. UNCHANGED <<made, cur, co>>
    BY <1>6 DEF CompleteLast, queueVars, bufferVars
  <2>4. held[c] = {b}
    BY <1>6, <2>1 DEF CompleteLast, HeldOK, At
  <2>5. held'[c] = {} /\ \A d \in Clients \ {c} : held'[d] = held[d]
    BY <1>0, <1>6 DEF CompleteLast
  <2> QED BY <1>0, <2>2, <2>3, <2>4, <2>5 DEF Ownership, Owned
<1>7. CASE UnlockBuffer(c)
  <2>1. \A b \in Buffers : pc'[b] = "working" <=> pc[b] = "working"
    BY <1>0, <1>7 DEF UnlockBuffer, Goto, At
  <2> QED BY <1>7, <2>1, SameOwners DEF UnlockBuffer, queueVars, bufferVars, flushVars
<1> QED BY <1>1, <1>2, <1>3, <1>4, <1>5, <1>6, <1>7 DEF FlushAll

LEMMA SessionOwners ==
    ASSUME TypeOK, Ownership, NEW c \in Clients, Session(c)
    PROVE  Ownership'
<1>0. pc \in [Actors -> Pcs] /\ Buffers \subseteq Actors
  BY ActorFacts DEF TypeOK, ControlOK
<1>1. \A b \in Buffers : pc'[b] = "working" <=> pc[b] = "working"
  BY <1>0 DEF Session, Register, UnRegister, RegisterCallbacks, StopActivityMgrThread,
     JoinManager, ResetActivitySwitch, controlVars, Goto, At
<1>2. UNCHANGED <<made, cur, co, completed, held>>
  BY DEF Session, Register, UnRegister, RegisterCallbacks, StopActivityMgrThread,
     JoinManager, ResetActivitySwitch, queueVars, bufferVars, flushVars
<1> QED BY <1>1, <1>2, SameOwners

LEMMA RunOwners ==
    ASSUME TypeOK, Ownership, NEW m \in Managers, Run(m)
    PROVE  Ownership'
<1>0. pc \in [Actors -> Pcs] /\ Buffers \subseteq Actors /\ QueueOK
  BY ActorFacts DEF TypeOK, ControlOK
<1>1. CASE Serve(m)
  <2>1. UNCHANGED <<made, cur, completed, held>> /\ co' = {} /\ co \subseteq Buffers
    BY <1>0, <1>1 DEF Serve, bufferVars, flushVars, QueueOK
  <2>2. \A b \in Buffers : pc'[b] = IF b \in co THEN "working" ELSE pc[b]
    BY <1>0, <1>1 DEF Serve
  <2> QED BY <1>0, <2>1, <2>2 DEF Ownership, Owned
<1>2. CASE Leave(m) \/ TakePending(m) \/ EndRun(m)
  <2>1. \A b \in Buffers : pc'[b] = "working" <=> pc[b] = "working"
    BY <1>0, <1>2 DEF Leave, TakePending, EndRun, Goto, At
  <2> QED BY <1>2, <2>1, SameOwners DEF Leave, TakePending, EndRun, queueVars, bufferVars,
             flushVars
<1> QED BY <1>1, <1>2 DEF Run

LEMMA WorkOwners ==
    ASSUME TypeOK, Ownership, NEW b \in Buffers, Work(b)
    PROVE  Ownership'
<1>1. /\ completed' = completed \cup {b} /\ pc[b] = "working" /\ pc'[b] \in {"lock", "off"}
      /\ \A x \in Buffers \ {b} : pc'[x] = pc[x]
  <2>1. Complete(b, b, "off") /\ pc[b] = "working"
    BY DEF Work, At
  <2> QED BY <2>1, CompleteType, ActorFacts DEF TypeOK
<1>2. UNCHANGED <<made, cur, co, held>>
  BY DEF Work, queueVars, bufferVars, flushVars
<1> QED BY <1>1, <1>2 DEF Ownership, Owned

LEMMA OwnershipNext ==
    ASSUME TypeOK, CurrentOK, HeldOK, Ownership, [Next]_vars
    PROVE  Ownership'
<1>1. CASE UNCHANGED vars
  BY <1>1, SameOwners DEF vars, queueVars, bufferVars, flushVars, controlVars
<1>2. CASE \E t \in Recorders : RecordCall(t)
  <2>1. \A b \in Buffers : pc'[b] = "working" <=> pc[b] = "working"
    BY <1>2, ActorFacts DEF RecordCall, Goto, At, TypeOK, ControlOK
  <2> QED BY <1>2, <2>1, SameOwners DEF RecordCall, queueVars, bufferVars, flushVars
<1> QED BY <1>1, <1>2, RecordOwners, FlushOwners, SessionOwners, RunOwners, WorkOwners DEF Next

(***************************************************************************)
(* The queue, the depth of the stack, and fresh buffers.                   *)
(***************************************************************************)
LEMMA QueueNext ==
    ASSUME QueueSignalled, [Next]_vars
    PROVE  QueueSignalled'
<1>1. CASE UNCHANGED vars
  BY <1>1 DEF vars, QueueSignalled, queueVars
<1>2. CASE \E t \in Recorders : RecordCall(t)
  BY <1>2 DEF RecordCall, QueueSignalled, queueVars
<1>3. CASE \E a \in Actors : Record(a)
  BY <1>3 DEF Record, LockBuffer, HandOver, RequestAnswered, RequestFailed, RequestNested, Write,
     QueueSignalled, queueVars
<1>4. CASE \E c \in Clients : FlushAll(c)
  BY <1>4 DEF FlushAll, TakeQueue, CompleteQueued, TakeWorkers, JoinWorkThreads, TakeCurrent,
     CompleteLast, UnlockBuffer, QueueSignalled, queueVars
<1>5. CASE \E c \in Clients : Session(c)
  BY <1>5 DEF Session, Register, UnRegister, RegisterCallbacks, StopActivityMgrThread,
     JoinManager, ResetActivitySwitch, QueueSignalled, queueVars
<1>6. CASE (\E m \in Managers : Run(m)) \/ (\E b \in Buffers : Work(b))
  BY <1>6 DEF Run, Serve, Leave, TakePending, EndRun, Work, QueueSignalled, queueVars
<1> QED BY <1>1, <1>2, <1>3, <1>4, <1>5, <1>6 DEF Next

LEMMA DepthNext ==
    ASSUME TypeOK, DepthOK, [Next]_vars
    PROVE  DepthOK'
<1>0. depth \in 0 .. StackDepth /\ StackDepth \in Nat \ {0}
  BY BoundAssumption DEF TypeOK, ControlOK
<1>1. CASE UNCHANGED vars
  BY <1>1 DEF vars, DepthOK, controlVars
<1>2. CASE \E t \in Recorders : RecordCall(t)
  BY <1>2 DEF RecordCall, DepthOK
<1>3. ASSUME NEW a \in Actors, Record(a)
      PROVE  DepthOK'
  <2>1. CASE LockBuffer(a) \/ HandOver(a) \/ Write(a)
    BY <2>1 DEF LockBuffer, HandOver, Write, DepthOK
  <2>2. CASE RequestAnswered(a) \/ RequestFailed(a)
    <3>1. depth' = 0
      BY <2>2 DEF RequestAnswered, RequestFailed
    <3> QED BY <1>0, <3>1 DEF DepthOK
  <2>3. CASE RequestNested(a)
    <3>1. depth < StackDepth /\ depth' = depth + 1
      BY <2>3 DEF RequestNested, DepthOK, At
    <3>2. crashed' = (depth + 1 = StackDepth)
      BY <2>3 DEF RequestNested
    <3>3. CASE depth + 1 = StackDepth
      BY <3>2, <3>3 DEF DepthOK
    <3>4. CASE depth + 1 # StackDepth
      BY <1>0, <3>1, <3>4 DEF DepthOK
    <3> QED BY <3>3, <3>4
  <2> QED BY <1>3, <2>1, <2>2, <2>3 DEF Record
<1>4. CASE \E c \in Clients : FlushAll(c)
  BY <1>4 DEF FlushAll, TakeQueue, CompleteQueued, TakeWorkers, JoinWorkThreads, TakeCurrent,
     CompleteLast, UnlockBuffer, DepthOK
<1>5. CASE \E c \in Clients : Session(c)
  BY <1>5 DEF Session, Register, UnRegister, RegisterCallbacks, StopActivityMgrThread,
     JoinManager, ResetActivitySwitch, DepthOK, controlVars
<1>6. CASE (\E m \in Managers : Run(m)) \/ (\E b \in Buffers : Work(b))
  BY <1>6 DEF Run, Serve, Leave, TakePending, EndRun, Work, DepthOK
<1> QED BY <1>1, <1>2, <1>3, <1>4, <1>5, <1>6 DEF Next

\* How a step touches the contents: not at all, by making a buffer, or by
\* writing into the current one.
MakesBuffer ==
    \E n \in {0, Capacity} : \E v \in 0 .. Capacity :
       /\ made + 1 \in Buffers /\ made' = made + 1
       /\ content' = [content EXCEPT ![made + 1] = [size |-> n, recs |-> {}, valid |-> v]]
WritesRecord(a) ==
    /\ UNCHANGED <<made, completed>> /\ cur \in Buffers
    /\ content' = [content EXCEPT
            ![cur].valid = @ + frame[a].size,
            ![cur].recs = IF frame[a].rec = 0 THEN @ ELSE @ \cup {frame[a].rec}]

LEMMA ContentSteps ==
    ASSUME TypeOK, CurrentOK, [Next]_vars
    PROVE  \/ UNCHANGED <<made, content>>
           \/ MakesBuffer /\ UNCHANGED completed
           \/ \E a \in Actors : WritesRecord(a)
<1> USE DEF TypeOK
<1>1. CASE UNCHANGED vars
  BY <1>1 DEF vars, bufferVars
<1>2. CASE \E t \in Recorders : RecordCall(t)
  BY <1>2 DEF RecordCall, bufferVars
<1>3. ASSUME NEW a \in Actors, Record(a)
      PROVE  \/ UNCHANGED <<made, content>>
             \/ MakesBuffer /\ UNCHANGED completed
             \/ WritesRecord(a)
  <2>1. CASE LockBuffer(a) \/ HandOver(a) \/ RequestFailed(a)
    BY <2>1 DEF LockBuffer, HandOver, RequestFailed, bufferVars
  <2>2. CASE RequestAnswered(a)
    <3> DEFINE V == Fitting(depth + IF "overhead" \in switch THEN 1 ELSE 0)
    <3>1. V \in 0 .. Capacity /\ made + 1 \in Buffers
      BY <2>2, BoundAssumption DEF RequestAnswered, Fitting, ControlOK, QueueOK, Buffers
    <3>2. /\ content' = [content EXCEPT ![made + 1] = [size |-> Capacity, recs |-> {}, valid |-> V]]
          /\ made' = made + 1 /\ UNCHANGED completed
      BY <2>2 DEF RequestAnswered
    <3> HIDE DEF V
    <3> QED BY <3>1, <3>2 DEF MakesBuffer
  <2>3. CASE RequestNested(a)
    <3>1. /\ content' = [content EXCEPT ![made + 1] = [size |-> 0, recs |-> {}, valid |-> 0]]
          /\ made' = made + 1 /\ UNCHANGED completed
      BY <2>3 DEF RequestNested, Empty
    <3>2. made + 1 \in Buffers /\ 0 \in 0 .. Capacity
      BY <2>3, BoundAssumption DEF RequestNested, QueueOK, Buffers
    <3> QED BY <3>1, <3>2 DEF MakesBuffer
  <2>4. CASE Write(a)
    <3>1. cur \in Buffers
      BY <2>4 DEF Write, QueueOK, CurrentOK, At
    <3>2. CASE ~Fits(a)
      BY <2>4, <3>2 DEF Write
    <3>3. CASE Fits(a)
      BY <2>4, <3>1, <3>3 DEF Write, WritesRecord
    <3> QED BY <3>2, <3>3
  <2> QED BY <1>3, <2>1, <2>2, <2>3, <2>4 DEF Record
<1>4. CASE \E c \in Clients : FlushAll(c) \/ Session(c)
  BY <1>4 DEF FlushAll, TakeQueue, CompleteQueued, TakeWorkers, JoinWorkThreads, TakeCurrent,
     CompleteLast, UnlockBuffer, Session, Register, UnRegister, RegisterCallbacks,
     StopActivityMgrThread, JoinManager, ResetActivitySwitch, bufferVars
<1>5. CASE (\E m \in Managers : Run(m)) \/ (\E b \in Buffers : Work(b))
  BY <1>5 DEF Run, Serve, Leave, TakePending, EndRun, Work, bufferVars
<1> QED BY <1>1, <1>2, <1>3, <1>4, <1>5 DEF Next

LEMMA FreshNext ==
    ASSUME TypeOK, CurrentOK, Ownership, FreshEmpty, [Next]_vars
    PROVE  FreshEmpty'
<1>0. content \in [Buffers -> [size : {0, Capacity}, valid : 0 .. Capacity,
                               recs : SUBSET (1 .. MaxCalls)]] /\ made \in Nat
  BY DEF TypeOK, ContentOK, QueueOK
<1>1. CASE UNCHANGED <<made, content>>
  BY <1>1 DEF FreshEmpty
<1>2. CASE MakesBuffer
  <2>1. PICK n \in {0, Capacity}, v \in 0 .. Capacity :
          /\ made + 1 \in Buffers /\ made' = made + 1
          /\ content' = [content EXCEPT ![made + 1] = [size |-> n, recs |-> {}, valid |-> v]]
    BY <1>2 DEF MakesBuffer
  <2>2. \A b \in Buffers : b > made + 1 => b > made /\ b # made + 1
    BY <1>0 DEF Buffers
  <2>3. \A b \in Buffers : b # made + 1 => content'[b] = content[b]
    BY <1>0, <2>1
  <2> QED BY <2>1, <2>2, <2>3 DEF FreshEmpty
<1>3. CASE \E a \in Actors : WritesRecord(a)
  <2>1. cur \in Buffers /\ made' = made /\ \A b \in Buffers : b # cur => content'[b] = content[b]
    BY <1>0, <1>3 DEF WritesRecord
  <2>2. cur <= made
    BY <2>1 DEF Ownership, Owned
  <2>3. ~(cur > made)
    BY <1>0, <2>1, <2>2 DEF Buffers
  <2> QED BY <2>1, <2>3 DEF FreshEmpty
<1> QED BY <1>1, <1>2, <1>3, ContentSteps

(***************************************************************************)
(* Every thread that runs is joined by someone.                            *)
(***************************************************************************)
LEMMA SameJoins ==
    ASSUME TypeOK, Joined, UNCHANGED <<thread_run, mgr_thread, jobs, joining>>,
           \A m \in Managers : /\ pc'[m] # "off" => pc[m] # "off"
                               /\ pc[m] = "joinPending" => pc'[m] = "joinPending",
           \A b \in Buffers : pc'[b] # "off" => pc[b] # "off",
           \A c \in Clients : pc[c] \in {"join", "joinRest", "joinManager"} => pc'[c] = pc[c]
    PROVE  Joined'
<1>1. ManagerJoined'
  BY DEF Joined, ManagerJoined
<1>2. WorkersJoined'
  <2>1. \A b \in Buffers : pc'[b] # "off" =>
          \/ b \in jobs
          \/ \E c \in Clients : pc[c] \in {"join", "joinRest"} /\ b \in joining[c]
          \/ \E m \in Managers : pc[m] = "joinPending" /\ b \in joining[m]
    BY DEF Joined, WorkersJoined
  <2>2. \A c \in Clients : pc[c] \in {"join", "joinRest"} => pc'[c] \in {"join", "joinRest"}
    OBVIOUS
  <2> QED BY <2>1, <2>2 DEF WorkersJoined
<1>3. NoJobsLeft'
  BY DEF Joined, NoJobsLeft, TypeOK, QueueOK
<1>4. thread_run' <=> mgr_thread' # Nobody
  BY DEF Joined
<1> QED BY <1>1, <1>2, <1>3, <1>4 DEF Joined

LEMMA RecordJoins ==
    ASSUME TypeOK, Joined, NEW a \in Actors, Record(a)
    PROVE  Joined'
<1>0. pc \in [Actors -> Pcs] /\ ControlOK /\ FrameOK
  BY DEF TypeOK, ControlOK
<1>1. /\ pc[a] \in RecordPcs
      /\ \A x \in Actors \ {a} : pc'[x] = pc[x]
  <2>1. CASE LockBuffer(a) \/ HandOver(a) \/ RequestAnswered(a) \/ RequestNested(a)
    BY <1>0, <2>1 DEF LockBuffer, HandOver, RequestAnswered, RequestNested, Goto, At, RecordPcs
  <2>2. CASE RequestFailed(a) \/ Write(a)
    BY <1>0, <2>2, ReturnType DEF RequestFailed, Write, At, RecordPcs
  <2> QED BY <2>1, <2>2 DEF Record
<1>2. UNCHANGED <<thread_run, mgr_thread, jobs, joining>>
  BY DEF Record, LockBuffer, HandOver, RequestAnswered, RequestFailed, RequestNested, Write,
     sessionVars, queueVars
<1> QED BY <1>1, <1>2, ActorFacts, SameJoins DEF RecordPcs

LEMMA FlushJoins ==
    ASSUME TypeOK, Joined, NEW c \in Clients, FlushAll(c)
    PROVE  Joined'
<1>0. /\ pc \in [Actors -> Pcs] /\ ControlOK /\ FrameOK /\ QueueOK /\ c \in Actors
      /\ joining \in [Clients \cup Managers -> SUBSET (Buffers \cup Managers)]
      /\ held \in [Clients -> SUBSET Buffers]
  BY ActorFacts DEF TypeOK, ControlOK, FlushOK
<1>1. CASE \/ TakeQueue(c) \/ TakeCurrent(c) \/ UnlockBuffer(c)
           \/ CompleteQueued(c) \/ CompleteLast(c)
  <2>1. /\ pc[c] \in {"off", "take", "unlock", "complete", "last"}
        /\ \A x \in Actors \ {c} : pc'[x] = pc[x]
    <3>1. CASE TakeQueue(c) \/ TakeCurrent(c) \/ UnlockBuffer(c)
      BY <1>0, <3>1 DEF TakeQueue, TakeCurrent, UnlockBuffer, Goto, At
    <3>2. CASE CompleteQueued(c)
      <4>1. PICK b \in held[c] : Complete(c, b, "complete")
        BY <3>2 DEF CompleteQueued
      <4> QED BY <1>0, <3>2, <4>1, CompleteType DEF CompleteQueued, At
    <3>3. CASE CompleteLast(c)
      <4>1. PICK b \in held[c] : Complete(c, b, "unlock")
        BY <3>3 DEF CompleteLast
      <4> QED BY <1>0, <3>3, <4>1, CompleteType DEF CompleteLast, At
    <3> QED BY <1>1, <3>1, <3>2, <3>3
  <2>2. UNCHANGED <<thread_run, mgr_thread, jobs, joining>>
    BY <1>1 DEF TakeQueue, TakeCurrent, UnlockBuffer, CompleteQueued, CompleteLast, sessionVars,
       queueVars
  <2> QED BY <2>1, <2>2, ActorFacts, SameJoins
<1>2. CASE TakeWorkers(c)
  <2>1. /\ pc[c] = "complete" /\ pc'[c] = "join" /\ joining'[c] = jobs /\ jobs' = {}
        /\ \A x \in Actors \ {c} : pc'[x] = pc[x]
        /\ \A x \in (Clients \cup Managers) \ {c} : joining'[x] = joining[x]
        /\ UNCHANGED <<thread_run, mgr_thread>>
    BY <1>0, <1>2 DEF TakeWorkers, Goto, At, sessionVars
  <2>2. ManagerJoined'
    BY <2>1, ActorFacts DEF Joined, ManagerJoined
  <2>3. WorkersJoined'
    BY <2>1, ActorFacts DEF Joined, WorkersJoined
  <2> QED BY <2>1, <2>2, <2>3 DEF Joined, NoJobsLeft
<1>3. CASE JoinWorkThreads(c)
  <2>1. /\ pc[c] = "join" /\ pc'[c] = "take" /\ Ended(joining[c]) /\ jobs' = jobs
        /\ \A x \in Actors \ {c} : pc'[x] = pc[x]
        /\ \A x \in (Clients \cup Managers) \ {c} : joining'[x] = joining[x]
        /\ UNCHANGED <<thread_run, mgr_thread>>
    BY <1>0, <1>3 DEF JoinWorkThreads, Goto, At, sessionVars, queueVars
  <2>2. ManagerJoined'
    BY <2>1, ActorFacts DEF Joined, ManagerJoined
  <2>3. WorkersJoined'
    BY <2>1, ActorFacts DEF Joined, WorkersJoined, Ended
  <2>4. NoJobsLeft'
    BY <1>0, <2>1, ActorFacts DEF Joined, NoJobsLeft, QueueOK
  <2> QED BY <2>1, <2>2, <2>3, <2>4 DEF Joined
<1> QED BY <1>1, <1>2, <1>3 DEF FlushAll

LEMMA SessionJoins ==
    ASSUME TypeOK, Joined, NEW c \in Clients, Session(c)
    PROVE  Joined'
<1>0. /\ pc \in [Actors -> Pcs] /\ c \in Actors /\ SessionOK /\ QueueOK /\ Nobody \notin Managers
      /\ joining \in [Clients \cup Managers -> SUBSET (Buffers \cup Managers)]
  BY ActorFacts DEF TypeOK, ControlOK
<1>1. ASSUME NEW k \in Kinds, Register(c, k) \/ UnRegister(c, k)
      PROVE  Joined'
  <2>1. UNCHANGED <<thread_run, mgr_thread, jobs, joining, pc>>
    BY <1>1 DEF Register, UnRegister, queueVars, controlVars
  <2> QED BY <2>1, SameJoins
<1>2. CASE RegisterCallbacks(c)
  <2>1. thread_run' = TRUE /\ UNCHANGED <<jobs, joining>>
    BY <1>2 DEF RegisterCallbacks, queueVars
  <2>2. CASE thread_run \/ mgr_thread # Nobody
    <3>1. UNCHANGED <<mgr_thread, pc>> /\ thread_run
      BY <1>2, <2>2 DEF RegisterCallbacks, Joined
    <3> QED BY <2>1, <3>1, SameJoins
  <2>3. CASE ~(thread_run \/ mgr_thread # Nobody)
    <3>1. PICK m \in Managers : Goto(m, "off", "run") /\ mgr_thread' = m
      BY <1>2, <2>3 DEF RegisterCallbacks
    <3>2. pc[m] = "off" /\ \A x \in Actors \ {m} : pc'[x] = pc[x]
      BY <1>0, <3>1, ActorFacts DEF Goto, At
    <3>3. ManagerJoined'
      BY <1>0, <2>1, <2>3, <3>1, <3>2, ActorFacts DEF Joined, ManagerJoined
    <3>4. WorkersJoined'
      BY <2>1, <3>1, <3>2, ActorFacts DEF Joined, WorkersJoined
    <3> QED BY <1>0, <2>1, <3>1, <3>3, <3>4 DEF Joined, NoJobsLeft
  <2> QED BY <2>2, <2>3
<1>3. CASE StopActivityMgrThread(c)
  <2>1. /\ pc[c] = "off" /\ pc'[c] = "joinManager" /\ joining'[c] = {mgr_thread} \ {Nobody}
        /\ \A x \in Actors \ {c} : pc'[x] = pc[x]
        /\ \A x \in (Clients \cup Managers) \ {c} : joining'[x] = joining[x]
        /\ thread_run' = FALSE /\ mgr_thread' = Nobody /\ jobs' = jobs
    BY <1>0, <1>3 DEF StopActivityMgrThread, Goto, At, queueVars
  <2>2. ManagerJoined'
    BY <1>0, <2>1, ActorFacts DEF Joined, ManagerJoined
  <2>3. WorkersJoined'
    BY <2>1, ActorFacts DEF Joined, WorkersJoined
  <2> QED BY <2>1, <2>2, <2>3 DEF Joined, NoJobsLeft
<1>4. CASE JoinManager(c)
  <2>1. /\ pc[c] = "joinManager" /\ pc'[c] = "joinRest" /\ joining'[c] = jobs /\ jobs' = {}
        /\ \A x \in Actors \ {c} : pc'[x] = pc[x] /\ Ended(joining[c])
        /\ \A x \in (Clients \cup Managers) \ {c} : joining'[x] = joining[x]
        /\ UNCHANGED <<thread_run, mgr_thread>>
    BY <1>0, <1>4 DEF JoinManager, Goto, At, sessionVars
  <2>2. ManagerJoined'
    BY <2>1, ActorFacts DEF Joined, ManagerJoined, Ended
  <2>3. WorkersJoined'
    BY <2>1, ActorFacts DEF Joined, WorkersJoined
  <2> QED BY <2>1, <2>2, <2>3 DEF Joined, NoJobsLeft
<1>5. CASE ResetActivitySwitch(c)
  <2>1. /\ pc[c] = "joinRest" /\ pc'[c] = "off" /\ jobs' = jobs
        /\ \A x \in Actors \ {c} : pc'[x] = pc[x] /\ Ended(joining[c])
        /\ \A x \in (Clients \cup Managers) \ {c} : joining'[x] = joining[x]
        /\ UNCHANGED <<thread_run, mgr_thread>>
    BY <1>0, <1>5 DEF ResetActivitySwitch, Goto, At, queueVars
  <2>2. ManagerJoined'
    BY <2>1, ActorFacts DEF Joined, ManagerJoined
  <2>3. WorkersJoined'
    BY <2>1, ActorFacts DEF Joined, WorkersJoined, Ended
  <2>4. NoJobsLeft'
    BY <1>0, <2>1, ActorFacts DEF Joined, NoJobsLeft, QueueOK
  <2> QED BY <2>1, <2>2, <2>3, <2>4 DEF Joined
<1> QED BY <1>1, <1>2, <1>3, <1>4, <1>5 DEF Session

LEMMA RunJoins ==
    ASSUME TypeOK, Joined, NEW m \in Managers, Run(m)
    PROVE  Joined'
<1>0. /\ pc \in [Actors -> Pcs] /\ m \in Actors /\ QueueOK
      /\ joining \in [Clients \cup Managers -> SUBSET (Buffers \cup Managers)]
  BY ActorFacts DEF TypeOK, ControlOK
<1>1. CASE Serve(m)
  <2>1. /\ \A x \in Actors : pc'[x] = IF x \in co THEN "working" ELSE pc[x]
        /\ jobs' = {b \in jobs : pc[b] # "off"} \cup co /\ co \subseteq Buffers
        /\ thread_run /\ UNCHANGED <<thread_run, mgr_thread, joining>>
    BY <1>0, <1>1 DEF Serve, sessionVars, QueueOK
  <2>2. \A x \in Clients \cup Managers : pc'[x] = pc[x]
    BY <2>1, ActorFacts
  <2>3. ManagerJoined'
    BY <2>1, <2>2 DEF Joined, ManagerJoined
  <2>4. WorkersJoined'
    BY <2>1, <2>2, ActorFacts DEF Joined, WorkersJoined
  <2> QED BY <2>1, <2>3, <2>4 DEF Joined, NoJobsLeft
<1>2. CASE Leave(m)
  <2>1. pc[m] = "run" /\ \A x \in Actors \ {m} : pc'[x] = pc[x]
    BY <1>0, <1>2 DEF Leave, Goto, At
  <2>2. UNCHANGED <<thread_run, mgr_thread, jobs, joining>>
    BY <1>2 DEF Leave, sessionVars, queueVars
  <2> QED BY <2>1, <2>2, ActorFacts, SameJoins
<1>3. CASE TakePending(m)
  <2>1. /\ pc[m] = "leave" /\ pc'[m] = "joinPending" /\ joining'[m] = jobs /\ jobs' = {}
        /\ \A x \in Actors \ {m} : pc'[x] = pc[x]
        /\ \A x \in (Clients \cup Managers) \ {m} : joining'[x] = joining[x]
        /\ UNCHANGED <<thread_run, mgr_thread>>
    BY <1>0, <1>3 DEF TakePending, Goto, At, sessionVars
  <2>2. ManagerJoined'
    BY <2>1, ActorFacts DEF Joined, ManagerJoined
  <2>3. WorkersJoined'
    BY <2>1, ActorFacts DEF Joined, WorkersJoined
  <2> QED BY <2>1, <2>2, <2>3 DEF Joined, NoJobsLeft
<1>4. CASE EndRun(m)
  <2>1. /\ pc[m] = "joinPending" /\ pc'[m] = "off" /\ jobs' = jobs
        /\ \A x \in Actors \ {m} : pc'[x] = pc[x] /\ Ended(joining[m])
        /\ \A x \in (Clients \cup Managers) \ {m} : joining'[x] = joining[x]
        /\ UNCHANGED <<thread_run, mgr_thread>>
    BY <1>0, <1>4 DEF EndRun, Goto, At, sessionVars, queueVars
  <2>2. ManagerJoined'
    BY <2>1, ActorFacts DEF Joined, ManagerJoined
  <2>3. WorkersJoined'
    BY <2>1, ActorFacts DEF Joined, WorkersJoined, Ended
  <2>4. NoJobsLeft'
    BY <1>0, <2>1, ActorFacts DEF Joined, NoJobsLeft, QueueOK
  <2> QED BY <2>1, <2>2, <2>3, <2>4 DEF Joined
<1> QED BY <1>1, <1>2, <1>3, <1>4 DEF Run

LEMMA JoinedNext ==
    ASSUME TypeOK, Joined, [Next]_vars
    PROVE  Joined'
<1>0. pc \in [Actors -> Pcs] /\ ControlOK /\ FrameOK /\ QueueOK
  BY DEF TypeOK, ControlOK
<1>1. CASE UNCHANGED vars
  BY <1>1, SameJoins DEF vars, sessionVars, queueVars, controlVars
<1>2. ASSUME NEW t \in Recorders, RecordCall(t)
      PROVE  Joined'
  <2>1. pc[t] = "off" /\ \A x \in Actors \ {t} : pc'[x] = pc[x]
    BY <1>0, <1>2, ActorFacts DEF RecordCall, Goto, At
  <2>2. UNCHANGED <<thread_run, mgr_thread, jobs, joining>>
    BY <1>2 DEF RecordCall, sessionVars, queueVars
  <2> QED BY <2>1, <2>2, ActorFacts, SameJoins
<1>3. ASSUME NEW b \in Buffers, Work(b)
      PROVE  Joined'
  <2>1. pc[b] = "working" /\ \A x \in Actors \ {b} : pc'[x] = pc[x]
    BY <1>0, <1>3, ActorFacts, CompleteType DEF Work, At
  <2>2. UNCHANGED <<thread_run, mgr_thread, jobs, joining>>
    BY <1>3 DEF Work, sessionVars, queueVars
  <2> QED BY <2>1, <2>2, ActorFacts, SameJoins
<1> QED BY <1>1, <1>2, <1>3, RecordJoins, FlushJoins, SessionJoins, RunJoins DEF Next

(***************************************************************************)
(* The invariant is inductive.                                             *)
(***************************************************************************)
LEMMA InitInv == Init => IInv
<1> SUFFICES ASSUME Init PROVE IInv
  OBVIOUS
<1>1. TypeOK
  BY TypeInit
<1>2. \A a \in Actors : pc[a] = "off" /\ frame[a] = NoFrame
  BY DEF Init
<1>3. Ownership
  <2>1. \A b \in Buffers : b # cur /\ ~(b <= made)
    BY DEF Init, Buffers, NoBuffer
  <2>2. co = {} /\ completed = {} /\ \A c \in Clients : held[c] = {}
    BY DEF Init
  <2> QED BY <1>2, <2>1, <2>2, ActorFacts DEF Ownership, Owned
<1>4. Locked /\ CurrentOK
  BY <1>2 DEF Locked, CurrentOK
<1>5. HeldOK
  BY <1>2, ActorFacts DEF HeldOK, Init
<1>6. QueueSignalled /\ FreshEmpty
  BY DEF Init, QueueSignalled, FreshEmpty, Empty
<1>7. DepthOK
  BY BoundAssumption DEF Init, DepthOK
<1>8. Joined
  <2>1. ManagerJoined /\ WorkersJoined
    BY <1>2, ActorFacts DEF ManagerJoined, WorkersJoined
  <2>2. NoJobsLeft /\ (thread_run <=> mgr_thread # Nobody)
    BY DEF NoJobsLeft, Init
  <2> QED BY <2>1, <2>2 DEF Joined
<1> QED BY <1>1, <1>3, <1>4, <1>5, <1>6, <1>7, <1>8 DEF IInv

LEMMA Inductive == IInv /\ [Next]_vars => IInv'
BY TypeNext, ControlNext, OwnershipNext, QueueNext, DepthNext, FreshNext, JoinedNext DEF IInv

\* IInv holds in every reachable state.
THEOREM BuffersInductive == Spec => []IInv
BY InitInv, Inductive, PTL DEF Spec

\* In every reachable state the variables have their types and no buffer is
\* filled beyond its size.
THEOREM BufferTypesCorrect == Spec => []TypeOK
<1>1. IInv => TypeOK
  BY DEF IInv
<1> QED BY <1>1, BuffersInductive, PTL

(***************************************************************************)
(* One owner.                                                              *)
(***************************************************************************)
LEMMA HomeFacts ==
    /\ In("current") = {cur} \ {NoBuffer} /\ In("queue") = co
    /\ In("worker") = {b \in Buffers : pc[b] = "working"} /\ In("client") = completed
    /\ \A c \in Clients : In(c) = held[c]
    /\ \A h \in Homes : \/ h \in {"current", "queue", "worker", "client"}
                        \/ h \in Clients
    /\ {"current", "queue", "worker", "client"} \subseteq Homes /\ Clients \subseteq Homes
<1>1. In("current") = {cur} \ {NoBuffer}
  BY DEF In
<1>2. In("queue") = co
  BY DEF In
<1>3. In("worker") = {b \in Buffers : pc[b] = "working"}
  BY DEF In
<1>4. In("client") = completed
  BY DEF In
<1>5. ASSUME NEW c \in Clients PROVE In(c) = held[c]
  <2>1. c # "current" /\ c # "queue" /\ c # "worker" /\ c # "client"
    BY ActorAssumption
  <2> QED BY <2>1 DEF In
<1> QED BY <1>1, <1>2, <1>3, <1>4, <1>5 DEF Homes

LEMMA OwnershipImpliesOneOwner == TypeOK /\ Ownership => OneOwner
<1> SUFFICES ASSUME TypeOK, Ownership PROVE OneOwner
  OBVIOUS
<1>1. /\ cur \in Buffers \cup {NoBuffer} /\ co \subseteq Buffers /\ completed \subseteq Buffers
      /\ held \in [Clients -> SUBSET Buffers] /\ made \in 0 .. MaxBuffers
      /\ NoBuffer \notin Buffers
  BY ActorFacts DEF TypeOK, QueueOK, FlushOK
<1>2. \A h \in Homes : In(h) \subseteq Buffers
  BY <1>1, HomeFacts
<1>3. \A b \in Buffers : b <= made <=> \E h \in Homes : b \in In(h)
  <2>1. ASSUME NEW b \in Buffers, b <= made PROVE \E h \in Homes : b \in In(h)
    BY <1>1, <2>1, HomeFacts DEF Ownership, Owned
  <2>2. ASSUME NEW b \in Buffers, NEW h \in Homes, b \in In(h) PROVE b <= made
    BY <1>1, <2>2, HomeFacts DEF Ownership, Owned
  <2> QED BY <2>1, <2>2
<1>4. 1 .. made = {b \in Buffers : b <= made}
  BY <1>1, BoundAssumption DEF Buffers
<1>5. UNION {In(h) : h \in Homes} = 1 .. made
  BY <1>2, <1>3, <1>4
<1>6. ASSUME NEW g \in Homes, NEW h \in Homes, g # h, NEW b \in In(g), b \in In(h)
      PROVE  FALSE
  <2>1. b \in Buffers /\ Owned(b)
    BY <1>2 DEF Ownership
  <2>2. CASE g \in Clients
    BY <1>1, <1>6, <2>1, <2>2, HomeFacts DEF Owned
  <2>3. CASE h \in Clients
    BY <1>1, <1>6, <2>1, <2>3, HomeFacts DEF Owned
  <2>4. CASE g \notin Clients /\ h \notin Clients
    BY <1>1, <1>6, <2>1, <2>4, HomeFacts DEF Owned
  <2> QED BY <2>2, <2>3, <2>4
<1> QED BY <1>5, <1>6 DEF OneOwner

\* Every buffer the client has provided is in exactly one place: current,
\* queued, with a work thread, with one FlushAll, or back with the client.
THEOREM OneOwnerCorrect == Spec => []OneOwner
<1>1. IInv => OneOwner
  BY OwnershipImpliesOneOwner DEF IInv
<1> QED BY <1>1, BuffersInductive, PTL

\* While a full buffer is queued, the manager thread's predicate holds.
THEOREM QueueSignalledCorrect == Spec => []QueueSignalled
<1>1. IInv => QueueSignalled
  BY DEF IInv
<1> QED BY <1>1, BuffersInductive, PTL

\* When the session is stopped and no client is inside a call, no manager and
\* no work thread is left, however the starts and stops interleaved.
THEOREM StoppedIsQuietCorrect == Spec => []StoppedIsQuiet
<1>1. IInv => StoppedIsQuiet
  <2> SUFFICES ASSUME IInv, ~thread_run, \A c \in Clients : pc[c] = "off"
               PROVE  Ended(Managers \cup Buffers)
    BY DEF StoppedIsQuiet
  <2>1. \A m \in Managers : pc[m] = "off"
    <3>1. mgr_thread = Nobody /\ Nobody \notin Managers
      BY ActorFacts DEF IInv, Joined
    <3> QED BY <3>1 DEF IInv, Joined, ManagerJoined
  <2>2. \A b \in Buffers : pc[b] = "off"
    <3>1. \A b \in Buffers : pc[b] # "off" => b \in jobs
      BY <2>1 DEF IInv, Joined, WorkersJoined
    <3>2. \A b \in jobs : pc[b] = "off"
      BY DEF IInv, Joined, NoJobsLeft
    <3> QED BY <3>1, <3>2
  <2> QED BY <2>1, <2>2 DEF Ended
<1> QED BY <1>1, BuffersInductive, PTL

(***************************************************************************)
(* The buffers implement module Delivery.                                  *)
(***************************************************************************)
LEMMA CompletedSteps ==
    ASSUME TypeOK, [Next]_vars
    PROVE  \/ completed' = completed
           \/ /\ UNCHANGED <<made, content>>
              /\ \E b \in Buffers : completed' = completed \cup {b}
<1>0. held \in [Clients -> SUBSET Buffers]
  BY DEF TypeOK, FlushOK
<1>1. CASE UNCHANGED vars
  BY <1>1 DEF vars
<1>2. CASE \E t \in Recorders : RecordCall(t)
  BY <1>2 DEF RecordCall
<1>3. CASE \E a \in Actors : Record(a)
  BY <1>3 DEF Record, LockBuffer, HandOver, RequestAnswered, RequestFailed, RequestNested, Write
<1>4. ASSUME NEW c \in Clients, FlushAll(c)
      PROVE  \/ completed' = completed
             \/ /\ UNCHANGED <<made, content>>
                /\ \E b \in Buffers : completed' = completed \cup {b}
  <2>1. CASE CompleteQueued(c) \/ CompleteLast(c)
    <3>1. /\ \E b \in held[c] : completed' = completed \cup {b}
          /\ UNCHANGED <<made, content>>
      BY <2>1 DEF CompleteQueued, CompleteLast, Complete, bufferVars
    <3> QED BY <1>0, <3>1
  <2> QED BY <1>4, <2>1 DEF FlushAll, TakeQueue, TakeWorkers, JoinWorkThreads, TakeCurrent,
             UnlockBuffer
<1>5. CASE \E c \in Clients : Session(c)
  BY <1>5 DEF Session, Register, UnRegister, RegisterCallbacks, StopActivityMgrThread,
     JoinManager, ResetActivitySwitch
<1>6. CASE \E m \in Managers : Run(m)
  BY <1>6 DEF Run, Serve, Leave, TakePending, EndRun
<1>7. CASE \E b \in Buffers : Work(b)
  BY <1>7 DEF Work, Complete, bufferVars
<1> QED BY <1>1, <1>2, <1>3, <1>4, <1>5, <1>6, <1>7 DEF Next

LEMMA DeliveryStep ==
    ASSUME IInv, [Next]_vars
    PROVE  [RecordsDelivered!Next]_<<Written, Delivered>>
<1>0. /\ TypeOK /\ CurrentOK /\ completed \subseteq Buffers /\ made \in Nat
      /\ content \in [Buffers -> [size : {0, Capacity}, valid : 0 .. Capacity,
                                  recs : SUBSET (1 .. MaxCalls)]]
      /\ frame \in [Actors -> [rec : 0 .. MaxCalls, size : Sizes \cup {0, 1},
                               back : {"off", "complete", "unlock"}]]
  BY DEF IInv, TypeOK, QueueOK, ContentOK, FrameOK
<1>1. CASE UNCHANGED content /\ UNCHANGED completed
  BY <1>1 DEF Written, Delivered
<1>2. ASSUME UNCHANGED content, NEW b \in Buffers, completed' = completed \cup {b}
      PROVE  [RecordsDelivered!Next]_<<Written, Delivered>>
  <2> DEFINE batch == content[b].recs \ Delivered
  <2>1. Written' = Written /\ Delivered' = Delivered \cup batch
    BY <1>2 DEF Written, Delivered
  <2>2. batch \in SUBSET (Written \ Delivered)
    BY DEF Written
  <2> QED BY <2>1, <2>2 DEF RecordsDelivered!Next, RecordsDelivered!Deliver
<1>3. ASSUME MakesBuffer, UNCHANGED completed
      PROVE  UNCHANGED <<Written, Delivered>>
  <2>1. PICK n \in {0, Capacity}, v \in 0 .. Capacity :
          /\ made + 1 \in Buffers
          /\ content' = [content EXCEPT ![made + 1] = [size |-> n, recs |-> {}, valid |-> v]]
    BY <1>3 DEF MakesBuffer
  <2>2. content[made + 1].recs = {}
    BY <1>0, <2>1 DEF IInv, FreshEmpty
  <2>3. \A b \in Buffers : content'[b].recs = content[b].recs
    BY <1>0, <2>1, <2>2
  <2> QED BY <1>0, <1>3, <2>3 DEF Written, Delivered
<1>4. ASSUME NEW a \in Actors, WritesRecord(a)
      PROVE  [RecordsDelivered!Next]_<<Written, Delivered>>
  <2> DEFINE r == frame[a].rec
  <2>1. /\ cur \in Buffers /\ cur \notin completed /\ completed' = completed
        /\ r \in 0 .. MaxCalls
    BY <1>0, <1>4 DEF WritesRecord, IInv, Ownership, Owned
  <2>2. \A b \in Buffers : content'[b].recs =
           IF b = cur /\ r # 0 THEN content[b].recs \cup {r} ELSE content[b].recs
    BY <1>0, <1>4, <2>1 DEF WritesRecord
  <2> HIDE DEF r
  <2>3. Delivered' = Delivered
    <3>1. \A b \in completed : content'[b].recs = content[b].recs
      BY <1>0, <2>1, <2>2
    <3> QED BY <2>1, <3>1 DEF Delivered
  <2>4. CASE r = 0 \/ r \in Written
    <3>1. Written' = Written
      BY <2>1, <2>2, <2>4 DEF Written
    <3> QED BY <2>3, <3>1
  <2>5. CASE r # 0 /\ r \notin Written
    <3>1. Written' = Written \cup {r}
      BY <2>1, <2>2, <2>5 DEF Written
    <3>2. r \in (1 .. MaxCalls) \ Written
      BY <2>1, <2>5, BoundAssumption
    <3> QED BY <2>3, <3>1, <3>2 DEF RecordsDelivered!Next, RecordsDelivered!Accept
  <2> QED BY <2>4, <2>5
<1> QED BY <1>0, <1>1, <1>2, <1>3, <1>4, ContentSteps, CompletedSteps

\* Records reach the client once they are written and as one final batch for
\* each buffer: no buffer is written after it was handed over.
THEOREM ImplementsDelivery == Spec => Implements
<1>1. Init => RecordsDelivered!Init
  <2> SUFFICES ASSUME Init PROVE Written = {} /\ Delivered = {}
    BY DEF RecordsDelivered!Init
  <2>1. completed = {} /\ \A b \in Buffers : content[b].recs = {}
    BY DEF Init, Empty
  <2> QED BY <2>1 DEF Written, Delivered
<1> QED BY <1>1, BuffersInductive, DeliveryStep, PTL DEF Spec, Implements, RecordsDelivered!Spec

=============================================================================
