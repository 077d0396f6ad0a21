--------------------------- MODULE HostCalls_proofs ---------------------------
(***************************************************************************)
(* What TLAPS proves of CallbackManager, for any threads, tables, bitmap   *)
(* and number of subscriptions: that a session is whole while nobody holds *)
(* subscriber_mutex_, that a subscriber's bits are those it set, that a    *)
(* list stays in its buffer and that a site entered after a session's end  *)
(* calls nobody; of Correlation, for any threads, levels, regions and      *)
(* bounds: that the records of calls, kernels and regions are joined by    *)
(* the ids their own launches were given; and of Memory, for any threads,  *)
(* addresses, sizes and bounds: that a record of memory is delivered once, *)
(* with the times of its own call and the size of its own block.           *)
(***************************************************************************)
EXTENDS CallbackManager, Correlation, Memory, FiniteSetTheorems, SequenceTheorems, TLAPS

(***************************************************************************)
(* The inductive invariant.  SubscriptionInv speaks of a session as others *)
(* see it between the steps of the thread inside subscriber_mutex_; the    *)
(* invariant says how far that thread is with it.                          *)
(***************************************************************************)

\* Where a thread is inside subscriber_mutex_, and where outside.
Inside == {"wipe", "publish", "running", "start", "detach", "clear", "stop", "off", "unlock"}
Outside == {"out", "check", "switch", "count", "query", "write", "called", "execute", "bit", "load", "invoke", "calling"}

Ops == {"none", "Subscribe", "Unsubscribe", "Finalize"} \cup SwitchOps \cup Queries
CallType == [op : Ops, on : BOOLEAN, h : Addrs \cup {0}, d : {"none"} \cup {n[1] : n \in Names}]

\* The types in full.
Typed ==
  /\ init \in BOOLEAN /\ born \in 0..MaxSubs /\ ptr \in 0..born /\ up \subseteq Services
  /\ mutex \in Threads \cup {Nobody}
  /\ pc \in [Threads -> Inside \cup Outside] /\ call \in [Threads -> CallType]
  /\ todo \in [Threads -> Seq(AllNames)] /\ drawn \in [Threads -> 0..MaxSubs]
  /\ room \in [Threads -> Nat] /\ out \in [Threads -> Seq(AllNames)] /\ number \in [Threads -> Nat]
  /\ local \in [Sites -> 0..MaxSubs] /\ seen \in [Sites -> 0..MaxSubs] /\ phase \in [Sites -> {"ENTER", "EXIT"}]
  /\ ended \in 0..MaxSubs
  /\ bits \subseteq AllNames /\ setBy \in [bits -> 1..MaxSubs]

\* A thread inside has the lock, and it alone.
Owned == \A t \in Threads : pc[t] \in Inside <=> mutex = t

\* The services, as far as they have been started and stopped one after the other.
Starting == {{}, {"report"}, {"report", "sync"}, {"report", "sync", "mstx"}, {"report", "sync", "mstx", "pool"}}
Stopping == {Services, {"sync", "report", "pool", "mgr"}, {"report", "pool", "mgr"}, {"pool", "mgr"}, {"mgr"}}

Present == init /\ ptr # 0 /\ up = Services
Absent == ~init /\ ptr = 0 /\ up = {}

\* What a call has ended once it is about to return.
Ends(t) == call[t].op = "Finalize" \/ (call[t].op = "Unsubscribe" /\ call[t].on)

\* The session at each place of the thread inside.
Stands(t) ==
  /\ pc[t] \in {"wipe", "publish"} => Absent /\ born < MaxSubs
  /\ pc[t] = "running" => ~init /\ ptr # 0 /\ up = {}
  /\ pc[t] = "start" => init /\ ptr # 0 /\ up \in Starting
  /\ pc[t] \in {"wipe", "publish", "running", "start"} => ~Ends(t)
  /\ pc[t] = "detach" => Present
  /\ pc[t] = "clear" => init /\ ptr = 0 /\ up = Services
  /\ pc[t] = "stop" => init /\ ptr = 0 /\ up \in Stopping
  /\ pc[t] = "off" => init /\ ptr = 0 /\ up = {}
  /\ pc[t] = "unlock" => Present \/ Absent
  /\ pc[t] = "unlock" /\ Ends(t) => Absent
SessionAt == (mutex = Nobody => Present \/ Absent) /\ \A t \in Threads : Stands(t)

\* The bits from the clearing on: a name that is on was set by the subscription
\* that is there, or by a call that had checked the handle of an earlier one.
Publishing == \E t \in Threads : pc[t] = "publish"
Bits ==
  /\ \A t \in Threads : pc[t] = "check" => call[t].h \in Addrs
  /\ \A t \in Threads : pc[t] = "switch" => drawn[t] # 0 /\ todo[t] # <<>>
  /\ ptr # 0 \/ Publishing => \A n \in bits : setBy[n] = ptr \/ n \in stale

\* A list is empty until it is written.
Lists == \A t \in Threads : (pc[t] # "write" => out[t] = <<>>) /\ Len(out[t]) <= room[t]

\* The subscription that is there is later than all that were ended, and a site calls
\* only one that was there after it was entered.
Later ==
  /\ ended <= born /\ (ptr # 0 => ended < ptr)
  /\ \A s \in Sites : seen[s] <= ended /\ (pc[s] \in {"invoke", "calling"} => seen[s] < local[s])

SInv == Typed /\ Owned /\ SessionAt /\ Bits /\ Lists /\ Later

----------------------------------------------------------------------------
(* Facts about names and services *)

LEMMA NamesOfTyped == \A d : NamesOf(d) \in Seq(AllNames)
<1> SUFFICES ASSUME NEW d PROVE NamesOf(d) \in Seq(AllNames)
  OBVIOUS
<1> DEFINE n == GetDomainCallbackCount(d)
<1>1. n \in 0..MapBits /\ (n # 0 => d \in Domains) /\ MapBits \in Nat
  BY CallbackAssumption DEF GetDomainCallbackCount, Domains
<1>2. \A i \in 1..(n - 1) : <<d, i>> \in AllNames
  <2> SUFFICES ASSUME NEW i \in 1..(n - 1) PROVE <<d, i>> \in AllNames
    OBVIOUS
  <2>1. d \in Domains /\ i \in 0..(MapBits - 1)
    BY <1>1
  <2> QED BY <2>1 DEF AllNames
<1>3. NamesOf(d) = [i \in 1..(n - 1) |-> <<d, i>>]
  BY DEF NamesOf
<1> HIDE DEF n
<1>4. CASE n = 0
  <2>1. 1..(n - 1) = 1..0
    BY <1>4
  <2>2. NamesOf(d) \in [1..0 -> AllNames]
    BY <1>2, <1>3, <2>1
  <2> QED BY <2>2
<1>5. CASE n # 0
  <2>1. n - 1 \in Nat
    BY <1>1, <1>5
  <2>2. NamesOf(d) \in [1..(n - 1) -> AllNames]
    BY <1>2, <1>3
  <2> QED BY <2>1, <2>2
<1> QED BY <1>4, <1>5

LEMMA VisitsTyped ==
    ASSUME NEW op \in SwitchOps \cup Queries, NEW name \in Names
    PROVE  Visits(op, name) \in Seq(AllNames)
<1>1. IsValidCBDomain(name[1]) /\ IsValidCBId(name[2]) => name \in AllNames
  <2> SUFFICES ASSUME name[1] \in Domains, name[2] < MapBits PROVE name \in AllNames
    BY DEF IsValidCBDomain, IsValidCBId
  <2>1. name = <<name[1], name[2]>> /\ name[2] \in 0..(MapBits - 1)
    BY CallbackAssumption
  <2> QED BY <2>1 DEF AllNames
<1>2. CASE op \in {"EnableCallback", "GetCallbackState"}
  BY <1>1, <1>2 DEF Visits
<1>3. CASE op \in {"EnableDomain", "GetEnabledCallbacks"}
  BY <1>3, NamesOfTyped DEF Visits
<1>4. CASE op = "EnableAllDomains"
  <2>1. NamesOf("RUNTIME") \in Seq(AllNames) /\ NamesOf("HCCL") \in Seq(AllNames)
    BY NamesOfTyped
  <2>2. Visits(op, name) = NamesOf("RUNTIME") \o NamesOf("HCCL")
    BY <1>4 DEF Visits
  <2> QED BY <2>1, <2>2
<1> QED BY <1>2, <1>3, <1>4 DEF SwitchOps, Queries

\* The next service to start, and the next to stop.
LEMMA OneMore ==
    ASSUME NEW S, NEW T, NEW x, IsFiniteSet(S), x \notin S, T = S \cup {x}
    PROVE  IsFiniteSet(T) /\ Cardinality(T) = Cardinality(S) + 1
BY FS_AddElement

LEMMA ServiceCounts ==
    /\ Cardinality({}) = 0
    /\ Cardinality({"report"}) = 1 /\ Cardinality({"report", "sync"}) = 2 /\ Cardinality({"report", "sync", "mstx"}) = 3
    /\ Cardinality({"report", "sync", "mstx", "pool"}) = 4
    /\ Cardinality({"mgr"}) = 1 /\ Cardinality({"pool", "mgr"}) = 2 /\ Cardinality({"report", "pool", "mgr"}) = 3
    /\ Cardinality({"sync", "report", "pool", "mgr"}) = 4 /\ Cardinality(Services) = 5
<1>0. Cardinality({}) = 0 /\ IsFiniteSet({})
  BY FS_EmptySet
<1>1. Cardinality({"report"}) = 1 /\ IsFiniteSet({"report"}) /\ Cardinality({"mgr"}) = 1 /\ IsFiniteSet({"mgr"})
  BY FS_Singleton
<1>2. IsFiniteSet({"report", "sync"}) /\ Cardinality({"report", "sync"}) = 2
  <2> DEFINE S == {"report"}
             T == {"report", "sync"}
  <2>1. "sync" \notin S /\ T = S \cup {"sync"}
    OBVIOUS
  <2>2. IsFiniteSet(S) /\ Cardinality(S) = 1
    BY <1>1
  <2> HIDE DEF S, T
  <2>3. IsFiniteSet(T) /\ Cardinality(T) = 2
    BY <2>1, <2>2, OneMore
  <2> QED BY <2>3 DEF T
<1>3. IsFiniteSet({"report", "sync", "mstx"}) /\ Cardinality({"report", "sync", "mstx"}) = 3
  <2> DEFINE S == {"report", "sync"}
             T == {"report", "sync", "mstx"}
  <2>1. "mstx" \notin S /\ T = S \cup {"mstx"}
    OBVIOUS
  <2>2. IsFiniteSet(S) /\ Cardinality(S) = 2
    BY <1>2
  <2> HIDE DEF S, T
  <2>3. IsFiniteSet(T) /\ Cardinality(T) = 3
    BY <2>1, <2>2, OneMore
  <2> QED BY <2>3 DEF T
<1>4. IsFiniteSet({"report", "sync", "mstx", "pool"}) /\ Cardinality({"report", "sync", "mstx", "pool"}) = 4
  <2> DEFINE S == {"report", "sync", "mstx"}
             T == {"report", "sync", "mstx", "pool"}
  <2>1. "pool" \notin S /\ T = S \cup {"pool"}
    OBVIOUS
  <2>2. IsFiniteSet(S) /\ Cardinality(S) = 3
    BY <1>3
  <2> HIDE DEF S, T
  <2>3. IsFiniteSet(T) /\ Cardinality(T) = 4
    BY <2>1, <2>2, OneMore
  <2> QED BY <2>3 DEF T
<1>5. IsFiniteSet({"pool", "mgr"}) /\ Cardinality({"pool", "mgr"}) = 2
  <2> DEFINE S == {"mgr"}
             T == {"pool", "mgr"}
  <2>1. "pool" \notin S /\ T = S \cup {"pool"}
    OBVIOUS
  <2>2. IsFiniteSet(S) /\ Cardinality(S) = 1
    BY <1>1
  <2> HIDE DEF S, T
  <2>3. IsFiniteSet(T) /\ Cardinality(T) = 2
    BY <2>1, <2>2, OneMore
  <2> QED BY <2>3 DEF T
<1>6. IsFiniteSet({"report", "pool", "mgr"}) /\ Cardinality({"report", "pool", "mgr"}) = 3
  <2> DEFINE S == {"pool", "mgr"}
             T == {"report", "pool", "mgr"}
  <2>1. "report" \notin S /\ T = S \cup {"report"}
    OBVIOUS
  <2>2. IsFiniteSet(S) /\ Cardinality(S) = 2
    BY <1>5
  <2> HIDE DEF S, T
  <2>3. IsFiniteSet(T) /\ Cardinality(T) = 3
    BY <2>1, <2>2, OneMore
  <2> QED BY <2>3 DEF T
<1>7. IsFiniteSet({"sync", "report", "pool", "mgr"}) /\ Cardinality({"sync", "report", "pool", "mgr"}) = 4
  <2> DEFINE S == {"report", "pool", "mgr"}
             T == {"sync", "report", "pool", "mgr"}
  <2>1. "sync" \notin S /\ T = S \cup {"sync"}
    OBVIOUS
  <2>2. IsFiniteSet(S) /\ Cardinality(S) = 3
    BY <1>6
  <2> HIDE DEF S, T
  <2>3. IsFiniteSet(T) /\ Cardinality(T) = 4
    BY <2>1, <2>2, OneMore
  <2> QED BY <2>3 DEF T
<1>8. IsFiniteSet({"report", "sync", "mstx", "pool", "mgr"}) /\ Cardinality({"report", "sync", "mstx", "pool", "mgr"}) = 5
  <2> DEFINE S == {"report", "sync", "mstx", "pool"}
             T == {"report", "sync", "mstx", "pool", "mgr"}
  <2>1. "mgr" \notin S /\ T = S \cup {"mgr"}
    OBVIOUS
  <2>2. IsFiniteSet(S) /\ Cardinality(S) = 4
    BY <1>4
  <2> HIDE DEF S, T
  <2>3. IsFiniteSet(T) /\ Cardinality(T) = 5
    BY <2>1, <2>2, OneMore
  <2> QED BY <2>3 DEF T
<1> QED BY <1>0, <1>1, <1>2, <1>3, <1>4, <1>5, <1>6, <1>7, <1>8 DEF Services

LEMMA NextStart ==
    ASSUME up \in Starting
    PROVE  LET next == up \cup {Starts[Cardinality(up) + 1]} IN next \in Starting \/ next = Services
<1>1. CASE up = {}
  BY <1>1, ServiceCounts DEF Starting, Starts
<1>2. CASE up = {"report"}
  <2>1. Cardinality(up) = 1
    BY <1>2, ServiceCounts
  <2> QED BY <1>2, <2>1 DEF Starting, Starts
<1>3. CASE up = {"report", "sync"}
  <2>1. Cardinality(up) = 2
    BY <1>3, ServiceCounts
  <2> QED BY <1>3, <2>1 DEF Starting, Starts
<1>4. CASE up = {"report", "sync", "mstx"}
  <2>1. Cardinality(up) = 3
    BY <1>4, ServiceCounts
  <2> QED BY <1>4, <2>1 DEF Starting, Starts
<1>5. CASE up = {"report", "sync", "mstx", "pool"}
  <2>1. Cardinality(up) = 4
    BY <1>5, ServiceCounts
  <2> QED BY <1>5, <2>1 DEF Starting, Starts, Services
<1> QED BY <1>1, <1>2, <1>3, <1>4, <1>5 DEF Starting

LEMMA NextStop ==
    ASSUME up \in Stopping
    PROVE  LET next == up \ {Stops[Cardinality(Services) - Cardinality(up) + 1]} IN next \in Stopping \/ next = {}
<1>0. Cardinality(Services) = 5
  BY ServiceCounts
<1>1. CASE up = Services
  <2>1. up \ {Stops[Cardinality(Services) - Cardinality(up) + 1]} = Services \ {"mstx"}
    BY <1>0, <1>1 DEF Stops
  <2> QED BY <2>1 DEF Stopping, Services
<1>2. CASE up = {"sync", "report", "pool", "mgr"}
  <2>1. Cardinality(up) = 4
    BY <1>2, ServiceCounts
  <2> QED BY <1>0, <1>2, <2>1 DEF Stopping, Stops
<1>3. CASE up = {"report", "pool", "mgr"}
  <2>1. Cardinality(up) = 3
    BY <1>3, ServiceCounts
  <2> QED BY <1>0, <1>3, <2>1 DEF Stopping, Stops
<1>4. CASE up = {"pool", "mgr"}
  <2>1. Cardinality(up) = 2
    BY <1>4, ServiceCounts
  <2> QED BY <1>0, <1>4, <2>1 DEF Stopping, Stops
<1>5. CASE up = {"mgr"}
  <2>1. Cardinality(up) = 1
    BY <1>5, ServiceCounts
  <2> QED BY <1>0, <1>5, <2>1 DEF Stopping, Stops
<1> QED BY <1>1, <1>2, <1>3, <1>4, <1>5 DEF Stopping

----------------------------------------------------------------------------
(* What a step leaves as it is *)

\* A thread that is not inside and does not get there leaves the session alone.
LEMMA OutsideKeeps ==
    ASSUME SInv, UNCHANGED <<init, ptr, mutex, up, born>>,
           \A u \in Threads : \/ pc[u] \notin Inside /\ pc'[u] \notin Inside
                              \/ pc'[u] = pc[u] /\ call'[u] = call[u]
    PROVE  Owned' /\ SessionAt'
<1> USE DEF SInv
<1>1. Owned'
  BY DEF Owned, Threads
<1>2. SessionAt'
  <2> SUFFICES ASSUME NEW u \in Threads PROVE Stands(u)'
    BY DEF SessionAt, Present, Absent, Threads
  <2>1. CASE pc'[u] \notin Inside
    BY <2>1 DEF Inside, Stands
  <2>2. CASE pc'[u] = pc[u] /\ call'[u] = call[u]
    BY <2>2 DEF SessionAt, Stands, Ends, Present, Absent
  <2> QED BY <2>1, <2>2
<1> QED BY <1>1, <1>2

\* The thread inside is alone there.
LEMMA Alone ==
    ASSUME SInv, NEW t \in Threads, pc[t] \in Inside
    PROVE  mutex = t /\ \A u \in Threads \ {t} : pc[u] \notin Inside
BY DEF SInv, Owned

LEMMA LeaveTyped ==
    ASSUME Typed, NEW t \in Threads, Leave(t)
    PROVE  /\ pc' \in [Threads -> Inside \cup Outside] /\ call' \in [Threads -> CallType] /\ todo' \in [Threads -> Seq(AllNames)]
           /\ \A u \in Threads \ {t} : pc'[u] = pc[u] /\ call'[u] = call[u] /\ todo'[u] = todo[u]
           /\ pc'[t] \in {"called", "out"}
<1>1. NoCall \in CallType /\ <<>> \in Seq(AllNames)
  BY DEF NoCall, CallType, Ops
<1>2. call' = [call EXCEPT ![t] = NoCall] /\ todo' = [todo EXCEPT ![t] = <<>>]
  BY DEF Leave
<1>3. pc' = [pc EXCEPT ![t] = "called"] \/ pc' = [pc EXCEPT ![t] = "out"]
  BY DEF Leave, Goto
<1> HIDE DEF NoCall
<1> QED BY <1>1, <1>2, <1>3 DEF Typed, Outside

----------------------------------------------------------------------------
(* The initial states, and one lemma for each action *)

LEMMA InitHolds == Init => SInv
<1> SUFFICES ASSUME Init PROVE SInv
  OBVIOUS
<1> USE DEF Init
<1>1. Typed
  <2>1. NoCall \in CallType /\ <<>> \in Seq(AllNames)
    BY DEF NoCall, CallType, Ops
  <2>2. pc \in [Threads -> Inside \cup Outside]
    BY DEF Outside
  <2>3. call \in [Threads -> CallType]
    <3> HIDE DEF NoCall, CallType
    <3> QED BY <2>1
  <2>4. todo \in [Threads -> Seq(AllNames)] /\ out \in [Threads -> Seq(AllNames)]
    BY <2>1
  <2>5. setBy \in [bits -> 1..MaxSubs]
    <3> DEFINE f == [n \in {} |-> 0]
    <3>1. f \in [{} -> 1..MaxSubs]
      OBVIOUS
    <3>2. setBy = f /\ bits = {}
      OBVIOUS
    <3> HIDE DEF Init, f
    <3> QED BY <3>1, <3>2
  <2>6. /\ drawn \in [Threads -> 0..MaxSubs] /\ room \in [Threads -> Nat] /\ number \in [Threads -> Nat]
        /\ local \in [Sites -> 0..MaxSubs] /\ seen \in [Sites -> 0..MaxSubs] /\ phase \in [Sites -> {"ENTER", "EXIT"}]
    BY CallbackAssumption
  <2>7. born \in 0..MaxSubs /\ ptr \in 0..born /\ ended \in 0..MaxSubs
    BY CallbackAssumption
  <2>8. init \in BOOLEAN /\ up \subseteq Services /\ mutex \in Threads \cup {Nobody} /\ bits \subseteq AllNames
    BY Zenon
  <2> HIDE DEF Init
  <2> QED BY <2>2, <2>3, <2>4, <2>5, <2>6, <2>7, <2>8 DEF Typed
<1>2. Owned /\ SessionAt
  BY CallbackAssumption DEF Owned, SessionAt, Stands, Inside, Absent, Threads
<1>3. Bits /\ Lists /\ Later
  BY DEF Bits, Publishing, Lists, Later, Threads
<1> QED BY <1>1, <1>2, <1>3 DEF SInv

LEMMA InitCheckKeeps == SInv /\ (\E t \in Threads : InitCheck(t)) => SInv'
<1> SUFFICES ASSUME SInv, NEW t \in Threads, InitCheck(t) PROVE SInv'
  OBVIOUS
<1> USE CallbackAssumption DEF SInv, InitCheck, Lock, Goto, Threads, ctlVars, listVars, siteVars, ghostVars, NoCall
<1>1. Typed'
  BY DEF Typed, Inside, Outside, CallType, Ops
<1>2. Owned'
  BY DEF Typed, Owned, Inside, Outside
<1>3. SessionAt'
  BY DEF Typed, Owned, SessionAt, Stands, Inside, Outside, Present, Absent, Ends
<1>4. Bits'
  BY DEF Typed, Bits, Publishing
<1>5. Lists'
  BY DEF Typed, Lists
<1>6. Later'
  BY DEF Typed, Later
<1> QED BY <1>1, <1>2, <1>3, <1>4, <1>5, <1>6

LEMMA InitClearsKeeps == SInv /\ (\E t \in Threads : InitClears(t)) => SInv'
<1> SUFFICES ASSUME SInv, NEW t \in Threads, InitClears(t) PROVE SInv'
  OBVIOUS
<1> USE CallbackAssumption DEF SInv, InitClears, ClearBitmap, Goto, Threads, ctlVars, listVars, siteVars, ghostVars, NoCall
<1>1. Typed'
  BY DEF Typed, Inside, Outside, CallType, Ops
<1>2. Owned'
  BY DEF Typed, Owned, Inside, Outside
<1>3. SessionAt'
  BY DEF Typed, Owned, SessionAt, Stands, Inside, Outside, Present, Absent, Ends
<1>4. Bits'
  BY DEF Typed, Bits, Publishing
<1>5. Lists'
  BY DEF Typed, Lists
<1>6. Later'
  BY DEF Typed, Later
<1> QED BY <1>1, <1>2, <1>3, <1>4, <1>5, <1>6

LEMMA InitPublishesKeeps == SInv /\ (\E t \in Threads : InitPublishes(t)) => SInv'
<1> SUFFICES ASSUME SInv, NEW t \in Threads, InitPublishes(t) PROVE SInv'
  OBVIOUS
<1> USE CallbackAssumption DEF SInv, InitPublishes, Goto, Threads, ctlVars, listVars, siteVars, ghostVars, NoCall
<1>1. Typed'
  <2>1. born' \in 0..MaxSubs /\ ptr' \in 0..born'
    BY DEF Typed, SessionAt, Stands
  <2> QED BY <2>1 DEF Typed, Outside, Inside
<1>2. Owned'
  BY DEF Typed, Owned, Inside, Outside
<1>3. SessionAt'
  BY DEF Typed, Owned, SessionAt, Stands, Inside, Outside, Present, Absent, Ends
<1>4. Bits'
  <2>1. \A n \in bits : setBy[n] # 0
    BY DEF Typed
  <2>2. \A n \in bits : n \in stale
    BY <2>1 DEF Bits, Publishing, SessionAt, Stands, Absent
  <2>3. \A u \in Threads : pc'[u] \in {"check", "switch"} => pc[u] = pc'[u]
    BY DEF Typed
  <2> QED BY <2>2, <2>3 DEF Bits, Publishing
<1>5. Lists'
  BY DEF Typed, Lists
<1>6. Later'
  BY DEF Typed, Later
<1> QED BY <1>1, <1>2, <1>3, <1>4, <1>5, <1>6

LEMMA InitRunsKeeps == SInv /\ (\E t \in Threads : InitRuns(t)) => SInv'
<1> SUFFICES ASSUME SInv, NEW t \in Threads, InitRuns(t) PROVE SInv'
  OBVIOUS
<1> USE CallbackAssumption DEF SInv, InitRuns, Goto, Threads, ctlVars, listVars, siteVars, ghostVars, NoCall
<1>1. Typed'
  BY DEF Typed, Inside, Outside, CallType, Ops
<1>2. Owned'
  BY DEF Typed, Owned, Inside, Outside
<1>3. SessionAt'
  <2>1. \A u \in Threads \ {t} : pc[u] \notin Inside /\ pc'[u] = pc[u]
    BY Alone DEF Typed, Inside
  <2>2. mutex' = t /\ pc'[t] = "start" /\ init' /\ ptr' # 0 /\ up' = {}
    BY Alone DEF Typed, Inside, SessionAt, Stands, Ends
  <2>3. t # Nobody /\ up' \in Starting
    BY <2>2 DEF Starting
  <2> QED BY <2>1, <2>2, <2>3 DEF SessionAt, Stands, Inside, Ends
<1>4. Bits'
  BY DEF Typed, Bits, Publishing
<1>5. Lists'
  BY DEF Typed, Lists
<1>6. Later'
  BY DEF Typed, Later
<1> QED BY <1>1, <1>2, <1>3, <1>4, <1>5, <1>6

LEMMA InitStartsKeeps == SInv /\ (\E t \in Threads : InitStarts(t)) => SInv'
<1> SUFFICES ASSUME SInv, NEW t \in Threads, InitStarts(t) PROVE SInv'
  OBVIOUS
<1> USE CallbackAssumption DEF SInv, InitStarts, Goto, Threads, ctlVars, listVars, siteVars, ghostVars, NoCall
<1>1. Typed'
  <2>1. up' \in Starting \/ up' = Services
    BY NextStart DEF SessionAt, Stands
  <2>2. up' \subseteq Services
    BY <2>1 DEF Starting, Services
  <2> QED BY <2>2 DEF Typed, Inside
<1>2. Owned'
  BY DEF Typed, Owned, Inside, Outside
<1>3. SessionAt'
  <2>1. \A u \in Threads \ {t} : pc[u] \notin Inside /\ pc'[u] = pc[u]
    BY Alone DEF Typed, Inside
  <2>2. mutex' = t /\ init' /\ ptr' # 0 /\ t # Nobody /\ ~Ends(t)
    BY Alone DEF Typed, Inside, SessionAt, Stands, Ends
  <2>3. up' \in Starting \/ up' = Services
    BY NextStart DEF SessionAt, Stands
  <2>4. pc'[t] = (IF up' = Services THEN "unlock" ELSE "start") /\ call'[t] = call[t]
    BY DEF Typed
  <2> HIDE DEF InitStarts
  <2>5. (pc'[t] = "unlock" /\ up' = Services) \/ (pc'[t] = "start" /\ up' \in Starting)
    BY <2>3, <2>4
  <2> QED BY <2>1, <2>2, <2>4, <2>5 DEF SessionAt, Stands, Inside, Present, Absent, Ends
<1>4. Bits'
  BY DEF Typed, Bits, Publishing
<1>5. Lists'
  BY DEF Typed, Lists
<1>6. Later'
  BY DEF Typed, Later
<1> QED BY <1>1, <1>2, <1>3, <1>4, <1>5, <1>6

LEMMA ReturnKeeps == SInv /\ (\E t \in Threads : Return(t)) => SInv'
<1> SUFFICES ASSUME SInv, NEW t \in Threads, Return(t) PROVE SInv'
  OBVIOUS
<1> USE CallbackAssumption DEF SInv, Return, Unlock, Leave, Goto, Threads, ctlVars, listVars, siteVars, ghostVars, NoCall
<1>1. Typed'
  <2>1. Leave(t)
    OBVIOUS
  <2>2. mutex' \in Threads \cup {Nobody} /\ ended' \in 0..MaxSubs
    BY DEF Typed
  <2> HIDE DEF Leave
  <2> QED BY <2>1, <2>2, LeaveTyped DEF Typed
<1>2. Owned'
  BY DEF Typed, Owned, Inside, Outside
<1>3. SessionAt'
  BY DEF Typed, Owned, SessionAt, Stands, Inside, Outside, Present, Absent, Ends
<1>4. Bits'
  BY DEF Typed, Bits, Publishing
<1>5. Lists'
  BY DEF Typed, Lists
<1>6. Later'
  <2>1. ended <= ended' /\ ended' <= born /\ (ptr # 0 => ended' < ptr)
    BY DEF Typed, Later, SessionAt, Stands, Absent, Ends
  <2>2. \A u \in Threads : pc'[u] \in {"invoke", "calling"} => pc[u] = pc'[u]
    BY DEF Typed
  <2>3. \A s \in Sites : seen[s] \in Nat /\ local[s] \in Nat
    BY DEF Typed
  <2> QED BY <2>1, <2>2, <2>3 DEF Typed, Later
<1> QED BY <1>1, <1>2, <1>3, <1>4, <1>5, <1>6

LEMMA UnInitKeeps == SInv /\ (\E t \in Threads : UnInit(t)) => SInv'
<1> SUFFICES ASSUME SInv, NEW t \in Threads, UnInit(t) PROVE SInv'
  OBVIOUS
<1> USE CallbackAssumption DEF SInv, UnInit, Lock, Goto, Threads, ctlVars, listVars, siteVars, ghostVars, NoCall
<1>1. Typed'
  BY DEF Typed, Inside, Outside, CallType, Ops
<1>2. Owned'
  BY DEF Typed, Owned, Inside, Outside
<1>3. SessionAt'
  <2>1. mutex = Nobody /\ (Present \/ Absent) /\ mutex' = t /\ t # Nobody
    BY DEF SessionAt
  <2>2. \A u \in Threads \ {t} : pc[u] \notin Inside /\ pc'[u] = pc[u]
    BY <2>1 DEF Typed, Owned
  <2>3. PICK h \in Addrs : /\ call'[t] = [op |-> "Unsubscribe", on |-> ~init \/ (init /\ Handle = h), h |-> h, d |-> "none"]
                           /\ pc'[t] = IF init /\ Handle = h THEN "detach" ELSE "unlock"
    BY DEF Typed
  <2>4. UNCHANGED <<init, ptr, up, born>>
    OBVIOUS
  <2> HIDE DEF UnInit
  <2>5. (pc'[t] = "detach" /\ init) \/ (pc'[t] = "unlock" /\ (call'[t].on => ~init) /\ call'[t].op = "Unsubscribe")
    <3>1. CASE init /\ Handle = h
      BY <2>3, <3>1
    <3>2. CASE ~(init /\ Handle = h)
      <4>1. call'[t].on = (~init \/ (init /\ Handle = h)) /\ call'[t].op = "Unsubscribe" /\ pc'[t] = "unlock"
        BY <2>3, <3>2
      <4> QED BY <3>2, <4>1, Zenon
    <3> QED BY <3>1, <3>2
  <2> QED BY <2>1, <2>2, <2>4, <2>5 DEF SessionAt, Stands, Inside, Present, Absent, Ends
<1>4. Bits'
  BY DEF Typed, Bits, Publishing
<1>5. Lists'
  BY DEF Typed, Lists
<1>6. Later'
  BY DEF Typed, Later
<1> QED BY <1>1, <1>2, <1>3, <1>4, <1>5, <1>6

LEMMA FinalizeKeeps == SInv /\ (\E t \in Threads : Finalize(t)) => SInv'
<1> SUFFICES ASSUME SInv, NEW t \in Threads, Finalize(t) PROVE SInv'
  OBVIOUS
<1> USE CallbackAssumption DEF SInv, Finalize, Lock, AfterDetach, Goto, Threads, ctlVars, listVars, siteVars, ghostVars, NoCall
<1>1. Typed'
  BY DEF Typed, Inside, Outside, CallType, Ops
<1>2. Owned'
  BY DEF Typed, Owned, Inside, Outside
<1>3. SessionAt'
  BY DEF Typed, Owned, SessionAt, Stands, Inside, Outside, Present, Absent, Ends
<1>4. Bits'
  BY DEF Typed, Bits, Publishing
<1>5. Lists'
  BY DEF Typed, Lists
<1>6. Later'
  BY DEF Typed, Later
<1> QED BY <1>1, <1>2, <1>3, <1>4, <1>5, <1>6

LEMMA TeardownDetachesKeeps == SInv /\ (\E t \in Threads : TeardownDetaches(t)) => SInv'
<1> SUFFICES ASSUME SInv, NEW t \in Threads, TeardownDetaches(t) PROVE SInv'
  OBVIOUS
<1> USE CallbackAssumption DEF SInv, TeardownDetaches, Goto, Threads, ctlVars, listVars, siteVars, ghostVars, NoCall
<1>1. Typed'
  <2>1. ptr' \in 0..born'
    BY DEF Typed
  <2>2. pc' \in [Threads -> Inside \cup Outside]
    BY DEF Typed, Inside
  <2> QED BY <2>1, <2>2 DEF Typed
<1>2. Owned'
  BY DEF Typed, Owned, Inside, Outside
<1>3. SessionAt'
  BY DEF Typed, Owned, SessionAt, Stands, Inside, Outside, Present, Absent, Ends
<1>4. Bits'
  <2>1. \A u \in Threads : pc'[u] \in {"check", "switch", "publish"} => pc[u] = pc'[u]
    BY DEF Typed
  <2>2. \A u \in Threads : pc[u] # "publish"
    BY Alone DEF Inside
  <2> QED BY <2>1, <2>2 DEF Bits, Publishing
<1>5. Lists'
  BY DEF Typed, Lists
<1>6. Later'
  BY DEF Typed, Later
<1> QED BY <1>1, <1>2, <1>3, <1>4, <1>5, <1>6

LEMMA TeardownClearsKeeps == SInv /\ (\E t \in Threads : TeardownClears(t)) => SInv'
<1> SUFFICES ASSUME SInv, NEW t \in Threads, TeardownClears(t) PROVE SInv'
  OBVIOUS
<1> USE CallbackAssumption DEF SInv, TeardownClears, Goto, Threads, ctlVars, listVars, siteVars, ghostVars, NoCall
<1>1. Typed'
  BY DEF Typed, Inside, Outside, CallType, Ops
<1>2. Owned'
  BY DEF Typed, Owned, Inside, Outside
<1>3. SessionAt'
  <2>1. \A u \in Threads \ {t} : pc[u] \notin Inside /\ pc'[u] = pc[u]
    BY Alone DEF Typed, Inside
  <2>2. mutex' = t /\ pc'[t] = "stop" /\ init' /\ ptr' = 0 /\ up' = Services /\ t # Nobody
    BY Alone DEF Typed, Inside, SessionAt, Stands
  <2>3. up' \in Stopping
    BY <2>2 DEF Stopping
  <2> QED BY <2>1, <2>2, <2>3 DEF SessionAt, Stands, Inside
<1>4. Bits'
  BY DEF Typed, Bits, Publishing
<1>5. Lists'
  BY DEF Typed, Lists
<1>6. Later'
  BY DEF Typed, Later
<1> QED BY <1>1, <1>2, <1>3, <1>4, <1>5, <1>6

LEMMA TeardownStopsKeeps == SInv /\ (\E t \in Threads : TeardownStops(t)) => SInv'
<1> SUFFICES ASSUME SInv, NEW t \in Threads, TeardownStops(t) PROVE SInv'
  OBVIOUS
<1> USE CallbackAssumption DEF SInv, TeardownStops, Goto, Threads, ctlVars, listVars, siteVars, ghostVars, NoCall
<1>1. Typed'
  BY DEF Typed, Inside, Outside, CallType, Ops
<1>2. Owned'
  BY DEF Typed, Owned, Inside, Outside
<1>3. SessionAt'
  <2>1. \A u \in Threads \ {t} : pc[u] \notin Inside /\ pc'[u] = pc[u]
    BY Alone DEF Typed, Inside
  <2>2. mutex' = t /\ init' /\ ptr' = 0 /\ t # Nobody
    BY Alone DEF Typed, Inside, SessionAt, Stands
  <2>3. up' \in Stopping \/ up' = {}
    BY NextStop DEF SessionAt, Stands
  <2>4. pc'[t] = IF up' = {} THEN "off" ELSE "stop"
    BY DEF Typed
  <2> HIDE DEF TeardownStops
  <2>5. (pc'[t] = "off" /\ up' = {}) \/ (pc'[t] = "stop" /\ up' \in Stopping)
    BY <2>3, <2>4
  <2> QED BY <2>1, <2>2, <2>5 DEF SessionAt, Stands, Inside
<1>4. Bits'
  BY DEF Typed, Bits, Publishing
<1>5. Lists'
  BY DEF Typed, Lists
<1>6. Later'
  BY DEF Typed, Later
<1> QED BY <1>1, <1>2, <1>3, <1>4, <1>5, <1>6

LEMMA TeardownEndsKeeps == SInv /\ (\E t \in Threads : TeardownEnds(t)) => SInv'
<1> SUFFICES ASSUME SInv, NEW t \in Threads, TeardownEnds(t) PROVE SInv'
  OBVIOUS
<1> USE CallbackAssumption DEF SInv, TeardownEnds, Goto, Threads, ctlVars, listVars, siteVars, ghostVars, NoCall
<1>1. Typed'
  BY DEF Typed, Inside, Outside, CallType, Ops
<1>2. Owned'
  BY DEF Typed, Owned, Inside, Outside
<1>3. SessionAt'
  BY DEF Typed, Owned, SessionAt, Stands, Inside, Outside, Present, Absent, Ends
<1>4. Bits'
  BY DEF Typed, Bits, Publishing
<1>5. Lists'
  BY DEF Typed, Lists
<1>6. Later'
  BY DEF Typed, Later
<1> QED BY <1>1, <1>2, <1>3, <1>4, <1>5, <1>6

LEMMA CallEntersKeeps == SInv /\ (\E t \in Threads : CallEnters(t)) => SInv'
<1> SUFFICES ASSUME SInv, NEW t \in Threads, CallEnters(t) PROVE SInv'
  OBVIOUS
<1> USE CallbackAssumption DEF SInv, CallEnters, Goto, Threads, ctlVars, listVars, siteVars, ghostVars, NoCall
<1>1. Typed'
  <2>1. PICK op \in SwitchOps \cup Queries, name \in Names, on \in BOOLEAN, h \in Addrs :
          /\ call' = [call EXCEPT ![t] = [op |-> op, on |-> on, h |-> h, d |-> name[1]]]
          /\ todo' = [todo EXCEPT ![t] = Visits(op, name)]
    OBVIOUS
  <2>2. pc' \in [Threads -> Inside \cup Outside]
    BY DEF Typed, Outside
  <2>3. UNCHANGED <<ctlVars, listVars, siteVars, ghostVars>>
    OBVIOUS
  <2> HIDE DEF CallEnters
  <2>4. [op |-> op, on |-> on, h |-> h, d |-> name[1]] \in CallType
    BY DEF CallType, Ops
  <2>5. Visits(op, name) \in Seq(AllNames)
    BY VisitsTyped
  <2>6. call' \in [Threads -> CallType] /\ todo' \in [Threads -> Seq(AllNames)]
    <3> HIDE DEF CallType
    <3> QED BY <2>1, <2>4, <2>5 DEF Typed
  <2> QED BY <2>2, <2>3, <2>6 DEF Typed
<1>2. Owned'
  BY DEF Typed, Owned, Inside, Outside
<1>3. SessionAt'
  BY DEF Typed, Owned, SessionAt, Stands, Inside, Outside, Present, Absent, Ends
<1>4. Bits'
  <2>1. \A u \in Threads : pc'[u] = "check" => call'[u].h \in Addrs
    BY DEF Typed, Bits
  <2>2. \A u \in Threads : pc'[u] = "switch" => drawn'[u] # 0 /\ todo'[u] # <<>>
    BY DEF Typed, Bits
  <2>3. Publishing' => Publishing
    BY DEF Typed, Publishing
  <2>4. ptr' # 0 \/ Publishing' => \A n \in bits' : setBy'[n] = ptr' \/ n \in stale'
    BY <2>3 DEF Bits
  <2> QED BY <2>1, <2>2, <2>4 DEF Bits
<1>5. Lists'
  BY DEF Typed, Lists
<1>6. Later'
  BY DEF Typed, Later
<1> QED BY <1>1, <1>2, <1>3, <1>4, <1>5, <1>6

LEMMA CallChecksKeeps == SInv /\ (\E t \in Threads : CallChecks(t)) => SInv'
<1> SUFFICES ASSUME SInv, NEW t \in Threads, CallChecks(t) PROVE SInv'
  OBVIOUS
<1> USE CallbackAssumption DEF SInv, CallChecks, Leave, Goto, Threads, ctlVars, listVars, siteVars, ghostVars, NoCall
<1>0. /\ pc' \in [Threads -> Inside \cup Outside] /\ call' \in [Threads -> CallType] /\ todo' \in [Threads -> Seq(AllNames)]
      /\ drawn' \in [Threads -> 0..MaxSubs]
      /\ \A u \in Threads \ {t} : pc'[u] = pc[u] /\ call'[u] = call[u]
      /\ pc[t] = "check" /\ pc'[t] \in {"switch", "count", "query", "called", "out"}
  <2>1. CASE Handle = call[t].h /\ todo[t] # <<>>
    <3>1. /\ \E place \in {"switch", "count", "query"} : pc' = [pc EXCEPT ![t] = place]
          /\ drawn' = [drawn EXCEPT ![t] = ptr] /\ UNCHANGED <<call, todo>> /\ pc[t] = "check"
      BY <2>1
    <3> HIDE DEF CallChecks, CallType
    <3> QED BY <3>1 DEF Typed, Outside
  <2>2. CASE ~(Handle = call[t].h /\ todo[t] # <<>>)
    <3>1. Leave(t) /\ drawn' = drawn /\ pc[t] = "check"
      BY <2>2
    <3> HIDE DEF CallChecks, Leave, CallType
    <3> QED BY <3>1, LeaveTyped DEF Typed
  <2> QED BY <2>1, <2>2
<1>1. Typed'
  <2>1. UNCHANGED <<ctlVars, listVars, siteVars, setBy, seen, ended, stale>>
    OBVIOUS
  <2> HIDE DEF CallChecks
  <2> QED BY <1>0, <2>1 DEF Typed
<1>2. Owned' /\ SessionAt'
  <2>1. UNCHANGED <<init, ptr, mutex, up, born>>
    OBVIOUS
  <2> HIDE DEF CallChecks
  <2>2. \A u \in Threads : \/ pc[u] \notin Inside /\ pc'[u] \notin Inside
                           \/ pc'[u] = pc[u] /\ call'[u] = call[u]
    <3>1. pc[t] \notin Inside /\ pc'[t] \notin Inside
      BY <1>0 DEF Inside
    <3> QED BY <1>0, <3>1
  <2> QED BY <2>1, <2>2, OutsideKeeps
<1>4. Bits'
  <2>1. pc'[t] = "switch" => drawn'[t] # 0 /\ todo'[t] # <<>>
    <3>1. call[t].h \in Addrs
      BY DEF Bits
    <3>2. CASE Handle = call[t].h /\ todo[t] # <<>>
      <4>1. ptr # 0
        BY <3>1, <3>2 DEF Handle
      <4> QED BY <3>2, <4>1 DEF Typed
    <3>3. CASE ~(Handle = call[t].h /\ todo[t] # <<>>)
      BY <3>3 DEF Typed
    <3> QED BY <3>2, <3>3
  <2>2. \A u \in Threads \ {t} : drawn'[u] = drawn[u] /\ todo'[u] = todo[u]
    BY DEF Typed
  <2>3. UNCHANGED <<bits, ptr, setBy, stale>>
    OBVIOUS
  <2> HIDE DEF CallChecks
  <2>4. \A u \in Threads : pc'[u] = "check" => call'[u].h \in Addrs
    BY <1>0 DEF Bits
  <2>5. \A u \in Threads : pc'[u] = "switch" => drawn'[u] # 0 /\ todo'[u] # <<>>
    BY <1>0, <2>1, <2>2 DEF Bits
  <2>6. Publishing' => Publishing
    BY <1>0 DEF Publishing
  <2> QED BY <2>3, <2>4, <2>5, <2>6 DEF Bits
<1>5. Lists'
  BY DEF Typed, Lists
<1>6. Later'
  BY DEF Typed, Later
<1> QED BY <1>1, <1>2, <1>4, <1>5, <1>6

LEMMA SwitchKeeps == SInv /\ (\E t \in Threads : Switch(t)) => SInv'
<1> SUFFICES ASSUME SInv, NEW t \in Threads, Switch(t) PROVE SInv'
  OBVIOUS
<1> USE CallbackAssumption DEF SInv, Switch, Leave, Goto, Threads, ctlVars, listVars, siteVars, ghostVars, NoCall
<1>a. todo[t] # <<>> /\ todo[t] \in Seq(AllNames) /\ drawn[t] \in 1..MaxSubs /\ pc[t] = "switch"
  BY DEF Bits, Typed
<1>b. /\ Head(todo[t]) \in AllNames /\ Tail(todo[t]) \in Seq(AllNames) /\ Len(todo[t]) \in Nat \ {0}
      /\ Len(todo[t]) # 1 => Tail(todo[t]) # <<>>
  <2> DEFINE names == todo[t]
  <2>1. names # <<>> /\ names \in Seq(AllNames)
    BY <1>a
  <2> HIDE DEF Switch, SInv, names
  <2>2. Head(names) \in AllNames /\ Tail(names) \in Seq(AllNames) /\ Len(names) \in Nat \ {0}
    BY <2>1
  <2>3. Len(names) # 1 => Len(Tail(names)) # 0
    BY <2>1, <2>2
  <2>4. Len(names) # 1 => Tail(names) # <<>>
    BY <2>3
  <2> QED BY <2>2, <2>4 DEF names
<1>0. /\ pc' \in [Threads -> Inside \cup Outside] /\ call' \in [Threads -> CallType] /\ todo' \in [Threads -> Seq(AllNames)]
      /\ drawn' \in [Threads -> 0..MaxSubs]
      /\ \A u \in Threads \ {t} : pc'[u] = pc[u] /\ call'[u] = call[u]
      /\ pc[t] = "switch" /\ pc'[t] \in {"switch", "called", "out"}
  <2>1. CASE Len(todo[t]) = 1
    <3>1. Leave(t) /\ drawn' = [drawn EXCEPT ![t] = 0] /\ pc[t] = "switch"
      BY <2>1
    <3> HIDE DEF Switch, Leave, CallType
    <3>2. drawn' \in [Threads -> 0..MaxSubs]
      BY <3>1 DEF Typed
    <3> QED BY <3>1, <3>2, LeaveTyped DEF Typed
  <2>2. CASE Len(todo[t]) # 1
    <3>1. todo' = [todo EXCEPT ![t] = Tail(todo[t])] /\ UNCHANGED <<pc, call, drawn>> /\ pc[t] = "switch"
      BY <2>2
    <3> HIDE DEF Switch, CallType
    <3> QED BY <1>b, <3>1 DEF Typed
  <2> QED BY <2>1, <2>2
<1>1. Typed'
  <2> DEFINE n == Head(todo[t])
  <2>1. bits' = (IF call[t].on THEN bits \cup {n} ELSE bits \ {n}) /\ setBy' = [m \in bits' |-> IF m = n THEN drawn[t] ELSE setBy[m]]
    OBVIOUS
  <2>2. UNCHANGED <<init, ptr, mutex, up, born, at, listVars, siteVars, seen, ended>>
    OBVIOUS
  <2> HIDE DEF Switch, n
  <2>3. bits' \subseteq AllNames
    BY <1>b, <2>1 DEF Typed, n
  <2>4. \A m \in bits' : m # n => m \in bits
    BY <2>1
  <2>5. setBy' \in [bits' -> 1..MaxSubs]
    BY <1>a, <2>1, <2>4 DEF Typed
  <2> QED BY <1>0, <2>2, <2>3, <2>5 DEF Typed
<1>2. Owned' /\ SessionAt'
  <2>1. UNCHANGED <<init, ptr, mutex, up, born>>
    OBVIOUS
  <2> HIDE DEF Switch
  <2>2. \A u \in Threads : \/ pc[u] \notin Inside /\ pc'[u] \notin Inside
                           \/ pc'[u] = pc[u] /\ call'[u] = call[u]
    <3>1. pc[t] \notin Inside /\ pc'[t] \notin Inside
      BY <1>0 DEF Inside
    <3> QED BY <1>0, <3>1
  <2> QED BY <2>1, <2>2, OutsideKeeps
<1>4. Bits'
  <2> DEFINE n == Head(todo[t])
  <2>1. pc'[t] = "switch" => drawn'[t] # 0 /\ todo'[t] # <<>>
    <3>1. CASE Len(todo[t]) = 1
      BY <1>a, <3>1 DEF Typed
    <3>2. CASE Len(todo[t]) # 1
      <4>1. drawn'[t] = drawn[t] /\ todo'[t] = Tail(todo[t])
        BY <3>2 DEF Typed
      <4> QED BY <1>a, <1>b, <3>2, <4>1
    <3> QED BY <3>1, <3>2
  <2>2. \A u \in Threads \ {t} : drawn'[u] = drawn[u] /\ todo'[u] = todo[u]
    BY DEF Typed
  <2>3. ptr' # 0 \/ Publishing' => \A m \in bits' : setBy'[m] = ptr' \/ m \in stale'
    <3>1. ptr' = ptr /\ (Publishing' => Publishing)
      BY <1>0 DEF Publishing
    <3>2. /\ bits' = (IF call[t].on THEN bits \cup {n} ELSE bits \ {n})
          /\ setBy' = [m \in bits' |-> IF m = n THEN drawn[t] ELSE setBy[m]]
          /\ stale' = IF call[t].on /\ drawn[t] # ptr THEN stale \cup {n} ELSE stale \ {n}
      OBVIOUS
    <3> HIDE DEF Switch, n
    <3> SUFFICES ASSUME ptr # 0 \/ Publishing, NEW m \in bits' PROVE setBy'[m] = ptr \/ m \in stale'
      BY <3>1
    <3>3. CASE m = n
      BY <3>2, <3>3
    <3>4. CASE m # n
      <4>1. m \in bits /\ setBy'[m] = setBy[m]
        BY <3>2, <3>4
      <4>2. setBy[m] = ptr \/ m \in stale
        BY <4>1 DEF Bits
      <4> QED BY <3>2, <3>4, <4>1, <4>2
    <3> QED BY <3>3, <3>4
  <2> HIDE DEF Switch
  <2>4. \A u \in Threads : pc'[u] = "check" => call'[u].h \in Addrs
    BY <1>0 DEF Bits
  <2>5. \A u \in Threads : pc'[u] = "switch" => drawn'[u] # 0 /\ todo'[u] # <<>>
    BY <1>0, <2>1, <2>2 DEF Bits
  <2> QED BY <2>3, <2>4, <2>5 DEF Bits
<1>5. Lists'
  BY DEF Typed, Lists
<1>6. Later'
  BY DEF Typed, Later
<1> QED BY <1>1, <1>2, <1>4, <1>5, <1>6

LEMMA GetCallbackStateKeeps == SInv /\ (\E t \in Threads : GetCallbackState(t)) => SInv'
<1> SUFFICES ASSUME SInv, NEW t \in Threads, GetCallbackState(t) PROVE SInv'
  OBVIOUS
<1> USE CallbackAssumption DEF SInv, GetCallbackState, Leave, Goto, Threads, ctlVars, listVars, siteVars, ghostVars, NoCall
<1>1. Typed'
  <2>1. Leave(t)
    OBVIOUS
  <2>2. drawn' \in [Threads -> 0..MaxSubs]
    <3>1. 0 \in 0..MaxSubs /\ drawn' = [drawn EXCEPT ![t] = 0]
      OBVIOUS
    <3>2. drawn \in [Threads -> 0..MaxSubs]
      BY DEF Typed
    <3> QED BY <3>1, <3>2
  <2>3. UNCHANGED <<ctlVars, listVars, siteVars, setBy, seen, ended, stale>>
    OBVIOUS
  <2> HIDE DEF Leave, GetCallbackState
  <2> QED BY <2>1, <2>2, <2>3, LeaveTyped DEF Typed
<1>2. Owned'
  BY DEF Typed, Owned, Inside, Outside
<1>3. SessionAt'
  BY DEF Typed, Owned, SessionAt, Stands, Inside, Outside, Present, Absent, Ends
<1>4. Bits'
  BY DEF Typed, Bits, Publishing
<1>5. Lists'
  BY DEF Typed, Lists
<1>6. Later'
  BY DEF Typed, Later
<1> QED BY <1>1, <1>2, <1>3, <1>4, <1>5, <1>6

LEMMA CountEnabledKeeps == SInv /\ (\E t \in Threads : CountEnabled(t)) => SInv'
<1> SUFFICES ASSUME SInv, NEW t \in Threads, CountEnabled(t) PROVE SInv'
  OBVIOUS
<1> USE CallbackAssumption DEF SInv, CountEnabled, Goto, Threads, ctlVars, listVars, siteVars, ghostVars, NoCall
<1>0. /\ pc' \in [Threads -> Inside \cup Outside] /\ todo' \in [Threads -> Seq(AllNames)]
      /\ room' \in [Threads -> Nat] /\ number' \in [Threads -> Nat]
      /\ \A u \in Threads \ {t} : pc'[u] = pc[u] /\ room'[u] = room[u]
      /\ pc[t] = "count" /\ pc'[t] \in {"count", "write"} /\ (pc'[t] = "write" \/ room'[t] = room[t])
  <2>1. number' \in [Threads -> Nat]
    <3>1. number' = [number EXCEPT ![t] = number[t] + 1] \/ number' = [number EXCEPT ![t] = number[t]]
      OBVIOUS
    <3> HIDE DEF CountEnabled, Threads
    <3>2. number \in [Threads -> Nat]
      BY DEF Typed
    <3>3. number[t] \in Nat /\ (number[t] + 1) \in Nat
      BY <3>2
    <3> QED BY <3>1, <3>2, <3>3
  <2>2. CASE Len(todo[t]) > 1
    <3>1. todo' = [todo EXCEPT ![t] = Tail(todo[t])] /\ UNCHANGED <<pc, room>> /\ pc[t] = "count"
      BY <2>2
    <3>2. todo[t] \in Seq(AllNames)
      BY DEF Typed
    <3> HIDE DEF CountEnabled
    <3>3. Tail(todo[t]) \in Seq(AllNames)
      BY <2>2, <3>2
    <3> QED BY <2>1, <3>1, <3>3 DEF Typed
  <2>3. CASE ~(Len(todo[t]) > 1)
    <3>1. PICK size \in Rooms : /\ room' = [room EXCEPT ![t] = IF size < number'[t] THEN size ELSE number'[t]]
                                /\ todo' = [todo EXCEPT ![t] = NamesOf(call[t].d)]
                                /\ pc' = [pc EXCEPT ![t] = "write"]
      BY <2>3
    <3>2. pc[t] = "count"
      OBVIOUS
    <3> HIDE DEF CountEnabled
    <3>3. NamesOf(call[t].d) \in Seq(AllNames)
      BY NamesOfTyped
    <3>4. size \in Nat
      OBVIOUS
    <3>5. todo' \in [Threads -> Seq(AllNames)]
      BY <3>1, <3>3 DEF Typed
    <3> QED BY <2>1, <3>1, <3>2, <3>4, <3>5 DEF Typed, Outside
  <2> QED BY <2>2, <2>3
<1>1. Typed'
  <2>1. UNCHANGED <<ctlVars, call, out, siteVars, ghostVars>>
    OBVIOUS
  <2> HIDE DEF CountEnabled
  <2> QED BY <1>0, <2>1 DEF Typed
<1>2. Owned' /\ SessionAt'
  <2>1. UNCHANGED <<init, ptr, mutex, up, born>> /\ UNCHANGED call
    OBVIOUS
  <2> HIDE DEF CountEnabled
  <2>2. \A u \in Threads : \/ pc[u] \notin Inside /\ pc'[u] \notin Inside
                           \/ pc'[u] = pc[u] /\ call'[u] = call[u]
    <3>1. pc[t] \notin Inside /\ pc'[t] \notin Inside
      BY <1>0 DEF Inside
    <3> QED BY <1>0, <2>1, <3>1
  <2> QED BY <2>1, <2>2, OutsideKeeps
<1>4. Bits'
  BY DEF Typed, Bits, Publishing
<1>5. Lists'
  <2>1. out' = out /\ out[t] = <<>>
    BY <1>0 DEF Lists
  <2>2. Len(out'[t]) <= room'[t]
    BY <1>0, <2>1 DEF Typed
  <2> HIDE DEF CountEnabled
  <2> QED BY <1>0, <2>1, <2>2 DEF Lists
<1>6. Later'
  BY DEF Typed, Later
<1> QED BY <1>1, <1>2, <1>4, <1>5, <1>6

LEMMA WriteEnabledKeeps == SInv /\ (\E t \in Threads : WriteEnabled(t)) => SInv'
<1> SUFFICES ASSUME SInv, NEW t \in Threads, WriteEnabled(t) PROVE SInv'
  OBVIOUS
<1> USE CallbackAssumption DEF SInv, WriteEnabled, Leave, Drop, MayWrite, Goto, Threads, ctlVars, listVars, siteVars, ghostVars, NoCall
<1>a. /\ todo[t] \in Seq(AllNames) /\ out[t] \in Seq(AllNames) /\ room[t] \in Nat /\ pc[t] = "write"
      /\ Len(out[t]) <= room[t]
  BY DEF Typed, Lists
<1>b. CASE MayWrite(t)
  <2>1. /\ out' = [out EXCEPT ![t] = IF Head(todo[t]) \in bits THEN Append(out[t], Head(todo[t])) ELSE out[t]]
        /\ todo' = [todo EXCEPT ![t] = Tail(todo[t])]
        /\ UNCHANGED <<pc, call, room, number, drawn>>
        /\ todo[t] # <<>> /\ Len(out[t]) < room[t]
    BY <1>b
  <2>2. UNCHANGED <<ctlVars, siteVars, setBy, seen, ended, stale>>
    OBVIOUS
  <2> HIDE DEF WriteEnabled, MayWrite
  <2>3. Head(todo[t]) \in AllNames /\ Tail(todo[t]) \in Seq(AllNames)
    BY <1>a, <2>1
  <2>4. Append(out[t], Head(todo[t])) \in Seq(AllNames) /\ Len(Append(out[t], Head(todo[t]))) = Len(out[t]) + 1
    BY <1>a, <2>3
  <2>5. out' \in [Threads -> Seq(AllNames)] /\ todo' \in [Threads -> Seq(AllNames)]
    BY <1>a, <2>1, <2>3, <2>4 DEF Typed
  <2>6. Typed'
    BY <2>1, <2>2, <2>5 DEF Typed
  <2>7. Owned' /\ SessionAt'
    BY <2>1, <2>2, OutsideKeeps
  <2>8. Bits'
    <3>1. \A u \in Threads : pc[u] = "switch" => todo'[u] = todo[u]
      BY <1>a, <2>1 DEF Typed
    <3> QED BY <2>1, <2>2, <3>1 DEF Bits, Publishing
  <2>9. Lists'
    <3>1. Len(out'[t]) <= room'[t]
      <4>1. out'[t] = Append(out[t], Head(todo[t])) \/ out'[t] = out[t]
        BY <2>1 DEF Typed
      <4>2. Len(out[t]) \in Nat /\ room'[t] = room[t]
        BY <1>a, <2>1
      <4> QED BY <1>a, <2>1, <2>4, <4>1, <4>2
    <3>2. \A u \in Threads \ {t} : out'[u] = out[u]
      BY <2>1 DEF Typed
    <3> QED BY <1>a, <2>1, <3>1, <3>2 DEF Lists
  <2>10. Later'
    BY <2>1, <2>2 DEF Later
  <2> QED BY <2>6, <2>7, <2>8, <2>9, <2>10
<1>c. CASE ~MayWrite(t)
  <2>1. Leave(t) /\ Drop(t) /\ drawn' = [drawn EXCEPT ![t] = 0]
    BY <1>c
  <2>2. UNCHANGED <<ctlVars, siteVars, setBy, seen, ended, stale>>
    OBVIOUS
  <2>3. room' = [room EXCEPT ![t] = 0] /\ out' = [out EXCEPT ![t] = <<>>] /\ number' = [number EXCEPT ![t] = 0]
    BY <2>1
  <2> HIDE DEF WriteEnabled, MayWrite, Leave, Drop, CallType
  <2>4. /\ pc' \in [Threads -> Inside \cup Outside] /\ call' \in [Threads -> CallType] /\ todo' \in [Threads -> Seq(AllNames)]
        /\ \A u \in Threads \ {t} : pc'[u] = pc[u] /\ call'[u] = call[u] /\ todo'[u] = todo[u]
        /\ pc'[t] \in {"called", "out"}
    BY <2>1, LeaveTyped
  <2>5. <<>> \in Seq(AllNames)
    OBVIOUS
  <2>6. out' \in [Threads -> Seq(AllNames)]
    BY <2>3, <2>5 DEF Typed
  <2>7. room' \in [Threads -> Nat] /\ number' \in [Threads -> Nat] /\ drawn' \in [Threads -> 0..MaxSubs]
    <3>1. 0 \in Nat /\ 0 \in 0..MaxSubs
      OBVIOUS
    <3>2. room' \in [Threads -> Nat]
      BY <2>3, <3>1 DEF Typed
    <3>3. number' \in [Threads -> Nat]
      BY <2>3, <3>1 DEF Typed
    <3>4. drawn' \in [Threads -> 0..MaxSubs]
      BY <2>1, <3>1 DEF Typed
    <3> QED BY <3>2, <3>3, <3>4
  <2>8. Typed'
    BY <2>2, <2>4, <2>6, <2>7 DEF Typed
  <2>9. Owned' /\ SessionAt'
    <3>1. pc[t] \notin Inside /\ pc'[t] \notin Inside
      BY <1>a, <2>4 DEF Inside
    <3>2. UNCHANGED <<init, ptr, mutex, up, born>>
      BY <2>2
    <3>3. \A u \in Threads : \/ pc[u] \notin Inside /\ pc'[u] \notin Inside
                             \/ pc'[u] = pc[u] /\ call'[u] = call[u]
      BY <2>4, <3>1
    <3> QED BY <3>2, <3>3, OutsideKeeps
  <2>10. Bits'
    <3>1. \A u \in Threads \ {t} : drawn'[u] = drawn[u]
      BY <2>1 DEF Typed
    <3>2. \A u \in Threads : pc'[u] \in {"check", "switch", "publish"} => u # t
      BY <2>4
    <3> QED BY <2>2, <2>4, <3>1, <3>2 DEF Bits, Publishing
  <2>11. Lists'
    <3>1. out'[t] = <<>> /\ room'[t] = 0
      BY <2>3 DEF Typed
    <3>2. \A u \in Threads \ {t} : out'[u] = out[u] /\ room'[u] = room[u]
      BY <2>3 DEF Typed
    <3>3. Len(out'[t]) <= room'[t]
      BY <3>1
    <3> QED BY <2>4, <3>1, <3>2, <3>3 DEF Lists
  <2>12. Later'
    <3>1. \A s \in Sites : pc'[s] \in {"invoke", "calling"} => pc'[s] = pc[s]
      BY <2>4
    <3> QED BY <2>2, <3>1 DEF Later
  <2> QED BY <2>8, <2>9, <2>10, <2>11, <2>12
<1> QED BY <1>b, <1>c

LEMMA ScopeBeginsKeeps == SInv /\ (\E t \in Sites : ScopeBegins(t)) => SInv'
<1> SUFFICES ASSUME SInv, NEW t \in Sites, ScopeBegins(t) PROVE SInv'
  OBVIOUS
<1> USE CallbackAssumption DEF SInv, ScopeBegins, Goto, Threads, ctlVars, listVars, siteVars, ghostVars, NoCall
<1>1. Typed'
  <2>1. pc' \in [Threads -> Inside \cup Outside]
    BY DEF Typed, Outside
  <2>2. PICK n \in Names : /\ n[1] \in Domains /\ n[2] < GetDomainCallbackCount(n[1])
                           /\ todo' = [todo EXCEPT ![t] = <<n>>]
    BY DEF IsValidCBDomain
  <2>3. n \in AllNames
    <3>1. n = <<n[1], n[2]>> /\ n[2] \in 0..(MapBits - 1)
      BY <2>2 DEF GetDomainCallbackCount, Domains
    <3> QED BY <2>2, <3>1 DEF AllNames
  <2>4. <<n>> \in Seq(AllNames)
    BY <2>3
  <2>5. todo' \in [Threads -> Seq(AllNames)]
    BY <2>2, <2>4 DEF Typed
  <2>6. seen' \in [Sites -> 0..MaxSubs] /\ phase' \in [Sites -> {"ENTER", "EXIT"}]
    BY DEF Typed
  <2> QED BY <2>1, <2>5, <2>6 DEF Typed
<1>2. Owned'
  BY DEF Typed, Owned, Inside, Outside
<1>3. SessionAt'
  BY DEF Typed, Owned, SessionAt, Stands, Inside, Outside, Present, Absent, Ends
<1>4. Bits'
  BY DEF Typed, Bits, Publishing
<1>5. Lists'
  BY DEF Typed, Lists
<1>6. Later'
  BY DEF Typed, Later
<1> QED BY <1>1, <1>2, <1>3, <1>4, <1>5, <1>6

LEMMA ScopeCallsKeeps == SInv /\ (\E t \in Sites : ScopeCalls(t)) => SInv'
<1> SUFFICES ASSUME SInv, NEW t \in Sites, ScopeCalls(t) PROVE SInv'
  OBVIOUS
<1> USE CallbackAssumption DEF SInv, ScopeCalls, Goto, Threads, ctlVars, listVars, siteVars, ghostVars, NoCall
<1>1. Typed'
  BY DEF Typed, Inside, Outside, CallType, Ops
<1>2. Owned'
  BY DEF Typed, Owned, Inside, Outside
<1>3. SessionAt'
  BY DEF Typed, Owned, SessionAt, Stands, Inside, Outside, Present, Absent, Ends
<1>4. Bits'
  BY DEF Typed, Bits, Publishing
<1>5. Lists'
  BY DEF Typed, Lists
<1>6. Later'
  BY DEF Typed, Later
<1> QED BY <1>1, <1>2, <1>3, <1>4, <1>5, <1>6

LEMMA ScopeEndsKeeps == SInv /\ (\E t \in Sites : ScopeEnds(t)) => SInv'
<1> SUFFICES ASSUME SInv, NEW t \in Sites, ScopeEnds(t) PROVE SInv'
  OBVIOUS
<1> USE CallbackAssumption DEF SInv, ScopeEnds, Goto, Threads, ctlVars, listVars, siteVars, ghostVars, NoCall
<1>1. Typed'
  <2>1. pc' \in [Threads -> Inside \cup Outside]
    BY DEF Typed, Outside
  <2>2. <<>> \in Seq(AllNames)
    OBVIOUS
  <2>3. todo' \in [Threads -> Seq(AllNames)]
    BY <2>2 DEF Typed
  <2>4. /\ local' \in [Sites -> 0..MaxSubs] /\ seen' \in [Sites -> 0..MaxSubs]
        /\ phase' \in [Sites -> {"ENTER", "EXIT"}]
    <3>1. 0 \in 0..MaxSubs
      OBVIOUS
    <3>2. local' \in [Sites -> 0..MaxSubs]
      BY <3>1 DEF Typed
    <3>3. seen' \in [Sites -> 0..MaxSubs]
      BY <3>1 DEF Typed
    <3>4. phase' \in [Sites -> {"ENTER", "EXIT"}]
      BY DEF Typed
    <3> QED BY <3>2, <3>3, <3>4
  <2> QED BY <2>1, <2>3, <2>4 DEF Typed
<1>2. Owned'
  BY DEF Typed, Owned, Inside, Outside
<1>3. SessionAt'
  BY DEF Typed, Owned, SessionAt, Stands, Inside, Outside, Present, Absent, Ends
<1>4. Bits'
  BY DEF Typed, Bits, Publishing
<1>5. Lists'
  BY DEF Typed, Lists
<1>6. Later'
  BY DEF Typed, Later
<1> QED BY <1>1, <1>2, <1>3, <1>4, <1>5, <1>6

LEMMA ExecuteReadsKeeps == SInv /\ (\E t \in Sites : ExecuteReads(t)) => SInv'
<1> SUFFICES ASSUME SInv, NEW t \in Sites, ExecuteReads(t) PROVE SInv'
  OBVIOUS
<1> USE CallbackAssumption DEF SInv, ExecuteReads, Goto, Threads, ctlVars, listVars, siteVars, ghostVars, NoCall
<1>1. Typed'
  BY DEF Typed, Inside, Outside, CallType, Ops
<1>2. Owned'
  BY DEF Typed, Owned, Inside, Outside
<1>3. SessionAt'
  BY DEF Typed, Owned, SessionAt, Stands, Inside, Outside, Present, Absent, Ends
<1>4. Bits'
  BY DEF Typed, Bits, Publishing
<1>5. Lists'
  BY DEF Typed, Lists
<1>6. Later'
  BY DEF Typed, Later
<1> QED BY <1>1, <1>2, <1>3, <1>4, <1>5, <1>6

LEMMA IsCallbackIdEnableKeeps == SInv /\ (\E t \in Sites : IsCallbackIdEnable(t)) => SInv'
<1> SUFFICES ASSUME SInv, NEW t \in Sites, IsCallbackIdEnable(t) PROVE SInv'
  OBVIOUS
<1> USE CallbackAssumption DEF SInv, IsCallbackIdEnable, Goto, Threads, ctlVars, listVars, siteVars, ghostVars, NoCall
<1>1. Typed'
  BY DEF Typed, Inside, Outside, CallType, Ops
<1>2. Owned'
  BY DEF Typed, Owned, Inside, Outside
<1>3. SessionAt'
  BY DEF Typed, Owned, SessionAt, Stands, Inside, Outside, Present, Absent, Ends
<1>4. Bits'
  BY DEF Typed, Bits, Publishing
<1>5. Lists'
  BY DEF Typed, Lists
<1>6. Later'
  BY DEF Typed, Later
<1> QED BY <1>1, <1>2, <1>3, <1>4, <1>5, <1>6

LEMMA ExecuteLoadsKeeps == SInv /\ (\E t \in Sites : ExecuteLoads(t)) => SInv'
<1> SUFFICES ASSUME SInv, NEW t \in Sites, ExecuteLoads(t) PROVE SInv'
  OBVIOUS
<1> USE CallbackAssumption DEF SInv, ExecuteLoads, Goto, Threads, ctlVars, listVars, siteVars, ghostVars, NoCall
<1>1. Typed'
  <2>1. pc' = [pc EXCEPT ![t] = "invoke"] \/ pc' = [pc EXCEPT ![t] = "called"]
    OBVIOUS
  <2>2. pc' \in [Threads -> Inside \cup Outside]
    BY <2>1 DEF Typed, Outside
  <2>3. local' \in [Sites -> 0..MaxSubs]
    BY DEF Typed
  <2> QED BY <2>2, <2>3 DEF Typed
<1>2. Owned'
  BY DEF Typed, Owned, Inside, Outside
<1>3. SessionAt'
  BY DEF Typed, Owned, SessionAt, Stands, Inside, Outside, Present, Absent, Ends
<1>4. Bits'
  BY DEF Typed, Bits, Publishing
<1>5. Lists'
  BY DEF Typed, Lists
<1>6. Later'
  BY DEF Typed, Later
<1> QED BY <1>1, <1>2, <1>3, <1>4, <1>5, <1>6

LEMMA ExecuteInvokesKeeps == SInv /\ (\E t \in Sites : ExecuteInvokes(t)) => SInv'
<1> SUFFICES ASSUME SInv, NEW t \in Sites, ExecuteInvokes(t) PROVE SInv'
  OBVIOUS
<1> USE CallbackAssumption DEF SInv, ExecuteInvokes, Goto, Threads, ctlVars, listVars, siteVars, ghostVars, NoCall
<1>1. Typed'
  BY DEF Typed, Inside, Outside, CallType, Ops
<1>2. Owned'
  BY DEF Typed, Owned, Inside, Outside
<1>3. SessionAt'
  BY DEF Typed, Owned, SessionAt, Stands, Inside, Outside, Present, Absent, Ends
<1>4. Bits'
  BY DEF Typed, Bits, Publishing
<1>5. Lists'
  BY DEF Typed, Lists
<1>6. Later'
  BY DEF Typed, Later
<1> QED BY <1>1, <1>2, <1>3, <1>4, <1>5, <1>6

LEMMA ExecuteReturnsKeeps == SInv /\ (\E t \in Sites : ExecuteReturns(t)) => SInv'
<1> SUFFICES ASSUME SInv, NEW t \in Sites, ExecuteReturns(t) PROVE SInv'
  OBVIOUS
<1> USE CallbackAssumption DEF SInv, ExecuteReturns, Goto, Threads, ctlVars, listVars, siteVars, ghostVars, NoCall
<1>1. Typed'
  <2>1. pc' \in [Threads -> Inside \cup Outside]
    BY DEF Typed, Outside
  <2>2. local' \in [Sites -> 0..MaxSubs]
    BY DEF Typed
  <2> QED BY <2>1, <2>2 DEF Typed
<1>2. Owned'
  BY DEF Typed, Owned, Inside, Outside
<1>3. SessionAt'
  BY DEF Typed, Owned, SessionAt, Stands, Inside, Outside, Present, Absent, Ends
<1>4. Bits'
  BY DEF Typed, Bits, Publishing
<1>5. Lists'
  BY DEF Typed, Lists
<1>6. Later'
  BY DEF Typed, Later
<1> QED BY <1>1, <1>2, <1>3, <1>4, <1>5, <1>6

----------------------------------------------------------------------------
(* The results *)

\* SInv holds along every behaviour: the session stands as far as the thread inside
\* subscriber_mutex_ is with it, and the bits, the lists and the sites agree with it.
THEOREM SessionsInductive == Spec => []SInv
<1>1. SInv /\ [Next]_vars => SInv'
  <2> SUFFICES ASSUME SInv, [Next]_vars PROVE SInv'
    OBVIOUS
  <2>1. ASSUME NEW t \in Threads, CallSteps(t) PROVE SInv'
    BY <2>1, InitCheckKeeps, InitClearsKeeps, InitPublishesKeeps, InitRunsKeeps, InitStartsKeeps, UnInitKeeps,
       FinalizeKeeps, ReturnKeeps, TeardownDetachesKeeps, TeardownClearsKeeps, TeardownStopsKeeps, TeardownEndsKeeps,
       CallEntersKeeps, CallChecksKeeps, SwitchKeeps, GetCallbackStateKeeps, CountEnabledKeeps, WriteEnabledKeeps
       DEF CallSteps
  <2>2. ASSUME NEW s \in Sites, SiteSteps(s) PROVE SInv'
    BY <2>2, ScopeBeginsKeeps, ScopeCallsKeeps, ScopeEndsKeeps, ExecuteReadsKeeps, IsCallbackIdEnableKeeps,
       ExecuteLoadsKeeps, ExecuteInvokesKeeps, ExecuteReturnsKeeps
       DEF SiteSteps
  <2>3. CASE UNCHANGED vars
    BY <2>3 DEF SInv, Typed, Owned, SessionAt, Stands, Present, Absent, Ends, Bits, Publishing, Lists, Later,
       vars, ctlVars, listVars, siteVars, ghostVars
  <2> QED BY <2>1, <2>2, <2>3 DEF Next
<1> QED BY <1>1, InitHolds, PTL DEF Spec

\* What callback sites see of a session is whole, the bits are those its own
\* subscriber set, a list of them stays in its buffer, and a site entered after the
\* session's end calls nobody, for any threads, tables and number of sessions.
THEOREM SubscriptionCorrect == Spec => []SubscriptionInv
<1>1. SInv => SubscriptionInv
  <2> SUFFICES ASSUME SInv PROVE SubscriptionInv
    OBVIOUS
  <2> USE DEF SInv
  <2>1. TypeOK
    BY DEF TypeOK, Typed, Bits
  <2>2. SessionWhole
    BY DEF SessionWhole, SessionAt, Stands, Typed, Owned, Inside, Present, Absent
  <2>3. OwnBits
    BY DEF OwnBits, Bits
  <2>4. BufferBounded
    BY DEF BufferBounded, Lists, Typed
  <2>5. NoLateCallback
    BY DEF NoLateCallback, Later, Typed
  <2> QED BY <2>1, <2>2, <2>3, <2>4, <2>5 DEF SubscriptionInv
<1> QED BY <1>1, SessionsInductive, PTL

----------------------------------------------------------------------------
(***************************************************************************)
(* Correlation: how a thread's calls nest, which id each report under way  *)
(* has, and that the thread's last launch is the one its calls will name.  *)
(***************************************************************************)

NumbersIn(stack) == {stack[i].number : i \in DOMAIN stack}
CallRecords == [number: 1 .. MaxApiCalls, level: CallLevels]
CallerRecords == [calls: Seq(CallRecords), pc: {"free", "external", "note", "push", "api"},
                  for: {"KERNEL", "COMMUNICATION"}, id: 0 .. MaxIds,
                  lastTask: SUBSET (1 .. MaxApiCalls), lastCommunication: SUBSET (1 .. MaxApiCalls)]

CorrelationTypes ==
    /\ correlationId \in 1 .. MaxIds + 1 /\ threadIds \in [CallThreads -> 0 .. MaxIds]
    /\ external \in [Regions -> Seq([id: Nat, by: CallThreads])]
    /\ caller \in [CallThreads -> CallerRecords]
    /\ spent \in [calls: 0 .. MaxApiCalls, opened: Nat, failures: Nat]
    /\ \A l \in launches :
          /\ l.id \in 1 .. correlationId - 1 /\ l.thread \in CallThreads
          /\ l.for \in {"KERNEL", "COMMUNICATION"} /\ l.within \subseteq 1 .. spent.calls
    /\ \A w \in written : w.thread \in CallThreads /\ w.id \in 0 .. MaxIds

NestIn(stack, last) ==
    /\ \A i \in 1 .. Len(stack) : stack[i].number <= last /\ i <= stack[i].level
    /\ \A i, j \in 1 .. Len(stack) : i < j => stack[i].level < stack[j].level /\ stack[i].number < stack[j].number
CallsNest ==
    /\ \A t \in CallThreads : NestIn(caller[t].calls, spent.calls)
    /\ \A t, u \in CallThreads : t # u => OpenCalls(t) \cap OpenCalls(u) = {}

Given(t) == caller[t].pc \in {"external", "note", "push"}
AtNodeEnd(t) == caller[t].pc = "api" \/ (Given(t) /\ caller[t].for = "COMMUNICATION")
IdsGiven ==
    /\ \A t \in CallThreads : Given(t) =>
          /\ caller[t].calls # <<>> /\ caller[t].id \in 1 .. correlationId - 1
          /\ \A u \in CallThreads \ {t} : Given(u) => caller[u].id # caller[t].id
          /\ \A l \in launches : l.id = caller[t].id =>
                l.thread = t /\ caller[t].pc # "external" /\ l.for = caller[t].for /\ l.within = OpenCalls(t)
          /\ caller[t].pc # "external" => \E l \in launches : l.id = caller[t].id
          /\ caller[t].pc = "push" => threadIds[t] = caller[t].id
    /\ \A t \in CallThreads : AtNodeEnd(t) => InCall(t, "NODE")

LastOfThread ==
    \A t \in CallThreads :
        /\ threadIds[t] = MSPTI_INVALID_CORRELATION_ID \/ \E l \in launches : l.thread = t /\ l.id = threadIds[t]
        /\ \A l \in launches : l.thread = t =>
              l.id <= threadIds[t] \/ (caller[t].pc = "note" /\ l.id = caller[t].id)
        /\ caller[t].pc \in {"external", "note"} => \A l \in launches : l.thread = t => l.id <= caller[t].id

OpenSince ==
    \A t \in CallThreads : \A c \in OpenCalls(t), l \in launches : c \in l.within =>
        l.thread = t /\ \A m \in launches : m.thread = t /\ l.id <= m.id => c \in m.within
NodeKernels ==
    \A t \in CallThreads : \A i \in 1 .. Len(caller[t].calls) :
        Levels[caller[t].calls[i].level] = "NODE" /\ ~AtNodeEnd(t) =>
            \A l \in launches : caller[t].calls[i].number \in l.within => l.for = "KERNEL"

ApiKinds == {"ACL_API", "NODE_API", "RUNTIME_API", "API"}
CallsShut ==
    \A w \in written : w.kind \in ApiKinds =>
        /\ w.call \in 1 .. spent.calls
        /\ \A t \in CallThreads : w.call \in OpenCalls(t) =>
              w.kind = "NODE_API" /\ AtNodeEnd(t) /\ w.call = Innermost(t).number

Unqueued(l) == caller[l.thread].pc \in {"note", "push"} /\ caller[l.thread].id = l.id
KernelRecords ==
    /\ \A w \in written : w.kind = "KERNEL" =>
          \E l \in launches : l.for = "KERNEL" /\ l.id = w.id /\ l.thread = w.thread /\ w.call \in l.within /\ ~Unqueued(l)
    /\ \A v, w \in written : v.kind = "KERNEL" /\ w.kind = "KERNEL" /\ v.id = w.id => v = w
    /\ \A l \in launches : l.for = "KERNEL" => Unqueued(l) \/ \E w \in written : w.kind = "KERNEL" /\ w.id = l.id

RisesIn(stack, last) ==
    \A i \in 1 .. Len(stack) : stack[i].id <= last /\ \A j \in 1 .. i - 1 : stack[j].id < stack[i].id
RegionsRise == \A x \in Regions : RisesIn(external[x], spent.opened)
JoinedIn(l, x, records) ==
    \E e \in records : /\ e.kind = "EXTERNAL" /\ e.id = l.id /\ e.region = x
                       /\ e.externalId = Max({region.id : region \in {l.regions[x][i] : i \in DOMAIN l.regions[x]}})
RegionsKept ==
    \A l \in launches, x \in Regions : "EXTERNAL" \in enabled /\ ~l.cut /\ l.regions[x] # <<>> => JoinedIn(l, x, written)

CorrelationIInv ==
    /\ CorrelationTypes /\ CallsNest /\ IdsDiffer /\ IdsGiven /\ LastOfThread /\ OpenSince /\ NodeKernels
    /\ CallsShut /\ KernelRecords /\ CallsNameTheirs /\ RegionsRise /\ RegionsKept

----------------------------------------------------------------------------
\* The greatest of a set is the member that no other exceeds.
LEMMA MaxIs ==
    ASSUME NEW S, S \subseteq Int, NEW x \in S, \A y \in S : y <= x
    PROVE  Max(S) = x
<1>1. \A y \in S : x >= y
  OBVIOUS
<1>2. Max(S) \in S /\ \A y \in S : Max(S) >= y
  BY <1>1 DEF Max
<1>3. PICK m : m = Max(S)
  OBVIOUS
<1>4. m \in Int /\ x \in Int /\ m <= x /\ x <= m
  BY <1>2, <1>3
<1> QED BY <1>3, <1>4

\* A call more, and the innermost one less.
LEMMA CallAdded ==
    ASSUME NEW s \in Seq(CallRecords), NEW x \in CallRecords
    PROVE  /\ Append(s, x) \in Seq(CallRecords) /\ Append(s, x) # <<>> /\ Len(s) \in Nat /\ Len(Append(s, x)) = Len(s) + 1
           /\ \A i \in 1 .. Len(s) : Append(s, x)[i] = s[i]
           /\ Append(s, x)[Len(s) + 1] = x
           /\ NumbersIn(Append(s, x)) = NumbersIn(s) \cup {x.number}
<1>1. /\ Append(s, x) \in Seq(CallRecords) /\ Append(s, x) # <<>> /\ Len(s) \in Nat /\ Len(Append(s, x)) = Len(s) + 1
      /\ \A i \in 1 .. Len(s) : Append(s, x)[i] = s[i]
      /\ Append(s, x)[Len(s) + 1] = x
  BY AppendProperties, LenProperties
<1>2. PICK u, n : u = Append(s, x) /\ n = Len(s) /\ n \in Nat
  BY <1>1
<1>3. DOMAIN u = 1 .. n + 1 /\ DOMAIN s = 1 .. n
  BY <1>1, <1>2, LenProperties
<1>4. \A i \in 1 .. n : u[i] = s[i]
  BY <1>1, <1>2
<1>5. u[n + 1] = x
  BY <1>1, <1>2
<1>6. {u[i].number : i \in 1 .. n + 1} = {s[i].number : i \in 1 .. n} \cup {x.number}
  BY <1>2, <1>4, <1>5
<1> QED BY <1>1, <1>2, <1>3, <1>6 DEF NumbersIn

LEMMA CallShut ==
    ASSUME NEW s \in Seq(CallRecords), s # <<>>, NEW last, NestIn(s, last)
    PROVE  /\ Shut(s) \in Seq(CallRecords) /\ Len(s) \in Nat \ {0} /\ Len(Shut(s)) = Len(s) - 1
           /\ \A i \in 1 .. Len(Shut(s)) : Shut(s)[i] = s[i] /\ i \in 1 .. Len(s) /\ i < Len(s)
           /\ s[Len(s)] \in CallRecords
           /\ NumbersIn(Shut(s)) = NumbersIn(s) \ {s[Len(s)].number} /\ s[Len(s)].number \in NumbersIn(s)
<1>1. Len(s) \in Nat \ {0}
  BY EmptySeq, LenProperties
<1>2. /\ Shut(s) \in Seq(CallRecords) /\ Len(Shut(s)) = Len(s) - 1
      /\ \A i \in 1 .. Len(s) - 1 : Shut(s)[i] = s[i]
  <2>1. \A i \in 1 .. Len(s) - 1 : s[i] \in CallRecords
    BY <1>1, ElementOfSeq
  <2>2. PICK n : n = Len(s) - 1 /\ n \in Nat /\ n <= Len(s)
    BY <1>1
  <2>3. Shut(s) = SubSeq(s, 1, n)
    BY <2>2 DEF Shut
  <2>4. \A i \in 1 .. n : s[i] \in CallRecords
    BY <2>1, <2>2
  <2>5. /\ SubSeq(s, 1, n) \in Seq(CallRecords) /\ Len(SubSeq(s, 1, n)) = (IF 1 <= n THEN n - 1 + 1 ELSE 0)
        /\ \A i \in 1 .. n - 1 + 1 : SubSeq(s, 1, n)[i] = s[1 + i - 1]
    BY <2>2, <2>4, SubSeqProperties
  <2>6. Len(SubSeq(s, 1, n)) = n /\ \A i \in 1 .. n : SubSeq(s, 1, n)[i] = s[i]
    BY <2>2, <2>5
  <2> QED BY <2>2, <2>3, <2>5, <2>6
<1>3. s[Len(s)] \in CallRecords
  BY <1>1, ElementOfSeq
<1>4. PICK u, n : u = Shut(s) /\ n = Len(s) /\ n \in Nat \ {0}
  BY <1>1
<1>5. DOMAIN u = 1 .. n - 1 /\ DOMAIN s = 1 .. n
  BY <1>1, <1>2, <1>4, LenProperties
<1>6. \A i \in 1 .. n - 1 : u[i] = s[i]
  BY <1>2, <1>4
<1>7. \A i \in 1 .. n - 1 : s[i].number # s[n].number
  <2>1. \A i \in 1 .. n : s[i] \in CallRecords
    BY <1>4, ElementOfSeq
  <2>2. \A i \in 1 .. n : s[i].number \in Int
    BY <2>1, CorrelationAssumption DEF CallRecords
  <2>3. \A i \in 1 .. n - 1 : s[i].number < s[n].number
    BY <1>4 DEF NestIn
  <2> QED BY <1>4, <2>2, <2>3
<1>8. {u[i].number : i \in 1 .. n - 1} = {s[i].number : i \in 1 .. n} \ {s[n].number}
  BY <1>4, <1>6, <1>7
<1>9. s[n].number \in {s[i].number : i \in 1 .. n}
  BY <1>4
<1>10. NumbersIn(Shut(s)) = NumbersIn(s) \ {s[Len(s)].number} /\ s[Len(s)].number \in NumbersIn(s)
  <2>1. NumbersIn(u) = {u[i].number : i \in 1 .. n - 1} /\ NumbersIn(s) = {s[i].number : i \in 1 .. n}
    BY <1>5 DEF NumbersIn
  <2>2. NumbersIn(u) = NumbersIn(s) \ {s[n].number} /\ s[n].number \in NumbersIn(s)
    BY <1>8, <1>9, <2>1
  <2> QED BY <1>4, <2>2
<1> QED BY <1>1, <1>2, <1>3, <1>10

LEMMA NumbersOfNone == NumbersIn(<<>>) = {}
BY DEF NumbersIn

LEMMA OpenAreNumbers == \A t : OpenCalls(t) = NumbersIn(caller[t].calls) /\ OpenCalls(t)' = NumbersIn(caller'[t].calls)
BY DEF OpenCalls, NumbersIn

\* What a thread's calls are.
LEMMA CallsOf ==
    ASSUME CorrelationTypes, CallsNest, NEW t \in CallThreads
    PROVE  /\ caller[t] \in CallerRecords /\ caller[t].calls \in Seq(CallRecords)
           /\ NestIn(caller[t].calls, spent.calls)
           /\ OpenCalls(t) \subseteq 1 .. spent.calls
           /\ caller[t].calls # <<>> =>
                 /\ Innermost(t) \in CallRecords /\ Innermost(t).number \in OpenCalls(t)
                 /\ \A i \in 1 .. Len(caller[t].calls) : i # Len(caller[t].calls) => caller[t].calls[i].level < Innermost(t).level
<1>1. caller[t] \in CallerRecords /\ caller[t].calls \in Seq(CallRecords) /\ NestIn(caller[t].calls, spent.calls)
  BY DEF CorrelationTypes, CallerRecords, CallsNest
<1>2. PICK s : s = caller[t].calls /\ s \in Seq(CallRecords) /\ NestIn(s, spent.calls)
  BY <1>1
<1>3. spent.calls \in Nat
  BY CorrelationAssumption DEF CorrelationTypes
<1>4. \A i \in 1 .. Len(s) : s[i] \in CallRecords
  BY <1>2, ElementOfSeq
<1>5. \A i \in 1 .. Len(s) : s[i].number \in 1 .. spent.calls
  <2>1. \A i \in 1 .. Len(s) : s[i].number \in 1 .. MaxApiCalls
    BY <1>4 DEF CallRecords
  <2>2. \A i \in 1 .. Len(s) : s[i].number <= spent.calls
    BY <1>2 DEF NestIn
  <2> QED BY <1>3, <2>1, <2>2
<1>6. DOMAIN s = 1 .. Len(s)
  BY <1>2, LenProperties
<1>7. OpenCalls(t) \subseteq 1 .. spent.calls
  BY <1>2, <1>5, <1>6 DEF OpenCalls
<1>8. ASSUME s # <<>>
      PROVE  /\ Innermost(t) \in CallRecords /\ Innermost(t).number \in OpenCalls(t)
             /\ \A i \in 1 .. Len(s) : i # Len(s) => s[i].level < Innermost(t).level
  <2>1. Len(s) \in Nat \ {0}
    BY <1>2, <1>8, EmptySeq, LenProperties
  <2>2. Len(s) \in 1 .. Len(s) /\ Innermost(t) = s[Len(s)]
    BY <1>2, <2>1 DEF Innermost
  <2> QED BY <1>2, <1>4, <1>6, <2>1, <2>2 DEF NestIn, OpenCalls
<1> QED BY <1>1, <1>2, <1>7, <1>8

----------------------------------------------------------------------------
\* The parts that hold of threads, calls and records, whatever regions do.
Joins ==
    /\ CallsNest /\ IdsDiffer /\ IdsGiven /\ LastOfThread /\ OpenSince /\ NodeKernels
    /\ CallsShut /\ KernelRecords /\ CallsNameTheirs
SameCaller(t) ==
    /\ caller'[t].calls = caller[t].calls /\ caller'[t].pc = caller[t].pc
    /\ caller'[t].for = caller[t].for /\ caller'[t].id = caller[t].id

LEMMA ViewKeeps ==
    ASSUME CorrelationIInv, \A t \in CallThreads : SameCaller(t), spent'.calls = spent.calls,
           UNCHANGED <<correlationId, threadIds, launches, written>>
    PROVE  Joins'
<1> USE DEF CorrelationIInv
<1>1. \A t \in CallThreads : OpenCalls(t)' = OpenCalls(t) /\ (Given(t)' <=> Given(t)) /\ (AtNodeEnd(t)' <=> AtNodeEnd(t))
  BY DEF SameCaller, OpenCalls, Given, AtNodeEnd
<1>2. CallsNest'
  BY <1>1 DEF CallsNest, SameCaller
<1>3. IdsDiffer' /\ CallsNameTheirs'
  BY DEF IdsDiffer, CallsNameTheirs, LaunchesIn
<1>4. \A t \in CallThreads : InCall(t, "NODE")' <=> InCall(t, "NODE")
  BY DEF InCall, Innermost, SameCaller
<1>5. IdsGiven'
  BY <1>1, <1>4 DEF IdsGiven, SameCaller
<1>6. LastOfThread'
  BY DEF LastOfThread, SameCaller
<1>7. OpenSince'
  BY <1>1 DEF OpenSince
<1>8. NodeKernels'
  BY <1>1 DEF NodeKernels, SameCaller
<1>9. CallsShut'
  <2>1. \A u \in CallThreads : Innermost(u)' = Innermost(u)
    BY DEF Innermost, SameCaller
  <2> QED BY <1>1, <2>1 DEF CallsShut
<1>10. \A l \in launches : Unqueued(l)' <=> Unqueued(l)
  BY DEF Unqueued, SameCaller, CorrelationTypes
<1>11. KernelRecords'
  BY <1>10 DEF KernelRecords
<1> QED BY <1>2, <1>3, <1>5, <1>6, <1>7, <1>8, <1>9, <1>11 DEF Joins

LEMMA PushKeeps ==
    ASSUME CorrelationIInv, NEW t \in CallThreads, NEW x \in Regions, PushExternalCorrelationId(t, x)
    PROVE  CorrelationIInv'
<1> USE DEF CorrelationIInv
<1>1. /\ spent' = [spent EXCEPT !.opened = @ + 1]
      /\ external' = [external EXCEPT ![x] = Append(@, [id |-> spent.opened + 1, by |-> t])]
      /\ UNCHANGED <<correlationId, threadIds, enabled, caller, launches, written>>
  BY DEF PushExternalCorrelationId
<1>0. /\ spent \in [calls: 0 .. MaxApiCalls, opened: Nat, failures: Nat]
      /\ external \in [Regions -> Seq([id: Nat, by: CallThreads])]
  BY DEF CorrelationTypes
<1>2. /\ spent' \in [calls: 0 .. MaxApiCalls, opened: Nat, failures: Nat] /\ spent'.calls = spent.calls
      /\ spent'.opened = spent.opened + 1 /\ spent.opened \in Nat
  <2>1. PICK k : k = spent.opened /\ k \in Nat /\ k + 1 \in Nat
    BY <1>0
  <2>2. spent' = [spent EXCEPT !.opened = k + 1]
    BY <1>1, <2>1
  <2> QED BY <1>0, <2>1, <2>2
<1>b. external[x] \in Seq([id: Nat, by: CallThreads]) /\ [id |-> spent.opened + 1, by |-> t] \in [id: Nat, by: CallThreads]
  <2>1. spent.opened + 1 \in Nat
    BY <1>2
  <2> QED BY <1>0, <2>1
<1>c. PICK s : s = external[x] /\ s \in Seq([id: Nat, by: CallThreads])
  BY <1>b
<1>d. PICK e : e = [id |-> spent.opened + 1, by |-> t] /\ e \in [id: Nat, by: CallThreads]
  BY <1>b
<1>3. /\ s = external[x] /\ e = [id |-> spent.opened + 1, by |-> t] /\ e \in [id: Nat, by: CallThreads]
      /\ s \in Seq([id: Nat, by: CallThreads]) /\ e.id = spent.opened + 1
  BY <1>c, <1>d
<1>4. /\ Append(s, e) \in Seq([id: Nat, by: CallThreads]) /\ Len(s) \in Nat /\ Len(Append(s, e)) = Len(s) + 1
      /\ \A i \in 1 .. Len(s) : Append(s, e)[i] = s[i]
      /\ Append(s, e)[Len(s) + 1] = e
  BY <1>3, AppendProperties, LenProperties
<1>5. external' \in [Regions -> Seq([id: Nat, by: CallThreads])] /\ external'[x] = Append(s, e)
      /\ \A y \in Regions \ {x} : external'[y] = external[y]
  BY <1>1, <1>3, <1>4 DEF CorrelationTypes
<1>6. CorrelationTypes'
  BY <1>1, <1>2, <1>5 DEF CorrelationTypes
<1>7. Joins'
  BY <1>1, <1>2, ViewKeeps DEF SameCaller
<1>8. RegionsRise'
  <2>1. ASSUME NEW y \in Regions, NEW i \in 1 .. Len(external[y]) PROVE external[y][i].id \in Nat
    <3>1. external[y][i] \in [id: Nat, by: CallThreads]
      BY <1>0, ElementOfSeq
    <3> QED BY <3>1
  <2>2. ASSUME NEW y \in Regions \ {x} PROVE RisesIn(external'[y], spent'.opened)
    <3>1. RisesIn(external[y], spent.opened) /\ external'[y] = external[y]
      BY <1>5 DEF RegionsRise
    <3> QED BY <1>2, <2>1, <3>1 DEF RisesIn
  <2>3. RisesIn(Append(s, e), spent'.opened)
    <3>1. RisesIn(s, spent.opened) /\ \A i \in 1 .. Len(s) : s[i].id \in Nat
      BY <1>3, <2>1 DEF RegionsRise
    <3>2. PICK n, u, k : n = Len(s) /\ u = Append(s, e) /\ k = spent.opened /\ n \in Nat /\ k \in Nat
      BY <1>2, <1>4
    <3>3. /\ Len(u) = n + 1 /\ u[n + 1].id = k + 1 /\ \A i \in 1 .. n : u[i] = s[i]
      BY <1>3, <1>4, <3>2
    <3>4. \A i \in 1 .. n : u[i].id \in Nat /\ u[i].id <= k /\ \A j \in 1 .. i - 1 : u[j].id < u[i].id
      BY <3>1, <3>2, <3>3 DEF RisesIn
    <3>5. ASSUME NEW i \in 1 .. n + 1 PROVE u[i].id <= k + 1 /\ \A j \in 1 .. i - 1 : u[j].id < u[i].id
      <4>1. CASE i = n + 1
        BY <3>2, <3>3, <3>4, <4>1
      <4>2. CASE i \in 1 .. n
        BY <3>2, <3>4, <4>2
      <4> QED BY <3>2, <4>1, <4>2
    <3>6. RisesIn(u, k + 1)
      BY <3>3, <3>5 DEF RisesIn
    <3> QED BY <1>2, <3>2, <3>6
  <2> QED BY <1>5, <2>2, <2>3 DEF RegionsRise
<1>9. RegionsKept'
  BY <1>1 DEF RegionsKept
<1> QED BY <1>6, <1>7, <1>8, <1>9 DEF Joins

LEMMA PopKeeps ==
    ASSUME CorrelationIInv, NEW t \in CallThreads, NEW x \in Regions, PopExternalCorrelationId(t, x)
    PROVE  CorrelationIInv'
<1> USE DEF CorrelationIInv
<1>1. /\ external' = [external EXCEPT ![x] = Shut(@)] /\ external[x] # <<>>
      /\ UNCHANGED <<correlationId, threadIds, enabled, caller, launches, written, spent>>
  BY DEF PopExternalCorrelationId
<1>0. /\ external \in [Regions -> Seq([id: Nat, by: CallThreads])] /\ external[x] \in Seq([id: Nat, by: CallThreads])
  BY DEF CorrelationTypes
<1>a. Len(external[x]) \in Nat /\ Len(external[x]) # 0
  BY <1>0, <1>1, EmptySeq, LenProperties
<1>2. PICK s, n : /\ s = external[x] /\ s \in Seq([id: Nat, by: CallThreads]) /\ s # <<>>
                  /\ n = Len(s) - 1 /\ n \in Nat /\ Len(s) = n + 1
  BY <1>0, <1>1, <1>a
<1>3. \A i \in 1 .. n : s[i] \in [id: Nat, by: CallThreads]
  <2>1. \A i \in 1 .. Len(s) : s[i] \in [id: Nat, by: CallThreads]
    BY <1>2, ElementOfSeq
  <2> QED BY <1>2, <2>1
<1>4. /\ SubSeq(s, 1, n) \in Seq([id: Nat, by: CallThreads]) /\ Len(SubSeq(s, 1, n)) = n
      /\ \A i \in 1 .. n : SubSeq(s, 1, n)[i] = s[i]
  <2>1. /\ SubSeq(s, 1, n) \in Seq([id: Nat, by: CallThreads])
        /\ Len(SubSeq(s, 1, n)) = (IF 1 <= n THEN n - 1 + 1 ELSE 0)
        /\ \A i \in 1 .. n - 1 + 1 : SubSeq(s, 1, n)[i] = s[1 + i - 1]
    BY <1>2, <1>3, SubSeqProperties
  <2> QED BY <1>2, <2>1
<1>5. external' \in [Regions -> Seq([id: Nat, by: CallThreads])] /\ external'[x] = SubSeq(s, 1, n)
      /\ \A y \in Regions \ {x} : external'[y] = external[y]
  BY <1>1, <1>2, <1>4 DEF CorrelationTypes, Shut
<1>6. CorrelationTypes'
  BY <1>1, <1>5 DEF CorrelationTypes
<1>7. Joins'
  BY <1>1, ViewKeeps DEF SameCaller
<1>8. RegionsRise'
  <2>1. RisesIn(SubSeq(s, 1, n), spent.opened)
    <3>1. PICK u : u = SubSeq(s, 1, n) /\ Len(u) = n /\ \A i \in 1 .. n : u[i] = s[i]
      BY <1>4
    <3>2. RisesIn(s, spent.opened)
      BY <1>2 DEF RegionsRise
    <3>3. \A i \in 1 .. n : s[i].id <= spent.opened /\ \A j \in 1 .. i - 1 : s[j].id < s[i].id
      BY <1>2, <3>2 DEF RisesIn
    <3>4. \A i \in 1 .. n : u[i].id <= spent.opened /\ \A j \in 1 .. i - 1 : u[j].id < u[i].id
      BY <1>2, <3>1, <3>3
    <3> QED BY <3>1, <3>4 DEF RisesIn
  <2> QED BY <1>1, <1>5, <2>1 DEF RegionsRise
<1>9. RegionsKept'
  BY <1>1 DEF RegionsKept
<1> QED BY <1>6, <1>7, <1>8, <1>9 DEF Joins

----------------------------------------------------------------------------
\* What no step of another thread changes of a thread.
LEMMA OthersSame ==
    ASSUME CorrelationTypes, NEW t \in CallThreads, \A u \in CallThreads \ {t} : caller'[u] = caller[u]
    PROVE  /\ \A u \in CallThreads \ {t} :
                 /\ OpenCalls(u)' = OpenCalls(u) /\ (Given(u)' <=> Given(u)) /\ (AtNodeEnd(u)' <=> AtNodeEnd(u))
                 /\ (InCall(u, "NODE")' <=> InCall(u, "NODE")) /\ Innermost(u)' = Innermost(u)
           /\ \A l \in launches : l.thread # t => (Unqueued(l)' <=> Unqueued(l))
<1>1. ASSUME NEW u \in CallThreads \ {t}
      PROVE  /\ OpenCalls(u)' = OpenCalls(u) /\ (Given(u)' <=> Given(u)) /\ (AtNodeEnd(u)' <=> AtNodeEnd(u))
             /\ (InCall(u, "NODE")' <=> InCall(u, "NODE")) /\ Innermost(u)' = Innermost(u)
  <2>1. caller'[u] = caller[u]
    OBVIOUS
  <2> QED BY <2>1 DEF OpenCalls, Given, AtNodeEnd, InCall, Innermost
<1>2. ASSUME NEW l \in launches, l.thread # t PROVE Unqueued(l)' <=> Unqueued(l)
  <2>1. l.thread \in CallThreads
    BY DEF CorrelationTypes
  <2>2. caller'[l.thread] = caller[l.thread]
    BY <1>2, <2>1
  <2> QED BY <2>2 DEF Unqueued
<1> QED BY <1>1, <1>2

\* While no region, launch or switch changes, what was joined stays joined.
LEMMA RegionsStay ==
    ASSUME RegionsRise, RegionsKept, UNCHANGED <<external, enabled, launches>>, spent'.opened = spent.opened,
           written \subseteq written'
    PROVE  RegionsRise' /\ RegionsKept'
<1>1. RegionsRise'
  BY DEF RegionsRise
<1>2. \A l, x : JoinedIn(l, x, written) => JoinedIn(l, x, written')
  BY DEF JoinedIn
<1>3. RegionsKept'
  BY <1>2 DEF RegionsKept
<1> QED BY <1>1, <1>3

LEMMA BeginKeeps ==
    ASSUME CorrelationIInv, NEW t \in CallThreads, NEW level \in CallLevels, BeginCall(t, level)
    PROVE  CorrelationIInv'
<1>0. /\ CorrelationTypes /\ CallsNest /\ IdsDiffer /\ IdsGiven /\ LastOfThread /\ OpenSince /\ NodeKernels
      /\ CallsShut /\ KernelRecords /\ CallsNameTheirs /\ RegionsRise /\ RegionsKept
  BY DEF CorrelationIInv
<1>1. /\ At(t, "free") /\ spent.calls < MaxApiCalls
      /\ \A i \in DOMAIN caller[t].calls : caller[t].calls[i].level < level
      /\ spent' = [spent EXCEPT !.calls = @ + 1]
      /\ caller' = [caller EXCEPT ![t].calls = Append(@, [number |-> spent.calls + 1, level |-> level])]
      /\ UNCHANGED <<correlationId, threadIds, external, enabled, launches, written>>
  BY DEF BeginCall
<1>2. PICK n : n = spent.calls /\ n \in 0 .. MaxApiCalls /\ n \in Nat /\ n + 1 \in 1 .. MaxApiCalls /\ MaxApiCalls \in Nat
  BY <1>0, <1>1, CorrelationAssumption DEF CorrelationTypes
<1>3. /\ spent' = [spent EXCEPT !.calls = n + 1] /\ spent'.calls = n + 1 /\ spent'.opened = spent.opened
      /\ spent' \in [calls: 0 .. MaxApiCalls, opened: Nat, failures: Nat]
  <2>1. spent \in [calls: 0 .. MaxApiCalls, opened: Nat, failures: Nat]
    BY <1>0 DEF CorrelationTypes
  <2>2. spent' = [spent EXCEPT !.calls = n + 1]
    BY <1>1, <1>2
  <2>3. n + 1 \in 0 .. MaxApiCalls
    BY <1>2
  <2> QED BY <2>1, <2>2, <2>3
<1>4. PICK s : /\ s = caller[t].calls /\ s \in Seq(CallRecords) /\ NestIn(s, n) /\ NumbersIn(s) \subseteq 1 .. n
               /\ OpenCalls(t) = NumbersIn(s)
  BY <1>0, <1>2, CallsOf, OpenAreNumbers
<1>b. [number |-> n + 1, level |-> level] \in CallRecords
  BY <1>2 DEF CallRecords
<1>5. PICK c : c = [number |-> n + 1, level |-> level] /\ c \in CallRecords
  BY <1>b
<1>6. PICK u : u = Append(s, c)
  OBVIOUS
<1>7. /\ u \in Seq(CallRecords) /\ Len(s) \in Nat /\ Len(u) = Len(s) + 1
      /\ \A i \in 1 .. Len(s) : u[i] = s[i]
      /\ u[Len(s) + 1] = c /\ NumbersIn(u) = NumbersIn(s) \cup {n + 1}
  BY <1>4, <1>5, <1>6, CallAdded
<1>8. /\ caller' = [caller EXCEPT ![t].calls = u] /\ caller[t] \in CallerRecords
      /\ caller \in [CallThreads -> CallerRecords]
  <2>1. Append(caller[t].calls, [number |-> spent.calls + 1, level |-> level]) = u
    BY <1>2, <1>4, <1>5, <1>6
  <2>2. caller \in [CallThreads -> CallerRecords]
    BY <1>0 DEF CorrelationTypes
  <2> QED BY <1>1, <2>1, <2>2
<1>9. /\ caller' \in [CallThreads -> CallerRecords]
      /\ caller'[t].calls = u /\ caller'[t].pc = "free" /\ caller[t].pc = "free"
      /\ caller'[t].id = caller[t].id /\ caller'[t].for = caller[t].for
      /\ \A v \in CallThreads \ {t} : caller'[v] = caller[v]
  <2>1. PICK r : r = [caller[t] EXCEPT !.calls = u]
    OBVIOUS
  <2>2. r \in CallerRecords /\ r.calls = u /\ r.pc = caller[t].pc /\ r.id = caller[t].id /\ r.for = caller[t].for
    BY <1>7, <1>8, <2>1 DEF CallerRecords
  <2>3. caller' = [caller EXCEPT ![t] = r]
    BY <1>8, <2>1
  <2>4. caller' \in [CallThreads -> CallerRecords] /\ caller'[t] = r /\ \A v \in CallThreads \ {t} : caller'[v] = caller[v]
    BY <1>8, <2>2, <2>3
  <2> QED BY <1>1, <2>2, <2>4 DEF At
<1>10. /\ OpenCalls(t)' = OpenCalls(t) \cup {n + 1} /\ ~Given(t) /\ ~Given(t)' /\ ~AtNodeEnd(t) /\ ~AtNodeEnd(t)'
       /\ OpenCalls(t) \subseteq 1 .. n
  BY <1>4, <1>7, <1>9, OpenAreNumbers DEF Given, AtNodeEnd
<1>11. \A v \in CallThreads \ {t} :
                 /\ OpenCalls(v)' = OpenCalls(v) /\ (Given(v)' <=> Given(v)) /\ (AtNodeEnd(v)' <=> AtNodeEnd(v))
                 /\ (InCall(v, "NODE")' <=> InCall(v, "NODE")) /\ Innermost(v)' = Innermost(v)
  BY <1>0, <1>9, OthersSame
<1>12. \A v \in CallThreads : OpenCalls(v) \subseteq 1 .. n
  BY <1>0, <1>2, CallsOf
<1>13. \A l \in launches : l.within \subseteq 1 .. n
  BY <1>0, <1>2 DEF CorrelationTypes
<1>14. n + 1 \notin 1 .. n
  BY <1>2
<1>15. CorrelationTypes'
  <2>1. \A l \in launches : l.within \subseteq 1 .. spent'.calls
    <3>1. 1 .. n \subseteq 1 .. n + 1
      BY <1>2
    <3> QED BY <1>3, <1>13, <3>1
  <2> QED BY <1>0, <1>1, <1>3, <1>9, <2>1 DEF CorrelationTypes
<1>16. CallsNest'
  <2>1. NestIn(u, n + 1)
    <3>1. PICK m : m = Len(s) /\ m \in Nat
      BY <1>7
    <3>2. \A i \in 1 .. m : s[i] \in CallRecords
      BY <1>4, <3>1, ElementOfSeq
    <3>a. \A x \in CallRecords : x.number \in Int /\ x.level \in Int
      <4>1. \A x \in CallRecords : x.number \in 1 .. MaxApiCalls /\ x.level \in CallLevels
        BY DEF CallRecords
      <4>2. \A k \in CallLevels : k \in Int
        BY CorrelationAssumption
      <4> QED BY <4>1, <4>2
    <3>b. \A i \in 1 .. m : u[i] = s[i]
      BY <1>7, <3>1
    <3>c. /\ \A i \in 1 .. m : s[i].number <= n /\ i <= s[i].level
          /\ \A i, j \in 1 .. m : i < j => s[i].level < s[j].level /\ s[i].number < s[j].number
      BY <1>4, <3>1 DEF NestIn
    <3>3. /\ \A i \in 1 .. m : u[i].number <= n /\ i <= u[i].level /\ u[i].number \in Int /\ u[i].level \in Int
          /\ \A i, j \in 1 .. m : i < j => u[i].level < u[j].level /\ u[i].number < u[j].number
      BY <3>2, <3>a, <3>b, <3>c
    <3>4. \A i \in 1 .. m : u[i].level < level
      <4>1. DOMAIN s = 1 .. m
        BY <1>4, <3>1, LenProperties
      <4> QED BY <1>1, <1>4, <1>7, <3>1, <4>1
    <3>5. u[m + 1].number = n + 1 /\ u[m + 1].level = level /\ level \in 1 .. 4
      BY <1>5, <1>7, <3>1, CorrelationAssumption
    <3>6. m + 1 <= level
      <4>1. CASE m = 0
        BY <3>5, <4>1
      <4>2. CASE m # 0
        <5>1. m \in 1 .. m
          BY <3>1, <4>2
        <5>2. m <= u[m].level /\ u[m].level < level /\ u[m].level \in Int
          BY <3>3, <3>4, <5>1
        <5> QED BY <3>1, <3>5, <5>2
      <4> QED BY <4>1, <4>2
    <3>7. ASSUME NEW i \in 1 .. m + 1 PROVE u[i].number <= n + 1 /\ i <= u[i].level
      <4>1. CASE i = m + 1
        BY <1>2, <3>5, <3>6, <4>1
      <4>2. CASE i \in 1 .. m
        BY <1>2, <3>3, <4>2
      <4> QED BY <3>1, <4>1, <4>2
    <3>8. ASSUME NEW i \in 1 .. m + 1, NEW j \in 1 .. m + 1, i < j
          PROVE  u[i].level < u[j].level /\ u[i].number < u[j].number
      <4>0. i \in 1 .. m
        BY <3>1, <3>8
      <4>1. CASE j = m + 1
        BY <1>2, <3>3, <3>4, <3>5, <4>0, <4>1
      <4>2. CASE j \in 1 .. m
        BY <3>3, <3>8, <4>0, <4>2
      <4> QED BY <3>1, <4>1, <4>2
    <3> QED BY <1>7, <3>1, <3>7, <3>8 DEF NestIn
  <2>2. ASSUME NEW v \in CallThreads \ {t} PROVE NestIn(caller'[v].calls, n + 1)
    <3>1. NestIn(caller[v].calls, n) /\ caller[v].calls \in Seq(CallRecords)
      BY <1>0, <1>2, CallsOf
    <3>2. \A i \in 1 .. Len(caller[v].calls) : caller[v].calls[i] \in CallRecords
      BY <3>1, ElementOfSeq
    <3>a. \A x \in CallRecords : x.number \in Int
      BY CorrelationAssumption DEF CallRecords
    <3>3. \A i \in 1 .. Len(caller[v].calls) : caller[v].calls[i].number \in Int
      BY <3>2, <3>a
    <3>4. caller'[v].calls = caller[v].calls
      BY <1>9
    <3> QED BY <1>2, <3>1, <3>3, <3>4 DEF NestIn
  <2>3. ASSUME NEW v \in CallThreads, NEW w \in CallThreads, v # w PROVE OpenCalls(v)' \cap OpenCalls(w)' = {}
    BY <1>0, <1>10, <1>11, <1>12, <1>14, <2>3 DEF CallsNest
  <2> QED BY <1>3, <1>9, <2>1, <2>2, <2>3 DEF CallsNest
<1>17. IdsDiffer' /\ CallsNameTheirs'
  BY <1>0, <1>1 DEF IdsDiffer, CallsNameTheirs, LaunchesIn
<1>18. IdsGiven'
  BY <1>0, <1>1, <1>9, <1>10, <1>11 DEF IdsGiven
<1>19. LastOfThread'
  BY <1>0, <1>1, <1>9 DEF LastOfThread
<1>20. OpenSince'
  <2>1. \A v \in CallThreads : \A l \in launches : \A d \in OpenCalls(v)' : d \in l.within => d \in OpenCalls(v)
    BY <1>10, <1>11, <1>13, <1>14
  <2> QED BY <1>0, <1>1, <2>1 DEF OpenSince
<1>21. NodeKernels'
  <2>1. ASSUME NEW i \in 1 .. Len(u), Levels[u[i].level] = "NODE", NEW l \in launches, u[i].number \in l.within
        PROVE  l.for = "KERNEL"
    <3>1. CASE i = Len(s) + 1
      <4>1. u[i].number = n + 1
        BY <1>5, <1>7, <3>1
      <4> QED BY <1>13, <1>14, <2>1, <4>1
    <3>2. CASE i \in 1 .. Len(s)
      <4>1. u[i] = s[i]
        BY <1>7, <3>2
      <4> QED BY <1>0, <1>4, <1>10, <2>1, <3>2, <4>1 DEF NodeKernels
    <3> QED BY <1>7, <3>1, <3>2
  <2>2. ASSUME NEW v \in CallThreads, NEW i \in 1 .. Len(caller'[v].calls),
               Levels[caller'[v].calls[i].level] = "NODE" /\ ~AtNodeEnd(v)',
               NEW l \in launches, caller'[v].calls[i].number \in l.within
        PROVE  l.for = "KERNEL"
    <3>1. CASE v = t
      BY <1>9, <2>1, <2>2, <3>1
    <3>2. CASE v # t
      BY <1>0, <1>9, <1>11, <2>2, <3>2 DEF NodeKernels
    <3> QED BY <3>1, <3>2
  <2> QED BY <1>1, <2>2 DEF NodeKernels
<1>22. CallsShut'
  <2>1. ASSUME NEW w \in written, w.kind \in ApiKinds
        PROVE  /\ w.call \in 1 .. n /\ w.call \in 1 .. n + 1
               /\ \A v \in CallThreads : w.call \in OpenCalls(v) =>
                     w.kind = "NODE_API" /\ AtNodeEnd(v) /\ w.call = Innermost(v).number
    BY <1>0, <1>2, <2>1 DEF CallsShut
  <2>2. ASSUME NEW w \in written, w.kind \in ApiKinds, NEW v \in CallThreads, w.call \in OpenCalls(v)'
        PROVE  w.kind = "NODE_API" /\ AtNodeEnd(v)' /\ w.call = Innermost(v)'.number
    <3>1. w.call \in OpenCalls(v)
      BY <1>10, <1>11, <1>14, <2>1, <2>2
    <3>2. v # t
      BY <1>10, <2>1, <2>2, <3>1
    <3> QED BY <1>11, <2>1, <2>2, <3>1, <3>2
  <2> QED BY <1>1, <1>3, <2>1, <2>2 DEF CallsShut
<1>23. KernelRecords'
  <2>1. \A l \in launches : Unqueued(l)' <=> Unqueued(l)
    <3>1. \A l \in launches : l.thread # t => (Unqueued(l)' <=> Unqueued(l))
      BY <1>0, <1>9, OthersSame
    <3>2. \A l \in launches : l.thread = t => ~Unqueued(l)' /\ ~Unqueued(l)
      BY <1>9 DEF Unqueued
    <3> QED BY <3>1, <3>2
  <2> QED BY <1>0, <1>1, <2>1 DEF KernelRecords
<1>24. RegionsRise' /\ RegionsKept'
  BY <1>0, <1>1, <1>3, RegionsStay
<1> QED BY <1>15, <1>16, <1>17, <1>18, <1>19, <1>20, <1>21, <1>22, <1>23, <1>24 DEF CorrelationIInv

Named(w) ==
    IF LaunchesIn(w) # {}
    THEN w.id = Max({l.id : l \in LaunchesIn(w)})
    ELSE w.id = MSPTI_INVALID_CORRELATION_ID \/ \E l \in launches : l.id = w.id /\ l.thread = w.thread

\* The record of a call that is about to leave, or of a node launch that ends, names what it should.
LEMMA ApiNamed ==
    ASSUME NEW t \in CallThreads, NEW kind, NEW w, w = Entry(kind, t, threadIds[t], Innermost(t).number),
           CorrelationIInv, caller[t].calls # <<>>, caller[t].pc # "note",
           kind = "NODE_API" => InCall(t, "NODE") /\ ~AtNodeEnd(t)
    PROVE  Named(w)
<1>0. CorrelationTypes /\ CallsNest /\ LastOfThread /\ OpenSince /\ NodeKernels
  BY DEF CorrelationIInv
<1>1. w.thread = t /\ w.id = threadIds[t] /\ w.call = Innermost(t).number /\ w.kind = kind
  BY DEF Entry
<1>2. w.id \in 0 .. MaxIds
  BY <1>0, <1>1 DEF CorrelationTypes
<1>3. w.call \in OpenCalls(t)
  BY <1>0, <1>1, CallsOf
<1>4. \A l \in launches : l.id \in 1 .. correlationId - 1 /\ correlationId \in 1 .. MaxIds + 1 /\ MaxIds \in Nat
  BY <1>0, CorrelationAssumption DEF CorrelationTypes
<1>5. \A l \in LaunchesIn(w) : l \in launches /\ w.call \in l.within /\ l.thread = t
  BY <1>0, <1>3 DEF LaunchesIn, OpenSince
<1>6. \A l \in LaunchesIn(w) : l.id <= w.id
  BY <1>0, <1>1, <1>5 DEF LastOfThread
<1>7. CASE LaunchesIn(w) = {}
  <2>1. w.id = MSPTI_INVALID_CORRELATION_ID \/ \E l \in launches : l.id = w.id /\ l.thread = w.thread
    BY <1>0, <1>1 DEF LastOfThread
  <2> QED BY <1>7, <2>1 DEF Named
<1>8. CASE LaunchesIn(w) # {}
  <2>1. PICK l : l \in LaunchesIn(w)
    BY <1>8
  <2>2. l.id \in Nat \ {0} /\ l.id <= w.id /\ l \in launches /\ w.call \in l.within
    BY <1>4, <1>5, <1>6, <2>1
  <2>3. w.id # MSPTI_INVALID_CORRELATION_ID
    BY <1>2, <2>2 DEF MSPTI_INVALID_CORRELATION_ID
  <2>4. PICK m \in launches : m.thread = t /\ m.id = w.id
    BY <1>0, <1>1, <2>3 DEF LastOfThread
  <2>5. w.call \in m.within
    BY <1>0, <1>3, <2>2, <2>4 DEF OpenSince
  <2>6. w.kind = "NODE_API" => m.for = "KERNEL"
    <3>1. SUFFICES ASSUME kind = "NODE_API" PROVE m.for = "KERNEL"
      BY <1>1
    <3>2. PICK n : n = Len(caller[t].calls) /\ n \in Nat \ {0}
      BY <1>0, CallsOf, EmptySeq, LenProperties
    <3>3. n \in 1 .. n /\ Innermost(t) = caller[t].calls[n]
      BY <3>2 DEF Innermost
    <3>4. Levels[caller[t].calls[n].level] = "NODE" /\ ~AtNodeEnd(t)
      BY <3>1, <3>3 DEF InCall
    <3> QED BY <1>0, <1>1, <2>4, <2>5, <3>2, <3>3, <3>4 DEF NodeKernels
  <2>7. m \in LaunchesIn(w)
    BY <2>4, <2>5, <2>6 DEF LaunchesIn
  <2>8. {k.id : k \in LaunchesIn(w)} \subseteq Int /\ w.id \in {k.id : k \in LaunchesIn(w)}
        /\ \A y \in {k.id : k \in LaunchesIn(w)} : y <= w.id
    BY <1>4, <1>5, <1>6, <2>4, <2>7
  <2>9. Max({k.id : k \in LaunchesIn(w)}) = w.id
    BY <2>8, MaxIs
  <2> QED BY <1>8, <2>9 DEF Named
<1> QED BY <1>7, <1>8

LEMMA CallerSet ==
    ASSUME CorrelationTypes, NEW t \in CallThreads, NEW r \in CallerRecords, caller' = [caller EXCEPT ![t] = r]
    PROVE  /\ caller' \in [CallThreads -> CallerRecords] /\ caller'[t] = r
           /\ \A u \in CallThreads \ {t} : caller'[u] = caller[u]
<1>1. caller \in [CallThreads -> CallerRecords]
  BY DEF CorrelationTypes
<1> QED BY <1>1

\* What a step that leaves the thread's calls open keeps of the calls.
LEMMA CallsStay ==
    ASSUME CorrelationTypes, CallsNest, NEW t \in CallThreads, \A u \in CallThreads \ {t} : caller'[u] = caller[u],
           caller'[t].calls = caller[t].calls, spent'.calls = spent.calls
    PROVE  /\ CallsNest' /\ \A u \in CallThreads : caller'[u].calls = caller[u].calls /\ OpenCalls(u)' = OpenCalls(u)
           /\ Innermost(t)' = Innermost(t) /\ (InCall(t, "NODE")' <=> InCall(t, "NODE"))
<1>1. \A u \in CallThreads : caller'[u].calls = caller[u].calls
  OBVIOUS
<1>2. \A u \in CallThreads : OpenCalls(u)' = OpenCalls(u)
  BY <1>1 DEF OpenCalls
<1>3. CallsNest'
  BY <1>1, <1>2 DEF CallsNest
<1>4. Innermost(t)' = Innermost(t) /\ (InCall(t, "NODE")' <=> InCall(t, "NODE"))
  BY <1>1 DEF Innermost, InCall
<1> QED BY <1>1, <1>2, <1>3, <1>4

\* An id is taken, after the node launch it is for has been written.
LEMMA TakeKeeps ==
    ASSUME CorrelationIInv, NEW t \in CallThreads, NEW for \in {"KERNEL", "COMMUNICATION"}, TakesId(t, for), At(t, "free"),
           caller[t].calls # <<>>, for = "COMMUNICATION" => InCall(t, "NODE"),
           UNCHANGED <<threadIds, external, enabled, launches, spent>>,
           \/ written' = written
           \/ /\ for = "COMMUNICATION"
              /\ written' = written \cup {Entry("NODE_API", t, threadIds[t], Innermost(t).number)}
    PROVE  CorrelationIInv'
<1>0. /\ CorrelationTypes /\ CallsNest /\ IdsDiffer /\ IdsGiven /\ LastOfThread /\ OpenSince /\ NodeKernels
      /\ CallsShut /\ KernelRecords /\ CallsNameTheirs /\ RegionsRise /\ RegionsKept
  BY DEF CorrelationIInv
<1>1. /\ correlationId <= MaxIds /\ correlationId' = correlationId + 1
      /\ caller' = [caller EXCEPT ![t].pc = "external", ![t].for = for, ![t].id = correlationId]
      /\ caller[t].pc = "free"
  BY DEF TakesId, At
<1>2. PICK k : k = correlationId /\ k \in 1 .. MaxIds /\ correlationId' = k + 1 /\ k \in Nat
  BY <1>0, <1>1, CorrelationAssumption DEF CorrelationTypes
<1>3. PICK r : r = [caller[t] EXCEPT !.pc = "external", !.for = for, !.id = k]
  OBVIOUS
<1>4. caller[t] \in CallerRecords /\ k \in 0 .. MaxIds
  BY <1>0, <1>2, CallsOf, CorrelationAssumption
<1>5. r \in CallerRecords /\ r.calls = caller[t].calls /\ r.pc = "external" /\ r.id = k /\ r.for = for
  BY <1>3, <1>4 DEF CallerRecords
<1>6. caller' = [caller EXCEPT ![t] = r]
  BY <1>0, <1>1, <1>2, <1>3 DEF CorrelationTypes
<1>7. /\ caller' \in [CallThreads -> CallerRecords] /\ caller'[t] = r
      /\ \A u \in CallThreads \ {t} : caller'[u] = caller[u]
  BY <1>0, <1>5, <1>6, CallerSet
<1>8. /\ \A u \in CallThreads \ {t} :
                 /\ OpenCalls(u)' = OpenCalls(u) /\ (Given(u)' <=> Given(u)) /\ (AtNodeEnd(u)' <=> AtNodeEnd(u))
                 /\ (InCall(u, "NODE")' <=> InCall(u, "NODE")) /\ Innermost(u)' = Innermost(u)
      /\ \A l \in launches : l.thread # t => (Unqueued(l)' <=> Unqueued(l))
  BY <1>0, <1>7, OthersSame
<1>9. /\ CallsNest' /\ \A u \in CallThreads : caller'[u].calls = caller[u].calls /\ OpenCalls(u)' = OpenCalls(u)
      /\ Innermost(t)' = Innermost(t) /\ (InCall(t, "NODE")' <=> InCall(t, "NODE"))
  BY <1>0, <1>5, <1>7, CallsStay
<1>10. ~Given(t) /\ Given(t)' /\ ~AtNodeEnd(t) /\ (AtNodeEnd(t)' <=> for = "COMMUNICATION")
  BY <1>1, <1>5, <1>7 DEF Given, AtNodeEnd
<1>11. PICK w : w = Entry("NODE_API", t, threadIds[t], Innermost(t).number)
  OBVIOUS
<1>12. for = "COMMUNICATION" =>
           /\ w.thread = t /\ w.id \in 0 .. MaxIds /\ w.call \in OpenCalls(t) /\ w.call = Innermost(t).number /\ w.kind = "NODE_API"
           /\ Named(w)
  <2>1. SUFFICES ASSUME for = "COMMUNICATION"
                 PROVE  /\ w.thread = t /\ w.id \in 0 .. MaxIds /\ w.call \in OpenCalls(t) /\ w.call = Innermost(t).number
                        /\ w.kind = "NODE_API"
                        /\ Named(w)
    OBVIOUS
  <2>2. caller[t].pc # "note" /\ InCall(t, "NODE") /\ ~AtNodeEnd(t)
    BY <1>1, <1>10, <2>1
  <2>3. "NODE_API" = "NODE_API" => InCall(t, "NODE") /\ ~AtNodeEnd(t)
    BY <2>2
  <2>4. caller[t].calls # <<>> /\ CorrelationIInv
    OBVIOUS
  <2>8. caller[t].pc # "note"
    BY <2>2
  <2>9. Named(w)
    BY <1>11, <2>3, <2>4, <2>8, ApiNamed
  <2>10. w.thread = t /\ w.id = threadIds[t] /\ w.call = Innermost(t).number /\ w.kind = "NODE_API"
    BY <1>11 DEF Entry
  <2>11. threadIds[t] \in 0 .. MaxIds /\ Innermost(t).number \in OpenCalls(t)
    BY <1>0, CallsOf DEF CorrelationTypes
  <2> QED BY <2>9, <2>10, <2>11
<1>13. written \subseteq written' /\ \A v \in written' : v \in written \/ (v = w /\ for = "COMMUNICATION")
  BY <1>11
<1>14. CorrelationTypes'
  <2>1. correlationId' \in 1 .. MaxIds + 1 /\ \A l \in launches : l.id \in 1 .. correlationId' - 1
    <3>1. \A l \in launches : l.id \in 1 .. k - 1
      BY <1>0, <1>2 DEF CorrelationTypes
    <3>2. MaxIds \in Nat
      BY CorrelationAssumption
    <3> QED BY <1>2, <3>1, <3>2
  <2>2. \A v \in written' : v.thread \in CallThreads /\ v.id \in 0 .. MaxIds
    BY <1>0, <1>12, <1>13 DEF CorrelationTypes
  <2> QED BY <1>0, <1>7, <2>1, <2>2 DEF CorrelationTypes
<1>15. IdsDiffer'
  BY <1>0 DEF IdsDiffer
<1>16. CallsNameTheirs'
  <2>1. \A v : LaunchesIn(v)' = LaunchesIn(v)
    BY DEF LaunchesIn
  <2>2. \A v : Named(v)' <=> Named(v)
    BY <2>1 DEF Named
  <2>3. \A v \in written : v.kind \in ApiKinds => Named(v)
    BY <1>0 DEF CallsNameTheirs, Named, ApiKinds
  <2>4. \A v \in written' : v.kind \in ApiKinds => Named(v)'
    BY <1>12, <1>13, <2>2, <2>3
  <2> QED BY <2>4 DEF CallsNameTheirs, Named, ApiKinds
<1>17. IdsGiven'
  <2>1. \A l \in launches : l.id # k
    BY <1>0, <1>2 DEF CorrelationTypes
  <2>2. \A u \in CallThreads : Given(u) => caller[u].id \in 1 .. k - 1 /\ caller[u].id \in 1 .. correlationId' - 1 /\ caller[u].id # k
    BY <1>0, <1>2 DEF IdsGiven
  <2>3. ASSUME NEW u \in CallThreads, Given(u)'
        PROVE  /\ caller'[u].calls # <<>> /\ caller'[u].id \in 1 .. correlationId' - 1
               /\ \A v \in CallThreads \ {u} : Given(v)' => caller'[v].id # caller'[u].id
               /\ \A l \in launches : l.id = caller'[u].id =>
                     l.thread = u /\ caller'[u].pc # "external" /\ l.for = caller'[u].for /\ l.within = OpenCalls(u)'
               /\ caller'[u].pc # "external" => \E l \in launches : l.id = caller'[u].id
               /\ caller'[u].pc = "push" => threadIds[u] = caller'[u].id
    <3>1. CASE u = t
      <4>1. k \in 1 .. correlationId' - 1
        BY <1>2
      <4>2. \A v \in CallThreads \ {u} : Given(v)' => caller'[v].id # k
        BY <1>7, <1>8, <2>2, <3>1
      <4> QED BY <1>5, <1>7, <2>1, <3>1, <4>1, <4>2
    <3>2. CASE u # t
      <4>1. Given(u) /\ caller'[u] = caller[u] /\ OpenCalls(u)' = OpenCalls(u)
        BY <1>7, <1>8, <2>3, <3>2
      <4>2. \A v \in CallThreads \ {u} : Given(v)' => caller'[v].id # caller[u].id
        <5>1. ASSUME NEW v \in CallThreads \ {u}, Given(v)' PROVE caller'[v].id # caller[u].id
          <6>1. CASE v = t
            BY <1>5, <1>7, <2>2, <4>1, <6>1
          <6>2. CASE v # t
            BY <1>0, <1>7, <1>8, <4>1, <5>1, <6>2 DEF IdsGiven
          <6> QED BY <6>1, <6>2
        <5> QED BY <5>1
      <4> QED BY <1>0, <2>2, <4>1, <4>2 DEF IdsGiven
    <3> QED BY <3>1, <3>2
  <2>4. \A u \in CallThreads : AtNodeEnd(u)' => InCall(u, "NODE")'
    BY <1>0, <1>8, <1>9, <1>10 DEF IdsGiven
  <2> QED BY <2>3, <2>4 DEF IdsGiven
<1>18. LastOfThread'
  <2>1. \A l \in launches : l.id <= k
    BY <1>0, <1>2 DEF CorrelationTypes
  <2>2. ASSUME NEW u \in CallThreads
        PROVE  /\ threadIds[u] = MSPTI_INVALID_CORRELATION_ID \/ \E l \in launches : l.thread = u /\ l.id = threadIds[u]
               /\ \A l \in launches : l.thread = u =>
                     l.id <= threadIds[u] \/ (caller'[u].pc = "note" /\ l.id = caller'[u].id)
               /\ caller'[u].pc \in {"external", "note"} => \A l \in launches : l.thread = u => l.id <= caller'[u].id
    <3>1. CASE u = t
      <4>1. r.pc = "external" /\ r.id = k /\ caller'[u] = r
        BY <1>5, <1>7, <3>1
      <4>2. \A l \in launches : l.thread = t => l.id <= threadIds[t]
        BY <1>0, <1>1 DEF LastOfThread
      <4>3. threadIds[t] = MSPTI_INVALID_CORRELATION_ID \/ \E l \in launches : l.thread = t /\ l.id = threadIds[t]
        BY <1>0 DEF LastOfThread
      <4> QED BY <2>1, <3>1, <4>1, <4>2, <4>3
    <3>2. CASE u # t
      BY <1>0, <1>7, <3>2 DEF LastOfThread
    <3> QED BY <3>1, <3>2
  <2> QED BY <2>2 DEF LastOfThread
<1>19. OpenSince'
  BY <1>0, <1>9 DEF OpenSince
<1>20. NodeKernels'
  <2>1. \A u \in CallThreads : ~AtNodeEnd(u)' => ~AtNodeEnd(u)
    BY <1>8, <1>10
  <2> QED BY <1>0, <1>9, <2>1 DEF NodeKernels
<1>21. CallsShut'
  <2>1. ASSUME NEW v \in written', v.kind \in ApiKinds
        PROVE  /\ v.call \in 1 .. spent.calls
               /\ \A u \in CallThreads : v.call \in OpenCalls(u)' =>
                     v.kind = "NODE_API" /\ AtNodeEnd(u)' /\ v.call = Innermost(u)'.number
    <3>1. CASE v \in written
      BY <1>0, <1>8, <1>9, <1>10, <2>1, <3>1 DEF CallsShut
    <3>2. CASE v = w /\ for = "COMMUNICATION"
      <4>1. v.call \in OpenCalls(t) /\ v.kind = "NODE_API" /\ v.call = Innermost(t).number
        BY <1>12, <3>2
      <4>2. OpenCalls(t) \subseteq 1 .. spent.calls
        BY <1>0, CallsOf
      <4>3. \A u \in CallThreads : v.call \in OpenCalls(u) => u = t
        BY <1>0, <4>1 DEF CallsNest
      <4> QED BY <1>9, <1>10, <3>2, <4>1, <4>2, <4>3
    <3> QED BY <1>13, <3>1, <3>2
  <2> QED BY <2>1 DEF CallsShut
<1>22. KernelRecords'
  <2>1. \A l \in launches : Unqueued(l)' <=> Unqueued(l)
    <3>1. \A l \in launches : l.thread = t => ~Unqueued(l)' /\ ~Unqueued(l)
      BY <1>1, <1>5, <1>7 DEF Unqueued
    <3> QED BY <1>8, <3>1
  <2>2. \A v : v.kind = "KERNEL" => (v \in written' <=> v \in written)
    BY <1>12, <1>13
  <2>3. ASSUME NEW v \in written', v.kind = "KERNEL"
        PROVE  \E l \in launches : l.for = "KERNEL" /\ l.id = v.id /\ l.thread = v.thread /\ v.call \in l.within /\ ~Unqueued(l)'
    BY <1>0, <2>1, <2>2, <2>3 DEF KernelRecords
  <2>4. ASSUME NEW v \in written', NEW y \in written', v.kind = "KERNEL" /\ y.kind = "KERNEL" /\ y.id = v.id PROVE v = y
    BY <1>0, <2>2, <2>4 DEF KernelRecords
  <2>5. ASSUME NEW l \in launches, l.for = "KERNEL" PROVE Unqueued(l)' \/ \E v \in written' : v.kind = "KERNEL" /\ v.id = l.id
    BY <1>0, <1>13, <2>1, <2>5 DEF KernelRecords
  <2> QED BY <2>3, <2>4, <2>5 DEF KernelRecords
<1>23. RegionsRise' /\ RegionsKept'
  BY <1>0, <1>13, RegionsStay
<1> QED BY <1>9, <1>14, <1>15, <1>16, <1>17, <1>18, <1>19, <1>20, <1>21, <1>22, <1>23 DEF CorrelationIInv

LEMMA TrackKeeps ==
    ASSUME CorrelationIInv, NEW t \in CallThreads, NEW isKernel \in BOOLEAN, TaskTrack(t, isKernel)
    PROVE  CorrelationIInv'
<1>0. /\ CorrelationTypes /\ CallsNest /\ IdsDiffer /\ IdsGiven /\ LastOfThread /\ OpenSince /\ NodeKernels
      /\ CallsShut /\ KernelRecords /\ CallsNameTheirs /\ RegionsRise /\ RegionsKept
  BY DEF CorrelationIInv
<1>1. /\ At(t, "free") /\ InCall(t, "RUNTIME") /\ UNCHANGED <<threadIds, external, enabled, launches, written, spent>>
      /\ caller[t].calls # <<>>
  BY DEF TaskTrack, InCall
<1>2. CASE "KERNEL" \in enabled /\ isKernel
  <2>1. TakesId(t, "KERNEL")
    BY <1>2 DEF TaskTrack
  <2>2. UNCHANGED <<threadIds, external, enabled, launches, spent>> /\ written' = written /\ CorrelationIInv
    BY <1>1
  <2> QED BY <1>1, <2>1, <2>2, TakeKeeps
<1>3. CASE ~("KERNEL" \in enabled /\ isKernel)
  <2>1. caller' = [caller EXCEPT ![t] = AppendTsTrack(t, @)] /\ correlationId' = correlationId
    BY <1>3 DEF TaskTrack
  <2>2. caller \in [CallThreads -> CallerRecords] /\ caller[t] \in CallerRecords
    BY <1>0 DEF CorrelationTypes
  <2>3. PICK r : r = AppendTsTrack(t, caller[t])
    OBVIOUS
  <2>4. OpenCalls(t) \subseteq 1 .. MaxApiCalls
    <3>1. OpenCalls(t) \subseteq 1 .. spent.calls /\ spent.calls \in 0 .. MaxApiCalls /\ MaxApiCalls \in Nat
      BY <1>0, CallsOf, CorrelationAssumption DEF CorrelationTypes
    <3> QED BY <3>1
  <2>5. r \in CallerRecords /\ r.calls = caller[t].calls /\ r.pc = caller[t].pc /\ r.for = caller[t].for /\ r.id = caller[t].id
    BY <2>2, <2>3, <2>4 DEF AppendTsTrack, CallerRecords
  <2>6. caller' = [caller EXCEPT ![t] = r]
    BY <2>1, <2>3
  <2>7. /\ caller' \in [CallThreads -> CallerRecords] /\ caller'[t] = r
        /\ \A u \in CallThreads \ {t} : caller'[u] = caller[u]
    BY <1>0, <2>5, <2>6, CallerSet
  <2>8. \A u \in CallThreads : SameCaller(u)
    BY <2>5, <2>7 DEF SameCaller
  <2>9. Joins'
    BY <1>1, <2>1, <2>8, ViewKeeps
  <2>10. CorrelationTypes'
    BY <1>0, <1>1, <2>1, <2>7 DEF CorrelationTypes
  <2>11. RegionsRise' /\ RegionsKept'
    BY <1>0, <1>1, RegionsStay
  <2> QED BY <2>9, <2>10, <2>11 DEF CorrelationIInv, Joins
<1> QED BY <1>2, <1>3

LEMMA NodeEndKeeps ==
    ASSUME CorrelationIInv, NEW t \in CallThreads, EndNodeLaunch(t)
    PROVE  CorrelationIInv'
<1>0. /\ CorrelationTypes /\ CallsNest /\ IdsDiffer /\ IdsGiven /\ LastOfThread /\ OpenSince /\ NodeKernels
      /\ CallsShut /\ KernelRecords /\ CallsNameTheirs /\ RegionsRise /\ RegionsKept
  BY DEF CorrelationIInv
<1>a. /\ At(t, "free") /\ InCall(t, "NODE") /\ UNCHANGED <<threadIds, external, enabled, launches, spent>>
      /\ written' = written \cup {Entry("NODE_API", t, threadIds[t], Innermost(t).number)}
      /\ caller[t].calls # <<>> /\ caller[t].pc = "free"
  BY DEF EndNodeLaunch, InCall, GetCorrelationId, At
<1>b. CASE "COMMUNICATION" \in enabled /\ Innermost(t).number \in caller[t].lastCommunication
  <2>1. TakesId(t, "COMMUNICATION")
    BY <1>b DEF EndNodeLaunch
  <2>2. UNCHANGED <<threadIds, external, enabled, launches, spent>> /\ CorrelationIInv /\ InCall(t, "NODE")
    BY <1>a
  <2> QED BY <1>a, <2>1, <2>2, TakeKeeps
<1>c. CASE ~("COMMUNICATION" \in enabled /\ Innermost(t).number \in caller[t].lastCommunication)
  <2>1. caller' = [caller EXCEPT ![t].pc = "api"] /\ correlationId' = correlationId
    BY <1>c DEF EndNodeLaunch, Continue
  <2>3. PICK r : r = [caller[t] EXCEPT !.pc = "api"]
    OBVIOUS
  <2>4. caller[t] \in CallerRecords /\ caller \in [CallThreads -> CallerRecords]
    BY <1>0 DEF CorrelationTypes
  <2>5. r \in CallerRecords /\ r.calls = caller[t].calls /\ r.pc = "api" /\ r.id = caller[t].id /\ r.for = caller[t].for
    BY <2>3, <2>4 DEF CallerRecords
  <2>6. caller' = [caller EXCEPT ![t] = r]
    BY <2>1, <2>3, <2>4
  <2>7. /\ caller' \in [CallThreads -> CallerRecords] /\ caller'[t] = r
        /\ \A u \in CallThreads \ {t} : caller'[u] = caller[u]
    BY <1>0, <2>5, <2>6, CallerSet
  <2>8. /\ \A u \in CallThreads \ {t} :
                   /\ OpenCalls(u)' = OpenCalls(u) /\ (Given(u)' <=> Given(u)) /\ (AtNodeEnd(u)' <=> AtNodeEnd(u))
                   /\ (InCall(u, "NODE")' <=> InCall(u, "NODE")) /\ Innermost(u)' = Innermost(u)
        /\ \A l \in launches : l.thread # t => (Unqueued(l)' <=> Unqueued(l))
    BY <1>0, <2>7, OthersSame
  <2>9. /\ CallsNest' /\ \A u \in CallThreads : caller'[u].calls = caller[u].calls /\ OpenCalls(u)' = OpenCalls(u)
        /\ Innermost(t)' = Innermost(t) /\ (InCall(t, "NODE")' <=> InCall(t, "NODE"))
    BY <1>0, <1>a, <2>5, <2>7, CallsStay
  <2>10. ~Given(t) /\ ~Given(t)' /\ ~AtNodeEnd(t) /\ AtNodeEnd(t)'
    BY <1>a, <2>5, <2>7 DEF Given, AtNodeEnd
  <2>11. PICK w : w = Entry("NODE_API", t, threadIds[t], Innermost(t).number)
    OBVIOUS
  <2>12. w.thread = t /\ w.id \in 0 .. MaxIds /\ w.call \in OpenCalls(t) /\ w.call = Innermost(t).number /\ w.kind = "NODE_API" /\ Named(w)
    <3>1. "NODE_API" = "NODE_API" => InCall(t, "NODE") /\ ~AtNodeEnd(t)
      BY <1>a, <2>10
    <3>2. caller[t].calls # <<>> /\ CorrelationIInv /\ caller[t].pc # "note"
      BY <1>a
    <3>3. Named(w)
      BY <2>11, <3>1, <3>2, ApiNamed
    <3>4. w.thread = t /\ w.id = threadIds[t] /\ w.call = Innermost(t).number /\ w.kind = "NODE_API"
      BY <2>11 DEF Entry
    <3>5. threadIds[t] \in 0 .. MaxIds /\ Innermost(t).number \in OpenCalls(t)
      BY <1>0, <1>a, CallsOf DEF CorrelationTypes
    <3> QED BY <3>3, <3>4, <3>5
  <2>13. written \subseteq written' /\ \A v \in written' : v \in written \/ v = w
    BY <1>a, <2>11
  <2>14. CorrelationTypes'
    <3>1. \A v \in written' : v.thread \in CallThreads /\ v.id \in 0 .. MaxIds
      BY <1>0, <2>12, <2>13 DEF CorrelationTypes
    <3> QED BY <1>0, <1>a, <2>1, <2>7, <3>1 DEF CorrelationTypes
  <2>15. IdsDiffer'
    BY <1>0, <1>a DEF IdsDiffer
  <2>16. CallsNameTheirs'
    <3>1. \A v : LaunchesIn(v)' = LaunchesIn(v)
      BY <1>a DEF LaunchesIn
    <3>2. \A v : Named(v)' <=> Named(v)
      BY <1>a, <3>1 DEF Named
    <3>3. \A v \in written : v.kind \in ApiKinds => Named(v)
      BY <1>0 DEF CallsNameTheirs, Named, ApiKinds
    <3>4. \A v \in written' : v.kind \in ApiKinds => Named(v)'
      BY <2>12, <2>13, <3>2, <3>3
    <3> QED BY <3>4 DEF CallsNameTheirs, Named, ApiKinds
  <2>17. IdsGiven'
    <3>1. ASSUME NEW u \in CallThreads, Given(u)'
          PROVE  u # t /\ Given(u) /\ caller'[u] = caller[u] /\ OpenCalls(u)' = OpenCalls(u)
      BY <2>7, <2>8, <2>10, <3>1
    <3>2. \A u \in CallThreads : Given(u)' =>
            /\ caller'[u].calls # <<>> /\ caller'[u].id \in 1 .. correlationId' - 1
            /\ \A v \in CallThreads \ {u} : Given(v)' => caller'[v].id # caller'[u].id
            /\ \A l \in launches : l.id = caller'[u].id =>
                  l.thread = u /\ caller'[u].pc # "external" /\ l.for = caller'[u].for /\ l.within = OpenCalls(u)'
            /\ caller'[u].pc # "external" => \E l \in launches : l.id = caller'[u].id
            /\ caller'[u].pc = "push" => threadIds[u] = caller'[u].id
      BY <1>0, <2>1, <3>1 DEF IdsGiven
    <3>3. \A u \in CallThreads : AtNodeEnd(u)' => InCall(u, "NODE")'
      BY <1>0, <1>a, <2>8, <2>9 DEF IdsGiven
    <3> QED BY <1>a, <3>2, <3>3 DEF IdsGiven
  <2>18. LastOfThread'
    <3>2. ASSUME NEW u \in CallThreads
          PROVE  /\ threadIds[u] = MSPTI_INVALID_CORRELATION_ID \/ \E l \in launches : l.thread = u /\ l.id = threadIds[u]
                 /\ \A l \in launches : l.thread = u =>
                       l.id <= threadIds[u] \/ (caller'[u].pc = "note" /\ l.id = caller'[u].id)
                 /\ caller'[u].pc \in {"external", "note"} => \A l \in launches : l.thread = u => l.id <= caller'[u].id
      <4>1. CASE u = t
        BY <1>0, <1>a, <2>5, <2>7, <4>1 DEF LastOfThread
      <4>2. CASE u # t
        BY <1>0, <2>7, <4>2 DEF LastOfThread
      <4> QED BY <4>1, <4>2
    <3> QED BY <1>a, <3>2 DEF LastOfThread
  <2>19. OpenSince'
    BY <1>0, <1>a, <2>9 DEF OpenSince
  <2>20. NodeKernels'
    <3>1. \A u \in CallThreads : ~AtNodeEnd(u)' => ~AtNodeEnd(u)
      BY <2>8, <2>10
    <3> QED BY <1>0, <1>a, <2>9, <3>1 DEF NodeKernels
  <2>21. CallsShut'
    <3>1. ASSUME NEW v \in written', v.kind \in ApiKinds
          PROVE  /\ v.call \in 1 .. spent.calls
                 /\ \A u \in CallThreads : v.call \in OpenCalls(u)' =>
                       v.kind = "NODE_API" /\ AtNodeEnd(u)' /\ v.call = Innermost(u)'.number
      <4>1. CASE v \in written
        BY <1>0, <2>8, <2>9, <2>10, <3>1, <4>1 DEF CallsShut
      <4>2. CASE v = w
        <5>1. v.call \in OpenCalls(t) /\ v.kind = "NODE_API" /\ v.call = Innermost(t).number
          BY <2>12, <4>2
        <5>2. OpenCalls(t) \subseteq 1 .. spent.calls
          BY <1>0, CallsOf
        <5>3. \A u \in CallThreads : v.call \in OpenCalls(u) => u = t
          BY <1>0, <5>1 DEF CallsNest
        <5> QED BY <2>9, <2>10, <5>1, <5>2, <5>3
      <4> QED BY <2>13, <3>1, <4>1, <4>2
    <3> QED BY <1>a, <3>1 DEF CallsShut
  <2>22. KernelRecords'
    <3>1. \A l \in launches : Unqueued(l)' <=> Unqueued(l)
      <4>1. \A l \in launches : l.thread = t => ~Unqueued(l)' /\ ~Unqueued(l)
        BY <1>a, <2>5, <2>7 DEF Unqueued
      <4> QED BY <2>8, <4>1
    <3>2. \A v : v.kind = "KERNEL" => (v \in written' <=> v \in written)
      BY <2>12, <2>13
    <3>3. ASSUME NEW v \in written', v.kind = "KERNEL"
          PROVE  \E l \in launches : l.for = "KERNEL" /\ l.id = v.id /\ l.thread = v.thread /\ v.call \in l.within /\ ~Unqueued(l)'
      BY <1>0, <3>1, <3>2, <3>3 DEF KernelRecords
    <3>4. ASSUME NEW v \in written', NEW y \in written', v.kind = "KERNEL" /\ y.kind = "KERNEL" /\ y.id = v.id PROVE v = y
      BY <1>0, <3>2, <3>4 DEF KernelRecords
    <3>5. ASSUME NEW l \in launches, l.for = "KERNEL" PROVE Unqueued(l)' \/ \E v \in written' : v.kind = "KERNEL" /\ v.id = l.id
      BY <1>0, <2>13, <3>1, <3>5 DEF KernelRecords
    <3> QED BY <1>a, <3>3, <3>4, <3>5 DEF KernelRecords
  <2>23. RegionsRise' /\ RegionsKept'
    BY <1>0, <1>a, <2>13, RegionsStay
  <2> QED BY <2>9, <2>14, <2>15, <2>16, <2>17, <2>18, <2>19, <2>20, <2>21, <2>22, <2>23 DEF CorrelationIInv
<1> QED BY <1>b, <1>c

\* The id is entered as the thread's last.
LEMMA NoteKeeps ==
    ASSUME CorrelationIInv, NEW t \in CallThreads, NotesId(t)
    PROVE  CorrelationIInv'
<1>0. /\ CorrelationTypes /\ CallsNest /\ IdsDiffer /\ IdsGiven /\ LastOfThread /\ OpenSince /\ NodeKernels
      /\ CallsShut /\ KernelRecords /\ CallsNameTheirs /\ RegionsRise /\ RegionsKept
  BY DEF CorrelationIInv
<1>1. /\ caller[t].pc = "note" /\ caller' = [caller EXCEPT ![t].pc = "push"]
      /\ threadIds' = [threadIds EXCEPT ![t] = caller[t].id]
      /\ UNCHANGED <<correlationId, external, enabled, launches, written, spent>>
  BY DEF NotesId, At, Continue
<1>3. PICK r : r = [caller[t] EXCEPT !.pc = "push"]
  OBVIOUS
<1>4. caller[t] \in CallerRecords /\ caller \in [CallThreads -> CallerRecords]
  BY <1>0 DEF CorrelationTypes
<1>5. r \in CallerRecords /\ r.calls = caller[t].calls /\ r.pc = "push" /\ r.id = caller[t].id /\ r.for = caller[t].for
  BY <1>3, <1>4 DEF CallerRecords
<1>6. caller' = [caller EXCEPT ![t] = r]
  BY <1>1, <1>3, <1>4
<1>7. /\ caller' \in [CallThreads -> CallerRecords] /\ caller'[t] = r
      /\ \A u \in CallThreads \ {t} : caller'[u] = caller[u]
  BY <1>0, <1>5, <1>6, CallerSet
<1>8. /\ \A u \in CallThreads \ {t} :
                 /\ OpenCalls(u)' = OpenCalls(u) /\ (Given(u)' <=> Given(u)) /\ (AtNodeEnd(u)' <=> AtNodeEnd(u))
                 /\ (InCall(u, "NODE")' <=> InCall(u, "NODE")) /\ Innermost(u)' = Innermost(u)
      /\ \A l \in launches : l.thread # t => (Unqueued(l)' <=> Unqueued(l))
  BY <1>0, <1>7, OthersSame
<1>9. /\ CallsNest' /\ \A u \in CallThreads : caller'[u].calls = caller[u].calls /\ OpenCalls(u)' = OpenCalls(u)
      /\ Innermost(t)' = Innermost(t) /\ (InCall(t, "NODE")' <=> InCall(t, "NODE"))
  BY <1>0, <1>1, <1>5, <1>7, CallsStay
<1>10. Given(t) /\ Given(t)' /\ (AtNodeEnd(t)' <=> AtNodeEnd(t))
  BY <1>1, <1>5, <1>7 DEF Given, AtNodeEnd
<1>11. caller[t].id \in 0 .. MaxIds /\ threadIds \in [CallThreads -> 0 .. MaxIds]
  BY <1>0, <1>4 DEF CallerRecords, CorrelationTypes
<1>12. /\ threadIds' \in [CallThreads -> 0 .. MaxIds] /\ threadIds'[t] = caller[t].id
       /\ \A u \in CallThreads \ {t} : threadIds'[u] = threadIds[u]
  BY <1>1, <1>11
<1>13. CorrelationTypes'
  BY <1>0, <1>1, <1>7, <1>12 DEF CorrelationTypes
<1>14. IdsDiffer' /\ CallsNameTheirs'
  BY <1>0, <1>1 DEF IdsDiffer, CallsNameTheirs, LaunchesIn
<1>15. IdsGiven'
  <2>1. \A u \in CallThreads : caller'[u].id = caller[u].id /\ caller'[u].for = caller[u].for /\ (Given(u)' <=> Given(u))
                               /\ (caller'[u].pc = "external" <=> caller[u].pc = "external")
    BY <1>1, <1>5, <1>7, <1>8, <1>10
  <2>2. \A u \in CallThreads : caller'[u].pc = "push" /\ Given(u) => threadIds'[u] = caller'[u].id
    BY <1>0, <1>5, <1>7, <1>12 DEF IdsGiven
  <2>3. \A u \in CallThreads : AtNodeEnd(u)' => InCall(u, "NODE")'
    BY <1>0, <1>8, <1>9, <1>10 DEF IdsGiven
  <2> QED BY <1>0, <1>1, <1>9, <2>1, <2>2, <2>3 DEF IdsGiven
<1>16. LastOfThread'
  <2>1. PICK l \in launches : l.id = caller[t].id /\ l.thread = t
    BY <1>0, <1>1, <1>10 DEF IdsGiven
  <2>2. ASSUME NEW u \in CallThreads
        PROVE  /\ threadIds'[u] = MSPTI_INVALID_CORRELATION_ID \/ \E m \in launches : m.thread = u /\ m.id = threadIds'[u]
               /\ \A m \in launches : m.thread = u =>
                     m.id <= threadIds'[u] \/ (caller'[u].pc = "note" /\ m.id = caller'[u].id)
               /\ caller'[u].pc \in {"external", "note"} => \A m \in launches : m.thread = u => m.id <= caller'[u].id
    <3>1. CASE u = t
      BY <1>0, <1>1, <1>5, <1>7, <1>12, <2>1, <3>1 DEF LastOfThread
    <3>2. CASE u # t
      BY <1>0, <1>7, <1>12, <3>2 DEF LastOfThread
    <3> QED BY <3>1, <3>2
  <2> QED BY <1>1, <2>2 DEF LastOfThread
<1>17. OpenSince'
  BY <1>0, <1>1, <1>9 DEF OpenSince
<1>18. NodeKernels'
  <2>1. \A u \in CallThreads : ~AtNodeEnd(u)' => ~AtNodeEnd(u)
    BY <1>8, <1>10
  <2> QED BY <1>0, <1>1, <1>9, <2>1 DEF NodeKernels
<1>19. CallsShut'
  BY <1>0, <1>1, <1>8, <1>9, <1>10 DEF CallsShut
<1>20. KernelRecords'
  <2>1. \A l \in launches : Unqueued(l)' <=> Unqueued(l)
    <3>1. \A l \in launches : l.thread = t => (Unqueued(l)' <=> Unqueued(l))
      BY <1>1, <1>5, <1>7 DEF Unqueued
    <3> QED BY <1>8, <3>1
  <2> QED BY <1>0, <1>1, <2>1 DEF KernelRecords
<1>21. RegionsRise' /\ RegionsKept'
  BY <1>0, <1>1, RegionsStay
<1> QED BY <1>9, <1>13, <1>14, <1>15, <1>16, <1>17, <1>18, <1>19, <1>20, <1>21 DEF CorrelationIInv

\* The report of a launch is over: a kernel's is queued, a collective's operation gets its id.
LEMMA LaunchOver ==
    ASSUME CorrelationIInv, NEW t \in CallThreads, caller[t].pc = "push", NEW r \in CallerRecords,
           caller' = [caller EXCEPT ![t] = r], r.calls = caller[t].calls, r.for = caller[t].for, r.id = caller[t].id,
           r.pc = "free" \/ r.pc = "api", r.pc = "api" <=> caller[t].for = "COMMUNICATION",
           NEW w, w = Entry(caller[t].for, t, caller[t].id, Innermost(t).number), written' = written \cup {w},
           UNCHANGED <<correlationId, threadIds, external, enabled, launches, spent>>
    PROVE  CorrelationIInv'
<1>0. /\ CorrelationTypes /\ CallsNest /\ IdsDiffer /\ IdsGiven /\ LastOfThread /\ OpenSince /\ NodeKernels
      /\ CallsShut /\ KernelRecords /\ CallsNameTheirs /\ RegionsRise /\ RegionsKept
  BY DEF CorrelationIInv
<1>1. /\ caller[t] \in CallerRecords /\ caller[t].for \in {"KERNEL", "COMMUNICATION"} /\ spent'.calls = spent.calls
      /\ caller[t].id \in 0 .. MaxIds
  BY <1>0, CallsOf DEF CallerRecords
<1>5. r.calls = caller[t].calls
  OBVIOUS
<1>7. /\ caller' \in [CallThreads -> CallerRecords] /\ caller'[t] = r
      /\ \A u \in CallThreads \ {t} : caller'[u] = caller[u]
  BY <1>0, CallerSet
<1>8. /\ \A u \in CallThreads \ {t} :
                 /\ OpenCalls(u)' = OpenCalls(u) /\ (Given(u)' <=> Given(u)) /\ (AtNodeEnd(u)' <=> AtNodeEnd(u))
                 /\ (InCall(u, "NODE")' <=> InCall(u, "NODE")) /\ Innermost(u)' = Innermost(u)
      /\ \A l \in launches : l.thread # t => (Unqueued(l)' <=> Unqueued(l))
  BY <1>0, <1>7, OthersSame
<1>9. /\ CallsNest' /\ \A u \in CallThreads : caller'[u].calls = caller[u].calls /\ OpenCalls(u)' = OpenCalls(u)
      /\ Innermost(t)' = Innermost(t) /\ (InCall(t, "NODE")' <=> InCall(t, "NODE"))
  BY <1>0, <1>1, <1>5, <1>7, CallsStay
<1>10. Given(t) /\ ~Given(t)' /\ (AtNodeEnd(t)' <=> AtNodeEnd(t))
  BY <1>1, <1>7 DEF Given, AtNodeEnd
<1>11. w.kind = caller[t].for /\ w.thread = t /\ w.id = caller[t].id /\ w.call = Innermost(t).number /\ w.kind \notin ApiKinds
  BY <1>1 DEF Entry, ApiKinds
<1>12. PICK l \in launches : l.id = caller[t].id /\ l.thread = t /\ l.for = caller[t].for /\ l.within = OpenCalls(t)
  BY <1>0, <1>10 DEF IdsGiven
<1>13. w.call \in l.within
  BY <1>0, <1>10, <1>11, <1>12, CallsOf DEF IdsGiven
<1>14. CorrelationTypes'
  <2>1. \A v \in written' : v.thread \in CallThreads /\ v.id \in 0 .. MaxIds
    BY <1>0, <1>1, <1>11 DEF CorrelationTypes
  <2> QED BY <1>0, <1>7, <2>1 DEF CorrelationTypes
<1>15. IdsDiffer'
  BY <1>0 DEF IdsDiffer
<1>16. CallsNameTheirs'
  <2>1. \A v : LaunchesIn(v)' = LaunchesIn(v)
    BY DEF LaunchesIn
  <2>2. \A v \in written' : v.kind \in ApiKinds => v \in written
    BY <1>11
  <2> QED BY <1>0, <2>1, <2>2 DEF CallsNameTheirs, ApiKinds
<1>17. IdsGiven'
  <2>1. ASSUME NEW u \in CallThreads, Given(u)'
        PROVE  u # t /\ Given(u) /\ caller'[u] = caller[u] /\ OpenCalls(u)' = OpenCalls(u)
    BY <1>7, <1>8, <1>10, <2>1
  <2>2. \A u \in CallThreads : Given(u)' =>
          /\ caller'[u].calls # <<>> /\ caller'[u].id \in 1 .. correlationId' - 1
          /\ \A v \in CallThreads \ {u} : Given(v)' => caller'[v].id # caller'[u].id
          /\ \A m \in launches : m.id = caller'[u].id =>
                m.thread = u /\ caller'[u].pc # "external" /\ m.for = caller'[u].for /\ m.within = OpenCalls(u)'
          /\ caller'[u].pc # "external" => \E m \in launches : m.id = caller'[u].id
          /\ caller'[u].pc = "push" => threadIds[u] = caller'[u].id
    BY <1>0, <2>1 DEF IdsGiven
  <2>3. \A u \in CallThreads : AtNodeEnd(u)' => InCall(u, "NODE")'
    BY <1>0, <1>8, <1>9, <1>10 DEF IdsGiven
  <2> QED BY <2>2, <2>3 DEF IdsGiven
<1>18. LastOfThread'
  <2>2. ASSUME NEW u \in CallThreads
        PROVE  /\ threadIds[u] = MSPTI_INVALID_CORRELATION_ID \/ \E m \in launches : m.thread = u /\ m.id = threadIds[u]
               /\ \A m \in launches : m.thread = u =>
                     m.id <= threadIds[u] \/ (caller'[u].pc = "note" /\ m.id = caller'[u].id)
               /\ caller'[u].pc \in {"external", "note"} => \A m \in launches : m.thread = u => m.id <= caller'[u].id
    <3>1. CASE u = t
      BY <1>0, <1>7, <3>1 DEF LastOfThread
    <3>2. CASE u # t
      BY <1>0, <1>7, <3>2 DEF LastOfThread
    <3> QED BY <3>1, <3>2
  <2> QED BY <2>2 DEF LastOfThread
<1>19. OpenSince'
  BY <1>0, <1>9 DEF OpenSince
<1>20. NodeKernels'
  <2>1. \A u \in CallThreads : ~AtNodeEnd(u)' => ~AtNodeEnd(u)
    BY <1>8, <1>10
  <2> QED BY <1>0, <1>9, <2>1 DEF NodeKernels
<1>21. CallsShut'
  <2>1. \A v \in written' : v.kind \in ApiKinds => v \in written
    BY <1>11
  <2> QED BY <1>0, <1>8, <1>9, <1>10, <2>1 DEF CallsShut
<1>22. KernelRecords'
  <2>1. \A m \in launches : m # l => (Unqueued(m)' <=> Unqueued(m))
    <3>1. \A m \in launches : m # l /\ m.thread = t => ~Unqueued(m)' /\ ~Unqueued(m)
      BY <1>0, <1>7, <1>12 DEF Unqueued, IdsDiffer
    <3> QED BY <1>8, <3>1
  <2>2. ~Unqueued(l)' /\ Unqueued(l)
    BY <1>7, <1>12 DEF Unqueued
  <2>3. ASSUME NEW v \in written', v.kind = "KERNEL"
        PROVE  \E m \in launches : m.for = "KERNEL" /\ m.id = v.id /\ m.thread = v.thread /\ v.call \in m.within /\ ~Unqueued(m)'
    <3>1. CASE v = w
      BY <1>11, <1>12, <1>13, <2>2, <2>3, <3>1
    <3>2. CASE v \in written
      BY <1>0, <2>1, <2>2, <2>3, <3>2 DEF KernelRecords
    <3> QED BY <3>1, <3>2
  <2>4. \A v \in written : v.kind = "KERNEL" => v.id # w.id
    <3>1. ASSUME NEW v \in written, v.kind = "KERNEL", v.id = w.id PROVE FALSE
      <4>1. PICK m \in launches : m.id = v.id /\ ~Unqueued(m)
        BY <1>0, <3>1 DEF KernelRecords
      <4>2. m = l
        BY <1>0, <1>11, <1>12, <3>1, <4>1 DEF IdsDiffer
      <4> QED BY <2>2, <4>1, <4>2
    <3> QED BY <3>1
  <2>5. ASSUME NEW v \in written', NEW y \in written', v.kind = "KERNEL" /\ y.kind = "KERNEL" /\ y.id = v.id PROVE v = y
    BY <1>0, <2>4, <2>5 DEF KernelRecords
  <2>6. ASSUME NEW m \in launches, m.for = "KERNEL" PROVE Unqueued(m)' \/ \E v \in written' : v.kind = "KERNEL" /\ v.id = m.id
    <3>1. CASE m = l
      BY <1>11, <1>12, <2>6, <3>1
    <3>2. CASE m # l
      BY <1>0, <2>1, <2>6, <3>2 DEF KernelRecords
    <3> QED BY <3>1, <3>2
  <2> QED BY <2>3, <2>5, <2>6 DEF KernelRecords
<1>23. RegionsRise' /\ RegionsKept'
  BY <1>0, RegionsStay
<1> QED BY <1>9, <1>14, <1>15, <1>16, <1>17, <1>18, <1>19, <1>20, <1>21, <1>22, <1>23 DEF CorrelationIInv

LEMMA QueueKeeps ==
    ASSUME CorrelationIInv, NEW t \in CallThreads, QueuesKernel(t)
    PROVE  CorrelationIInv'
<1>0. /\ CorrelationTypes /\ CallsNest /\ IdsDiffer /\ IdsGiven /\ LastOfThread /\ OpenSince /\ NodeKernels
      /\ CallsShut /\ KernelRecords /\ CallsNameTheirs /\ RegionsRise /\ RegionsKept
  BY DEF CorrelationIInv
<1>1. /\ caller[t].pc = "push" /\ caller[t].for = "KERNEL"
      /\ written' = written \cup {Entry("KERNEL", t, threadIds[t], Innermost(t).number)}
      /\ caller' = [caller EXCEPT ![t] = AppendTsTrack(t, [@ EXCEPT !.pc = "free"])]
      /\ UNCHANGED <<correlationId, threadIds, external, enabled, launches, spent>>
  BY DEF QueuesKernel, At, GetCorrelationId
<1>2. threadIds[t] = caller[t].id
  BY <1>0, <1>1 DEF IdsGiven, Given
<1>3. PICK r : r = AppendTsTrack(t, [caller[t] EXCEPT !.pc = "free"])
  OBVIOUS
<1>4. caller[t] \in CallerRecords /\ caller \in [CallThreads -> CallerRecords]
  BY <1>0 DEF CorrelationTypes
<1>5. OpenCalls(t) \subseteq 1 .. MaxApiCalls
  <2>1. OpenCalls(t) \subseteq 1 .. spent.calls /\ spent.calls \in 0 .. MaxApiCalls /\ MaxApiCalls \in Nat
    BY <1>0, CallsOf, CorrelationAssumption DEF CorrelationTypes
  <2> QED BY <2>1
<1>6. r \in CallerRecords /\ r.calls = caller[t].calls /\ r.pc = "free" /\ r.for = caller[t].for /\ r.id = caller[t].id
  BY <1>3, <1>4, <1>5 DEF AppendTsTrack, CallerRecords
<1>7. caller' = [caller EXCEPT ![t] = r]
  BY <1>1, <1>3, <1>4
<1>8. PICK w : w = Entry(caller[t].for, t, caller[t].id, Innermost(t).number)
  OBVIOUS
<1>9. written' = written \cup {w}
  BY <1>1, <1>2, <1>8
<1>10. r.pc = "api" <=> caller[t].for = "COMMUNICATION"
  BY <1>1, <1>6
<1> QED BY <1>1, <1>6, <1>7, <1>8, <1>9, <1>10, LaunchOver

LEMMA CommunicationKeeps ==
    ASSUME CorrelationIInv, NEW t \in CallThreads, AppendApi2TaskInfo(t)
    PROVE  CorrelationIInv'
<1>0. /\ CorrelationTypes /\ CallsNest /\ IdsDiffer /\ IdsGiven /\ LastOfThread /\ OpenSince /\ NodeKernels
      /\ CallsShut /\ KernelRecords /\ CallsNameTheirs /\ RegionsRise /\ RegionsKept
  BY DEF CorrelationIInv
<1>1. /\ caller[t].pc = "push" /\ caller[t].for = "COMMUNICATION"
      /\ written' = written \cup {Entry("COMMUNICATION", t, caller[t].id, Innermost(t).number)}
      /\ caller' = [caller EXCEPT ![t].pc = "api"]
      /\ UNCHANGED <<correlationId, threadIds, external, enabled, launches, spent>>
  BY DEF AppendApi2TaskInfo, At, Continue
<1>2. PICK r : r = [caller[t] EXCEPT !.pc = "api"]
  OBVIOUS
<1>3. caller[t] \in CallerRecords /\ caller \in [CallThreads -> CallerRecords]
  BY <1>0 DEF CorrelationTypes
<1>4. r \in CallerRecords /\ r.calls = caller[t].calls /\ r.pc = "api" /\ r.for = caller[t].for /\ r.id = caller[t].id
  BY <1>2, <1>3 DEF CallerRecords
<1>5. caller' = [caller EXCEPT ![t] = r]
  BY <1>1, <1>2, <1>3
<1>6. PICK w : w = Entry(caller[t].for, t, caller[t].id, Innermost(t).number)
  OBVIOUS
<1>7. written' = written \cup {w}
  BY <1>1, <1>6
<1>8. r.pc = "api" <=> caller[t].for = "COMMUNICATION"
  BY <1>1, <1>4
<1> QED BY <1>1, <1>4, <1>5, <1>6, <1>7, <1>8, LaunchOver

\* A call leaves, whether or not it has been written.
LEMMA LeaveKeeps ==
    ASSUME CorrelationIInv, NEW t \in CallThreads, caller[t].calls # <<>>,
           (caller[t].pc = "free" /\ ~InCall(t, "NODE")) \/ caller[t].pc = "api",
           NEW r \in CallerRecords, caller' = [caller EXCEPT ![t] = r], r.calls = Shut(caller[t].calls), r.pc = "free",
           NEW kind \in ApiKinds, kind # "NODE_API",
           NEW w, w = Entry(kind, t, threadIds[t], Innermost(t).number), written' = written \/ written' = written \cup {w},
           UNCHANGED <<correlationId, threadIds, external, enabled, launches, spent>>
    PROVE  CorrelationIInv'
<1>0. /\ CorrelationTypes /\ CallsNest /\ IdsDiffer /\ IdsGiven /\ LastOfThread /\ OpenSince /\ NodeKernels
      /\ CallsShut /\ KernelRecords /\ CallsNameTheirs /\ RegionsRise /\ RegionsKept
  BY DEF CorrelationIInv
<1>1. /\ caller[t].calls \in Seq(CallRecords) /\ NestIn(caller[t].calls, spent.calls) /\ spent.calls \in Nat
      /\ Innermost(t) \in CallRecords /\ Innermost(t).number \in OpenCalls(t) /\ OpenCalls(t) \subseteq 1 .. spent.calls
      /\ \A i \in 1 .. Len(caller[t].calls) : i # Len(caller[t].calls) => caller[t].calls[i].level < Innermost(t).level
  <2>1. spent.calls \in Nat
    BY <1>0, CorrelationAssumption DEF CorrelationTypes
  <2> QED BY <1>0, <2>1, CallsOf
<1>2. PICK s : s = caller[t].calls
  OBVIOUS
<1>3. /\ Shut(s) \in Seq(CallRecords) /\ Len(s) \in Nat \ {0} /\ Len(Shut(s)) = Len(s) - 1
      /\ \A i \in 1 .. Len(Shut(s)) : Shut(s)[i] = s[i] /\ i \in 1 .. Len(s) /\ i < Len(s)
      /\ NumbersIn(Shut(s)) = NumbersIn(s) \ {s[Len(s)].number}
  <2>1. s \in Seq(CallRecords) /\ s # <<>> /\ NestIn(s, spent.calls)
    BY <1>1, <1>2
  <2> QED BY <2>1, CallShut
<1>7. /\ caller' \in [CallThreads -> CallerRecords] /\ caller'[t] = r
      /\ \A u \in CallThreads \ {t} : caller'[u] = caller[u]
  BY <1>0, CallerSet
<1>8. /\ \A u \in CallThreads \ {t} :
                 /\ OpenCalls(u)' = OpenCalls(u) /\ (Given(u)' <=> Given(u)) /\ (AtNodeEnd(u)' <=> AtNodeEnd(u))
                 /\ (InCall(u, "NODE")' <=> InCall(u, "NODE")) /\ Innermost(u)' = Innermost(u)
      /\ \A l \in launches : l.thread # t => (Unqueued(l)' <=> Unqueued(l))
  BY <1>0, <1>7, OthersSame
<1>9. r.calls = Shut(s) /\ OpenCalls(t)' = OpenCalls(t) \ {Innermost(t).number}
  <2>1. s[Len(s)] = Innermost(t) /\ OpenCalls(t) = NumbersIn(s)
    BY <1>2, OpenAreNumbers DEF Innermost
  <2>2. r.calls = Shut(s)
    BY <1>2
  <2>3. OpenCalls(t)' = NumbersIn(r.calls)
    BY <1>7, OpenAreNumbers
  <2> QED BY <1>3, <2>1, <2>2, <2>3
<1>10. ~Given(t) /\ ~Given(t)' /\ ~AtNodeEnd(t)' /\ (AtNodeEnd(t) <=> caller[t].pc = "api")
  BY <1>7 DEF Given, AtNodeEnd
<1>a. \A u \in CallThreads : OpenCalls(u)' \subseteq OpenCalls(u)
  BY <1>8, <1>9
<1>11. w.thread = t /\ w.id = threadIds[t] /\ w.call = Innermost(t).number /\ w.kind = kind
  BY DEF Entry
<1>12. Named(w) /\ w.id \in 0 .. MaxIds
  <2>1. kind = "NODE_API" => InCall(t, "NODE") /\ ~AtNodeEnd(t)
    OBVIOUS
  <2>2. caller[t].calls # <<>> /\ CorrelationIInv /\ caller[t].pc # "note" /\ w = Entry(kind, t, threadIds[t], Innermost(t).number)
    OBVIOUS
  <2>3. Named(w)
    BY <2>1, <2>2, ApiNamed
  <2> QED BY <1>0, <1>11, <2>3 DEF CorrelationTypes
<1>13. written \subseteq written' /\ \A v \in written' : v \in written \/ v = w
  OBVIOUS
<1>14. CorrelationTypes'
  <2>1. \A v \in written' : v.thread \in CallThreads /\ v.id \in 0 .. MaxIds
    BY <1>0, <1>11, <1>12, <1>13 DEF CorrelationTypes
  <2> QED BY <1>0, <1>7, <2>1 DEF CorrelationTypes
<1>15. CallsNest'
  <2>1. NestIn(Shut(s), spent.calls)
    <3>1. NestIn(s, spent.calls)
      BY <1>1, <1>2
    <3> QED BY <1>3, <3>1 DEF NestIn
  <2>2. \A u \in CallThreads : NestIn(caller'[u].calls, spent.calls)
    BY <1>0, <1>7, <1>9, <2>1 DEF CallsNest
  <2>3. \A u, v \in CallThreads : u # v => OpenCalls(u)' \cap OpenCalls(v)' = {}
    BY <1>0, <1>a DEF CallsNest
  <2> QED BY <2>2, <2>3 DEF CallsNest
<1>16. IdsDiffer'
  BY <1>0 DEF IdsDiffer
<1>17. CallsNameTheirs'
  <2>1. \A v : LaunchesIn(v)' = LaunchesIn(v)
    BY DEF LaunchesIn
  <2>2. \A v : Named(v)' <=> Named(v)
    BY <2>1 DEF Named
  <2>3. \A v \in written : v.kind \in ApiKinds => Named(v)
    BY <1>0 DEF CallsNameTheirs, Named, ApiKinds
  <2>4. \A v \in written' : v.kind \in ApiKinds => Named(v)'
    BY <1>12, <1>13, <2>2, <2>3
  <2> QED BY <2>4 DEF CallsNameTheirs, Named, ApiKinds
<1>18. IdsGiven'
  <2>1. ASSUME NEW u \in CallThreads, Given(u)'
        PROVE  u # t /\ Given(u) /\ caller'[u] = caller[u] /\ OpenCalls(u)' = OpenCalls(u)
    BY <1>7, <1>8, <1>10, <2>1
  <2>2. \A u \in CallThreads : Given(u)' =>
          /\ caller'[u].calls # <<>> /\ caller'[u].id \in 1 .. correlationId' - 1
          /\ \A v \in CallThreads \ {u} : Given(v)' => caller'[v].id # caller'[u].id
          /\ \A m \in launches : m.id = caller'[u].id =>
                m.thread = u /\ caller'[u].pc # "external" /\ m.for = caller'[u].for /\ m.within = OpenCalls(u)'
          /\ caller'[u].pc # "external" => \E m \in launches : m.id = caller'[u].id
          /\ caller'[u].pc = "push" => threadIds[u] = caller'[u].id
    BY <1>0, <2>1 DEF IdsGiven
  <2>3. \A u \in CallThreads : AtNodeEnd(u)' => InCall(u, "NODE")'
    BY <1>0, <1>8, <1>10 DEF IdsGiven
  <2> QED BY <2>2, <2>3 DEF IdsGiven
<1>19. LastOfThread'
  <2>2. ASSUME NEW u \in CallThreads
        PROVE  /\ threadIds[u] = MSPTI_INVALID_CORRELATION_ID \/ \E m \in launches : m.thread = u /\ m.id = threadIds[u]
               /\ \A m \in launches : m.thread = u =>
                     m.id <= threadIds[u] \/ (caller'[u].pc = "note" /\ m.id = caller'[u].id)
               /\ caller'[u].pc \in {"external", "note"} => \A m \in launches : m.thread = u => m.id <= caller'[u].id
    <3>1. CASE u = t
      BY <1>0, <1>7, <3>1 DEF LastOfThread
    <3>2. CASE u # t
      BY <1>0, <1>7, <3>2 DEF LastOfThread
    <3> QED BY <3>1, <3>2
  <2> QED BY <2>2 DEF LastOfThread
<1>20. OpenSince'
  BY <1>0, <1>a DEF OpenSince
<1>21. NodeKernels'
  <2>1. ASSUME NEW i \in 1 .. Len(Shut(s)), Levels[Shut(s)[i].level] = "NODE", NEW l \in launches, Shut(s)[i].number \in l.within
        PROVE  l.for = "KERNEL"
    <3>1. Shut(s)[i] = s[i] /\ i \in 1 .. Len(s) /\ i # Len(s)
      BY <1>3
    <3>2. CASE caller[t].pc = "free"
      BY <1>0, <1>2, <1>10, <2>1, <3>1, <3>2 DEF NodeKernels
    <3>3. CASE caller[t].pc = "api"
      <4>1. InCall(t, "NODE")
        BY <1>0, <1>10, <3>3 DEF IdsGiven
      <4>2. PICK a, b : a = s[i].level /\ b = Innermost(t).level /\ a < b
        BY <1>1, <1>2, <3>1
      <4>3. Levels[a] = "NODE" /\ Levels[b] = "NODE"
        BY <2>1, <3>1, <4>1, <4>2 DEF InCall
      <4>4. a \in CallLevels /\ b \in CallLevels
        <5>1. s[i] \in CallRecords /\ Innermost(t) \in CallRecords
          BY <1>1, <1>2, <3>1, ElementOfSeq
        <5> QED BY <4>2, <5>1 DEF CallRecords
      <4>5. a \in 1 .. 4 /\ b \in 1 .. 4
        BY <4>4, CorrelationAssumption
      <4> QED BY <4>2, <4>3, <4>5 DEF Levels
    <3> QED BY <3>2, <3>3
  <2>2. ASSUME NEW u \in CallThreads, NEW i \in 1 .. Len(caller'[u].calls),
               Levels[caller'[u].calls[i].level] = "NODE" /\ ~AtNodeEnd(u)',
               NEW l \in launches, caller'[u].calls[i].number \in l.within
        PROVE  l.for = "KERNEL"
    <3>1. CASE u = t
      BY <1>7, <1>9, <2>1, <2>2, <3>1
    <3>2. CASE u # t
      BY <1>0, <1>7, <1>8, <2>2, <3>2 DEF NodeKernels
    <3> QED BY <3>1, <3>2
  <2> QED BY <2>2 DEF NodeKernels
<1>22. CallsShut'
  <2>1. \A u \in CallThreads \ {t} : w.call \notin OpenCalls(u)
    BY <1>0, <1>1, <1>11 DEF CallsNest
  <2>2. ASSUME NEW v \in written', v.kind \in ApiKinds
        PROVE  /\ v.call \in 1 .. spent.calls
               /\ \A u \in CallThreads : v.call \in OpenCalls(u)' =>
                     v.kind = "NODE_API" /\ AtNodeEnd(u)' /\ v.call = Innermost(u)'.number
    <3>1. CASE v \in written
      <4>1. v.call \notin OpenCalls(t)'
        BY <1>0, <1>9, <2>2, <3>1 DEF CallsShut
      <4> QED BY <1>0, <1>8, <2>2, <3>1, <4>1 DEF CallsShut
    <3>2. CASE v = w
      BY <1>1, <1>8, <1>9, <1>11, <2>1, <3>2
    <3> QED BY <1>13, <3>1, <3>2
  <2> QED BY <2>2 DEF CallsShut
<1>23. KernelRecords'
  <2>1. \A l \in launches : Unqueued(l)' <=> Unqueued(l)
    <3>1. \A l \in launches : l.thread = t => ~Unqueued(l)' /\ ~Unqueued(l)
      BY <1>7 DEF Unqueued
    <3> QED BY <1>8, <3>1
  <2>2. \A v : v.kind = "KERNEL" => (v \in written' <=> v \in written)
    BY <1>11, <1>13 DEF ApiKinds
  <2>3. ASSUME NEW v \in written', v.kind = "KERNEL"
        PROVE  \E l \in launches : l.for = "KERNEL" /\ l.id = v.id /\ l.thread = v.thread /\ v.call \in l.within /\ ~Unqueued(l)'
    BY <1>0, <2>1, <2>2, <2>3 DEF KernelRecords
  <2>4. ASSUME NEW v \in written', NEW y \in written', v.kind = "KERNEL" /\ y.kind = "KERNEL" /\ y.id = v.id PROVE v = y
    BY <1>0, <2>2, <2>4 DEF KernelRecords
  <2>5. ASSUME NEW l \in launches, l.for = "KERNEL" PROVE Unqueued(l)' \/ \E v \in written' : v.kind = "KERNEL" /\ v.id = l.id
    BY <1>0, <1>13, <2>1, <2>5 DEF KernelRecords
  <2> QED BY <2>3, <2>4, <2>5 DEF KernelRecords
<1>24. RegionsRise' /\ RegionsKept'
  BY <1>0, <1>13, RegionsStay
<1> QED BY <1>14, <1>15, <1>16, <1>17, <1>18, <1>19, <1>20, <1>21, <1>22, <1>23, <1>24 DEF CorrelationIInv

\* Leaving is the call shut, whatever else of the record changes.
LEMMA LeftCalls ==
    ASSUME NEW r \in CallerRecords, r.calls # <<>>, NEW last, NestIn(r.calls, last), NEW t
    PROVE  /\ Leaves(t, r) \in CallerRecords /\ Leaves(t, r).calls = Shut(r.calls) /\ Leaves(t, r).pc = r.pc
           /\ Leaves(t, r).for = r.for /\ Leaves(t, r).id = r.id
<1>1. PICK s, n : s = Shut(r.calls) /\ n = Len(r.calls) - 1
  OBVIOUS
<1>2. s \in Seq(CallRecords)
  BY <1>1, CallShut DEF CallerRecords
<1>3. Leaves(t, r) = [r EXCEPT !.calls = s]
  BY <1>1 DEF Leaves, Shut, CallerRecords
<1> QED BY <1>1, <1>2, <1>3 DEF CallerRecords

LEMMA ApiKeeps ==
    ASSUME CorrelationIInv, NEW t \in CallThreads, NEW level \in {"ACL", "RUNTIME"}, ReportApi(t, level)
    PROVE  CorrelationIInv'
<1>0. /\ CorrelationTypes /\ CallsNest /\ IdsDiffer /\ IdsGiven /\ LastOfThread /\ OpenSince /\ NodeKernels
      /\ CallsShut /\ KernelRecords /\ CallsNameTheirs /\ RegionsRise /\ RegionsKept
  BY DEF CorrelationIInv
<1>1. /\ caller[t].pc = "free" /\ InCall(t, level) /\ caller[t].calls # <<>>
      /\ written' = written \cup {Entry(ApiKind(level), t, threadIds[t], Innermost(t).number)}
      /\ caller' = [caller EXCEPT ![t] = Leaves(t, @)]
      /\ UNCHANGED <<correlationId, threadIds, external, enabled, launches, spent>>
  BY DEF ReportApi, At, InCall, GetCorrelationId
<1>2. ~InCall(t, "NODE")
  BY <1>1 DEF InCall
<1>3. caller[t] \in CallerRecords /\ NestIn(caller[t].calls, spent.calls) /\ caller \in [CallThreads -> CallerRecords]
  BY <1>0, CallsOf DEF CorrelationTypes
<1>4. PICK r : r = Leaves(t, caller[t])
  OBVIOUS
<1>5. r \in CallerRecords /\ r.calls = Shut(caller[t].calls) /\ r.pc = "free"
  BY <1>1, <1>3, <1>4, LeftCalls
<1>6. caller' = [caller EXCEPT ![t] = r]
  BY <1>1, <1>4
<1>7. PICK kind : kind = ApiKind(level)
  OBVIOUS
<1>8. kind \in ApiKinds /\ kind # "NODE_API"
  BY <1>7 DEF ApiKind, ApiKinds
<1>9. PICK w : w = Entry(kind, t, threadIds[t], Innermost(t).number)
  OBVIOUS
<1>10. written' = written \cup {w}
  BY <1>1, <1>7, <1>9
<1> QED BY <1>1, <1>2, <1>5, <1>6, <1>8, <1>9, <1>10, LeaveKeeps

LEMMA CollectiveKeeps ==
    ASSUME CorrelationIInv, NEW t \in CallThreads, AppendCommunication(t)
    PROVE  CorrelationIInv'
<1>0. /\ CorrelationTypes /\ CallsNest /\ IdsDiffer /\ IdsGiven /\ LastOfThread /\ OpenSince /\ NodeKernels
      /\ CallsShut /\ KernelRecords /\ CallsNameTheirs /\ RegionsRise /\ RegionsKept
  BY DEF CorrelationIInv
<1>1. /\ caller[t].pc = "free" /\ InCall(t, "HCCL") /\ caller[t].calls # <<>>
      /\ UNCHANGED <<correlationId, threadIds, external, enabled, launches, written, spent>>
  BY DEF AppendCommunication, At, InCall
<1>2. ~InCall(t, "NODE")
  BY <1>1 DEF InCall
<1>3. caller[t] \in CallerRecords /\ NestIn(caller[t].calls, spent.calls) /\ caller \in [CallThreads -> CallerRecords]
  BY <1>0, CallsOf DEF CorrelationTypes
<1>4. PICK q : q = Leaves(t, caller[t])
  OBVIOUS
<1>5. q \in CallerRecords /\ q.calls = Shut(caller[t].calls) /\ q.pc = "free"
  BY <1>1, <1>3, <1>4, LeftCalls
<1>6. PICK r : /\ r = q \/ r = [q EXCEPT !.lastCommunication = OpenCalls(t)]
               /\ caller' = [caller EXCEPT ![t] = r]
  <2>1. CASE "COMMUNICATION" \in enabled /\ Innermost(t).number \in caller[t].lastTask
    BY <1>4, <2>1 DEF AppendCommunication
  <2>2. CASE ~("COMMUNICATION" \in enabled /\ Innermost(t).number \in caller[t].lastTask)
    BY <1>4, <2>2 DEF AppendCommunication
  <2> QED BY <2>1, <2>2
<1>9. r \in CallerRecords /\ r.calls = Shut(caller[t].calls) /\ r.pc = "free"
  <2>1. OpenCalls(t) \subseteq 1 .. MaxApiCalls
    <3>1. OpenCalls(t) \subseteq 1 .. spent.calls /\ spent.calls \in 0 .. MaxApiCalls /\ MaxApiCalls \in Nat
      BY <1>0, CallsOf, CorrelationAssumption DEF CorrelationTypes
    <3> QED BY <3>1
  <2> QED BY <1>5, <1>6, <2>1 DEF CallerRecords
<1>11. PICK w : w = Entry("API", t, threadIds[t], Innermost(t).number)
  OBVIOUS
<1>12. "API" \in ApiKinds /\ "API" # "NODE_API"
  BY DEF ApiKinds
<1> QED BY <1>1, <1>2, <1>6, <1>9, <1>11, <1>12, LeaveKeeps

LEMMA NodeApiKeeps ==
    ASSUME CorrelationIInv, NEW t \in CallThreads, ReportNodeApi(t)
    PROVE  CorrelationIInv'
<1>0. /\ CorrelationTypes /\ CallsNest /\ IdsDiffer /\ IdsGiven /\ LastOfThread /\ OpenSince /\ NodeKernels
      /\ CallsShut /\ KernelRecords /\ CallsNameTheirs /\ RegionsRise /\ RegionsKept
  BY DEF CorrelationIInv
<1>1. /\ caller[t].pc = "api"
      /\ written' = written \cup {Entry("API", t, threadIds[t], Innermost(t).number)}
      /\ caller' = [caller EXCEPT ![t] = Leaves(t, [@ EXCEPT !.pc = "free"])]
      /\ UNCHANGED <<correlationId, threadIds, external, enabled, launches, spent>>
  BY DEF ReportNodeApi, At, GetCorrelationId
<1>2. InCall(t, "NODE") /\ caller[t].calls # <<>>
  BY <1>0, <1>1 DEF IdsGiven, AtNodeEnd, InCall
<1>3. caller[t] \in CallerRecords /\ NestIn(caller[t].calls, spent.calls) /\ caller \in [CallThreads -> CallerRecords]
  BY <1>0, CallsOf DEF CorrelationTypes
<1>4. PICK q : q = [caller[t] EXCEPT !.pc = "free"]
  OBVIOUS
<1>5. q \in CallerRecords /\ q.calls = caller[t].calls /\ q.pc = "free"
  BY <1>3, <1>4 DEF CallerRecords
<1>6. PICK r : r = Leaves(t, q)
  OBVIOUS
<1>7. r \in CallerRecords /\ r.calls = Shut(caller[t].calls) /\ r.pc = "free"
  <2>1. q.calls # <<>> /\ NestIn(q.calls, spent.calls)
    BY <1>2, <1>3, <1>5
  <2>2. r \in CallerRecords /\ r.calls = Shut(q.calls) /\ r.pc = q.pc
    BY <1>5, <1>6, <2>1, LeftCalls
  <2> QED BY <1>5, <2>2
<1>8. caller' = [caller EXCEPT ![t] = r]
  BY <1>1, <1>3, <1>4, <1>6
<1>9. PICK w : w = Entry("API", t, threadIds[t], Innermost(t).number)
  OBVIOUS
<1>10. "API" \in ApiKinds /\ "API" # "NODE_API" /\ written' = written \cup {w}
  BY <1>1, <1>9 DEF ApiKinds
<1> QED BY <1>1, <1>2, <1>7, <1>8, <1>9, <1>10, LeaveKeeps

\* The records of the open regions, and with them the launch.
LEMMA ReportKeeps ==
    ASSUME CorrelationIInv, NEW t \in CallThreads, ReportsExternal(t)
    PROVE  CorrelationIInv'
<1>0. /\ CorrelationTypes /\ CallsNest /\ IdsDiffer /\ IdsGiven /\ LastOfThread /\ OpenSince /\ NodeKernels
      /\ CallsShut /\ KernelRecords /\ CallsNameTheirs /\ RegionsRise /\ RegionsKept
  BY DEF CorrelationIInv
<1>1. /\ caller[t].pc = "external" /\ caller' = [caller EXCEPT ![t].pc = "note"]
      /\ UNCHANGED <<correlationId, threadIds, external, enabled>>
  BY DEF ReportsExternal, At, Continue
<1> DEFINE inside == {x \in Regions : external[x] # <<>>}
           told(x) == [kind |-> "EXTERNAL", thread |-> t, id |-> caller[t].id,
                       region |-> x, externalId |-> RegionReported(external[x])]
           launch(cut) == [id |-> caller[t].id, thread |-> t, for |-> caller[t].for,
                           within |-> OpenCalls(t), regions |-> external, cut |-> cut]
<1>2. PICK done \in SUBSET (IF "EXTERNAL" \in enabled THEN inside ELSE {}) :
        /\ spent' = [spent EXCEPT !.failures = IF "EXTERNAL" \in enabled /\ done # inside THEN @ + 1 ELSE @]
        /\ written' = written \cup {told(x) : x \in done}
        /\ launches' = launches \cup {launch("EXTERNAL" \in enabled /\ done # inside)}
  BY DEF ReportsExternal
<1>b. PICK n : n = launch("EXTERNAL" \in enabled /\ done # inside)
  OBVIOUS
<1>c. /\ launches' = launches \cup {n} /\ n.id = caller[t].id /\ n.thread = t /\ n.for = caller[t].for
      /\ n.within = OpenCalls(t) /\ n.regions = external /\ n.cut = ("EXTERNAL" \in enabled /\ done # inside)
  BY <1>2, <1>b
<1>d. written \subseteq written' /\ \A v \in written' : v \in written \/ (v.kind = "EXTERNAL" /\ v.thread = t /\ v.id = caller[t].id)
  BY <1>2
<1>e. spent' \in [calls: 0 .. MaxApiCalls, opened: Nat, failures: Nat] /\ spent'.calls = spent.calls /\ spent'.opened = spent.opened
  <2>1. spent \in [calls: 0 .. MaxApiCalls, opened: Nat, failures: Nat]
    BY <1>0 DEF CorrelationTypes
  <2>2. PICK f : f = (IF "EXTERNAL" \in enabled /\ done # inside THEN spent.failures + 1 ELSE spent.failures)
    OBVIOUS
  <2>3. f \in Nat
    BY <2>1, <2>2
  <2>4. spent' = [spent EXCEPT !.failures = f]
    BY <1>2, <2>2
  <2> QED BY <2>1, <2>3, <2>4
<1>3. PICK r : r = [caller[t] EXCEPT !.pc = "note"]
  OBVIOUS
<1>4. caller[t] \in CallerRecords /\ caller \in [CallThreads -> CallerRecords]
  BY <1>0 DEF CorrelationTypes
<1>5. r \in CallerRecords /\ r.calls = caller[t].calls /\ r.pc = "note" /\ r.id = caller[t].id /\ r.for = caller[t].for
  BY <1>3, <1>4 DEF CallerRecords
<1>6. caller' = [caller EXCEPT ![t] = r]
  BY <1>1, <1>3, <1>4
<1>7. /\ caller' \in [CallThreads -> CallerRecords] /\ caller'[t] = r
      /\ \A u \in CallThreads \ {t} : caller'[u] = caller[u]
  BY <1>0, <1>5, <1>6, CallerSet
<1>8. /\ \A u \in CallThreads \ {t} :
                 /\ OpenCalls(u)' = OpenCalls(u) /\ (Given(u)' <=> Given(u)) /\ (AtNodeEnd(u)' <=> AtNodeEnd(u))
                 /\ (InCall(u, "NODE")' <=> InCall(u, "NODE")) /\ Innermost(u)' = Innermost(u)
      /\ \A l \in launches : l.thread # t => (Unqueued(l)' <=> Unqueued(l))
  BY <1>0, <1>7, OthersSame
<1>9. /\ CallsNest' /\ \A u \in CallThreads : caller'[u].calls = caller[u].calls /\ OpenCalls(u)' = OpenCalls(u)
      /\ Innermost(t)' = Innermost(t) /\ (InCall(t, "NODE")' <=> InCall(t, "NODE"))
  BY <1>0, <1>e, <1>5, <1>7, CallsStay
<1>10. Given(t) /\ Given(t)' /\ (AtNodeEnd(t)' <=> AtNodeEnd(t)) /\ (AtNodeEnd(t) <=> n.for = "COMMUNICATION")
  BY <1>1, <1>5, <1>7, <1>c DEF Given, AtNodeEnd
<1>11. /\ n.id \in 1 .. correlationId - 1 /\ n.for \in {"KERNEL", "COMMUNICATION"} /\ n.within \subseteq 1 .. spent.calls
       /\ n.id \in 0 .. MaxIds
  <2>1. n.id \in 1 .. correlationId - 1
    BY <1>0, <1>10, <1>c DEF IdsGiven
  <2>2. n.within \subseteq 1 .. spent.calls
    BY <1>0, <1>c, CallsOf
  <2>3. n.id \in 0 .. MaxIds /\ n.for \in {"KERNEL", "COMMUNICATION"}
    BY <1>4, <1>c DEF CallerRecords
  <2> QED BY <2>1, <2>2, <2>3
<1>12. \A l \in launches : l.id # n.id
  BY <1>0, <1>1, <1>10, <1>c DEF IdsGiven
<1>13. CorrelationTypes'
  <2>1. \A l \in launches' :
          /\ l.id \in 1 .. correlationId - 1 /\ l.thread \in CallThreads
          /\ l.for \in {"KERNEL", "COMMUNICATION"} /\ l.within \subseteq 1 .. spent'.calls
    BY <1>0, <1>11, <1>c, <1>e DEF CorrelationTypes
  <2>2. \A v \in written' : v.thread \in CallThreads /\ v.id \in 0 .. MaxIds
    BY <1>0, <1>11, <1>c, <1>d DEF CorrelationTypes
  <2> QED BY <1>0, <1>1, <1>7, <1>e, <2>1, <2>2 DEF CorrelationTypes
<1>14. IdsDiffer'
  BY <1>0, <1>12, <1>c DEF IdsDiffer
<1>15. IdsGiven'
  <2>1. ASSUME NEW u \in CallThreads, Given(u)'
        PROVE  /\ caller'[u].calls # <<>> /\ caller'[u].id \in 1 .. correlationId - 1
               /\ \A v \in CallThreads \ {u} : Given(v)' => caller'[v].id # caller'[u].id
               /\ \A l \in launches' : l.id = caller'[u].id =>
                     l.thread = u /\ caller'[u].pc # "external" /\ l.for = caller'[u].for /\ l.within = OpenCalls(u)'
               /\ caller'[u].pc # "external" => \E l \in launches' : l.id = caller'[u].id
               /\ caller'[u].pc = "push" => threadIds[u] = caller'[u].id
    <3>1. Given(u) /\ caller'[u].id = caller[u].id /\ caller'[u].for = caller[u].for
      BY <1>5, <1>7, <1>8, <1>10, <2>1
    <3>2. \A v \in CallThreads \ {u} : Given(v)' => caller'[v].id # caller'[u].id
      <4>1. \A v \in CallThreads : Given(v)' => Given(v) /\ caller'[v].id = caller[v].id
        BY <1>5, <1>7, <1>8, <1>10
      <4> QED BY <1>0, <3>1, <4>1 DEF IdsGiven
    <3>3. CASE u = t
      BY <1>0, <1>1, <1>5, <1>7, <1>9, <1>12, <1>c, <3>1, <3>2, <3>3 DEF IdsGiven
    <3>4. CASE u # t
      <4>1. caller[u].id # n.id
        BY <1>0, <1>10, <1>c, <3>1, <3>4 DEF IdsGiven
      <4>2. \A l \in launches' : l.id = caller[u].id => l \in launches
        BY <1>c, <4>1
      <4>3. caller'[u] = caller[u] /\ OpenCalls(u)' = OpenCalls(u) /\ launches \subseteq launches'
        BY <1>7, <1>9, <1>c, <3>4
      <4> QED BY <1>0, <3>1, <3>2, <4>2, <4>3 DEF IdsGiven
    <3> QED BY <3>3, <3>4
  <2>2. \A u \in CallThreads : AtNodeEnd(u)' => InCall(u, "NODE")'
    BY <1>0, <1>8, <1>9, <1>10 DEF IdsGiven
  <2> QED BY <1>1, <2>1, <2>2 DEF IdsGiven
<1>16. LastOfThread'
  <2>2. ASSUME NEW u \in CallThreads
        PROVE  /\ threadIds[u] = MSPTI_INVALID_CORRELATION_ID \/ \E l \in launches' : l.thread = u /\ l.id = threadIds[u]
               /\ \A l \in launches' : l.thread = u =>
                     l.id <= threadIds[u] \/ (caller'[u].pc = "note" /\ l.id = caller'[u].id)
               /\ caller'[u].pc \in {"external", "note"} => \A l \in launches' : l.thread = u => l.id <= caller'[u].id
    <3>1. CASE u = t
      BY <1>0, <1>1, <1>5, <1>7, <1>11, <1>c, <3>1 DEF LastOfThread
    <3>2. CASE u # t
      BY <1>0, <1>7, <1>c, <3>2 DEF LastOfThread
    <3> QED BY <3>1, <3>2
  <2> QED BY <1>1, <2>2 DEF LastOfThread
<1>17. OpenSince'
  <2>1. \A u \in CallThreads : \A c \in OpenCalls(u) : c \in n.within => u = t
    BY <1>0, <1>c DEF CallsNest
  <2>2. \A m \in launches : m.thread = t => m.id < n.id
    <3>1. \A m \in launches : m.thread = t => m.id <= n.id
      BY <1>0, <1>1, <1>c DEF LastOfThread
    <3>2. \A m \in launches : m.id \in 1 .. correlationId - 1
      BY <1>0 DEF CorrelationTypes
    <3> QED BY <1>11, <1>12, <3>1, <3>2
  <2>3. ASSUME NEW u \in CallThreads, NEW c \in OpenCalls(u), NEW l \in launches', c \in l.within
        PROVE  l.thread = u /\ \A m \in launches' : m.thread = u /\ l.id <= m.id => c \in m.within
    <3>1. CASE l = n
      <4>1. u = t
        BY <2>1, <2>3, <3>1
      <4>2. \A m \in launches : m.thread = t => ~(l.id <= m.id)
        <5>1. \A m \in launches : m.id \in 1 .. correlationId - 1
          BY <1>0 DEF CorrelationTypes
        <5> QED BY <1>11, <2>2, <3>1, <5>1
      <4> QED BY <1>c, <2>3, <3>1, <4>1, <4>2
    <3>2. CASE l \in launches
      <4>1. l.thread = u /\ \A m \in launches : m.thread = u /\ l.id <= m.id => c \in m.within
        BY <1>0, <2>3, <3>2 DEF OpenSince
      <4>2. n.thread = u => c \in n.within
        BY <1>c, <2>3
      <4> QED BY <1>c, <4>1, <4>2
    <3> QED BY <1>c, <3>1, <3>2
  <2> QED BY <1>9, <2>3 DEF OpenSince
<1>18. NodeKernels'
  <2>1. ASSUME NEW u \in CallThreads, NEW i \in 1 .. Len(caller[u].calls),
               Levels[caller[u].calls[i].level] = "NODE" /\ ~AtNodeEnd(u),
               NEW l \in launches', caller[u].calls[i].number \in l.within
        PROVE  l.for = "KERNEL"
    <3>1. CASE l \in launches
      BY <1>0, <2>1, <3>1 DEF NodeKernels
    <3>2. CASE l = n
      <4>1. caller[u].calls[i].number \in OpenCalls(u)
        <5>1. caller[u].calls \in Seq(CallRecords)
          BY <1>0, CallsOf
        <5>2. DOMAIN caller[u].calls = 1 .. Len(caller[u].calls)
          BY <5>1, LenProperties
        <5> QED BY <5>2 DEF OpenCalls
      <4>2. u = t
        BY <1>0, <1>c, <2>1, <3>2, <4>1 DEF CallsNest
      <4> QED BY <1>10, <1>11, <2>1, <3>2, <4>2
    <3> QED BY <1>c, <3>1, <3>2
  <2>2. \A u \in CallThreads : ~AtNodeEnd(u)' => ~AtNodeEnd(u)
    BY <1>8, <1>10
  <2>3. \A u \in CallThreads : caller'[u].calls = caller[u].calls
    BY <1>9
  <2> QED BY <2>1, <2>2, <2>3 DEF NodeKernels
<1>a. \A v \in written' : v.kind \in ApiKinds => v \in written
  BY <1>d DEF ApiKinds
<1>19. CallsShut'
  BY <1>0, <1>8, <1>9, <1>10, <1>a, <1>e DEF CallsShut
<1>20. CallsNameTheirs'
  <2>1. ASSUME NEW v \in written, v.kind \in ApiKinds PROVE Named(v)'
    <3>1. ~(v.call \in n.within /\ (v.kind = "NODE_API" => n.for = "KERNEL"))
      BY <1>0, <1>10, <1>c, <2>1 DEF CallsShut
    <3>2. LaunchesIn(v)' = LaunchesIn(v)
      BY <1>c, <3>1 DEF LaunchesIn
    <3>3. Named(v)
      BY <1>0, <2>1 DEF CallsNameTheirs, Named, ApiKinds
    <3>4. launches \subseteq launches'
      BY <1>c
    <3> QED BY <3>2, <3>3, <3>4 DEF Named
  <2> QED BY <1>a, <2>1 DEF CallsNameTheirs, Named, ApiKinds
<1>21. KernelRecords'
  <2>1. \A l \in launches : Unqueued(l)' <=> Unqueued(l)
    <3>1. \A l \in launches : l.thread = t => ~Unqueued(l)' /\ ~Unqueued(l)
      BY <1>1, <1>5, <1>7, <1>12, <1>c DEF Unqueued
    <3> QED BY <1>8, <3>1
  <2>2. Unqueued(n)'
    BY <1>5, <1>7, <1>c DEF Unqueued
  <2>3. \A v : v.kind = "KERNEL" => (v \in written' <=> v \in written)
    BY <1>d
  <2>4. ASSUME NEW v \in written', v.kind = "KERNEL"
        PROVE  \E l \in launches' : l.for = "KERNEL" /\ l.id = v.id /\ l.thread = v.thread /\ v.call \in l.within /\ ~Unqueued(l)'
    BY <1>0, <1>c, <2>1, <2>3, <2>4 DEF KernelRecords
  <2>5. ASSUME NEW v \in written', NEW y \in written', v.kind = "KERNEL" /\ y.kind = "KERNEL" /\ y.id = v.id PROVE v = y
    BY <1>0, <2>3, <2>5 DEF KernelRecords
  <2>6. ASSUME NEW l \in launches', l.for = "KERNEL" PROVE Unqueued(l)' \/ \E v \in written' : v.kind = "KERNEL" /\ v.id = l.id
    BY <1>0, <1>c, <1>d, <2>1, <2>2, <2>6 DEF KernelRecords
  <2> QED BY <2>4, <2>5, <2>6 DEF KernelRecords
<1>22. RegionsRise'
  BY <1>0, <1>1, <1>e DEF RegionsRise
<1>23. RegionsKept'
  <2>1. \A l, x : JoinedIn(l, x, written) => JoinedIn(l, x, written')
    BY <1>d DEF JoinedIn
  <2>2. ASSUME NEW x \in Regions, "EXTERNAL" \in enabled, ~n.cut, n.regions[x] # <<>> PROVE JoinedIn(n, x, written')
    <3>1. done = inside /\ external[x] # <<>>
      BY <1>c, <2>2
    <3>2. told(x) \in written'
      BY <1>2, <3>1
    <3>3. RegionReported(external[x]) = Max({region.id : region \in {external[x][i] : i \in DOMAIN external[x]}})
      <4>1. external[x] \in Seq([id: Nat, by: CallThreads]) /\ RisesIn(external[x], spent.opened)
        BY <1>0 DEF CorrelationTypes, RegionsRise
      <4>2. PICK q, k : q = external[x] /\ k = Len(q) /\ k \in Nat \ {0} /\ DOMAIN q = 1 .. k
        BY <3>1, <4>1, EmptySeq, LenProperties
      <4>3. \A i \in 1 .. k : q[i] \in [id: Nat, by: CallThreads]
        BY <4>1, <4>2, ElementOfSeq
      <4>4. \A i \in 1 .. k : q[i].id \in Nat /\ q[i].id <= q[k].id
        <5>1. \A i \in 1 .. k : q[i].id \in Nat
          BY <4>3
        <5>2. \A i \in 1 .. k : i < k => q[i].id < q[k].id
          BY <4>1, <4>2 DEF RisesIn
        <5> QED BY <4>2, <5>1, <5>2
      <4>5. {region.id : region \in {q[i] : i \in 1 .. k}} = {q[i].id : i \in 1 .. k}
        OBVIOUS
      <4>6. q[k].id \in {q[i].id : i \in 1 .. k} /\ {q[i].id : i \in 1 .. k} \subseteq Int
            /\ \A y \in {q[i].id : i \in 1 .. k} : y <= q[k].id
        BY <4>2, <4>4
      <4>7. Max({q[i].id : i \in 1 .. k}) = q[k].id
        BY <4>6, MaxIs
      <4>8. RegionReported(external[x]) = q[k].id
        BY <4>2 DEF RegionReported
      <4>9. {external[x][i] : i \in DOMAIN external[x]} = {q[i] : i \in 1 .. k}
        BY <4>2
      <4> QED BY <4>5, <4>7, <4>8, <4>9
    <3> QED BY <1>c, <3>2, <3>3 DEF JoinedIn
  <2>3. ASSUME NEW l \in launches, NEW x \in Regions, "EXTERNAL" \in enabled /\ ~l.cut /\ l.regions[x] # <<>>
        PROVE  JoinedIn(l, x, written')
    BY <1>0, <2>1, <2>3 DEF RegionsKept
  <2> QED BY <1>1, <1>c, <2>2, <2>3 DEF RegionsKept
<1> QED BY <1>9, <1>13, <1>14, <1>15, <1>16, <1>17, <1>18, <1>19, <1>20, <1>21, <1>22, <1>23 DEF CorrelationIInv

\* At the start nothing has been given, and no call is open.
LEMMA CorrelationStarts ==
    ASSUME CorrelationInit
    PROVE  CorrelationIInv
<1>1. /\ correlationId = 1 /\ threadIds = [t \in CallThreads |-> 0] /\ external = [x \in Regions |-> <<>>]
      /\ caller = [t \in CallThreads |-> FreeCaller] /\ launches = {} /\ written = {}
      /\ spent = [calls |-> 0, opened |-> 0, failures |-> 0]
  BY DEF CorrelationInit, MSPTI_INVALID_CORRELATION_ID
<1>2. MaxIds \in Nat /\ MaxApiCalls \in Nat
  BY CorrelationAssumption
<1>3. FreeCaller \in CallerRecords /\ FreeCaller.calls = <<>> /\ FreeCaller.pc = "free"
  BY <1>2 DEF FreeCaller, CallerRecords, MSPTI_INVALID_CORRELATION_ID
<1>4. CorrelationTypes
  <2>1. caller \in [CallThreads -> CallerRecords]
    BY <1>1, <1>3
  <2>2. external \in [Regions -> Seq([id: Nat, by: CallThreads])] /\ threadIds \in [CallThreads -> 0 .. MaxIds]
    BY <1>1, <1>2
  <2>3. spent \in [calls: 0 .. MaxApiCalls, opened: Nat, failures: Nat] /\ correlationId \in 1 .. MaxIds + 1
    BY <1>1, <1>2
  <2> QED BY <1>1, <2>1, <2>2, <2>3 DEF CorrelationTypes
<1>5. \A t \in CallThreads : /\ caller[t].calls = <<>> /\ caller[t].pc = "free" /\ OpenCalls(t) = {} /\ ~Given(t) /\ ~AtNodeEnd(t)
                            /\ threadIds[t] = 0
  <2>1. \A t \in CallThreads : caller[t].calls = <<>> /\ caller[t].pc = "free" /\ threadIds[t] = 0
    BY <1>1, <1>3
  <2> QED BY <2>1, OpenAreNumbers, NumbersOfNone DEF Given, AtNodeEnd
<1>6. \A last : NestIn(<<>>, last) /\ RisesIn(<<>>, last)
  BY DEF NestIn, RisesIn
<1>7. CallsNest
  BY <1>5, <1>6 DEF CallsNest
<1>8. IdsDiffer /\ OpenSince /\ NodeKernels /\ KernelRecords /\ CallsShut /\ CallsNameTheirs /\ RegionsKept
  BY <1>1 DEF IdsDiffer, OpenSince, NodeKernels, KernelRecords, CallsShut, CallsNameTheirs, RegionsKept
<1>9. IdsGiven /\ LastOfThread
  BY <1>1, <1>5 DEF IdsGiven, LastOfThread, MSPTI_INVALID_CORRELATION_ID
<1>10. RegionsRise
  BY <1>1, <1>6 DEF RegionsRise
<1> QED BY <1>4, <1>7, <1>8, <1>9, <1>10 DEF CorrelationIInv

LEMMA CorrelationIdle ==
    ASSUME CorrelationIInv, UNCHANGED corrVars
    PROVE  CorrelationIInv'
<1>0. /\ CorrelationTypes /\ RegionsRise /\ RegionsKept
  BY DEF CorrelationIInv
<1>1. UNCHANGED <<correlationId, threadIds, external, enabled, caller, launches, written, spent>>
  BY DEF corrVars
<1>2. Joins'
  BY <1>1, ViewKeeps DEF SameCaller
<1>3. CorrelationTypes'
  BY <1>0, <1>1 DEF CorrelationTypes
<1>4. RegionsRise' /\ RegionsKept'
  BY <1>0, <1>1, RegionsStay
<1> QED BY <1>2, <1>3, <1>4 DEF CorrelationIInv, Joins

\* How calls, launches, ids and records stand to each other holds in every reachable state.
THEOREM CorrelationInductive == CorrelationSpec => []CorrelationIInv
<1>1. CorrelationInit => CorrelationIInv
  BY CorrelationStarts
<1>2. CorrelationIInv /\ [CorrelationNext]_corrVars => CorrelationIInv'
  <2> SUFFICES ASSUME CorrelationIInv, [CorrelationNext]_corrVars PROVE CorrelationIInv'
    OBVIOUS
  <2>1. CASE UNCHANGED corrVars
    BY <2>1, CorrelationIdle
  <2>2. ASSUME NEW t \in CallThreads, NEW x \in Regions, PushExternalCorrelationId(t, x) PROVE CorrelationIInv'
    BY <2>2, PushKeeps
  <2>3. ASSUME NEW t \in CallThreads, NEW x \in Regions, PopExternalCorrelationId(t, x) PROVE CorrelationIInv'
    BY <2>3, PopKeeps
  <2>4. ASSUME NEW t \in CallThreads, NEW level \in CallLevels, BeginCall(t, level) PROVE CorrelationIInv'
    BY <2>4, BeginKeeps
  <2>5. ASSUME NEW t \in CallThreads, NEW level \in {"ACL", "RUNTIME"}, ReportApi(t, level) PROVE CorrelationIInv'
    BY <2>5, ApiKeeps
  <2>6. ASSUME NEW t \in CallThreads, NEW isKernel \in BOOLEAN, TaskTrack(t, isKernel) PROVE CorrelationIInv'
    BY <2>6, TrackKeeps
  <2>7. ASSUME NEW t \in CallThreads, ReportsExternal(t) PROVE CorrelationIInv'
    BY <2>7, ReportKeeps
  <2>8. ASSUME NEW t \in CallThreads, NotesId(t) PROVE CorrelationIInv'
    BY <2>8, NoteKeeps
  <2>9. ASSUME NEW t \in CallThreads, QueuesKernel(t) PROVE CorrelationIInv'
    BY <2>9, QueueKeeps
  <2>10. ASSUME NEW t \in CallThreads, AppendCommunication(t) PROVE CorrelationIInv'
    BY <2>10, CollectiveKeeps
  <2>11. ASSUME NEW t \in CallThreads, EndNodeLaunch(t) PROVE CorrelationIInv'
    BY <2>11, NodeEndKeeps
  <2>12. ASSUME NEW t \in CallThreads, AppendApi2TaskInfo(t) PROVE CorrelationIInv'
    BY <2>12, CommunicationKeeps
  <2>13. ASSUME NEW t \in CallThreads, ReportNodeApi(t) PROVE CorrelationIInv'
    BY <2>13, NodeApiKeeps
  <2> QED BY <2>1, <2>2, <2>3, <2>4, <2>5, <2>6, <2>7, <2>8, <2>9, <2>10, <2>11, <2>12, <2>13 DEF CorrelationNext
<1> QED BY <1>1, <1>2, PTL DEF CorrelationSpec

LEMMA CorrelationHolds ==
    ASSUME CorrelationIInv
    PROVE  CorrelationInv
<1>0. /\ CorrelationTypes /\ CallsNest /\ IdsDiffer /\ KernelRecords /\ CallsNameTheirs /\ RegionsKept
  BY DEF CorrelationIInv
<1>1. CorrelationTypeOK
  <2>1. ASSUME NEW t \in CallThreads PROVE Len(caller[t].calls) <= Len(Levels) /\ caller[t].id \in 0 .. MaxIds
    <3>1. caller[t] \in CallerRecords /\ caller[t].calls \in Seq(CallRecords) /\ NestIn(caller[t].calls, spent.calls)
      BY <1>0, CallsOf
    <3>2. PICK s, n : s = caller[t].calls /\ n = Len(s) /\ n \in Nat
      BY <3>1, LenProperties
    <3>3. n # 0 => n <= s[n].level /\ s[n] \in CallRecords
      <4>1. n # 0 => n \in 1 .. n
        BY <3>2
      <4> QED BY <3>1, <3>2, <4>1, ElementOfSeq DEF NestIn
    <3>4. n # 0 => s[n].level \in 1 .. 4
      BY <3>3, CorrelationAssumption DEF CallRecords
    <3>5. n <= 4 /\ Len(Levels) = 4
      BY <3>2, <3>3, <3>4 DEF Levels
    <3> QED BY <3>1, <3>2, <3>5 DEF CallerRecords
  <2> QED BY <1>0, <2>1 DEF CorrelationTypes, CorrelationTypeOK
<1>2. KernelsKeepTheirs
  <2>1. ASSUME NEW l \in launches, l.for = "KERNEL", ~InFlight(l)
        PROVE  Cardinality({w \in written : w.kind = "KERNEL" /\ w.id = l.id /\ w.thread = l.thread /\ w.call \in l.within}) = 1
    <3>1. ~Unqueued(l)
      BY <2>1 DEF Unqueued, InFlight, At
    <3>2. PICK w \in written : w.kind = "KERNEL" /\ w.id = l.id
      BY <1>0, <2>1, <3>1 DEF KernelRecords
    <3>3. w.thread = l.thread /\ w.call \in l.within
      BY <1>0, <3>2 DEF KernelRecords, IdsDiffer
    <3>4. \A v \in written : v.kind = "KERNEL" /\ v.id = l.id => v = w
      BY <1>0, <3>2 DEF KernelRecords
    <3>5. {v \in written : v.kind = "KERNEL" /\ v.id = l.id /\ v.thread = l.thread /\ v.call \in l.within} = {w}
      BY <3>2, <3>3, <3>4
    <3> QED BY <3>5, FS_Singleton
  <2> QED BY <2>1 DEF KernelsKeepTheirs
<1>3. RegionsJoined
  <2>1. ASSUME NEW w \in written, NEW l \in launches, NEW x \in Regions,
               "EXTERNAL" \in enabled, l.id = w.id, ~l.cut, l.regions[x] # <<>>
        PROVE  \E e \in written : /\ e.kind = "EXTERNAL" /\ e.id = w.id /\ e.region = x
                                 /\ e.externalId = Max({region.id : region \in {l.regions[x][i] : i \in DOMAIN l.regions[x]}})
    <3>1. JoinedIn(l, x, written)
      BY <1>0, <2>1 DEF RegionsKept
    <3> QED BY <2>1, <3>1 DEF JoinedIn
  <2> QED BY <2>1 DEF RegionsJoined
<1> QED BY <1>0, <1>1, <1>2, <1>3 DEF CorrelationInv

\* Ids differ, kernels keep theirs, calls name theirs, and calls inside regions are joined to them, always.
THEOREM CorrelationCorrect == CorrelationSpec => []CorrelationInv
BY CorrelationInductive, CorrelationHolds, PTL

-----------------------------------------------------------------------------
(***************************************************************************)
(* Memory: the calls a thread is in, the records that wait for their end   *)
(* and the reports that are on their way to the table of sizes.            *)
(***************************************************************************)

ApiCalls == [kind: MemKinds, begin: Nat \ {0}, since: Nat]
Reports == [step: {"report", "map", "push"}, kind: MemKinds, op: {"allocation", "release", "copy"},
            address: Addresses \cup {NoBlock}, bytes: Sizes \cup {NoBlock}, freed: Sizes \cup {NoBlock},
            sure: BOOLEAN, time: Nat]
ApiEnds == [step: {"api"}, kind: MemKinds, call: ApiCalls, end: Nat, address: {NoBlock}]
MemRecords == [thread: MemThreads, kind: MemKinds, time: Nat, op: {"allocation", "release", "copy"},
               bytes: Sizes \cup {NoBlock}, freed: Sizes \cup {NoBlock}, sure: BOOLEAN, within: SUBSET Nat]
OutRecords == [record: MemRecords, call: Nat, quiet: BOOLEAN]
DoneCalls == [thread: MemThreads, kind: MemKinds, begin: Nat, end: Nat, quiet: BOOLEAN]

\* The types in full.
MemTypes ==
    /\ supported \in BOOLEAN /\ memEnabled \subseteq MemKinds /\ blurred \subseteq Addresses /\ switches \in Nat
    /\ heap \in [Addresses -> Sizes \cup {NoBlock}] /\ addrBytes \in [Addresses -> Sizes \cup {NoBlock}]
    /\ dataCache \in [MemKinds -> [MemThreads -> Seq(MemRecords)]]
    /\ calls \in [MemThreads -> Seq(ApiCalls)] /\ \A t \in MemThreads : Len(calls[t]) <= MaxDepth
    /\ doing \in [MemThreads -> {Idle} \cup Reports \cup ApiEnds] /\ clock \in [MemThreads -> Nat]
    /\ memOut \subseteq OutRecords /\ made \subseteq MemRecords /\ reported \subseteq DoneCalls

Reporting(t) == doing[t].step \in {"report", "map", "push"}

\* The calls a thread is in, with the one whose end it is reporting.
Opened(t) == {calls[t][i] : i \in DOMAIN calls[t]}
Around(t) == Opened(t) \cup (IF Doing(t, "api") THEN {doing[t].call} ELSE {})

\* A reading of the clock that a thread took before what it is doing now.
Past(t, n) == n <= clock[t] /\ (~Doing(t, "idle") => n < clock[t])

\* What a thread does has the thread's last reading of the clock.
DoingNow ==
    \A t \in MemThreads :
        /\ Reporting(t) =>
              /\ doing[t].time = clock[t]
              /\ Doing(t, "map") => doing[t].kind = "memory"
              /\ doing[t].kind = "memory" => doing[t].address \in Addresses /\ doing[t].op \in {"allocation", "release"}
              /\ doing[t].kind # "memory" => doing[t].op = "copy"
        /\ Doing(t, "api") =>
              /\ doing[t].end = clock[t] /\ doing[t].kind = doing[t].call.kind
              /\ doing[t].call.since = switches => doing[t].kind \in memEnabled
              /\ \A c \in Opened(t) : c.begin < doing[t].call.begin

\* The calls of a thread nest, and those reported lie inside or before the ones it is in.
CallsNested ==
    /\ \A t \in MemThreads : \A i, j \in DOMAIN calls[t] : i < j => calls[t][i].begin < calls[t][j].begin
    /\ \A t \in MemThreads : \A c \in Around(t) : Past(t, c.begin) /\ c.since <= switches
    /\ \A f \in reported : /\ f.begin <= f.end /\ Past(f.thread, f.end)
                           /\ \A c \in Around(f.thread) : f.end < c.begin \/ c.begin < f.begin

\* The records of a queue are its thread's, in the order of their times.
Queued ==
    \A k \in MemKinds, t \in MemThreads : \A i \in DOMAIN dataCache[k][t] :
        /\ dataCache[k][t][i] \in made /\ dataCache[k][t][i].kind = k /\ dataCache[k][t][i].thread = t
        /\ \A j \in DOMAIN dataCache[k][t] : i < j => dataCache[k][t][i].time < dataCache[k][t][j].time

\* All records are earlier than what their thread does now; one that does not wait any
\* more has been passed by the report of a call.
Waiting(r) == \E i \in DOMAIN dataCache[r.kind][r.thread] : dataCache[r.kind][r.thread][i] = r
Passed(r) == \E f \in reported : f.thread = r.thread /\ f.kind = r.kind /\ r.time <= f.end
RecordsPast ==
    /\ \A r \in made : Past(r.thread, r.time) /\ (Waiting(r) \/ Passed(r))
    /\ \A o \in memOut : Past(o.record.thread, o.record.time)

NotOut == \A k \in MemKinds, t \in MemThreads : \A i \in DOMAIN dataCache[k][t] : \A o \in memOut : o.record # dataCache[k][t][i]

\* A record was made in every call of its kind around its time, whether reported or not.
MadeWithin ==
    \A r \in made :
        /\ \A b \in r.within : b < r.time
        /\ \A c \in Around(r.thread) : c.kind = r.kind /\ c.begin <= r.time => c.begin \in r.within
        /\ \A f \in reported : (f.thread = r.thread /\ f.kind = r.kind /\ f.begin <= r.time /\ r.time <= f.end)
                                  => f.begin \in r.within

\* A record waits for the innermost of its calls, unless the kind was off at that call's end: it is
\* off still or was turned on since.
WaitsFor ==
    \A k \in MemKinds, t \in MemThreads : \A i \in DOMAIN dataCache[k][t] : \A b \in dataCache[k][t][i].within :
        \/ \E c \in Around(t) : c.begin = b /\ c.kind = k
        \/ \A c \in Around(t) : c.kind = k /\ c.begin < b => c.since < switches \/ k \notin memEnabled

\* An address that is not blurred is in one report at most; the table has the size that the
\* block had before it until the report enters it.
Follows(d) ==
    IF d.step = "push" THEN addrBytes[d.address] = heap[d.address]
    ELSE IF d.op = "allocation" THEN heap[d.address] = d.bytes
    ELSE addrBytes[d.address] = d.freed /\ heap[d.address] = NoBlock /\ d.bytes = NoBlock
SizesFollow ==
    \A a \in Addresses \ blurred :
        /\ \A u, v \in InReport(a) : u = v
        /\ \A u \in InReport(a) : Follows(doing[u])
        /\ InReport(a) = {} => addrBytes[a] = heap[a]

RightSize(r) == r.op = "release" /\ r.sure => r.bytes = r.freed
SureSizes ==
    /\ \A t \in MemThreads : Doing(t, "push") => RightSize(doing[t])
    /\ \A r \in made : RightSize(r)
    /\ \A o \in memOut : RightSize(o.record)

MemoryIInv ==
    /\ MemTypes /\ DoingNow /\ CallsNested /\ Queued /\ RecordsPast /\ NotOut /\ MadeWithin /\ WaitsFor
    /\ OwnCall /\ CallsComplete /\ SizesFollow /\ SureSizes

RecordsPart == Queued /\ RecordsPast /\ NotOut /\ MadeWithin /\ WaitsFor /\ OwnCall /\ CallsComplete

\* What a thread may be doing.
LEMMA AboutDoing ==
    ASSUME MemTypes, NEW t \in MemThreads
    PROVE  /\ doing[t] \in {Idle} \cup Reports \cup ApiEnds
           /\ Doing(t, "idle") <=> doing[t] = Idle
           /\ Doing(t, "api") <=> doing[t] \in ApiEnds
           /\ Reporting(t) <=> doing[t] \in Reports
           /\ Reporting(t) \/ Doing(t, "idle") \/ Doing(t, "api")
           /\ Doing(t, "idle") => ~Reporting(t) /\ ~Doing(t, "api")
           /\ Doing(t, "api") => ~Reporting(t)
<1>1. doing[t] \in {Idle} \cup Reports \cup ApiEnds
  BY DEF MemTypes
<1>2. PICK d : d = doing[t] /\ d \in {Idle} \cup Reports \cup ApiEnds
  BY <1>1
<1>3. /\ d \in Reports => d.step \in {"report", "map", "push"}
      /\ d \in ApiEnds => d.step = "api"
      /\ d = Idle => d.step = "idle"
  BY DEF Reports, ApiEnds, Idle
<1>4. QED
  BY <1>2, <1>3 DEF Doing, Reporting

\* A thread's step that takes a reading, or goes on without one, leaves the past behind it.
LEMMA PastKept ==
    ASSUME MemTypes, NEW t \in MemThreads, \A u \in MemThreads \ {t} : doing'[u] = doing[u],
           \/ clock' = clock /\ (~Doing(t, "idle") \/ doing'[t].step = "idle")
           \/ clock' = [clock EXCEPT ![t] = @ + 1]
    PROVE  \A u \in MemThreads, n \in Nat : Past(u, n) => Past(u, n)'
<1>1. SUFFICES ASSUME NEW u \in MemThreads, NEW n \in Nat, Past(u, n) PROVE Past(u, n)'
  OBVIOUS
<1>2. clock \in [MemThreads -> Nat]
  BY DEF MemTypes
<1>3. n <= clock[u] /\ (doing[u].step # "idle" => n < clock[u])
  BY <1>1 DEF Past, Doing
<1>4. SUFFICES n <= clock'[u] /\ (doing'[u].step # "idle" => n < clock'[u])
  BY DEF Past, Doing
<1>5. CASE u # t
  <2>1. clock'[u] = clock[u] /\ doing'[u] = doing[u]
    BY <1>5, <1>2
  <2>2. QED
    BY <2>1, <1>3
<1>6. CASE u = t /\ clock' = [clock EXCEPT ![t] = @ + 1]
  <2>1. clock'[u] = clock[u] + 1 /\ clock[u] \in Nat
    BY <1>6, <1>2
  <2>2. QED
    BY <2>1, <1>3
<1>7. CASE u = t /\ clock' = clock /\ (~Doing(t, "idle") \/ doing'[t].step = "idle")
  BY <1>7, <1>3 DEF Doing
<1>8. QED
  BY <1>5, <1>6, <1>7

\* The parts about records go on while the calls and the records are the same.
LEMMA RecordsFrame ==
    ASSUME MemTypes, CallsNested, RecordsPart,
           dataCache' = dataCache, memOut' = memOut, made' = made, reported' = reported,
           memEnabled' = memEnabled, switches' = switches, calls' = calls,
           \A u \in MemThreads : Around(u)' = Around(u),
           \A u \in MemThreads, n \in Nat : Past(u, n) => Past(u, n)'
    PROVE  RecordsPart' /\ CallsNested'
<1>1. /\ \A r \in made : r.thread \in MemThreads /\ r.time \in Nat
      /\ \A o \in memOut : o.record.thread \in MemThreads /\ o.record.time \in Nat
      /\ \A f \in reported : f.thread \in MemThreads /\ f.end \in Nat
      /\ calls \in [MemThreads -> Seq(ApiCalls)]
  <2>1. made \subseteq MemRecords /\ memOut \subseteq OutRecords /\ reported \subseteq DoneCalls
    BY DEF MemTypes
  <2>2. \A o \in memOut : o.record \in MemRecords
    BY <2>1 DEF OutRecords
  <2>3. QED
    BY <2>1, <2>2 DEF MemTypes, MemRecords, DoneCalls
<1>2. \A t \in MemThreads : \A c \in Around(t) : c.begin \in Nat
  <2>1. ASSUME NEW t \in MemThreads, NEW c \in Around(t) PROVE c.begin \in Nat
    <3>1. c \in ApiCalls
      BY <1>1, <2>1, AboutDoing DEF Around, Opened, ApiEnds
    <3>2. QED
      BY <3>1 DEF ApiCalls
  <2>2. QED
    BY <2>1
<1>3. CallsNested'
  <2>1. \A t \in MemThreads : \A c \in Around(t) : Past(t, c.begin) /\ Past(t, c.begin)' /\ c.since <= switches
    BY <1>2 DEF CallsNested
  <2>2. \A f \in reported : f.begin <= f.end /\ Past(f.thread, f.end)' /\ \A c \in Around(f.thread) : f.end < c.begin \/ c.begin < f.begin
    BY <1>1 DEF CallsNested
  <2>3. \A t \in MemThreads : \A c \in Around(t)' : Past(t, c.begin)' /\ c.since <= switches'
    BY <2>1
  <2>4. \A f \in reported' : f.begin <= f.end /\ Past(f.thread, f.end)' /\ \A c \in Around(f.thread)' : f.end < c.begin \/ c.begin < f.begin
    BY <2>2, <1>1
  <2>5. \A t \in MemThreads : \A i, j \in DOMAIN calls'[t] : i < j => calls'[t][i].begin < calls'[t][j].begin
    BY DEF CallsNested
  <2>6. QED
    BY <2>3, <2>4, <2>5 DEF CallsNested
<1>4. Queued' /\ NotOut' /\ OwnCall' /\ CallsComplete'
  BY DEF RecordsPart, Queued, NotOut, OwnCall, InnermostOf, CallsComplete
<1>5. RecordsPast'
  <2>1. \A r \in made : Past(r.thread, r.time)' /\ (Waiting(r) \/ Passed(r))
    BY <1>1 DEF RecordsPart, RecordsPast
  <2>2. \A r : (Waiting(r)' <=> Waiting(r)) /\ (Passed(r)' <=> Passed(r))
    BY DEF Waiting, Passed
  <2>3. \A o \in memOut : Past(o.record.thread, o.record.time)'
    BY <1>1 DEF RecordsPart, RecordsPast
  <2>4. \A r \in made' : Past(r.thread, r.time)' /\ (Waiting(r)' \/ Passed(r)')
    BY <2>1, <2>2
  <2>5. \A o \in memOut' : Past(o.record.thread, o.record.time)'
    BY <2>3
  <2>6. QED
    BY <2>4, <2>5 DEF RecordsPast
<1>6. MadeWithin'
  BY <1>1 DEF RecordsPart, MadeWithin
<1>7. WaitsFor'
  BY DEF RecordsPart, WaitsFor
<1>8. QED
  BY <1>3, <1>4, <1>5, <1>6, <1>7 DEF RecordsPart

\* The sizes go on when reports at their end are all that is left out.
LEMMA SizesLeft ==
    ASSUME SizesFollow, heap' = heap, addrBytes' = addrBytes, blurred' = blurred,
           NEW t \in MemThreads, \A u \in MemThreads \ {t} : doing'[u] = doing[u],
           ~(doing'[t].step # "idle" /\ doing'[t].kind = "memory" /\ doing'[t].address \in Addresses),
           \A a \in Addresses : t \in InReport(a) => Doing(t, "push")
    PROVE  SizesFollow'
<1>1. SUFFICES ASSUME NEW a \in Addresses \ blurred
               PROVE  /\ \A u, v \in InReport(a)' : u = v
                      /\ \A u \in InReport(a)' : Follows(doing[u])'
                      /\ InReport(a)' = {} => addrBytes[a] = heap[a]
  BY DEF SizesFollow
<1>2. \A u \in InReport(a)' : u \in InReport(a) /\ u # t /\ doing'[u] = doing[u]
  BY <1>1 DEF InReport, Doing
<1>3. InReport(a) \subseteq InReport(a)' \cup {t}
  BY DEF InReport, Doing
<1>4. \A u \in InReport(a)' : Follows(doing[u])'
  <2>1. \A u \in InReport(a) : Follows(doing[u])
    BY <1>1 DEF SizesFollow
  <2>2. QED
    BY <2>1, <1>2 DEF Follows
<1>5. ASSUME InReport(a)' = {} PROVE addrBytes[a] = heap[a]
  <2>1. CASE InReport(a) = {}
    BY <2>1, <1>1 DEF SizesFollow
  <2>2. CASE InReport(a) # {}
    <3>1. t \in InReport(a) /\ Doing(t, "push")
      BY <2>2, <1>3, <1>5
    <3>2. Follows(doing[t]) /\ doing[t].address = a
      BY <3>1, <1>1 DEF SizesFollow, InReport
    <3>3. QED
      BY <3>1, <3>2 DEF Follows, Doing
  <2>3. QED
    BY <2>1, <2>2
<1>6. QED
  BY <1>1, <1>2, <1>4, <1>5 DEF SizesFollow

\* An operation and a step of its report: what a thread does changes, and the records do not.
ReportAt(t, d) ==
    /\ d = Idle \/ d \in Reports
    /\ d # Idle =>
          /\ d.time = clock'[t] /\ (d.step = "map" => d.kind = "memory")
          /\ d.kind = "memory" => d.address \in Addresses /\ d.op \in {"allocation", "release"}
          /\ d.kind # "memory" => d.op = "copy"
    /\ d.step = "push" => RightSize(d)

LEMMA ReportStep ==
    ASSUME MemoryIInv, NEW t \in MemThreads, NEW d, ReportAt(t, d), ~Doing(t, "api"),
           doing' = [doing EXCEPT ![t] = d],
           \/ clock' = clock /\ ~Doing(t, "idle")
           \/ clock' = [clock EXCEPT ![t] = @ + 1],
           UNCHANGED <<supported, memEnabled, dataCache, calls, memOut, made, reported, switches>>
    PROVE  /\ DoingNow' /\ CallsNested' /\ RecordsPart' /\ SureSizes'
           /\ doing' \in [MemThreads -> {Idle} \cup Reports \cup ApiEnds] /\ clock' \in [MemThreads -> Nat]
<1>1. /\ MemTypes /\ DoingNow /\ CallsNested /\ RecordsPart /\ SureSizes
      /\ doing \in [MemThreads -> {Idle} \cup Reports \cup ApiEnds] /\ clock \in [MemThreads -> Nat]
  BY DEF MemoryIInv, RecordsPart, MemTypes
<1>2. doing' \in [MemThreads -> {Idle} \cup Reports \cup ApiEnds] /\ clock' \in [MemThreads -> Nat]
  BY <1>1 DEF ReportAt
<1>3. doing'[t] = d /\ \A u \in MemThreads \ {t} : doing'[u] = doing[u] /\ clock'[u] = clock[u]
  BY <1>1
<1>4. /\ d.step # "api"
      /\ d.step = "idle" => d = Idle
      /\ d # Idle => d \in Reports
  BY DEF ReportAt, Idle, Reports
<1>5. \A u \in MemThreads, n \in Nat : Past(u, n) => Past(u, n)'
  BY <1>1, <1>3, PastKept
<1>6. \A u \in MemThreads : Around(u)' = Around(u)
  <2>1. Around(t)' = Around(t)
    BY <1>3, <1>4 DEF Around, Opened, Doing
  <2>2. \A u \in MemThreads \ {t} : Around(u)' = Around(u)
    BY <1>3 DEF Around, Opened, Doing
  <2>3. QED
    BY <2>1, <2>2
<1>7. RecordsPart' /\ CallsNested'
  BY <1>1, <1>5, <1>6, RecordsFrame
<1>8. DoingNow'
  <2>1. ASSUME NEW u \in MemThreads, u # t
        PROVE  /\ Reporting(u)' =>
                    /\ doing'[u].time = clock'[u]
                    /\ Doing(u, "map")' => doing'[u].kind = "memory"
                    /\ doing'[u].kind = "memory" => doing'[u].address \in Addresses /\ doing'[u].op \in {"allocation", "release"}
                    /\ doing'[u].kind # "memory" => doing'[u].op = "copy"
               /\ Doing(u, "api")' =>
                    /\ doing'[u].end = clock'[u] /\ doing'[u].kind = doing'[u].call.kind
                    /\ doing'[u].call.since = switches' => doing'[u].kind \in memEnabled'
                    /\ \A c \in Opened(u)' : c.begin < doing'[u].call.begin
    BY <2>1, <1>1, <1>3 DEF DoingNow, Reporting, Doing, Opened
  <2>2. /\ Reporting(t)' =>
                    /\ doing'[t].time = clock'[t]
                    /\ Doing(t, "map")' => doing'[t].kind = "memory"
                    /\ doing'[t].kind = "memory" => doing'[t].address \in Addresses /\ doing'[t].op \in {"allocation", "release"}
                    /\ doing'[t].kind # "memory" => doing'[t].op = "copy"
        /\ ~Doing(t, "api")'
    BY <1>3, <1>4 DEF Reporting, Doing, ReportAt, Idle
  <2>3. QED
    BY <2>1, <2>2 DEF DoingNow
<1>9. SureSizes'
  <2>1. \A u \in MemThreads : Doing(u, "push")' => RightSize(doing'[u])
    BY <1>1, <1>3 DEF SureSizes, Doing, ReportAt
  <2>2. QED
    BY <2>1, <1>1 DEF SureSizes
<1>10. QED
  BY <1>2, <1>7, <1>8, <1>9

\* The four operations.
LEMMA PerformsReport ==
    ASSUME MemoryIInv, NEW t \in MemThreads, NEW kind \in MemKinds, NEW op \in {"allocation", "release", "copy"},
           NEW a \in Addresses \cup {NoBlock}, NEW size \in Sizes \cup {NoBlock}, NEW freed \in Sizes \cup {NoBlock},
           kind = "memory" => a \in Addresses /\ op \in {"allocation", "release"},
           kind # "memory" => op = "copy",
           Performs(t, kind, op, a, size, freed)
    PROVE  /\ DoingNow' /\ CallsNested' /\ RecordsPart' /\ SureSizes'
           /\ doing' \in [MemThreads -> {Idle} \cup Reports \cup ApiEnds] /\ clock' \in [MemThreads -> Nat]
<1>1. PICK d : d = [step |-> "report", kind |-> kind, op |-> op, address |-> a, bytes |-> size,
                    freed |-> freed, sure |-> TRUE, time |-> Now(t)]
  OBVIOUS
<1>2. Doing(t, "idle") /\ clock' = [clock EXCEPT ![t] = @ + 1] /\ doing' = [doing EXCEPT ![t] = d]
  BY <1>1 DEF Performs, Ticks
<1>3. clock \in [MemThreads -> Nat] /\ MemTypes
  BY DEF MemoryIInv, MemTypes
<1>4. clock'[t] = Now(t) /\ Now(t) \in Nat
  BY <1>2, <1>3 DEF Now
<1>5. d \in Reports /\ d.step = "report" /\ d.time = Now(t) /\ d.kind = kind /\ d.address = a /\ d.op = op
  BY <1>1, <1>4 DEF Reports
<1>6. ReportAt(t, d)
  BY <1>4, <1>5 DEF ReportAt, Idle
<1>7. ~Doing(t, "api")
  BY <1>2 DEF Doing
<1>8. UNCHANGED <<supported, memEnabled, dataCache, calls, memOut, made, reported, switches>>
  BY DEF Performs
<1>9. QED
  BY <1>2, <1>6, <1>7, <1>8, ReportStep

\* The size that an operation leaves, for an address that stays clear of others' reports.
LEMMA SizesOfOperation ==
    ASSUME MemoryIInv, NEW t \in MemThreads, NEW a \in Addresses, Doing(t, "idle"),
           doing' = [doing EXCEPT ![t] = doing'[t]],
           doing'[t].step = "report", doing'[t].kind = "memory", doing'[t].address = a,
           addrBytes' = addrBytes, heap' = [heap EXCEPT ![a] = heap'[a]],
           a \notin blurred' => Touching(t, a) = {} /\ Follows(doing[t])',
           blurred' \in {blurred, blurred \cup {a}}
    PROVE  SizesFollow'
<1>1. doing \in [MemThreads -> {Idle} \cup Reports \cup ApiEnds] /\ heap \in [Addresses -> Sizes \cup {NoBlock}] /\ SizesFollow
  BY DEF MemoryIInv, MemTypes
<1>2. \A u \in MemThreads \ {t} : doing'[u] = doing[u]
  BY <1>1
<1>3. \A b \in Addresses \ {a} : heap'[b] = heap[b]
  BY <1>1
<1>4. SUFFICES ASSUME NEW b \in Addresses \ blurred'
               PROVE  /\ \A u, v \in InReport(b)' : u = v
                      /\ \A u \in InReport(b)' : Follows(doing[u])'
                      /\ InReport(b)' = {} => addrBytes[b] = heap'[b]
  BY DEF SizesFollow
<1>5. b \notin blurred
  BY <1>4
<1>6. CASE b = a
  <2>1. Touching(t, a) = {} /\ Follows(doing[t])'
    BY <1>4, <1>6
  <2>2. InReport(a)' = {t}
    <3>1. t \in InReport(a)'
      BY DEF InReport, Doing
    <3>2. \A u \in InReport(a)' : u # t => u \in Touching(t, a)
      BY <1>2 DEF InReport, Touching, Doing
    <3>3. QED
      BY <3>1, <3>2, <2>1
  <2>3. QED
    BY <1>6, <2>1, <2>2
<1>7. CASE b # a
  <2>1. InReport(b)' = InReport(b)
    BY <1>2, <1>7 DEF InReport, Doing
  <2>2. \A u \in InReport(b) : doing'[u] = doing[u] /\ doing[u].address = b
    <3>1. \A u \in InReport(b) : u # t
      BY DEF InReport
    <3>2. QED
      BY <3>1, <1>2 DEF InReport
  <2>3. \A u \in InReport(b) : Follows(doing[u])
    BY <1>1, <1>4, <1>5 DEF SizesFollow
  <2>4. \A u \in InReport(b) : Follows(doing[u])'
    BY <2>2, <2>3, <1>3, <1>4, <1>7 DEF Follows
  <2>5. (\A u, v \in InReport(b) : u = v) /\ (InReport(b) = {} => addrBytes[b] = heap[b])
    BY <1>1, <1>4, <1>5 DEF SizesFollow
  <2>6. QED
    BY <2>1, <2>4, <2>5, <1>3, <1>4, <1>7
<1>8. QED
  BY <1>6, <1>7

\* What a step keeps of the types that has nothing to do with an API call.
LEMMA TypesOfReport ==
    ASSUME MemTypes, heap' \in [Addresses -> Sizes \cup {NoBlock}], addrBytes' \in [Addresses -> Sizes \cup {NoBlock}],
           blurred' \subseteq Addresses,
           doing' \in [MemThreads -> {Idle} \cup Reports \cup ApiEnds], clock' \in [MemThreads -> Nat],
           UNCHANGED <<supported, memEnabled, dataCache, calls, memOut, made, reported, switches>>
    PROVE  MemTypes'
  BY DEF MemTypes

\* The parts make the invariant.
LEMMA Parts ==
    MemoryIInv' <=> MemTypes' /\ DoingNow' /\ CallsNested' /\ RecordsPart' /\ SizesFollow' /\ SureSizes'
  BY DEF MemoryIInv, RecordsPart

LEMMA AllocatesKeeps ==
    ASSUME MemoryIInv, NEW t \in MemThreads, NEW a \in Addresses, NEW size \in Sizes, Allocates(t, a, size)
    PROVE  MemoryIInv'
<1>1. /\ "memory" \in MemKinds /\ Performs(t, "memory", "allocation", a, size, NoBlock) /\ heap[a] = NoBlock
      /\ heap' = [heap EXCEPT ![a] = size]
      /\ blurred' = IF Touching(t, a) = {} THEN blurred ELSE blurred \cup {a}
  BY DEF Allocates
<1>2. /\ DoingNow' /\ CallsNested' /\ RecordsPart' /\ SureSizes'
      /\ doing' \in [MemThreads -> {Idle} \cup Reports \cup ApiEnds] /\ clock' \in [MemThreads -> Nat]
  BY <1>1, PerformsReport
<1>3. /\ Doing(t, "idle") /\ addrBytes' = addrBytes
      /\ doing' = [doing EXCEPT ![t] = [step |-> "report", kind |-> "memory", op |-> "allocation", address |-> a,
                     bytes |-> size, freed |-> NoBlock, sure |-> TRUE, time |-> Now(t)]]
      /\ UNCHANGED <<supported, memEnabled, dataCache, calls, memOut, made, reported, switches>>
  BY <1>1 DEF Performs
<1>4. MemTypes /\ doing \in [MemThreads -> {Idle} \cup Reports \cup ApiEnds]
  BY DEF MemoryIInv, MemTypes
<1>5. /\ doing'[t].step = "report" /\ doing'[t].kind = "memory" /\ doing'[t].address = a
      /\ doing'[t].op = "allocation" /\ doing'[t].bytes = size
  BY <1>3, <1>4
<1>6. MemTypes'
  <2>1. heap' \in [Addresses -> Sizes \cup {NoBlock}] /\ addrBytes' \in [Addresses -> Sizes \cup {NoBlock}]
        /\ blurred' \subseteq Addresses
    BY <1>1, <1>3, <1>4 DEF MemTypes
  <2>2. QED
    BY <2>1, <1>2, <1>3, <1>4, TypesOfReport
<1>7. SizesFollow'
  <2>1. heap'[a] = size /\ heap' = [heap EXCEPT ![a] = heap'[a]]
    BY <1>1, <1>4 DEF MemTypes
  <2>2. Follows(doing[t])'
    BY <1>5, <2>1 DEF Follows
  <2>3. doing' = [doing EXCEPT ![t] = doing'[t]]
    BY <1>3, <1>4
  <2>4. (a \notin blurred' => Touching(t, a) = {}) /\ blurred' \in {blurred, blurred \cup {a}}
    BY <1>1
  <2>5. QED
    BY <1>3, <1>5, <2>1, <2>2, <2>3, <2>4, SizesOfOperation
<1>8. QED
  BY <1>2, <1>6, <1>7, Parts

LEMMA FailsToAllocateKeeps ==
    ASSUME MemoryIInv, NEW t \in MemThreads, NEW a \in Addresses, NEW size \in Sizes, FailsToAllocate(t, a, size)
    PROVE  MemoryIInv'
<1>1. /\ "memory" \in MemKinds /\ Performs(t, "memory", "allocation", a, size, NoBlock)
      /\ heap' = heap /\ blurred' = blurred \cup {a}
  BY DEF FailsToAllocate
<1>2. /\ DoingNow' /\ CallsNested' /\ RecordsPart' /\ SureSizes'
      /\ doing' \in [MemThreads -> {Idle} \cup Reports \cup ApiEnds] /\ clock' \in [MemThreads -> Nat]
  BY <1>1, PerformsReport
<1>3. /\ Doing(t, "idle") /\ addrBytes' = addrBytes
      /\ doing' = [doing EXCEPT ![t] = [step |-> "report", kind |-> "memory", op |-> "allocation", address |-> a,
                     bytes |-> size, freed |-> NoBlock, sure |-> TRUE, time |-> Now(t)]]
      /\ UNCHANGED <<supported, memEnabled, dataCache, calls, memOut, made, reported, switches>>
  BY <1>1 DEF Performs
<1>4. MemTypes /\ doing \in [MemThreads -> {Idle} \cup Reports \cup ApiEnds]
  BY DEF MemoryIInv, MemTypes
<1>5. doing'[t].step = "report" /\ doing'[t].kind = "memory" /\ doing'[t].address = a
  BY <1>3, <1>4
<1>6. MemTypes'
  <2>1. heap' \in [Addresses -> Sizes \cup {NoBlock}] /\ addrBytes' \in [Addresses -> Sizes \cup {NoBlock}]
        /\ blurred' \subseteq Addresses
    BY <1>1, <1>3, <1>4 DEF MemTypes
  <2>2. QED
    BY <2>1, <1>2, <1>3, <1>4, TypesOfReport
<1>7. SizesFollow'
  <2>1. heap' = [heap EXCEPT ![a] = heap'[a]]
    BY <1>1, <1>4 DEF MemTypes
  <2>2. doing' = [doing EXCEPT ![t] = doing'[t]]
    BY <1>3, <1>4
  <2>3. a \in blurred' /\ blurred' \in {blurred, blurred \cup {a}}
    BY <1>1
  <2>4. QED
    BY <1>3, <1>5, <2>1, <2>2, <2>3, SizesOfOperation
<1>8. QED
  BY <1>2, <1>6, <1>7, Parts

LEMMA ReleasesKeeps ==
    ASSUME MemoryIInv, NEW t \in MemThreads, NEW a \in Addresses, Releases(t, a)
    PROVE  MemoryIInv'
<1>1. /\ "memory" \in MemKinds /\ Performs(t, "memory", "release", a, 0, heap[a])
      /\ heap' = [heap EXCEPT ![a] = NoBlock]
      /\ blurred' = IF Touching(t, a) = {} THEN blurred ELSE blurred \cup {a}
  BY DEF Releases
<1>2. MemTypes /\ doing \in [MemThreads -> {Idle} \cup Reports \cup ApiEnds] /\ heap \in [Addresses -> Sizes \cup {NoBlock}]
      /\ heap[a] \in Sizes \cup {NoBlock} /\ SizesFollow
  BY DEF MemoryIInv, MemTypes
<1>3. /\ DoingNow' /\ CallsNested' /\ RecordsPart' /\ SureSizes'
      /\ doing' \in [MemThreads -> {Idle} \cup Reports \cup ApiEnds] /\ clock' \in [MemThreads -> Nat]
  BY <1>1, <1>2, PerformsReport DEF NoBlock
<1>4. /\ Doing(t, "idle") /\ addrBytes' = addrBytes
      /\ doing' = [doing EXCEPT ![t] = [step |-> "report", kind |-> "memory", op |-> "release", address |-> a,
                     bytes |-> 0, freed |-> heap[a], sure |-> TRUE, time |-> Now(t)]]
      /\ UNCHANGED <<supported, memEnabled, dataCache, calls, memOut, made, reported, switches>>
  BY <1>1 DEF Performs
<1>5. /\ doing'[t].step = "report" /\ doing'[t].kind = "memory" /\ doing'[t].address = a
      /\ doing'[t].op = "release" /\ doing'[t].bytes = 0 /\ doing'[t].freed = heap[a]
  BY <1>4, <1>2
<1>6. MemTypes'
  <2>1. heap' \in [Addresses -> Sizes \cup {NoBlock}] /\ addrBytes' \in [Addresses -> Sizes \cup {NoBlock}]
        /\ blurred' \subseteq Addresses
    BY <1>1, <1>2, <1>4 DEF MemTypes
  <2>2. QED
    BY <2>1, <1>2, <1>3, <1>4, TypesOfReport
<1>7. SizesFollow'
  <2>1. heap'[a] = NoBlock /\ heap' = [heap EXCEPT ![a] = heap'[a]]
    BY <1>1, <1>2
  <2>2. ASSUME a \notin blurred' PROVE Touching(t, a) = {} /\ Follows(doing[t])'
    <3>1. Touching(t, a) = {} /\ a \notin blurred
      BY <2>2, <1>1
    <3>2. InReport(a) = {}
      BY <3>1, <1>4 DEF Touching, InReport
    <3>3. addrBytes[a] = heap[a]
      BY <3>1, <3>2, <1>2 DEF SizesFollow
    <3>4. Follows(doing[t])'
      BY <1>4, <1>5, <2>1, <3>3 DEF Follows, NoBlock
    <3>5. QED
      BY <3>1, <3>4
  <2>3. doing' = [doing EXCEPT ![t] = doing'[t]] /\ blurred' \in {blurred, blurred \cup {a}}
    BY <1>1, <1>2, <1>4
  <2>4. QED
    BY <1>4, <1>5, <2>1, <2>2, <2>3, SizesOfOperation
<1>8. QED
  BY <1>3, <1>6, <1>7, Parts

LEMMA CopiesKeeps ==
    ASSUME MemoryIInv, NEW t \in MemThreads, Copies(t)
    PROVE  MemoryIInv'
<1>1. "memcpy" \in MemKinds /\ Performs(t, "memcpy", "copy", NoBlock, 0, NoBlock) /\ heap' = heap /\ blurred' = blurred
  BY DEF Copies
<1>2. /\ DoingNow' /\ CallsNested' /\ RecordsPart' /\ SureSizes'
      /\ doing' \in [MemThreads -> {Idle} \cup Reports \cup ApiEnds] /\ clock' \in [MemThreads -> Nat]
  BY <1>1, PerformsReport DEF NoBlock
<1>3. /\ Doing(t, "idle") /\ addrBytes' = addrBytes
      /\ doing' = [doing EXCEPT ![t] = [step |-> "report", kind |-> "memcpy", op |-> "copy", address |-> NoBlock,
                     bytes |-> 0, freed |-> NoBlock, sure |-> TRUE, time |-> Now(t)]]
      /\ UNCHANGED <<supported, memEnabled, dataCache, calls, memOut, made, reported, switches>>
  BY <1>1 DEF Performs
<1>4. MemTypes /\ SizesFollow /\ doing \in [MemThreads -> {Idle} \cup Reports \cup ApiEnds]
  BY DEF MemoryIInv, MemTypes
<1>5. MemTypes'
  BY <1>1, <1>2, <1>3, <1>4, TypesOfReport DEF MemTypes
<1>6. SizesFollow'
  <2>1. doing'[t].kind = "memcpy" /\ \A u \in MemThreads \ {t} : doing'[u] = doing[u]
    BY <1>3, <1>4
  <2>2. \A a \in Addresses : t \notin InReport(a)
    BY <1>3 DEF InReport
  <2>3. QED
    BY <1>1, <1>3, <1>4, <2>1, <2>2, SizesLeft
<1>7. QED
  BY <1>2, <1>5, <1>6, Parts

\* A report finds the kind on and goes on, or off and ends: its address is blurred then.
LEMMA ReportChecksKeeps ==
    ASSUME MemoryIInv, NEW t \in MemThreads, ReportChecks(t)
    PROVE  MemoryIInv'
<1>1. MemTypes /\ SizesFollow /\ DoingNow /\ SureSizes /\ doing \in [MemThreads -> {Idle} \cup Reports \cup ApiEnds]
  BY DEF MemoryIInv, MemTypes
<1>2. Doing(t, "report") /\ Reporting(t) /\ doing[t] \in Reports /\ ~Doing(t, "idle") /\ ~Doing(t, "api")
  BY <1>1, AboutDoing DEF ReportChecks, Doing, Reporting
<1>3. PICK d : d = doing[t] /\ d \in Reports
  BY <1>2
<1>4. UNCHANGED <<supported, memEnabled, heap, addrBytes, dataCache, calls, clock, memOut, made, reported, switches>>
  BY DEF ReportChecks
<1>5. /\ d.time = clock[t]
      /\ d.kind = "memory" => d.address \in Addresses /\ d.op \in {"allocation", "release"}
      /\ d.kind # "memory" => d.op = "copy"
  BY <1>1, <1>2, <1>3 DEF DoingNow
<1>6. CASE d.kind \in memEnabled
  <2>1. PICK e : e = [d EXCEPT !.step = IF d.kind = "memory" THEN "map" ELSE "push"]
    OBVIOUS
  <2>2. doing' = [doing EXCEPT ![t] = e] /\ blurred' = blurred
    BY <1>3, <1>6, <2>1 DEF ReportChecks
  <2>3. /\ e \in Reports /\ e.step = IF d.kind = "memory" THEN "map" ELSE "push"
        /\ e.kind = d.kind /\ e.op = d.op /\ e.address = d.address /\ e.bytes = d.bytes /\ e.freed = d.freed /\ e.time = d.time
    BY <1>3, <2>1 DEF Reports
  <2>4. ReportAt(t, e)
    <3>1. e.step = "push" => RightSize(e)
      BY <2>3, <1>5 DEF RightSize
    <3>2. QED
      BY <2>3, <3>1, <1>4, <1>5 DEF ReportAt
  <2>5. /\ DoingNow' /\ CallsNested' /\ RecordsPart' /\ SureSizes'
        /\ doing' \in [MemThreads -> {Idle} \cup Reports \cup ApiEnds] /\ clock' \in [MemThreads -> Nat]
    BY <1>2, <1>4, <2>2, <2>4, ReportStep
  <2>6. MemTypes'
    BY <1>1, <1>4, <2>2, <2>5, TypesOfReport DEF MemTypes
  <2>7. SizesFollow'
    <3>1. doing'[t] = e /\ \A u \in MemThreads \ {t} : doing'[u] = doing[u]
      BY <2>2, <1>1
    <3>2. \A a \in Addresses : InReport(a)' = InReport(a)
      BY <3>1, <2>3, <1>2, <1>3 DEF InReport, Doing
    <3>3. \A u \in MemThreads : \A a \in Addresses : u \in InReport(a) /\ Follows(doing[u]) => Follows(doing[u])'
      BY <3>1, <2>3, <1>2, <1>3, <1>4 DEF InReport, Follows, Doing
    <3>4. \A a \in Addresses : \A u \in InReport(a) : u \in MemThreads
      BY DEF InReport
    <3>5. QED
      BY <3>2, <3>3, <3>4, <1>1, <1>4, <2>2 DEF SizesFollow
  <2>8. QED
    BY <2>5, <2>6, <2>7, Parts
<1>7. CASE d.kind \notin memEnabled
  <2>1. doing' = [doing EXCEPT ![t] = Idle] /\ blurred' = IF d.kind = "memory" THEN blurred \cup {d.address} ELSE blurred
    BY <1>3, <1>7 DEF ReportChecks
  <2>2. ReportAt(t, Idle)
    BY DEF ReportAt, Idle
  <2>3. /\ DoingNow' /\ CallsNested' /\ RecordsPart' /\ SureSizes'
        /\ doing' \in [MemThreads -> {Idle} \cup Reports \cup ApiEnds] /\ clock' \in [MemThreads -> Nat]
    BY <1>2, <1>4, <2>1, <2>2, ReportStep
  <2>4. MemTypes'
    BY <1>1, <1>4, <1>5, <2>1, <2>3, TypesOfReport DEF MemTypes
  <2>5. SizesFollow'
    <3>1. doing'[t] = Idle /\ \A u \in MemThreads \ {t} : doing'[u] = doing[u]
      BY <2>1, <1>1
    <3>2. \A a \in Addresses \ blurred' : a \notin blurred /\ InReport(a)' = InReport(a) /\ t \notin InReport(a)
      BY <3>1, <2>1, <1>2, <1>3 DEF InReport, Doing, Idle
    <3>3. \A u \in MemThreads \ {t} : Follows(doing[u]) => Follows(doing[u])'
      BY <3>1, <1>4 DEF Follows
    <3>4. \A a \in Addresses : \A u \in InReport(a) : u \in MemThreads
      BY DEF InReport
    <3>5. QED
      BY <3>2, <3>3, <3>4, <1>1, <1>4 DEF SizesFollow
  <2>6. QED
    BY <2>3, <2>4, <2>5, Parts
<1>8. QED
  BY <1>6, <1>7

\* The table: an address that only this report touches is clear afterwards.
LEMMA MapsAddressKeeps ==
    ASSUME MemoryIInv, NEW t \in MemThreads, MapsAddress(t)
    PROVE  MemoryIInv'
<1>1. /\ MemTypes /\ SizesFollow /\ DoingNow /\ doing \in [MemThreads -> {Idle} \cup Reports \cup ApiEnds]
      /\ addrBytes \in [Addresses -> Sizes \cup {NoBlock}] /\ heap \in [Addresses -> Sizes \cup {NoBlock}]
  BY DEF MemoryIInv, MemTypes
<1>2. Doing(t, "map") /\ Reporting(t) /\ doing[t] \in Reports /\ ~Doing(t, "idle") /\ ~Doing(t, "api")
  BY <1>1, AboutDoing DEF MapsAddress, Doing, Reporting
<1>3. PICK d : d = doing[t] /\ d \in Reports
  BY <1>2
<1>4. UNCHANGED <<supported, memEnabled, heap, dataCache, calls, clock, memOut, made, reported, switches>>
  BY DEF MapsAddress
<1>5. d.time = clock[t] /\ d.kind = "memory" /\ d.address \in Addresses /\ d.op \in {"allocation", "release"} /\ d.step = "map"
  BY <1>1, <1>2, <1>3 DEF DoingNow, Doing
<1>6. PICK a : a = d.address /\ a \in Addresses
  BY <1>5
<1>7. PICK e : e = [d EXCEPT !.step = "push", !.bytes = BytesOf(d), !.sure = a \notin blurred]
  OBVIOUS
<1>8. PICK kept : kept = KeptBytes(d)
  OBVIOUS
<1>9. /\ doing' = [doing EXCEPT ![t] = e] /\ addrBytes' = [addrBytes EXCEPT ![a] = kept]
      /\ blurred' = IF Touching(t, a) = {} /\ heap[a] = kept THEN blurred \ {a} ELSE blurred
  BY <1>3, <1>6, <1>7, <1>8 DEF MapsAddress
<1>10. BytesOf(d) \in Sizes \cup {NoBlock} /\ kept \in Sizes \cup {NoBlock}
  <2>1. d.bytes \in Sizes \cup {NoBlock} /\ addrBytes[a] \in Sizes \cup {NoBlock}
    BY <1>1, <1>3, <1>6 DEF Reports
  <2>2. QED
    BY <2>1, <1>6, <1>8 DEF BytesOf, KeptBytes
<1>11. /\ e \in Reports /\ e.step = "push" /\ e.bytes = BytesOf(d) /\ e.sure = (a \notin blurred)
       /\ e.kind = "memory" /\ e.op = d.op /\ e.address = a /\ e.freed = d.freed /\ e.time = d.time
  BY <1>3, <1>5, <1>6, <1>7, <1>10 DEF Reports
<1>12. t \in InReport(a)
  BY <1>2, <1>3, <1>5, <1>6 DEF InReport
<1>13. ASSUME a \notin blurred
       PROVE  Follows(d) /\ InReport(a) = {t} /\ Touching(t, a) = {}
  BY <1>13, <1>12, <1>6, <1>1, <1>3 DEF SizesFollow, Touching
<1>14. RightSize(e)
  <2>1. ASSUME e.op = "release", e.sure PROVE e.bytes = e.freed
    <3>1. addrBytes[a] = d.freed /\ d.bytes = NoBlock /\ d.op = "release"
      BY <2>1, <1>5, <1>6, <1>11, <1>13 DEF Follows
    <3>2. BytesOf(d) = d.freed
      BY <3>1, <1>6 DEF BytesOf
    <3>3. QED
      BY <3>2, <1>11
  <2>2. QED
    BY <2>1 DEF RightSize
<1>15. ReportAt(t, e)
  BY <1>4, <1>5, <1>6, <1>11, <1>14 DEF ReportAt
<1>16. /\ DoingNow' /\ CallsNested' /\ RecordsPart' /\ SureSizes'
       /\ doing' \in [MemThreads -> {Idle} \cup Reports \cup ApiEnds] /\ clock' \in [MemThreads -> Nat]
  BY <1>2, <1>4, <1>9, <1>15, ReportStep
<1>17. MemTypes'
  <2>1. addrBytes' \in [Addresses -> Sizes \cup {NoBlock}] /\ blurred' \subseteq Addresses /\ heap' \in [Addresses -> Sizes \cup {NoBlock}]
    BY <1>1, <1>4, <1>9, <1>10 DEF MemTypes
  <2>2. QED
    BY <2>1, <1>1, <1>4, <1>16, TypesOfReport
<1>18. SizesFollow'
  <2>1. doing'[t] = e /\ \A u \in MemThreads \ {t} : doing'[u] = doing[u]
    BY <1>9, <1>1
  <2>2. \A b \in Addresses : InReport(b)' = InReport(b)
    BY <2>1, <1>2, <1>3, <1>5, <1>6, <1>11 DEF InReport, Doing
  <2>3. SUFFICES ASSUME NEW b \in Addresses \ blurred'
                 PROVE  /\ \A u, v \in InReport(b)' : u = v
                        /\ \A u \in InReport(b)' : Follows(doing[u])'
                        /\ InReport(b)' = {} => addrBytes'[b] = heap'[b]
    BY DEF SizesFollow
  <2>4. CASE b = a
    <3>1. Touching(t, a) = {} /\ heap[a] = kept
      <4>1. CASE a \in blurred
        BY <4>1, <1>9, <2>3, <2>4
      <4>2. CASE a \notin blurred
        <5>1. heap[a] = kept
          BY <4>2, <1>13, <1>5, <1>6, <1>8 DEF Follows, KeptBytes
        <5>2. QED
          BY <5>1, <4>2, <1>13
      <4>3. QED
        BY <4>1, <4>2
    <3>2. InReport(a) = {t}
      BY <3>1, <1>12 DEF Touching
    <3>3. addrBytes'[a] = heap'[a]
      BY <3>1, <1>1, <1>4, <1>6, <1>9
    <3>4. Follows(doing[t])'
      BY <2>1, <3>3, <1>11 DEF Follows
    <3>5. QED
      BY <2>4, <2>2, <3>2, <3>4, <1>6
  <2>5. CASE b # a
    <3>1. b \notin blurred /\ addrBytes'[b] = addrBytes[b] /\ heap'[b] = heap[b]
      BY <2>3, <2>5, <1>1, <1>4, <1>9
    <3>2. \A u \in InReport(b) : u \in MemThreads \ {t} /\ doing[u].address = b /\ doing'[u] = doing[u]
      BY <2>1, <2>5, <1>3, <1>6 DEF InReport
    <3>3. \A u \in InReport(b) : Follows(doing[u])
      BY <3>1, <1>1, <2>3 DEF SizesFollow
    <3>4. \A u \in InReport(b) : Follows(doing[u])'
      BY <3>1, <3>2, <3>3 DEF Follows
    <3>5. QED
      BY <3>1, <3>4, <2>2, <2>3, <1>1 DEF SizesFollow
  <2>6. QED
    BY <2>4, <2>5
<1>19. QED
  BY <1>16, <1>17, <1>18, Parts

\* The calls around a thread's step are calls, and a call has one begin.
LEMMA AroundCalls ==
    ASSUME MemTypes, NEW t \in MemThreads
    PROVE  \A c \in Around(t) : c \in ApiCalls /\ c.begin \in Nat \ {0} /\ c.since \in Nat /\ c.kind \in MemKinds
<1>1. calls[t] \in Seq(ApiCalls)
  BY DEF MemTypes
<1>2. \A c \in Around(t) : c \in ApiCalls
  BY <1>1, AboutDoing DEF Around, Opened, ApiEnds
<1>3. QED
  BY <1>2 DEF ApiCalls

\* What records and reported calls are.
LEMMA AboutRecords ==
    ASSUME MemTypes
    PROVE  /\ \A r \in made : r \in MemRecords
           /\ \A o \in memOut : o \in OutRecords /\ o.record \in MemRecords
           /\ \A r \in MemRecords : r.thread \in MemThreads /\ r.kind \in MemKinds /\ r.time \in Nat /\ r.within \subseteq Nat
           /\ \A f \in reported : f.thread \in MemThreads /\ f.kind \in MemKinds /\ f.begin \in Nat /\ f.end \in Nat
<1>1. made \subseteq MemRecords /\ memOut \subseteq OutRecords /\ reported \subseteq DoneCalls
  BY DEF MemTypes
<1>2. QED
  BY <1>1 DEF OutRecords, MemRecords, DoneCalls

\* The client turns a kind on or off: no call that began before is quiet any more.
LEMMA SwitchesKindKeeps ==
    ASSUME MemoryIInv, NEW k \in MemKinds, SwitchesKind(k)
    PROVE  MemoryIInv'
<1>1. /\ MemTypes /\ DoingNow /\ CallsNested /\ Queued /\ RecordsPast /\ NotOut /\ MadeWithin /\ WaitsFor
      /\ OwnCall /\ CallsComplete /\ SizesFollow /\ SureSizes
  BY DEF MemoryIInv
<1>2. /\ switches' = switches + 1 /\ memEnabled' \subseteq MemKinds
      /\ UNCHANGED <<supported, heap, addrBytes, dataCache, calls, doing, clock, memOut, made, reported, blurred>>
  BY <1>1 DEF SwitchesKind, MemTypes
<1>3. MemTypes'
  BY <1>1, <1>2 DEF MemTypes
<1>4. \A t \in MemThreads : Around(t)' = Around(t) /\ Opened(t)' = Opened(t)
  BY <1>2 DEF Around, Opened, Doing
<1>5. \A t \in MemThreads, n \in Nat : Past(t, n)' <=> Past(t, n)
  BY <1>2 DEF Past, Doing
<1>6. \A t \in MemThreads : \A c \in Around(t) : c.since \in Nat /\ c.since <= switches /\ c.since < switches'
  <2>1. \A t \in MemThreads : \A c \in Around(t) : c.since \in Nat /\ c.since <= switches
    BY <1>1, AroundCalls DEF CallsNested
  <2>2. switches \in Nat
    BY <1>1 DEF MemTypes
  <2>3. QED
    BY <2>1, <2>2, <1>2
<1>7. DoingNow'
  <2>1. \A t \in MemThreads : Doing(t, "api") => doing[t].call.since # switches'
    BY <1>6, <1>1, <1>2 DEF Around, MemTypes
  <2>2. QED
    BY <2>1, <1>1, <1>2, <1>4 DEF DoingNow, Reporting, Doing
<1>8. CallsNested'
  <2>1. \A t \in MemThreads : \A c \in Around(t) : Past(t, c.begin)' /\ c.since <= switches'
    <3>1. \A t \in MemThreads : \A c \in Around(t) : Past(t, c.begin) /\ c.begin \in Nat
      BY <1>1, AroundCalls DEF CallsNested
    <3>2. switches' \in Nat
      BY <1>3 DEF MemTypes
    <3>3. QED
      BY <3>1, <3>2, <1>5, <1>6
  <2>2. \A f \in reported : f.begin <= f.end /\ Past(f.thread, f.end)' /\ \A c \in Around(f.thread) : f.end < c.begin \/ c.begin < f.begin
    BY <1>1, <1>5, AboutRecords DEF CallsNested
  <2>3. \A f \in reported : f.thread \in MemThreads
    BY <1>1, AboutRecords
  <2>4. \A t \in MemThreads : \A i, j \in DOMAIN calls'[t] : i < j => calls'[t][i].begin < calls'[t][j].begin
    BY <1>1, <1>2 DEF CallsNested
  <2>5. \A t \in MemThreads : \A c \in Around(t)' : Past(t, c.begin)' /\ c.since <= switches'
    BY <2>1, <1>4
  <2>6. \A f \in reported' : f.begin <= f.end /\ Past(f.thread, f.end)' /\ \A c \in Around(f.thread)' : f.end < c.begin \/ c.begin < f.begin
    BY <2>2, <2>3, <1>2, <1>4
  <2>7. QED
    BY <2>4, <2>5, <2>6 DEF CallsNested
<1>9. Queued' /\ NotOut' /\ OwnCall' /\ CallsComplete'
  BY <1>1, <1>2 DEF Queued, NotOut, OwnCall, InnermostOf, CallsComplete
<1>10. RecordsPast'
  BY <1>1, <1>2 DEF RecordsPast, Past, Doing, Waiting, Passed
<1>11. MadeWithin'
  BY <1>1, <1>2, <1>4, AboutRecords DEF MadeWithin
<1>12. WaitsFor'
  <2>1. \A u \in MemKinds, t \in MemThreads : \A i \in DOMAIN dataCache[u][t] : \A b \in dataCache[u][t][i].within :
           \A c \in Around(t) : c.since < switches'
    BY <1>6
  <2>2. QED
    BY <2>1, <1>2, <1>4 DEF WaitsFor
<1>13. SizesFollow' /\ SureSizes'
  BY <1>1, <1>2 DEF SizesFollow, InReport, Doing, Follows, SureSizes, RightSize
<1>14. QED
  BY <1>3, <1>7, <1>8, <1>9, <1>10, <1>11, <1>12, <1>13 DEF MemoryIInv

\* A call begins after all records and reported calls of its thread.
LEMMA BeginApiKeeps ==
    ASSUME MemoryIInv, NEW t \in MemThreads, NEW k \in MemKinds, BeginApi(t, k)
    PROVE  MemoryIInv'
<1>1. /\ MemTypes /\ DoingNow /\ CallsNested /\ Queued /\ RecordsPast /\ NotOut /\ MadeWithin /\ WaitsFor
      /\ OwnCall /\ CallsComplete /\ SizesFollow /\ SureSizes
  BY DEF MemoryIInv
<1>2. PICK new : new = [kind |-> k, begin |-> Now(t), since |-> switches]
  OBVIOUS
<1>3. /\ Doing(t, "idle") /\ Len(calls[t]) < MaxDepth /\ clock' = [clock EXCEPT ![t] = @ + 1]
      /\ calls' = [calls EXCEPT ![t] = Append(@, new)]
      /\ UNCHANGED <<supported, memEnabled, heap, addrBytes, dataCache, doing, memOut, made, reported, blurred, switches>>
  BY <1>2 DEF BeginApi, Ticks
<1>4. /\ clock \in [MemThreads -> Nat] /\ calls \in [MemThreads -> Seq(ApiCalls)] /\ switches \in Nat /\ clock[t] \in Nat
      /\ \A u \in MemThreads : Len(calls[u]) <= MaxDepth
  BY <1>1 DEF MemTypes
<1>5. new \in ApiCalls /\ new.kind = k /\ new.begin = clock[t] + 1 /\ new.since = switches /\ new.begin \in Nat \ {0}
  BY <1>2, <1>4 DEF ApiCalls, Now
<1>6. PICK s : s = calls[t] /\ s \in Seq(ApiCalls)
  BY <1>4
<1>7. /\ calls'[t] = Append(s, new) /\ Append(s, new) \in Seq(ApiCalls)
      /\ \A u \in MemThreads \ {t} : calls'[u] = calls[u]
      /\ Len(Append(s, new)) = Len(s) + 1 /\ DOMAIN Append(s, new) = 1 .. Len(s) + 1 /\ DOMAIN s = 1 .. Len(s) /\ Len(s) \in Nat
      /\ \A i \in 1 .. Len(s) : Append(s, new)[i] = s[i]
      /\ Append(s, new)[Len(s) + 1] = new
  BY <1>3, <1>4, <1>5, <1>6, AppendProperties
<1>8. MemTypes'
  <2>1. clock' \in [MemThreads -> Nat]
    BY <1>3, <1>4
  <2>2. calls' \in [MemThreads -> Seq(ApiCalls)]
    BY <1>3, <1>4, <1>6, <1>7
  <2>3. MaxDepth \in Nat
    BY MemoryAssumption
  <2>4. \A u \in MemThreads : Len(calls'[u]) <= MaxDepth
    BY <1>3, <1>4, <1>6, <1>7, <2>3
  <2>5. QED
    BY <1>1, <1>3, <2>1, <2>2, <2>4 DEF MemTypes
<1>9. /\ Opened(t)' = Opened(t) \cup {new} /\ \A u \in MemThreads \ {t} : Opened(u)' = Opened(u)
  <2>1. \A c \in Opened(t)' : c \in Opened(t) \cup {new}
    <3>1. ASSUME NEW i \in 1 .. Len(s) + 1 PROVE Append(s, new)[i] \in {s[j] : j \in 1 .. Len(s)} \cup {new}
      <4>1. CASE i \in 1 .. Len(s)
        BY <4>1, <1>7
      <4>2. CASE i = Len(s) + 1
        BY <4>2, <1>7
      <4>3. QED
        BY <4>1, <4>2, <1>7
    <3>2. QED
      BY <3>1, <1>6, <1>7 DEF Opened
  <2>2. \A c \in Opened(t) \cup {new} : c \in Opened(t)'
    <3>1. Opened(t)' = {Append(s, new)[i] : i \in 1 .. Len(s) + 1} /\ Opened(t) = {s[i] : i \in 1 .. Len(s)}
      BY <1>6, <1>7 DEF Opened
    <3>2. (\A i \in 1 .. Len(s) : i \in 1 .. Len(s) + 1) /\ Len(s) + 1 \in 1 .. Len(s) + 1
      BY <1>7
    <3>3. \A i \in 1 .. Len(s) : s[i] \in Opened(t)'
      BY <3>1, <3>2, <1>7
    <3>4. new \in Opened(t)'
      BY <3>1, <3>2, <1>7
    <3>5. QED
      BY <3>1, <3>3, <3>4
  <2>3. \A u \in MemThreads \ {t} : Opened(u)' = Opened(u)
    BY <1>7 DEF Opened
  <2>4. QED
    BY <2>1, <2>2, <2>3
<1>10. /\ Around(t)' = Around(t) \cup {new} /\ \A u \in MemThreads \ {t} : Around(u)' = Around(u)
  BY <1>3, <1>9 DEF Around, Doing
<1>11. \A u \in MemThreads, n \in Nat : Past(u, n) => Past(u, n)'
  BY <1>1, <1>3, PastKept
<1>12. \A n \in Nat : Past(t, n) => n < new.begin
  BY <1>4, <1>5 DEF Past
<1>13. Past(t, new.begin)'
  <2>1. clock'[t] = new.begin
    BY <1>3, <1>4, <1>5
  <2>2. QED
    BY <2>1, <1>3, <1>5 DEF Past, Doing
<1>14. DoingNow'
  <2>1. \A u \in MemThreads \ {t} : clock'[u] = clock[u]
    BY <1>3, <1>4
  <2>2. ~Reporting(t) /\ ~Doing(t, "api")
    BY <1>3 DEF Reporting, Doing
  <2>3. QED
    BY <2>1, <2>2, <1>1, <1>3, <1>9 DEF DoingNow, Reporting, Doing
<1>15. CallsNested'
  <2>1. ASSUME NEW i \in 1 .. Len(s) + 1, NEW j \in 1 .. Len(s) + 1, i < j
        PROVE  Append(s, new)[i].begin < Append(s, new)[j].begin
    <3>1. i \in 1 .. Len(s)
      BY <2>1, <1>7
    <3>2. CASE j \in 1 .. Len(s)
      BY <3>1, <3>2, <2>1, <1>1, <1>6, <1>7 DEF CallsNested
    <3>3. CASE j = Len(s) + 1
      <4>1. s[i] \in Around(t)
        BY <3>1, <1>6, <1>7 DEF Around, Opened
      <4>2. Past(t, s[i].begin) /\ s[i].begin \in Nat
        BY <4>1, <1>1, AroundCalls DEF CallsNested
      <4>3. QED
        BY <4>2, <3>1, <3>3, <1>7, <1>12
    <3>4. QED
      BY <3>2, <3>3, <1>7
  <2>2. \A u \in MemThreads : \A i, j \in DOMAIN calls'[u] : i < j => calls'[u][i].begin < calls'[u][j].begin
    BY <2>1, <1>1, <1>7 DEF CallsNested
  <2>3. \A u \in MemThreads : \A c \in Around(u) : Past(u, c.begin)' /\ c.since <= switches
    BY <1>1, <1>11, AroundCalls DEF CallsNested
  <2>4. \A u \in MemThreads : \A c \in Around(u)' : Past(u, c.begin)' /\ c.since <= switches'
    <3>1. \A c \in Around(t)' : Past(t, c.begin)' /\ c.since <= switches
      BY <2>3, <1>4, <1>5, <1>10, <1>13
    <3>2. \A u \in MemThreads \ {t} : \A c \in Around(u)' : Past(u, c.begin)' /\ c.since <= switches
      BY <2>3, <1>10
    <3>3. QED
      BY <3>1, <3>2, <1>3
  <2>5. ASSUME NEW f \in reported
        PROVE  f.begin <= f.end /\ Past(f.thread, f.end)' /\ \A c \in Around(f.thread)' : f.end < c.begin \/ c.begin < f.begin
    <3>1. f.begin <= f.end /\ Past(f.thread, f.end) /\ \A c \in Around(f.thread) : f.end < c.begin \/ c.begin < f.begin
      BY <1>1 DEF CallsNested
    <3>2. f.thread \in MemThreads /\ f.end \in Nat
      BY <1>1, AboutRecords
    <3>3. f.thread = t => f.end < new.begin
      BY <3>1, <3>2, <1>12
    <3>4. QED
      BY <3>1, <3>2, <3>3, <1>10, <1>11
  <2>6. \A f \in reported' : f.begin <= f.end /\ Past(f.thread, f.end)' /\ \A c \in Around(f.thread)' : f.end < c.begin \/ c.begin < f.begin
    BY <2>5, <1>3
  <2>7. QED
    BY <2>2, <2>4, <2>6 DEF CallsNested
<1>16. Queued' /\ NotOut' /\ OwnCall' /\ CallsComplete'
  BY <1>1, <1>3 DEF Queued, NotOut, OwnCall, InnermostOf, CallsComplete
<1>17. RecordsPast'
  <2>1. \A r \in made : Past(r.thread, r.time)' /\ (Waiting(r)' \/ Passed(r)')
    BY <1>1, <1>3, <1>11, AboutRecords DEF RecordsPast, Waiting, Passed
  <2>2. \A o \in memOut : Past(o.record.thread, o.record.time)'
    BY <1>1, <1>11, AboutRecords DEF RecordsPast
  <2>3. QED
    BY <2>1, <2>2, <1>3 DEF RecordsPast
<1>18. MadeWithin'
  <2>1. ASSUME NEW r \in made, NEW c \in Around(r.thread)', c.kind = r.kind, c.begin <= r.time PROVE c.begin \in r.within
    <3>1. r.thread \in MemThreads /\ r.time \in Nat /\ Past(r.thread, r.time)
      BY <1>1, AboutRecords DEF RecordsPast
    <3>2. c # new \/ r.thread # t
      BY <3>1, <2>1, <1>12, <1>5
    <3>3. c \in Around(r.thread)
      BY <2>1, <3>1, <3>2, <1>10
    <3>4. QED
      BY <3>3, <2>1, <1>1 DEF MadeWithin
  <2>2. \A r \in made' : \A c \in Around(r.thread)' : c.kind = r.kind /\ c.begin <= r.time => c.begin \in r.within
    BY <2>1, <1>3
  <2>3. \A r \in made' : /\ \A b \in r.within : b < r.time
                         /\ \A f \in reported' : (f.thread = r.thread /\ f.kind = r.kind /\ f.begin <= r.time /\ r.time <= f.end)
                                                   => f.begin \in r.within
    BY <1>1, <1>3 DEF MadeWithin
  <2>4. QED
    BY <2>2, <2>3 DEF MadeWithin
<1>19. WaitsFor'
  <2>1. ASSUME NEW q \in MemKinds, NEW u \in MemThreads, NEW i \in DOMAIN dataCache[q][u], NEW b \in dataCache[q][u][i].within
        PROVE  \/ \E c \in Around(u)' : c.begin = b /\ c.kind = q
               \/ \A c \in Around(u)' : c.kind = q /\ c.begin < b => c.since < switches \/ q \notin memEnabled
    <3>1. PICK r : r = dataCache[q][u][i]
      OBVIOUS
    <3>2. r \in made /\ r.thread = u /\ r \in MemRecords
      BY <3>1, <1>1, AboutRecords DEF Queued
    <3>3. b \in Nat /\ b < r.time /\ r.time \in Nat /\ Past(u, r.time)
      BY <3>1, <3>2, <2>1, <1>1, AboutRecords DEF MadeWithin, RecordsPast
    <3>4. u = t => b < new.begin
      BY <3>3, <1>12, <1>5
    <3>5. \/ \E c \in Around(u) : c.begin = b /\ c.kind = q
          \/ \A c \in Around(u) : c.kind = q /\ c.begin < b => c.since < switches \/ q \notin memEnabled
      BY <1>1, <2>1 DEF WaitsFor
    <3>6. u = t => ~(new.begin < b)
      BY <3>3, <3>4, <1>5
    <3>7. QED
      BY <3>5, <3>6, <1>10
  <2>2. QED
    BY <2>1, <1>3 DEF WaitsFor
<1>20. SizesFollow' /\ SureSizes'
  BY <1>1, <1>3 DEF SizesFollow, InReport, Doing, Follows, SureSizes, RightSize
<1>21. QED
  BY <1>8, <1>14, <1>15, <1>16, <1>17, <1>18, <1>19, <1>20 DEF MemoryIInv

\* A report's last step: the thread is idle after it, and the clock, the calls and the sizes are the same.
LEMMA ReportEnds ==
    ASSUME MemoryIInv, NEW t \in MemThreads, Doing(t, "push"), doing' = [doing EXCEPT ![t] = Idle],
           UNCHANGED <<supported, memEnabled, heap, addrBytes, calls, clock, reported, blurred, switches>>
    PROVE  /\ DoingNow' /\ CallsNested' /\ SizesFollow'
           /\ doing' \in [MemThreads -> {Idle} \cup Reports \cup ApiEnds]
           /\ doing[t] \in Reports /\ doing[t].time = clock[t]
           /\ \A u \in MemThreads : Around(u)' = Around(u)
           /\ Around(t) = Opened(t)
           /\ \A u \in MemThreads, n \in Nat : Past(u, n) => Past(u, n)'
           /\ \A n \in Nat : Past(t, n) => n < clock[t]
           /\ Past(t, clock[t])'
<1>1. /\ MemTypes /\ DoingNow /\ CallsNested /\ SizesFollow /\ doing \in [MemThreads -> {Idle} \cup Reports \cup ApiEnds]
      /\ clock[t] \in Nat
  BY DEF MemoryIInv, MemTypes
<1>2. Reporting(t) /\ doing[t] \in Reports /\ ~Doing(t, "idle") /\ ~Doing(t, "api")
  BY <1>1, AboutDoing DEF Doing, Reporting
<1>3. doing'[t] = Idle /\ Idle.step = "idle" /\ \A u \in MemThreads \ {t} : doing'[u] = doing[u]
  BY <1>1 DEF Idle
<1>4. doing' \in [MemThreads -> {Idle} \cup Reports \cup ApiEnds] /\ doing[t].time = clock[t]
  BY <1>1, <1>2 DEF DoingNow
<1>5. \A u \in MemThreads : Around(u)' = Around(u)
  <2>1. Around(t)' = Around(t)
    BY <1>2, <1>3 DEF Around, Opened, Doing
  <2>2. \A u \in MemThreads \ {t} : Around(u)' = Around(u)
    BY <1>3 DEF Around, Opened, Doing
  <2>3. QED
    BY <2>1, <2>2
<1>6. \A u \in MemThreads, n \in Nat : Past(u, n) => Past(u, n)'
  BY <1>1, <1>3, PastKept
<1>7. /\ \A n \in Nat : Past(t, n) => n < clock[t]
      /\ Past(t, clock[t])'
      /\ Around(t) = Opened(t)
  BY <1>1, <1>2, <1>3 DEF Past, Doing, Around
<1>8. DoingNow'
  <2>1. ~Reporting(t)' /\ ~Doing(t, "api")'
    BY <1>3 DEF Reporting, Doing
  <2>2. QED
    BY <2>1, <1>1, <1>3 DEF DoingNow, Reporting, Doing, Opened
<1>9. CallsNested'
  <2>1. \A u \in MemThreads : \A c \in Around(u) : Past(u, c.begin)' /\ c.since <= switches
    BY <1>1, <1>6, AroundCalls DEF CallsNested
  <2>2. \A u \in MemThreads : \A c \in Around(u)' : Past(u, c.begin)' /\ c.since <= switches'
    BY <2>1, <1>5
  <2>3. \A f \in reported : f.begin <= f.end /\ Past(f.thread, f.end)' /\ \A c \in Around(f.thread)' : f.end < c.begin \/ c.begin < f.begin
    BY <1>1, <1>5, <1>6, AboutRecords DEF CallsNested
  <2>4. \A f \in reported' : f.begin <= f.end /\ Past(f.thread, f.end)' /\ \A c \in Around(f.thread)' : f.end < c.begin \/ c.begin < f.begin
    BY <2>3
  <2>5. \A u \in MemThreads : \A i, j \in DOMAIN calls'[u] : i < j => calls'[u][i].begin < calls'[u][j].begin
    BY <1>1 DEF CallsNested
  <2>6. QED
    BY <2>2, <2>4, <2>5 DEF CallsNested
<1>10. SizesFollow'
  BY <1>1, <1>3, SizesLeft
<1>11. QED
  BY <1>2, <1>4, <1>5, <1>6, <1>7, <1>8, <1>9, <1>10

\* The record a thread makes is of its kind and time and of the calls around it.
LEMMA TheRecord ==
    ASSUME MemTypes, SureSizes, NEW t \in MemThreads, doing[t] \in Reports, Doing(t, "push")
    PROVE  /\ RecordOf(t) \in MemRecords /\ RecordOf(t).thread = t /\ RecordOf(t).kind = doing[t].kind
           /\ RecordOf(t).time = doing[t].time /\ RightSize(RecordOf(t))
           /\ RecordOf(t).within = {c.begin : c \in {c \in Opened(t) : c.kind = doing[t].kind}}
<1>1. PICK d : d = doing[t] /\ d \in Reports
  OBVIOUS
<1>2. PICK w : w = {c.begin : c \in {c \in Opened(t) : c.kind = d.kind}}
  OBVIOUS
<1>3. PICK r : r = [thread |-> t, kind |-> d.kind, time |-> d.time, op |-> d.op, bytes |-> d.bytes,
                    freed |-> d.freed, sure |-> d.sure, within |-> w]
  OBVIOUS
<1>4. RecordOf(t) = r
  BY <1>1, <1>2, <1>3 DEF RecordOf, Opened
<1>5. w \subseteq Nat
  <2>1. \A c \in Opened(t) : c.begin \in Nat
    BY AroundCalls DEF Around
  <2>2. QED
    BY <2>1, <1>2
<1>6. r \in MemRecords
  BY <1>1, <1>3, <1>5 DEF MemRecords, Reports
<1>7. RightSize(r)
  <2>1. RightSize(d)
    BY <1>1 DEF SureSizes
  <2>2. QED
    BY <2>1, <1>3 DEF RightSize
<1>8. QED
  BY <1>1, <1>2, <1>3, <1>4, <1>6, <1>7

\* MemoryReporter's record is later than all others of its thread.
LEMMA ReportsAtOnceKeeps ==
    ASSUME MemoryIInv, NEW t \in MemThreads, ReportsAtOnce(t)
    PROVE  MemoryIInv'
<1>1. /\ MemTypes /\ DoingNow /\ CallsNested /\ Queued /\ RecordsPast /\ NotOut /\ MadeWithin /\ WaitsFor
      /\ OwnCall /\ CallsComplete /\ SizesFollow /\ SureSizes
  BY DEF MemoryIInv
<1>2. PICK new : new = [record |-> RecordOf(t), call |-> NoBlock, quiet |-> FALSE]
  OBVIOUS
<1>3. /\ Doing(t, "push") /\ doing' = [doing EXCEPT ![t] = Idle]
      /\ memOut' = memOut \/ memOut' = memOut \cup {new}
      /\ UNCHANGED <<supported, memEnabled, heap, addrBytes, dataCache, calls, clock, made, reported, blurred, switches>>
  BY <1>2 DEF ReportsAtOnce
<1>4. /\ DoingNow' /\ CallsNested' /\ SizesFollow'
      /\ doing' \in [MemThreads -> {Idle} \cup Reports \cup ApiEnds]
      /\ doing[t] \in Reports /\ doing[t].time = clock[t]
      /\ \A u \in MemThreads : Around(u)' = Around(u)
      /\ \A u \in MemThreads, n \in Nat : Past(u, n) => Past(u, n)'
      /\ \A n \in Nat : Past(t, n) => n < clock[t]
      /\ Past(t, clock[t])'
  BY <1>3, ReportEnds
<1>5. /\ new.record = RecordOf(t) /\ new.call = NoBlock /\ ~new.quiet /\ RecordOf(t) \in MemRecords
      /\ RecordOf(t).thread = t /\ RecordOf(t).time = clock[t] /\ RightSize(RecordOf(t)) /\ clock[t] \in Nat
  BY <1>1, <1>2, <1>3, <1>4, TheRecord, AboutRecords
<1>6. MemTypes'
  <2>1. new \in OutRecords
    BY <1>2, <1>5 DEF OutRecords, NoBlock
  <2>2. QED
    BY <2>1, <1>1, <1>3, <1>4 DEF MemTypes
<1>7. \A o \in memOut : o.record # RecordOf(t)
  <2>1. ASSUME NEW o \in memOut, o.record = RecordOf(t) PROVE FALSE
    <3>1. Past(t, clock[t])
      BY <2>1, <1>1, <1>5 DEF RecordsPast
    <3>2. QED
      BY <3>1, <1>4, <1>5
  <2>2. QED
    BY <2>1
<1>8. \A r \in made : r # RecordOf(t)
  <2>1. ASSUME NEW r \in made, r = RecordOf(t) PROVE FALSE
    <3>1. Past(t, clock[t])
      BY <2>1, <1>1, <1>5 DEF RecordsPast
    <3>2. QED
      BY <3>1, <1>4, <1>5
  <2>2. QED
    BY <2>1
<1>9. Queued' /\ MadeWithin' /\ WaitsFor'
  <2>1. Queued'
    BY <1>1, <1>3 DEF Queued
  <2>2. MadeWithin'
    BY <1>1, <1>3, <1>4, AboutRecords DEF MadeWithin
  <2>3. WaitsFor'
    BY <1>1, <1>3, <1>4 DEF WaitsFor
  <2>4. QED
    BY <2>1, <2>2, <2>3
<1>10. NotOut'
  <2>1. \A k \in MemKinds, u \in MemThreads : \A i \in DOMAIN dataCache[k][u] : new.record # dataCache[k][u][i]
    BY <1>1, <1>5, <1>8 DEF Queued
  <2>2. QED
    BY <2>1, <1>1, <1>3 DEF NotOut
<1>11. RecordsPast'
  <2>1. \A r \in made : Past(r.thread, r.time)' /\ (Waiting(r)' \/ Passed(r)')
    BY <1>1, <1>3, <1>4, AboutRecords DEF RecordsPast, Waiting, Passed
  <2>2. \A o \in memOut : Past(o.record.thread, o.record.time)'
    BY <1>1, <1>4, AboutRecords DEF RecordsPast
  <2>3. Past(new.record.thread, new.record.time)'
    BY <1>3, <1>4, <1>5
  <2>4. \A o \in memOut' : Past(o.record.thread, o.record.time)'
    BY <2>2, <2>3, <1>3
  <2>5. QED
    BY <2>1, <2>4, <1>3 DEF RecordsPast
<1>12. OwnCall'
  BY <1>1, <1>3, <1>5, <1>7 DEF OwnCall, InnermostOf
<1>13. CallsComplete'
  BY <1>1, <1>3 DEF CallsComplete, InnermostOf
<1>14. SureSizes'
  <2>1. \A u \in MemThreads : Doing(u, "push")' => RightSize(doing'[u])
    BY <1>1, <1>3 DEF SureSizes, Doing, MemTypes, Idle
  <2>2. \A o \in memOut' : RightSize(o.record)
    BY <1>1, <1>3, <1>5 DEF SureSizes
  <2>3. QED
    BY <2>1, <2>2, <1>1, <1>3 DEF SureSizes
<1>15. QED
  BY <1>4, <1>6, <1>9, <1>10, <1>11, <1>12, <1>13, <1>14 DEF MemoryIInv

\* A record enters its thread's queue, later than all that are there, in the calls around it.
LEMMA PushesRecordKeeps ==
    ASSUME MemoryIInv, NEW t \in MemThreads, PushesRecord(t)
    PROVE  MemoryIInv'
<1>1. /\ MemTypes /\ DoingNow /\ CallsNested /\ Queued /\ RecordsPast /\ NotOut /\ MadeWithin /\ WaitsFor
      /\ OwnCall /\ CallsComplete /\ SizesFollow /\ SureSizes
  BY DEF MemoryIInv
<1>2. PICK r : r = RecordOf(t)
  OBVIOUS
<1>3. PICK k : k = doing[t].kind
  OBVIOUS
<1>4. /\ Doing(t, "push") /\ doing' = [doing EXCEPT ![t] = Idle]
      /\ dataCache' = [dataCache EXCEPT ![k][t] = Append(@, r)] /\ made' = made \cup {r}
      /\ UNCHANGED <<supported, memEnabled, heap, addrBytes, calls, clock, memOut, reported, blurred, switches>>
  BY <1>2, <1>3 DEF PushesRecord, QueueOfReport
<1>5. /\ DoingNow' /\ CallsNested' /\ SizesFollow'
      /\ doing' \in [MemThreads -> {Idle} \cup Reports \cup ApiEnds]
      /\ doing[t] \in Reports /\ doing[t].time = clock[t]
      /\ \A u \in MemThreads : Around(u)' = Around(u)
      /\ Around(t) = Opened(t)
      /\ \A u \in MemThreads, n \in Nat : Past(u, n) => Past(u, n)'
      /\ \A n \in Nat : Past(t, n) => n < clock[t]
      /\ Past(t, clock[t])'
  BY <1>4, ReportEnds
<1>6. /\ r \in MemRecords /\ r.thread = t /\ r.time = clock[t] /\ r.kind = k /\ RightSize(r) /\ clock[t] \in Nat
      /\ k \in MemKinds /\ r.within = {c.begin : c \in {c \in Around(t) : c.kind = k}}
  BY <1>1, <1>2, <1>3, <1>4, <1>5, TheRecord, AboutRecords
<1>7. \A x \in made : x.thread = t => x.time < r.time
  BY <1>1, <1>5, <1>6, AboutRecords DEF RecordsPast
<1>8. PICK q : q = dataCache[k][t] /\ q \in Seq(MemRecords)
  BY <1>1, <1>6 DEF MemTypes
<1>9. /\ dataCache'[k][t] = Append(q, r) /\ Append(q, r) \in Seq(MemRecords)
      /\ DOMAIN Append(q, r) = 1 .. Len(q) + 1 /\ DOMAIN q = 1 .. Len(q) /\ Len(q) \in Nat
      /\ \A i \in 1 .. Len(q) : Append(q, r)[i] = q[i]
      /\ Append(q, r)[Len(q) + 1] = r
  BY <1>1, <1>4, <1>6, <1>8, AppendProperties DEF MemTypes
<1>10. \A u \in MemKinds, v \in MemThreads : u # k \/ v # t => dataCache'[u][v] = dataCache[u][v]
  BY <1>1, <1>4, <1>6 DEF MemTypes
<1>11. MemTypes'
  <2>1. made' \subseteq MemRecords
    BY <1>1, <1>4, <1>6 DEF MemTypes
  <2>2. dataCache' \in [MemKinds -> [MemThreads -> Seq(MemRecords)]]
    BY <1>1, <1>4, <1>6, <1>8, <1>9 DEF MemTypes
  <2>3. QED
    BY <2>1, <2>2, <1>1, <1>4, <1>5 DEF MemTypes
<1>12. Queued'
  <2>1. ASSUME NEW i \in 1 .. Len(q) + 1
        PROVE  /\ Append(q, r)[i] \in made' /\ Append(q, r)[i].kind = k /\ Append(q, r)[i].thread = t
               /\ \A j \in 1 .. Len(q) + 1 : i < j => Append(q, r)[i].time < Append(q, r)[j].time
    <3>1. CASE i \in 1 .. Len(q)
      <4>1. q[i] \in made /\ q[i].kind = k /\ q[i].thread = t
        BY <3>1, <1>1, <1>6, <1>8, <1>9 DEF Queued
      <4>2. \A j \in 1 .. Len(q) : i < j => q[i].time < q[j].time
        BY <3>1, <1>1, <1>6, <1>8, <1>9 DEF Queued
      <4>3. q[i].time < r.time
        BY <4>1, <1>7
      <4>4. \A j \in 1 .. Len(q) + 1 : j \in 1 .. Len(q) \/ j = Len(q) + 1
        BY <1>9
      <4>5. QED
        BY <4>1, <4>2, <4>3, <4>4, <3>1, <1>4, <1>9
    <3>2. CASE i = Len(q) + 1
      BY <3>2, <1>4, <1>6, <1>9
    <3>3. QED
      BY <3>1, <3>2, <1>9
  <2>2. ASSUME NEW u \in MemKinds, NEW v \in MemThreads, NEW i \in DOMAIN dataCache'[u][v]
        PROVE  /\ dataCache'[u][v][i] \in made' /\ dataCache'[u][v][i].kind = u /\ dataCache'[u][v][i].thread = v
               /\ \A j \in DOMAIN dataCache'[u][v] : i < j => dataCache'[u][v][i].time < dataCache'[u][v][j].time
    <3>1. CASE u = k /\ v = t
      BY <3>1, <2>1, <2>2, <1>9
    <3>2. CASE u # k \/ v # t
      BY <3>2, <2>2, <1>1, <1>4, <1>10 DEF Queued
    <3>3. QED
      BY <3>1, <3>2
  <2>3. QED
    BY <2>2 DEF Queued
<1>13. \A u \in MemKinds, v \in MemThreads : \A i \in DOMAIN dataCache'[u][v] :
          \/ (i \in DOMAIN dataCache[u][v] /\ dataCache'[u][v][i] = dataCache[u][v][i])
          \/ (u = k /\ v = t /\ dataCache'[u][v][i] = r)
  <2>1. ASSUME NEW u \in MemKinds, NEW v \in MemThreads, NEW i \in DOMAIN dataCache'[u][v]
        PROVE  \/ (i \in DOMAIN dataCache[u][v] /\ dataCache'[u][v][i] = dataCache[u][v][i])
               \/ (u = k /\ v = t /\ dataCache'[u][v][i] = r)
    <3>1. CASE u # k \/ v # t
      BY <3>1, <2>1, <1>10
    <3>2. CASE u = k /\ v = t
      <4>1. i \in 1 .. Len(q) \/ i = Len(q) + 1
        BY <3>2, <2>1, <1>9
      <4>2. CASE i \in 1 .. Len(q)
        BY <4>2, <3>2, <1>8, <1>9
      <4>3. CASE i = Len(q) + 1
        BY <4>3, <3>2, <1>9
      <4>4. QED
        BY <4>1, <4>2, <4>3
    <3>3. QED
      BY <3>1, <3>2
  <2>2. QED
    BY <2>1
<1>14. NotOut'
  <2>1. \A o \in memOut : o.record # r
    <3>1. ASSUME NEW o \in memOut, o.record = r PROVE FALSE
      <4>1. Past(t, clock[t])
        BY <3>1, <1>1, <1>6 DEF RecordsPast
      <4>2. QED
        BY <4>1, <1>5, <1>6
    <3>2. QED
      BY <3>1
  <2>2. QED
    BY <2>1, <1>1, <1>4, <1>13 DEF NotOut
<1>15. RecordsPast'
  <2>1. Waiting(r)'
    <3>1. Len(q) + 1 \in DOMAIN dataCache'[r.kind][r.thread] /\ dataCache'[r.kind][r.thread][Len(q) + 1] = r
      BY <1>6, <1>9
    <3>2. QED
      BY <3>1 DEF Waiting
  <2>2. ASSUME NEW x \in made PROVE Past(x.thread, x.time)' /\ (Waiting(x)' \/ Passed(x)')
    <3>1. Past(x.thread, x.time)' /\ x.kind \in MemKinds /\ x.thread \in MemThreads
      BY <1>1, <1>5, AboutRecords DEF RecordsPast
    <3>2. CASE Passed(x)
      BY <3>1, <3>2, <1>4 DEF Passed
    <3>3. CASE Waiting(x)
      <4>1. PICK i \in DOMAIN dataCache[x.kind][x.thread] : dataCache[x.kind][x.thread][i] = x
        BY <3>3 DEF Waiting
      <4>2. i \in DOMAIN dataCache'[x.kind][x.thread] /\ dataCache'[x.kind][x.thread][i] = x
        <5>1. CASE x.kind = k /\ x.thread = t
          <6>1. i \in 1 .. Len(q) /\ i \in 1 .. Len(q) + 1
            BY <5>1, <4>1, <1>8, <1>9
          <6>2. QED
            BY <6>1, <5>1, <4>1, <1>8, <1>9
        <5>2. CASE x.kind # k \/ x.thread # t
          BY <5>2, <4>1, <3>1, <1>10
        <5>3. QED
          BY <5>1, <5>2
      <4>3. QED
        BY <4>2, <3>1 DEF Waiting
    <3>4. QED
      BY <3>2, <3>3, <1>1 DEF RecordsPast
  <2>3. \A o \in memOut : Past(o.record.thread, o.record.time)'
    BY <1>1, <1>5, AboutRecords DEF RecordsPast
  <2>4. Past(r.thread, r.time)'
    BY <1>4, <1>5, <1>6
  <2>5. QED
    BY <2>1, <2>2, <2>3, <2>4, <1>4 DEF RecordsPast
<1>16. MadeWithin'
  <2>1. /\ \A b \in r.within : b < r.time
        /\ \A c \in Around(t) : c.kind = r.kind => c.begin \in r.within
    <3>1. \A c \in Around(t) : c.begin < r.time
      BY <1>1, <1>5, <1>6, AroundCalls DEF CallsNested
    <3>2. QED
      BY <3>1, <1>6
  <2>2. \A f \in reported : f.thread = t => f.end < r.time
    BY <1>1, <1>5, <1>6, AboutRecords DEF CallsNested
  <2>3. \A f \in reported : f.end \in Nat
    BY <1>1, AboutRecords
  <2>4. \A f \in reported : f.thread = t => ~(r.time <= f.end)
    BY <2>2, <2>3, <1>6
  <2>5. \A x \in made :
          /\ \A b \in x.within : b < x.time
          /\ \A c \in Around(x.thread)' : c.kind = x.kind /\ c.begin <= x.time => c.begin \in x.within
          /\ \A f \in reported : (f.thread = x.thread /\ f.kind = x.kind /\ f.begin <= x.time /\ x.time <= f.end)
                                    => f.begin \in x.within
    BY <1>1, <1>5, AboutRecords DEF MadeWithin
  <2>6. /\ \A b \in r.within : b < r.time
        /\ \A c \in Around(r.thread)' : c.kind = r.kind /\ c.begin <= r.time => c.begin \in r.within
        /\ \A f \in reported : (f.thread = r.thread /\ f.kind = r.kind /\ f.begin <= r.time /\ r.time <= f.end)
                                  => f.begin \in r.within
    BY <2>1, <2>4, <1>5, <1>6
  <2>7. \A x \in made' :
          /\ \A b \in x.within : b < x.time
          /\ \A c \in Around(x.thread)' : c.kind = x.kind /\ c.begin <= x.time => c.begin \in x.within
          /\ \A f \in reported' : (f.thread = x.thread /\ f.kind = x.kind /\ f.begin <= x.time /\ x.time <= f.end)
                                    => f.begin \in x.within
    BY <2>5, <2>6, <1>4
  <2>8. QED
    BY <2>7 DEF MadeWithin
<1>17. WaitsFor'
  <2>1. \A b \in r.within : \E c \in Around(t) : c.begin = b /\ c.kind = k
    BY <1>6
  <2>2. ASSUME NEW u \in MemKinds, NEW v \in MemThreads, NEW i \in DOMAIN dataCache'[u][v], NEW b \in dataCache'[u][v][i].within
        PROVE  \/ \E c \in Around(v) : c.begin = b /\ c.kind = u
               \/ \A c \in Around(v) : c.kind = u /\ c.begin < b => c.since < switches \/ u \notin memEnabled
    <3>1. CASE i \in DOMAIN dataCache[u][v] /\ dataCache'[u][v][i] = dataCache[u][v][i]
      BY <3>1, <2>2, <1>1 DEF WaitsFor
    <3>2. CASE u = k /\ v = t /\ dataCache'[u][v][i] = r
      BY <3>2, <2>1, <2>2
    <3>3. QED
      BY <3>1, <3>2, <1>13
  <2>3. QED
    BY <2>2, <1>4, <1>5 DEF WaitsFor
<1>18. OwnCall'
  BY <1>1, <1>4 DEF OwnCall, InnermostOf
<1>19. CallsComplete'
  <2>1. ASSUME NEW e \in reported, e.thread = r.thread, InnermostOf(r, e.begin) PROVE FALSE
    <3>1. e.begin \in r.within
      BY <2>1 DEF InnermostOf
    <3>2. PICK c \in Around(t) : c.begin = e.begin
      BY <3>1, <1>6
    <3>3. e.begin \in Nat /\ e.end \in Nat /\ e.begin <= e.end /\ (e.end < c.begin \/ c.begin < e.begin)
      BY <2>1, <3>2, <1>1, <1>6, AboutRecords DEF CallsNested
    <3>4. QED
      BY <3>2, <3>3
  <2>2. QED
    BY <2>1, <1>1, <1>4 DEF CallsComplete
<1>20. SureSizes'
  <2>1. \A u \in MemThreads : Doing(u, "push")' => RightSize(doing'[u])
    BY <1>1, <1>4 DEF SureSizes, Doing, MemTypes, Idle
  <2>2. \A x \in made' : RightSize(x)
    BY <1>1, <1>4, <1>6 DEF SureSizes
  <2>3. QED
    BY <2>1, <2>2, <1>1, <1>4 DEF SureSizes
<1>21. QED
  BY <1>5, <1>11, <1>12, <1>14, <1>15, <1>16, <1>17, <1>18, <1>19, <1>20 DEF MemoryIInv

\* All but the last of a sequence.
LEMMA FrontOfSeq ==
    ASSUME NEW S, NEW s \in Seq(S), s # <<>>
    PROVE  /\ Len(s) \in Nat \ {0} /\ DOMAIN s = 1 .. Len(s) /\ Last(s) \in S /\ Last(s) = s[Len(s)]
           /\ Front(s) \in Seq(S) /\ Len(Front(s)) = Len(s) - 1 /\ DOMAIN Front(s) = 1 .. Len(s) - 1
           /\ \A i \in 1 .. Len(s) - 1 : Front(s)[i] = s[i]
<1>1. Len(s) \in Nat \ {0} /\ DOMAIN s = 1 .. Len(s)
  BY EmptySeq, LenProperties
<1>2. \A i \in 1 .. Len(s) : s[i] \in S
  BY <1>1, ElementOfSeq
<1>3. \A i \in 1 .. Len(s) - 1 : s[i] \in S
  BY <1>1, <1>2
<1>4. PICK n : n = Len(s) - 1 /\ n \in Nat
  BY <1>1
<1>5. \A i \in 1 .. n : s[i] \in S
  BY <1>3, <1>4
<1>6. /\ SubSeq(s, 1, n) \in Seq(S)
      /\ Len(SubSeq(s, 1, n)) = (IF 1 <= n THEN n - 1 + 1 ELSE 0)
      /\ \A i \in 1 .. n - 1 + 1 : SubSeq(s, 1, n)[i] = s[1 + i - 1]
  <2>1. 1 \in Int /\ n \in Int
    BY <1>4
  <2>2. QED
    BY <2>1, <1>5, SubSeqProperties
<1>7. PICK f : f = SubSeq(s, 1, n)
  OBVIOUS
<1>8. f \in Seq(S) /\ Len(f) = n /\ \A i \in 1 .. n : f[i] = s[i]
  BY <1>4, <1>6, <1>7
<1>9. DOMAIN f = 1 .. n
  BY <1>8, LenProperties
<1>10. Front(s) = f
  BY <1>4, <1>7 DEF Front
<1>11. Last(s) = s[Len(s)] /\ Last(s) \in S
  BY <1>1, <1>2 DEF Last
<1>12. QED
  BY <1>1, <1>4, <1>8, <1>9, <1>10, <1>11

\* A call ends: its report has its times, if its kind is on; the others around it began before.
LEMMA EndApiKeeps ==
    ASSUME MemoryIInv, NEW t \in MemThreads, EndApi(t)
    PROVE  MemoryIInv'
<1>1. /\ MemTypes /\ DoingNow /\ CallsNested /\ Queued /\ RecordsPast /\ NotOut /\ MadeWithin /\ WaitsFor
      /\ OwnCall /\ CallsComplete /\ SizesFollow /\ SureSizes
  BY DEF MemoryIInv
<1>2. /\ clock \in [MemThreads -> Nat] /\ calls \in [MemThreads -> Seq(ApiCalls)] /\ switches \in Nat /\ clock[t] \in Nat
      /\ doing \in [MemThreads -> {Idle} \cup Reports \cup ApiEnds] /\ \A u \in MemThreads : Len(calls[u]) <= MaxDepth
  BY <1>1 DEF MemTypes
<1>3. PICK s : s = calls[t] /\ s \in Seq(ApiCalls)
  BY <1>2
<1>4. s # <<>> /\ Doing(t, "idle")
  BY <1>3 DEF EndApi
<1>5. PICK last : last = Last(s)
  OBVIOUS
<1>6. PICK f : f = Front(s)
  OBVIOUS
<1>7. PICK d : d = IF last.kind \in memEnabled
                   THEN [step |-> "api", kind |-> last.kind, call |-> last, end |-> Now(t), address |-> NoBlock]
                   ELSE Idle
  OBVIOUS
<1>8. /\ clock' = [clock EXCEPT ![t] = @ + 1] /\ calls' = [calls EXCEPT ![t] = f] /\ doing' = [doing EXCEPT ![t] = d]
      /\ UNCHANGED <<supported, memEnabled, heap, addrBytes, dataCache, memOut, made, reported, blurred, switches>>
  BY <1>3, <1>5, <1>6, <1>7 DEF EndApi, Ticks
<1>9. /\ Len(s) \in Nat \ {0} /\ DOMAIN s = 1 .. Len(s) /\ last \in ApiCalls /\ last = s[Len(s)]
      /\ f \in Seq(ApiCalls) /\ Len(f) = Len(s) - 1 /\ DOMAIN f = 1 .. Len(s) - 1
      /\ \A i \in 1 .. Len(s) - 1 : f[i] = s[i]
  BY <1>3, <1>4, <1>5, <1>6, FrontOfSeq
<1>10. last.kind \in MemKinds /\ last.begin \in Nat \ {0} /\ last.since \in Nat
  BY <1>9 DEF ApiCalls
<1>11. /\ d.step = "api" \/ d.step = "idle"
       /\ d.step = "api" <=> last.kind \in memEnabled
       /\ d.step = "api" => d.kind = last.kind /\ d.call = last /\ d.end = clock[t] + 1 /\ d.address = NoBlock
       /\ d \in {Idle} \cup Reports \cup ApiEnds
  BY <1>2, <1>7, <1>9, <1>10 DEF Idle, ApiEnds, Now
<1>12. /\ calls'[t] = f /\ doing'[t] = d /\ clock'[t] = clock[t] + 1
       /\ \A u \in MemThreads \ {t} : calls'[u] = calls[u] /\ doing'[u] = doing[u] /\ clock'[u] = clock[u]
  BY <1>2, <1>8
<1>13. MemTypes'
  <2>1. clock' \in [MemThreads -> Nat] /\ doing' \in [MemThreads -> {Idle} \cup Reports \cup ApiEnds]
    BY <1>2, <1>8, <1>11
  <2>2. calls' \in [MemThreads -> Seq(ApiCalls)]
    BY <1>2, <1>8, <1>9
  <2>3. MaxDepth \in Nat
    BY MemoryAssumption
  <2>4. \A u \in MemThreads : Len(calls'[u]) <= MaxDepth
    BY <1>2, <1>3, <1>9, <1>12, <2>3
  <2>5. QED
    BY <1>1, <1>8, <2>1, <2>2, <2>4 DEF MemTypes
<1>14. Opened(t) = Opened(t)' \cup {last} /\ last \in Opened(t) /\ \A u \in MemThreads \ {t} : Opened(u)' = Opened(u)
  <2>1. Opened(t)' = {f[i] : i \in 1 .. Len(s) - 1} /\ Opened(t) = {s[i] : i \in 1 .. Len(s)}
    <3>1. Opened(t)' = {f[i] : i \in DOMAIN f} /\ Opened(t) = {s[i] : i \in DOMAIN s}
      BY <1>3, <1>12 DEF Opened
    <3>2. DOMAIN f = 1 .. Len(s) - 1 /\ DOMAIN s = 1 .. Len(s)
      BY <1>9
    <3>3. QED
      BY <3>1, <3>2
  <2>2. \A i \in 1 .. Len(s) : i # Len(s) => i \in 1 .. Len(s) - 1
    <3>1. Len(s) \in Nat
      BY <1>9
    <3>2. QED
      BY <3>1
  <2>3. (\A i \in 1 .. Len(s) - 1 : i \in 1 .. Len(s)) /\ Len(s) \in 1 .. Len(s)
    BY <1>9
  <2>4. \A c \in Opened(t) : c \in Opened(t)' \cup {last}
    BY <2>1, <2>2, <1>9
  <2>5. \A c \in Opened(t)' : c \in Opened(t)
    BY <2>1, <2>3, <1>9
  <2>6. last \in Opened(t)
    BY <2>1, <2>3, <1>9
  <2>7. \A u \in MemThreads \ {t} : Opened(u)' = Opened(u)
    BY <1>12 DEF Opened
  <2>8. QED
    BY <2>4, <2>5, <2>6, <2>7
<1>15. /\ Around(t) = Opened(t) /\ \A u \in MemThreads \ {t} : Around(u)' = Around(u)
       /\ Around(t)' = IF last.kind \in memEnabled THEN Around(t) ELSE Opened(t)'
  <2>1. ~Doing(t, "api")
    BY <1>4 DEF Doing
  <2>2. QED
    BY <2>1, <1>11, <1>12, <1>14 DEF Around, Doing
<1>16. /\ \A u \in MemThreads : Around(u)' \subseteq Around(u)
       /\ \A c \in Around(t) : c \in Around(t)' \/ (c = last /\ last.kind \notin memEnabled)
  BY <1>14, <1>15
<1>17. \A u \in MemThreads, n \in Nat : Past(u, n) => Past(u, n)'
  BY <1>1, <1>8, <1>12, PastKept
<1>18. \A c \in Opened(t)' : c.begin < last.begin
  <2>1. \A i \in 1 .. Len(s) - 1 : s[i].begin < s[Len(s)].begin
    <3>1. \A i \in 1 .. Len(s) - 1 : i \in DOMAIN s /\ Len(s) \in DOMAIN s /\ i < Len(s)
      BY <1>9
    <3>2. QED
      BY <3>1, <1>1, <1>3 DEF CallsNested
  <2>2. QED
    BY <2>1, <1>9, <1>12 DEF Opened
<1>19. DoingNow'
  <2>1. ~Reporting(t)'
    BY <1>11, <1>12 DEF Reporting
  <2>2. Doing(t, "api")' =>
              /\ doing'[t].end = clock'[t] /\ doing'[t].kind = doing'[t].call.kind
              /\ doing'[t].call.since = switches' => doing'[t].kind \in memEnabled'
              /\ \A c \in Opened(t)' : c.begin < doing'[t].call.begin
    BY <1>8, <1>11, <1>12, <1>18 DEF Doing
  <2>3. QED
    BY <2>1, <2>2, <1>1, <1>8, <1>12, <1>14 DEF DoingNow, Reporting, Doing
<1>20. CallsNested'
  <2>1. \A i, j \in 1 .. Len(s) - 1 : i < j => f[i].begin < f[j].begin
    <3>1. \A i \in 1 .. Len(s) - 1 : i \in DOMAIN s
      BY <1>9
    <3>2. QED
      BY <3>1, <1>1, <1>3, <1>9 DEF CallsNested
  <2>2. \A u \in MemThreads : \A i, j \in DOMAIN calls'[u] : i < j => calls'[u][i].begin < calls'[u][j].begin
    BY <2>1, <1>1, <1>9, <1>12 DEF CallsNested
  <2>3. \A u \in MemThreads : \A c \in Around(u) : Past(u, c.begin)' /\ c.since <= switches
    BY <1>1, <1>17, AroundCalls DEF CallsNested
  <2>4. \A u \in MemThreads : \A c \in Around(u)' : Past(u, c.begin)' /\ c.since <= switches'
    BY <2>3, <1>8, <1>16
  <2>5. \A g \in reported' : g.begin <= g.end /\ Past(g.thread, g.end)' /\ \A c \in Around(g.thread)' : g.end < c.begin \/ c.begin < g.begin
    <3>1. \A g \in reported : g.begin <= g.end /\ Past(g.thread, g.end)' /\ \A c \in Around(g.thread) : g.end < c.begin \/ c.begin < g.begin
      BY <1>1, <1>17, AboutRecords DEF CallsNested
    <3>2. \A g \in reported : g.thread \in MemThreads
      BY <1>1, AboutRecords
    <3>3. QED
      BY <3>1, <3>2, <1>8, <1>16
  <2>6. QED
    BY <2>2, <2>4, <2>5 DEF CallsNested
<1>21. Queued' /\ NotOut' /\ OwnCall' /\ CallsComplete'
  BY <1>1, <1>8 DEF Queued, NotOut, OwnCall, InnermostOf, CallsComplete
<1>22. RecordsPast'
  <2>1. \A r \in made : Past(r.thread, r.time)' /\ (Waiting(r)' \/ Passed(r)')
    BY <1>1, <1>8, <1>17, AboutRecords DEF RecordsPast, Waiting, Passed
  <2>2. \A o \in memOut : Past(o.record.thread, o.record.time)'
    BY <1>1, <1>17, AboutRecords DEF RecordsPast
  <2>3. QED
    BY <2>1, <2>2, <1>8 DEF RecordsPast
<1>23. MadeWithin'
  <2>1. \A r \in made : \A c \in Around(r.thread)' : c \in Around(r.thread)
    BY <1>1, <1>16, AboutRecords
  <2>2. QED
    BY <2>1, <1>1, <1>8 DEF MadeWithin
<1>24. WaitsFor'
  <2>1. ASSUME NEW k \in MemKinds, NEW u \in MemThreads, NEW i \in DOMAIN dataCache[k][u], NEW b \in dataCache[k][u][i].within
        PROVE  \/ \E c \in Around(u)' : c.begin = b /\ c.kind = k
               \/ \A c \in Around(u)' : c.kind = k /\ c.begin < b => c.since < switches \/ k \notin memEnabled
    <3>1. CASE \E c \in Around(u) : c.begin = b /\ c.kind = k
      BY <3>1, <1>15, <1>16
    <3>2. CASE \A c \in Around(u) : c.kind = k /\ c.begin < b => c.since < switches \/ k \notin memEnabled
      BY <3>2, <1>16
    <3>3. QED
      BY <3>1, <3>2, <2>1, <1>1 DEF WaitsFor
  <2>2. QED
    BY <2>1, <1>8 DEF WaitsFor
<1>25. SizesFollow'
  <2>1. ~(d.step # "idle" /\ d.kind = "memory" /\ d.address \in Addresses)
    <3>1. NoBlock \notin Addresses
      BY MemoryAssumption DEF NoBlock
    <3>2. QED
      BY <3>1, <1>11
  <2>2. \A a \in Addresses : t \notin InReport(a)
    BY <1>4 DEF InReport
  <2>3. QED
    BY <2>1, <2>2, <1>1, <1>8, <1>12, SizesLeft
<1>26. SureSizes'
  <2>1. \A u \in MemThreads : Doing(u, "push")' => RightSize(doing'[u])
    BY <1>1, <1>11, <1>12 DEF SureSizes, Doing
  <2>2. QED
    BY <2>1, <1>1, <1>8 DEF SureSizes
<1>27. QED
  BY <1>13, <1>19, <1>20, <1>21, <1>22, <1>23, <1>24, <1>25, <1>26 DEF MemoryIInv

\* The report of a call: the records of its kind made in it are delivered, and no record waits that
\* was made before its end.
LEMMA RecordApiKeeps ==
    ASSUME MemoryIInv, NEW t \in MemThreads, RecordApi(t)
    PROVE  MemoryIInv'
<1>1. /\ MemTypes /\ DoingNow /\ CallsNested /\ Queued /\ RecordsPast /\ NotOut /\ MadeWithin /\ WaitsFor
      /\ OwnCall /\ CallsComplete /\ SizesFollow /\ SureSizes
  BY DEF MemoryIInv
<1>2. /\ clock \in [MemThreads -> Nat] /\ switches \in Nat /\ clock[t] \in Nat
      /\ doing \in [MemThreads -> {Idle} \cup Reports \cup ApiEnds]
  BY <1>1 DEF MemTypes
<1>3. Doing(t, "api") /\ doing[t] \in ApiEnds
  BY <1>1, AboutDoing DEF RecordApi
<1>4. PICK d : d = doing[t] /\ d \in ApiEnds
  BY <1>3
<1>5. PICK k : k = d.kind
  OBVIOUS
<1>6. PICK own : own = d.call
  OBVIOUS
<1>7. /\ k \in MemKinds /\ own \in ApiCalls /\ own.kind = k /\ own.begin \in Nat /\ own.since \in Nat
      /\ d.end = clock[t] /\ d.address = NoBlock
      /\ own.since = switches => k \in memEnabled
      /\ \A c \in Opened(t) : c.begin < own.begin
  <2>1. k \in MemKinds /\ own \in ApiCalls /\ d.address = NoBlock
    BY <1>4, <1>5, <1>6 DEF ApiEnds
  <2>2. own.begin \in Nat /\ own.since \in Nat
    BY <2>1 DEF ApiCalls
  <2>3. QED
    BY <2>1, <2>2, <1>1, <1>3, <1>4, <1>5, <1>6 DEF DoingNow
<1>8. PICK q : q = dataCache[k][t] /\ q \in Seq(MemRecords)
  BY <1>1, <1>7 DEF MemTypes
<1>9. PICK quiet : quiet = (own.since = switches)
  OBVIOUS
<1>10. PICK new : new = IF k \in memEnabled
                        THEN {[record |-> q[i], call |-> own.begin, quiet |-> quiet] : i \in Covered(q, own, d.end)}
                        ELSE {}
  OBVIOUS
<1>11. PICK f : f = [thread |-> t, kind |-> k, begin |-> own.begin, end |-> d.end, quiet |-> quiet]
  OBVIOUS
<1>12. /\ memOut' = memOut \cup new
       /\ dataCache' = [dataCache EXCEPT ![k][t] = Left(q, own, d.end)]
       /\ reported' = reported \cup {f}
       /\ doing' = [doing EXCEPT ![t] = Idle]
       /\ UNCHANGED <<supported, memEnabled, heap, addrBytes, calls, clock, made, blurred, switches>>
  <2>1. memOut' = memOut \cup new
    BY <1>4, <1>5, <1>6, <1>8, <1>9, <1>10 DEF RecordApi
  <2>2. QED
    BY <2>1, <1>4, <1>5, <1>6, <1>8, <1>9, <1>11 DEF RecordApi
<1>13. /\ \A i \in DOMAIN q : q[i] \in made /\ q[i] \in MemRecords /\ q[i].kind = k /\ q[i].thread = t
                            /\ q[i].time \in Nat /\ q[i].time <= d.end
       /\ \A i, j \in DOMAIN q : i < j => q[i].time < q[j].time
  <2>1. \A i \in DOMAIN q : q[i] \in made /\ q[i].kind = k /\ q[i].thread = t
    BY <1>1, <1>7, <1>8 DEF Queued
  <2>2. \A i \in DOMAIN q : q[i] \in MemRecords /\ q[i].time \in Nat /\ Past(t, q[i].time)
    BY <2>1, <1>1, AboutRecords DEF RecordsPast
  <2>3. \A i, j \in DOMAIN q : i < j => q[i].time < q[j].time
    BY <1>1, <1>7, <1>8 DEF Queued
  <2>4. QED
    BY <2>1, <2>2, <2>3, <1>7 DEF Past
<1>14. Left(q, own, d.end) = <<>>
  <2>1. d.end \in Nat
    BY <1>2, <1>7
  <2>2. {i \in DOMAIN q : q[i].time > d.end} = {}
    BY <2>1, <1>13
  <2>3. QED
    BY <2>2 DEF Left
<1>15. /\ dataCache'[k][t] = <<>> /\ DOMAIN dataCache'[k][t] = {}
       /\ \A u \in MemKinds, v \in MemThreads : u # k \/ v # t => dataCache'[u][v] = dataCache[u][v]
  <2>1. dataCache \in [MemKinds -> [MemThreads -> Seq(MemRecords)]]
    BY <1>1 DEF MemTypes
  <2>2. dataCache'[k][t] = <<>>
    BY <2>1, <1>7, <1>12, <1>14
  <2>3. DOMAIN <<>> = {}
    OBVIOUS
  <2>4. QED
    BY <2>1, <2>2, <2>3, <1>7, <1>12
<1>16. \A o \in new : \E i \in DOMAIN q :
          /\ o = [record |-> q[i], call |-> own.begin, quiet |-> quiet]
          /\ o.record = q[i] /\ o.call = own.begin /\ o.quiet = quiet
          /\ k \in memEnabled /\ own.begin <= q[i].time
  BY <1>10 DEF Covered
<1>17. f.thread = t /\ f.kind = k /\ f.begin = own.begin /\ f.end = clock[t] /\ f.quiet = quiet
  BY <1>7, <1>11
<1>18. MemTypes'
  <2>1. dataCache' \in [MemKinds -> [MemThreads -> Seq(MemRecords)]]
    BY <1>1, <1>7, <1>12, <1>14, EmptySeq DEF MemTypes
  <2>2. quiet \in BOOLEAN
    BY <1>9
  <2>3. f \in DoneCalls
    BY <2>2, <1>2, <1>7, <1>11 DEF DoneCalls
  <2>4. \A o \in new : o \in OutRecords
    BY <2>2, <1>7, <1>13, <1>16 DEF OutRecords
  <2>5. doing' \in [MemThreads -> {Idle} \cup Reports \cup ApiEnds]
    BY <1>2, <1>12
  <2>6. QED
    BY <2>1, <2>3, <2>4, <2>5, <1>1, <1>12 DEF MemTypes
<1>19. /\ doing'[t] = Idle /\ doing'[t].step = "idle"
       /\ \A u \in MemThreads \ {t} : doing'[u] = doing[u]
  BY <1>2, <1>12 DEF Idle
<1>20. /\ \A u \in MemThreads : Opened(u)' = Opened(u)
       /\ \A u \in MemThreads \ {t} : Around(u)' = Around(u)
       /\ Around(t)' = Opened(t) /\ Around(t) = Opened(t) \cup {own}
  BY <1>3, <1>4, <1>6, <1>12, <1>19 DEF Opened, Around, Doing
<1>21. \A u \in MemThreads : Around(u)' \subseteq Around(u)
  BY <1>20
<1>22. \A u \in MemThreads, n \in Nat : Past(u, n) => Past(u, n)'
  BY <1>1, <1>12, <1>19, PastKept
<1>23. own.begin < clock[t] /\ own \in Around(t)
  <2>1. own \in Around(t)
    BY <1>20
  <2>2. QED
    BY <2>1, <1>1, <1>3 DEF CallsNested, Past, Doing
<1>24. Past(f.thread, f.end)'
  BY <1>2, <1>12, <1>17, <1>19 DEF Past, Doing
<1>25. DoingNow'
  <2>1. ~Reporting(t)' /\ ~Doing(t, "api")'
    BY <1>19 DEF Reporting, Doing
  <2>2. QED
    BY <2>1, <1>1, <1>12, <1>19, <1>20 DEF DoingNow, Reporting, Doing
<1>26. CallsNested'
  <2>1. \A u \in MemThreads : \A c \in Around(u) : Past(u, c.begin)' /\ c.since <= switches
    BY <1>1, <1>22, AroundCalls DEF CallsNested
  <2>2. \A u \in MemThreads : \A c \in Around(u)' : Past(u, c.begin)' /\ c.since <= switches'
    BY <2>1, <1>12, <1>21
  <2>3. \A g \in reported : g.begin <= g.end /\ Past(g.thread, g.end)' /\ \A c \in Around(g.thread) : g.end < c.begin \/ c.begin < g.begin
    BY <1>1, <1>22, AboutRecords DEF CallsNested
  <2>4. \A g \in reported : g.thread \in MemThreads
    BY <1>1, AboutRecords
  <2>5. f.begin <= f.end /\ \A c \in Around(t)' : c.begin < f.begin
    BY <1>2, <1>7, <1>17, <1>20, <1>23
  <2>6. \A g \in reported' : g.begin <= g.end /\ Past(g.thread, g.end)' /\ \A c \in Around(g.thread)' : g.end < c.begin \/ c.begin < g.begin
    BY <2>3, <2>4, <2>5, <1>12, <1>17, <1>21, <1>24
  <2>7. \A u \in MemThreads : \A i, j \in DOMAIN calls'[u] : i < j => calls'[u][i].begin < calls'[u][j].begin
    BY <1>1, <1>12 DEF CallsNested
  <2>8. QED
    BY <2>2, <2>6, <2>7 DEF CallsNested
<1>27. \A u \in MemKinds, v \in MemThreads : \A i \in DOMAIN dataCache'[u][v] :
          (u # k \/ v # t) /\ i \in DOMAIN dataCache[u][v] /\ dataCache'[u][v] = dataCache[u][v]
  BY <1>15
<1>28. Queued'
  BY <1>1, <1>12, <1>27 DEF Queued
<1>29. NotOut'
  <2>1. ASSUME NEW u \in MemKinds, NEW v \in MemThreads, NEW i \in DOMAIN dataCache'[u][v], NEW o \in memOut'
        PROVE  o.record # dataCache'[u][v][i]
    <3>1. i \in DOMAIN dataCache[u][v] /\ dataCache'[u][v][i] = dataCache[u][v][i] /\ (u # k \/ v # t)
      BY <2>1, <1>27
    <3>2. CASE o \in memOut
      BY <3>1, <3>2, <1>1 DEF NotOut
    <3>3. CASE o \in new
      <4>1. o.record.kind = k /\ o.record.thread = t
        BY <3>3, <1>13, <1>16
      <4>2. dataCache[u][v][i].kind = u /\ dataCache[u][v][i].thread = v
        BY <3>1, <1>1 DEF Queued
      <4>3. QED
        BY <4>1, <4>2, <3>1
    <3>4. QED
      BY <3>2, <3>3, <2>1, <1>12
  <2>2. QED
    BY <2>1 DEF NotOut
<1>30. RecordsPast'
  <2>1. ASSUME NEW r \in made PROVE Past(r.thread, r.time)' /\ (Waiting(r)' \/ Passed(r)')
    <3>1. Past(r.thread, r.time) /\ Past(r.thread, r.time)' /\ r.time \in Nat /\ r.kind \in MemKinds /\ r.thread \in MemThreads
      BY <1>1, <1>22, AboutRecords DEF RecordsPast
    <3>2. CASE r.kind = k /\ r.thread = t
      <4>1. r.time <= f.end
        BY <3>1, <3>2, <1>17 DEF Past
      <4>2. f \in reported'
        BY <1>12
      <4>3. QED
        BY <4>1, <4>2, <3>1, <3>2, <1>17 DEF Passed
    <3>3. CASE r.kind # k \/ r.thread # t
      <4>1. Passed(r) => Passed(r)'
        BY <1>12 DEF Passed
      <4>2. Waiting(r) => Waiting(r)'
        BY <3>1, <3>3, <1>15 DEF Waiting
      <4>3. QED
        BY <4>1, <4>2, <3>1, <1>1 DEF RecordsPast
    <3>4. QED
      BY <3>2, <3>3
  <2>2. \A o \in memOut : Past(o.record.thread, o.record.time)'
    BY <1>1, <1>22, AboutRecords DEF RecordsPast
  <2>3. \A o \in new : o.record \in made
    BY <1>13, <1>16
  <2>4. \A o \in memOut' : Past(o.record.thread, o.record.time)'
    BY <2>1, <2>2, <2>3, <1>12
  <2>5. QED
    BY <2>1, <2>4, <1>12 DEF RecordsPast
<1>31. MadeWithin'
  <2>1. \A r \in made : \A c \in Around(r.thread)' : c \in Around(r.thread)
    BY <1>1, <1>21, AboutRecords
  <2>2. \A r \in made : (f.thread = r.thread /\ f.kind = r.kind /\ f.begin <= r.time) => f.begin \in r.within
    BY <1>1, <1>7, <1>17, <1>23 DEF MadeWithin
  <2>3. QED
    BY <2>1, <2>2, <1>1, <1>12 DEF MadeWithin
<1>32. WaitsFor'
  <2>1. ASSUME NEW u \in MemKinds, NEW v \in MemThreads, NEW i \in DOMAIN dataCache'[u][v], NEW b \in dataCache'[u][v][i].within
        PROVE  \/ \E c \in Around(v)' : c.begin = b /\ c.kind = u
               \/ \A c \in Around(v)' : c.kind = u /\ c.begin < b => c.since < switches \/ u \notin memEnabled
    <3>1. i \in DOMAIN dataCache[u][v] /\ dataCache'[u][v][i] = dataCache[u][v][i] /\ (u # k \/ v # t)
      BY <2>1, <1>27
    <3>2. b \in dataCache[u][v][i].within
      BY <3>1, <2>1
    <3>3. CASE \E c \in Around(v) : c.begin = b /\ c.kind = u
      <4>1. PICK c \in Around(v) : c.begin = b /\ c.kind = u
        BY <3>3
      <4>2. c \in Around(v)'
        BY <4>1, <3>1, <1>7, <1>20
      <4>3. QED
        BY <4>1, <4>2
    <3>4. CASE \A c \in Around(v) : c.kind = u /\ c.begin < b => c.since < switches \/ u \notin memEnabled
      BY <3>4, <1>21
    <3>5. QED
      BY <3>1, <3>2, <3>3, <3>4, <1>1 DEF WaitsFor
  <2>2. QED
    BY <2>1, <1>12 DEF WaitsFor
<1>33. OwnCall'
  <2>1. ASSUME NEW o \in new PROVE o.call \in o.record.within /\ (o.quiet => InnermostOf(o.record, o.call))
    <3>1. PICK i \in DOMAIN q : o.record = q[i] /\ o.call = own.begin /\ o.quiet = quiet /\ k \in memEnabled /\ own.begin <= q[i].time
      BY <2>1, <1>16
    <3>2. q[i] \in made /\ q[i].kind = k /\ q[i].thread = t /\ q[i].within \subseteq Nat
      BY <3>1, <1>1, <1>13, AboutRecords
    <3>3. own.begin \in q[i].within
      BY <3>1, <3>2, <1>1, <1>7, <1>23 DEF MadeWithin
    <3>4. ASSUME quiet, NEW b \in q[i].within PROVE b <= own.begin
      <4>1. \/ \E c \in Around(t) : c.begin = b /\ c.kind = k
            \/ \A c \in Around(t) : c.kind = k /\ c.begin < b => c.since < switches \/ k \notin memEnabled
        BY <3>1, <3>4, <1>1, <1>7, <1>8 DEF WaitsFor
      <4>2. CASE \E c \in Around(t) : c.begin = b /\ c.kind = k
        BY <4>2, <1>1, <1>7, <1>20, AroundCalls
      <4>3. CASE \A c \in Around(t) : c.kind = k /\ c.begin < b => c.since < switches \/ k \notin memEnabled
        <5>1. own.since = switches
          BY <3>4, <1>9
        <5>2. ~(own.since < switches)
          BY <5>1, <1>2
        <5>3. ~(own.begin < b)
          BY <4>3, <5>2, <3>1, <1>7, <1>23
        <5>4. QED
          BY <5>3, <3>2, <3>4, <1>7
      <4>4. QED
        BY <4>1, <4>2, <4>3
    <3>5. QED
      BY <3>1, <3>3, <3>4 DEF InnermostOf
  <2>2. \A o \in memOut' : o.call # NoBlock =>
          /\ o.call \in o.record.within
          /\ o.quiet => InnermostOf(o.record, o.call)
    BY <2>1, <1>1, <1>12 DEF OwnCall
  <2>3. \A o \in memOut, p \in new : o.record # p.record
    BY <1>1, <1>7, <1>8, <1>16 DEF NotOut
  <2>4. \A o, p \in new : o.record = p.record => o = p
    BY <1>16
  <2>5. \A o, p \in memOut' : o.record = p.record => o = p
    BY <2>3, <2>4, <1>1, <1>12 DEF OwnCall
  <2>6. QED
    BY <2>2, <2>5 DEF OwnCall, InnermostOf
<1>34. CallsComplete'
  <2>1. ASSUME NEW r \in made, r.thread = t, r.kind = k, quiet, InnermostOf(r, own.begin),
               ~\E g \in reported' : g.thread = r.thread /\ g.kind = r.kind /\ r.time < g.begin /\ g.end < f.end
        PROVE  \E o \in memOut' : o.record = r /\ o.call = own.begin
    <3>1. own.begin \in r.within /\ r.time \in Nat /\ Past(t, r.time) /\ own.begin < r.time /\ k \in memEnabled
      BY <2>1, <1>1, <1>7, <1>9, AboutRecords DEF InnermostOf, MadeWithin, RecordsPast
    <3>2. ~Passed(r)
      <4>1. SUFFICES ASSUME NEW g \in reported, g.thread = t, g.kind = k, r.time <= g.end PROVE FALSE
        BY <2>1 DEF Passed
      <4>2. /\ g.begin \in Nat /\ g.end \in Nat /\ g.begin <= g.end /\ g.end < f.end
            /\ g.end < own.begin \/ own.begin < g.begin
        BY <4>1, <1>1, <1>3, <1>17, <1>23, AboutRecords DEF CallsNested, Past, Doing
      <4>3. own.begin < g.begin
        BY <4>1, <4>2, <3>1, <1>7
      <4>4. CASE g.begin <= r.time
        <5>1. g.begin \in r.within
          BY <4>1, <4>4, <2>1, <1>1 DEF MadeWithin
        <5>2. g.begin <= own.begin
          BY <5>1, <2>1 DEF InnermostOf
        <5>3. QED
          BY <5>2, <4>2, <4>3, <1>7
      <4>5. CASE r.time < g.begin
        BY <4>1, <4>2, <4>5, <2>1, <1>12
      <4>6. QED
        BY <4>2, <4>4, <4>5, <3>1
    <3>3. PICK i \in DOMAIN q : q[i] = r
      BY <3>2, <2>1, <1>1, <1>8 DEF RecordsPast, Waiting
    <3>4. i \in Covered(q, own, d.end)
      BY <3>1, <3>3, <1>7, <1>13 DEF Covered
    <3>5. PICK o : o = [record |-> q[i], call |-> own.begin, quiet |-> quiet]
      OBVIOUS
    <3>6. o \in new
      BY <3>1, <3>4, <3>5, <1>10
    <3>7. o.record = r /\ o.call = own.begin
      BY <3>3, <3>5
    <3>8. QED
      BY <3>6, <3>7, <1>12
  <2>2. ASSUME NEW r \in made, NEW e \in reported',
               e.thread = r.thread /\ e.kind = r.kind /\ e.quiet /\ InnermostOf(r, e.begin),
               ~\E g \in reported' : g.thread = r.thread /\ g.kind = r.kind /\ r.time < g.begin /\ g.end < e.end
        PROVE  \E o \in memOut' : o.record = r /\ o.call = e.begin
    <3>1. CASE e \in reported
      <4>1. \E o \in memOut : o.record = r /\ o.call = e.begin
        BY <3>1, <2>2, <1>1, <1>12 DEF CallsComplete
      <4>2. QED
        BY <4>1, <1>12
    <3>2. CASE e = f
      <4>1. r.thread = t /\ r.kind = k /\ quiet /\ InnermostOf(r, own.begin)
        BY <3>2, <2>2, <1>17
      <4>2. QED
        BY <4>1, <3>2, <2>1, <2>2, <1>17
    <3>3. QED
      BY <3>1, <3>2, <2>2, <1>12
  <2>3. QED
    BY <2>2, <1>12 DEF CallsComplete, InnermostOf
<1>35. SizesFollow'
  <2>1. NoBlock \notin Addresses
    BY MemoryAssumption DEF NoBlock
  <2>2. \A a \in Addresses : t \notin InReport(a)
    BY <2>1, <1>4, <1>7 DEF InReport
  <2>3. QED
    BY <2>2, <1>1, <1>12, <1>19, SizesLeft
<1>36. SureSizes'
  <2>1. \A u \in MemThreads : Doing(u, "push")' => RightSize(doing'[u])
    BY <1>1, <1>19 DEF SureSizes, Doing
  <2>2. \A o \in new : RightSize(o.record)
    BY <1>1, <1>13, <1>16 DEF SureSizes
  <2>3. QED
    BY <2>1, <2>2, <1>1, <1>12 DEF SureSizes
<1>37. QED
  BY <1>18, <1>25, <1>26, <1>28, <1>29, <1>30, <1>31, <1>32, <1>33, <1>34, <1>35, <1>36 DEF MemoryIInv

\* For any threads, addresses, sizes, kinds and bounds, the inductive invariant holds.
THEOREM MemoryInductive == MemorySpec => []MemoryIInv
<1>1. MemoryInit => MemoryIInv
  <2>1. SUFFICES ASSUME MemoryInit PROVE MemoryIInv
    OBVIOUS
  <2>2. /\ \A t \in MemThreads : doing[t] = Idle /\ doing[t].step = "idle" /\ calls[t] = <<>> /\ DOMAIN calls[t] = {} /\ Len(calls[t]) = 0
        /\ \A k \in MemKinds, t \in MemThreads : dataCache[k][t] = <<>> /\ DOMAIN dataCache[k][t] = {}
        /\ memOut = {} /\ made = {} /\ reported = {} /\ blurred = {} /\ switches = 0
    BY <2>1, EmptySeq DEF MemoryInit, Idle
  <2>3. MemTypes
    <3>1. calls \in [MemThreads -> Seq(ApiCalls)] /\ dataCache \in [MemKinds -> [MemThreads -> Seq(MemRecords)]]
      BY <2>1, EmptySeq DEF MemoryInit
    <3>2. \A t \in MemThreads : Len(calls[t]) <= MaxDepth
      BY <2>2, MemoryAssumption
    <3>3. QED
      BY <2>1, <3>1, <3>2 DEF MemoryInit, MemTypes
  <2>4. \A t \in MemThreads : Around(t) = {}
    BY <2>2 DEF Around, Opened, Doing
  <2>5. DoingNow /\ SureSizes
    BY <2>2 DEF DoingNow, Reporting, Doing, SureSizes
  <2>6. CallsNested
    BY <2>2, <2>4 DEF CallsNested
  <2>7. Queued /\ RecordsPast /\ NotOut /\ MadeWithin /\ WaitsFor /\ OwnCall /\ CallsComplete
    BY <2>2, <2>4 DEF Queued, RecordsPast, NotOut, MadeWithin, WaitsFor, OwnCall, CallsComplete
  <2>8. SizesFollow
    BY <2>1, <2>2 DEF SizesFollow, InReport, Doing, MemoryInit
  <2>9. QED
    BY <2>3, <2>5, <2>6, <2>7, <2>8 DEF MemoryIInv
<1>2. MemoryIInv /\ [MemoryNext]_memVars => MemoryIInv'
  <2>1. SUFFICES ASSUME MemoryIInv, [MemoryNext]_memVars PROVE MemoryIInv'
    OBVIOUS
  <2>2. CASE UNCHANGED memVars
    <3>1. MemTypes' /\ SizesFollow' /\ SureSizes'
      BY <2>1, <2>2 DEF memVars, MemoryIInv, MemTypes, SizesFollow, InReport, Doing, Follows, SureSizes, RightSize
    <3>2. DoingNow' /\ CallsNested' /\ Queued' /\ RecordsPast' /\ NotOut'
      BY <2>1, <2>2 DEF memVars, MemoryIInv, DoingNow, Reporting, Doing, Opened, CallsNested, Around, Past, Queued, RecordsPast,
                        Waiting, Passed, NotOut
    <3>3. MadeWithin' /\ WaitsFor' /\ OwnCall' /\ CallsComplete'
      BY <2>1, <2>2 DEF memVars, MemoryIInv, MadeWithin, WaitsFor, Around, Opened, Doing, OwnCall, CallsComplete, InnermostOf
    <3>4. QED
      BY <3>1, <3>2, <3>3 DEF MemoryIInv
  <2>3. ASSUME NEW k \in MemKinds, SwitchesKind(k) PROVE MemoryIInv'
    BY <2>1, <2>3, SwitchesKindKeeps
  <2>4. ASSUME NEW t \in MemThreads,
               \/ \E k \in MemKinds : BeginApi(t, k)
               \/ \E a \in Addresses, size \in Sizes : Allocates(t, a, size) \/ FailsToAllocate(t, a, size)
               \/ \E a \in Addresses : Releases(t, a)
               \/ Copies(t) \/ ReportChecks(t) \/ MapsAddress(t) \/ PushesRecord(t) \/ ReportsAtOnce(t)
               \/ EndApi(t) \/ RecordApi(t)
        PROVE  MemoryIInv'
    <3>1. CASE \E k \in MemKinds : BeginApi(t, k)
      BY <3>1, <2>1, BeginApiKeeps
    <3>2. CASE \E a \in Addresses, size \in Sizes : Allocates(t, a, size) \/ FailsToAllocate(t, a, size)
      BY <3>2, <2>1, AllocatesKeeps, FailsToAllocateKeeps
    <3>3. CASE \E a \in Addresses : Releases(t, a)
      BY <3>3, <2>1, ReleasesKeeps
    <3>4. CASE Copies(t) \/ ReportChecks(t) \/ MapsAddress(t)
      BY <3>4, <2>1, CopiesKeeps, ReportChecksKeeps, MapsAddressKeeps
    <3>5. CASE PushesRecord(t) \/ ReportsAtOnce(t)
      BY <3>5, <2>1, PushesRecordKeeps, ReportsAtOnceKeeps
    <3>6. CASE EndApi(t) \/ RecordApi(t)
      BY <3>6, <2>1, EndApiKeeps, RecordApiKeeps
    <3>7. QED
      BY <2>4, <3>1, <3>2, <3>3, <3>4, <3>5, <3>6
  <2>5. CASE MemoryNext
    BY <2>3, <2>4, <2>5 DEF MemoryNext
  <2>6. QED
    BY <2>1, <2>2, <2>5
<1>3. QED
  BY <1>1, <1>2, PTL DEF MemorySpec

\* A memory record waits in the order of its times and is delivered once, with the times of its
\* own innermost call and the size of its own block (memory_parser.cpp:205-242, 257-295,
\* memory_reporter.cpp:124-155).
THEOREM MemoryCorrect == MemorySpec => []MemoryInv
<1>1. MemoryIInv => MemoryInv
  <2>1. SUFFICES ASSUME MemoryIInv PROVE MemoryInv
    OBVIOUS
  <2>2. MemTypes /\ Queued /\ NotOut /\ OwnCall /\ CallsComplete /\ SizesFollow /\ SureSizes
    BY <2>1 DEF MemoryIInv
  <2>3. MemoryTypeOK
    <3>1. \A t \in MemThreads : doing[t].step \in Steps
      <4>1. ASSUME NEW t \in MemThreads PROVE doing[t].step \in Steps
        <5>1. doing[t].step \in {"report", "map", "push"} \/ doing[t].step = "idle" \/ doing[t].step = "api"
          BY <2>2, AboutDoing DEF Reporting, Doing
        <5>2. QED
          BY <5>1 DEF Steps
      <4>2. QED
        BY <4>1
    <3>2. QED
      BY <3>1, <2>2 DEF MemTypes, MemoryTypeOK
  <2>4. QueuesInOrder
    BY <2>2 DEF Queued, NotOut, QueuesInOrder
  <2>5. SizesExact
    <3>1. \A o \in memOut : o.record.op = "release" /\ o.record.sure => o.record.bytes = o.record.freed
      BY <2>2 DEF SureSizes, RightSize
    <3>2. QED
      BY <3>1, <2>2 DEF SizesFollow, SizesExact
  <2>6. QED
    BY <2>2, <2>3, <2>4, <2>5 DEF MemoryInv
<1>2. QED
  BY <1>1, MemoryInductive, PTL

===============================================================================
