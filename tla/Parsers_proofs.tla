---------------------------- MODULE Parsers_proofs ----------------------------
EXTENDS KernelParser, HcclMarks, FiniteSetTheorems, SequenceTheorems, TLAPS
(***************************************************************************)
(* KernelParser.  The inductive invariant, part by part.                   *)
(***************************************************************************)

Whole(k) == kernels[k] \o hostTasks[k]
InWhole(n, k) == \E i \in 1 .. Len(Whole(k)) : Whole(k)[i] = n
OnItsWay(n) == \E t \in HostThreads : host[t].launch = n /\ host[t].pc \in {"gate", "push"}
IsOf(n, k) == n \in 1 .. Len(launched) /\ launched[n] = k

\* The gate: closed from the moment UnRegister begins until it ends, and one
\* Clear per session.
GateSessions ==
    /\ gate.pc \notin {"off", "on"} => gate.unregistering
    /\ gate.switch <=> gate.pc \in {"on", "retry", "drain", "stop", "switch"}
    /\ gate.session = epoch + (IF gate.pc \in {"off", "reopen"} THEN 0 ELSE 1)
    /\ gate.zero => gate.pc \notin {"on", "retry"}

\* Every thread reports a launch of its own,
HostsApart ==
    /\ \A t \in HostThreads :
          /\ IF host[t].pc = "idle" THEN host[t].launch = None ELSE host[t].launch \in 1 .. Len(launched)
          /\ host[t].pc = "count" => Aging(host[t].launch)
    /\ \A t, u \in HostThreads : host[t].launch = host[u].launch => t = u \/ host[t].launch = None
    /\ wiped \subseteq 1 .. Len(launched)

\* which no map holds before it was pushed, and which one place holds after.
EntriesApart ==
    /\ \A k \in Keys : \A i \in 1 .. Len(Whole(k)) : IsOf(Whole(k)[i], k)
    /\ \A k \in Keys : \A i, j \in 1 .. Len(Whole(k)) : Whole(k)[i] = Whole(k)[j] => i = j
    /\ \A t \in HostThreads : host[t].pc \in {"gate", "push"} =>
          host[t].launch \notin wiped /\ \A k \in Keys : ~InWhole(host[t].launch, k)

\* Only aging launches wait.
AgingWaits == \A k \in Keys : \A i \in 1 .. Len(Whole(k)) : Aging(Whole(k)[i])

\* An aging launch runs once and after the earlier ones of its key.
RunsInOrder ==
    /\ \A m \in 1 .. Len(runs) : runs[m] \in 1 .. Len(launched)
    /\ \A m, n \in 1 .. Len(runs) : Aging(runs[m]) /\ runs[m] = runs[n] => m = n
    /\ \A m \in 1 .. Len(runs) : \A n \in 1 .. runs[m] - 1 :
          launched[n] = launched[runs[m]] /\ Aging(n) => \E e \in 1 .. m - 1 : runs[e] = n
    /\ Cardinality({m \in 1 .. Len(runs) : ~Aging(runs[m])}) <= MaxReplays

\* A channel holds the last records of its device, in their order.
RunKey(m) == launched[runs[m]]
IsLog(log, k, type, m) == log.key = k /\ log.funcType = type /\ log.run = m
EndIn(s, key, m) == \E i \in 1 .. Len(s) : IsLog(s[i], key, "END", m)
HasEnd(d, m) == EndIn(channel[d], RunKey(m), m)
LogsIn(s, d, la, ru) ==
    \A i \in 1 .. Len(s) :
        /\ s[i].run \in 1 .. Len(ru) /\ s[i].key = la[ru[s[i].run]] /\ DeviceOf[s[i].key] = d
        /\ s[i].funcType = "BEGIN" => i < Len(s) /\ IsLog(s[i + 1], s[i].key, "END", s[i].run)
        /\ s[i].funcType = "END" /\ i > 1 => IsLog(s[i - 1], s[i].key, "BEGIN", s[i].run)
LogsPaired(d) == LogsIn(channel[d], d, launched, runs)
RiseIn(s) ==
    \A i, j \in 1 .. Len(s) : s[i].funcType = "END" /\ s[j].funcType = "END" /\ i < j => s[i].run < s[j].run
EndsRise(d) == RiseIn(channel[d])
EndsLast(d) ==
    \A m, n \in 1 .. Len(runs) :
        m < n /\ DeviceOf[RunKey(m)] = d /\ DeviceOf[RunKey(n)] = d /\ HasEnd(d, m) => HasEnd(d, n)
ChannelInOrder == \A d \in Devices : LogsPaired(d) /\ EndsRise(d) /\ EndsLast(d)

\* What is staged has its kernel and, unless the key is stale, the run whose
\* END comes next; a consumer that a Clear overtook has staged nothing since.
NextIsEnd(k) ==
    LET coming == channel[DeviceOf[k]] IN coming # <<>> /\ Head(coming).key = k /\ Head(coming).funcType = "END"
StagedInOrder ==
    /\ \A k \in Keys : staged[k] # None => kernels[k] # <<>> \/ graph[k] # None
    /\ \A k \in Keys \ stale :
          staged[k] # None =>
              /\ gate.pc \notin {"off", "reopen"}
              /\ \/ NextIsEnd(k) => Head(channel[DeviceOf[k]]).run = staged[k]
                 \/ At("clear") /\ consumer[DeviceOf[k]].pc = "idle"
    /\ \A d \in Devices : consumer[d].pc = "parse" =>
          /\ channel[d] # <<>> /\ consumer[d].epoch <= epoch
          /\ consumer[d].epoch # epoch => \A k \in Keys : DeviceOf[k] = d => staged[k] = None
          /\ consumer[d].epoch = epoch => gate.pc \notin {"off", "reopen"}
    /\ stale \subseteq crossed
    /\ \A k \in Keys \ crossed : NextIsEnd(k) => staged[k] = Head(channel[DeviceOf[k]]).run

\* While a key that nothing crossed has no graph's task, a launch of it is on
\* its way, waits, or has its record, and a graph's is on its way; those that
\* wait were launched before those on their way.
HasEnded(n) == \E m \in 1 .. Len(runs) : runs[m] = n /\ ~HasEnd(DeviceOf[RunKey(m)], m)
AgingInOrder ==
    \A k \in Keys \ crossed : GraphOf(k) = None =>
        /\ \A i, j \in 1 .. Len(Whole(k)) : i < j => Whole(k)[i] < Whole(k)[j]
        /\ \A n \in 1 .. Len(launched) : launched[n] = k =>
              \/ OnItsWay(n) /\ ~HasEnded(n) /\ \A i \in 1 .. Len(Whole(k)) : Whole(k)[i] < n
              \/ ~HasEnded(n) /\ InWhole(n, k)
              \/ Aging(n) /\ HasEnded(n) /\ ~OnItsWay(n) /\ ~InWhole(n, k)

\* The graph's task of a key is one of its launches, and of a key that nothing
\* crossed the first that is a graph's.
GraphInOrder ==
    \A k \in Keys : GraphOf(k) # None =>
        /\ IsOf(GraphOf(k), k) /\ ~Aging(GraphOf(k))
        /\ k \notin crossed => \A n \in 1 .. GraphOf(k) - 1 : launched[n] = k => Aging(n)

\* A run whose key nothing crossed is recorded when its END has been seen.
AllRecorded ==
    \A m \in 1 .. Len(runs) :
        RunKey(m) \in crossed \/ HasEnd(DeviceOf[RunKey(m)], m) \/ \E r \in recorded : r.end = m /\ (r.launch = runs[m] \/ Claims(r.launch, runs[m]))

\* Once UnRegister has read zero nothing waits and nothing comes.
DrainHolds == gate.zero /\ gate.pc \in {"drain", "stop", "switch", "clear"} => Waiting = {} /\ Quiet

KernelIInv ==
    /\ KernelTypeOK /\ GateSessions /\ HostsApart /\ EntriesApart /\ AgingWaits /\ RunsInOrder
    /\ ChannelInOrder /\ StagedInOrder /\ AgingInOrder /\ GraphInOrder /\ AllRecorded /\ DrainHolds /\ PendingExact
    /\ KernelOwnTimes /\ PairsOneRun /\ \A r \in recorded : r.end \in 1 .. Len(runs)

(***************************************************************************)
(* Sequences: what Append, Tail and concatenation do to the elements.      *)
(***************************************************************************)

LEMMA Appended ==
    ASSUME NEW S, NEW s \in Seq(S), NEW x \in S
    PROVE  /\ Append(s, x) \in Seq(S) /\ Len(s) \in Nat /\ Len(Append(s, x)) = Len(s) + 1
           /\ \A i \in 1 .. Len(s) : Append(s, x)[i] = s[i]
           /\ Append(s, x)[Len(s) + 1] = x
BY AppendProperties, LenProperties

LEMMA Rest ==
    ASSUME NEW S, NEW s \in Seq(S), s # <<>>
    PROVE  /\ Tail(s) \in Seq(S) /\ Len(s) \in Nat \ {0} /\ Len(Tail(s)) = Len(s) - 1
           /\ Head(s) = s[1] /\ s[1] \in S /\ 1 \in 1 .. Len(s)
           /\ \A i \in 1 .. Len(Tail(s)) : Tail(s)[i] = s[i + 1] /\ i + 1 \in 1 .. Len(s)
<1>1. Len(s) \in Nat \ {0}
  BY EmptySeq
<1>2. 1 \in 1 .. Len(s) /\ s[1] \in S /\ Head(s) = s[1]
  BY <1>1, ElementOfSeq
<1>3. Tail(s) \in Seq(S) /\ Len(Tail(s)) = Len(s) - 1 /\ \A i \in 1 .. Len(Tail(s)) : Tail(s)[i] = s[i + 1]
  BY HeadTailProperties
<1> QED BY <1>1, <1>2, <1>3

LEMMA Joined ==
    ASSUME NEW S, NEW s \in Seq(S), NEW t \in Seq(S)
    PROVE  /\ s \o t \in Seq(S) /\ Len(s) \in Nat /\ Len(t) \in Nat /\ Len(s \o t) = Len(s) + Len(t)
           /\ \A i \in 1 .. Len(s) : (s \o t)[i] = s[i]
           /\ \A i \in 1 .. Len(t) : (s \o t)[Len(s) + i] = t[i]
<1>1. \A i \in 1 .. Len(s) + Len(t) : (s \o t)[i] = IF i <= Len(s) THEN s[i] ELSE t[i - Len(s)]
  BY ConcatProperties
<1>2. Len(s) \in Nat /\ Len(t) \in Nat
  BY LenProperties
<1>3. \A i \in 1 .. Len(s) : (s \o t)[i] = s[i]
  BY <1>1, <1>2
<1>4. ASSUME NEW i \in 1 .. Len(t) PROVE (s \o t)[Len(s) + i] = t[i]
  <2>1. Len(s) + i \in 1 .. Len(s) + Len(t) /\ ~(Len(s) + i <= Len(s)) /\ (Len(s) + i) - Len(s) = i
    BY <1>2
  <2> QED BY <1>1, <2>1
<1> QED BY <1>2, <1>3, <1>4, ConcatProperties

LEMMA JoinedAppended ==
    ASSUME NEW S, NEW s \in Seq(S), NEW t \in Seq(S), NEW x \in S
    PROVE  s \o Append(t, x) = Append(s \o t, x)
<1>1. Append(t, x) = t \o <<x>> /\ Append(s \o t, x) = (s \o t) \o <<x>>
  BY AppendIsConcat, ConcatProperties
<1>2. <<x>> \in Seq(S)
  OBVIOUS
<1> QED BY <1>1, <1>2, ConcatAssociative

LEMMA NotEmpty ==
    ASSUME NEW S, NEW s \in Seq(S)
    PROVE  (s = <<>> <=> Len(s) = 0) /\ Len(s) \in Nat /\ DOMAIN s = 1 .. Len(s)
BY EmptySeq, LenProperties

----------------------------------------------------------------------------
(* What the invariant says of single sequences and sets.                     *)

LEMMA JoinedElements ==
    ASSUME NEW S, NEW s \in Seq(S), NEW t \in Seq(S)
    PROVE  /\ s \o t = <<>> <=> s = <<>> /\ t = <<>>
           /\ Range(s) \cup Range(t) = {(s \o t)[i] : i \in 1 .. Len(s \o t)}
<1> DEFINE u == s \o t
<1>1. /\ u \in Seq(S) /\ Len(s) \in Nat /\ Len(t) \in Nat /\ Len(u) = Len(s) + Len(t)
      /\ \A i \in 1 .. Len(s) : u[i] = s[i]
      /\ \A i \in 1 .. Len(t) : u[Len(s) + i] = t[i]
  BY Joined
<1>2. /\ s = <<>> <=> Len(s) = 0
      /\ t = <<>> <=> Len(t) = 0
      /\ DOMAIN s = 1 .. Len(s) /\ DOMAIN t = 1 .. Len(t)
  BY NotEmpty
<1>3. u = <<>> <=> Len(u) = 0
  BY <1>1, NotEmpty
<1> HIDE DEF u
<1>4. ASSUME NEW x \in Range(s) \cup Range(t) PROVE \E i \in 1 .. Len(u) : x = u[i]
  <2>1. CASE x \in Range(s)
    <3>1. PICK i \in 1 .. Len(s) : x = s[i]
      BY <1>2, <2>1 DEF Range
    <3>2. i \in 1 .. Len(u)
      BY <1>1
    <3> QED BY <1>1, <3>1, <3>2
  <2>2. CASE x \in Range(t)
    <3>1. PICK i \in 1 .. Len(t) : x = t[i]
      BY <1>2, <2>2 DEF Range
    <3>2. Len(s) + i \in 1 .. Len(u)
      BY <1>1
    <3> QED BY <1>1, <3>1, <3>2
  <2> QED BY <1>4, <2>1, <2>2
<1>5. ASSUME NEW i \in 1 .. Len(u) PROVE u[i] \in Range(s) \cup Range(t)
  <2>1. CASE i \in 1 .. Len(s)
    BY <1>1, <1>2, <2>1 DEF Range
  <2>2. CASE i \notin 1 .. Len(s)
    <3>1. i - Len(s) \in 1 .. Len(t) /\ Len(s) + (i - Len(s)) = i
      BY <1>1, <2>2
    <3>2. u[i] = t[i - Len(s)]
      BY <1>1, <3>1
    <3> QED BY <1>2, <3>1, <3>2 DEF Range
  <2> QED BY <2>1, <2>2
<1>6. Range(s) \cup Range(t) = {u[i] : i \in 1 .. Len(u)}
  BY <1>4, <1>5
<1>7. u = <<>> <=> s = <<>> /\ t = <<>>
  BY <1>1, <1>2, <1>3
<1> QED BY <1>6, <1>7 DEF u

LEMMA WholeSequence ==
    ASSUME KernelTypeOK, NEW k \in Keys
    PROVE  /\ kernels[k] \in Seq(Launches) /\ hostTasks[k] \in Seq(Launches) /\ Whole(k) \in Seq(Launches)
           /\ Len(Whole(k)) \in Nat /\ (Whole(k) = <<>> <=> kernels[k] = <<>> /\ hostTasks[k] = <<>>)
           /\ Range(kernels[k]) \cup Range(hostTasks[k]) = {Whole(k)[i] : i \in 1 .. Len(Whole(k))}
<1>1. kernels[k] \in Seq(Launches) /\ hostTasks[k] \in Seq(Launches)
  BY DEF KernelTypeOK
<1>2. Whole(k) \in Seq(Launches)
  BY <1>1, Joined DEF Whole
<1>3. Len(Whole(k)) \in Nat
  BY <1>2, NotEmpty
<1>4. Whole(k) = kernels[k] \o hostTasks[k]
  BY DEF Whole
<1>5. Whole(k) = <<>> <=> kernels[k] = <<>> /\ hostTasks[k] = <<>>
  BY <1>1, <1>4, JoinedElements
<1>6. Range(kernels[k]) \cup Range(hostTasks[k]) = {Whole(k)[i] : i \in 1 .. Len(Whole(k))}
  <2> DEFINE s == kernels[k]
             t == hostTasks[k]
  <2>1. s \in Seq(Launches) /\ t \in Seq(Launches) /\ Whole(k) = s \o t
    BY <1>1, <1>4
  <2> HIDE DEF s, t
  <2>2. Range(s) \cup Range(t) = {Whole(k)[i] : i \in 1 .. Len(Whole(k))}
    BY <2>1, JoinedElements
  <2> QED BY <2>2 DEF s, t
<1> QED BY <1>1, <1>2, <1>3, <1>5, <1>6

LEMMA WaitingIs ==
    ASSUME KernelTypeOK
    PROVE  Waiting = {n \in 1 .. Len(launched) : Aging(n) /\ \E k \in Keys : InWhole(n, k)}
<1>1. DOMAIN launched = 1 .. Len(launched)
  BY NotEmpty DEF KernelTypeOK
<1>2. ASSUME NEW n \in 1 .. Len(launched), NEW k \in Keys
      PROVE n \in Range(hostTasks[k]) \/ n \in Range(kernels[k]) <=> InWhole(n, k)
  BY WholeSequence DEF InWhole
<1>3. ASSUME NEW n \in 1 .. Len(launched) PROVE AgingEntries[n] <=> \E k \in Keys : InWhole(n, k)
  BY <1>1, <1>2 DEF AgingEntries
<1> QED BY <1>1, <1>3 DEF Waiting

LEMMA ApartFinite ==
    ASSUME KernelTypeOK, HostsApart
    PROVE  /\ IsFiniteSet(Uncounted) /\ IsFiniteSet(Waiting)
           /\ Cardinality(Uncounted) \in Nat /\ Cardinality(Waiting) \in Nat
<1> DEFINE f == [t \in Uncounted |-> host[t].launch]
<1>1. Len(launched) \in Nat
  BY NotEmpty DEF KernelTypeOK
<1>2. IsFiniteSet(1 .. Len(launched))
  BY <1>1, FS_Interval
<1>3. Waiting \in SUBSET (1 .. Len(launched))
  BY WaitingIs
<1>4. f \in Injection(Uncounted, 1 .. Len(launched))
  <2>1. ASSUME NEW t \in Uncounted PROVE t \in HostThreads /\ host[t].launch \in 1 .. Len(launched) /\ host[t].launch # None
    BY <1>1 DEF HostsApart, Uncounted, None
  <2>2. ASSUME NEW t \in Uncounted, NEW u \in Uncounted, f[t] = f[u] PROVE t = u
    BY <2>1, <2>2 DEF HostsApart
  <2>3. f \in [Uncounted -> 1 .. Len(launched)]
    BY <2>1
  <2> HIDE DEF f
  <2> QED BY <2>2, <2>3 DEF Injection, IsInjective
<1>5. IsFiniteSet(Uncounted)
  <2> HIDE DEF f
  <2> QED BY <1>2, <1>4, FS_Injection
<1> QED BY <1>2, <1>3, <1>5, FS_Subset, FS_CardinalityType

LEMMA KernelInitIInv == KernelInit => KernelIInv
<1> SUFFICES ASSUME KernelInit PROVE KernelIInv
  OBVIOUS
<1> USE DEF KernelInit, GateInit
<1>1. \A k \in Keys : Whole(k) = <<>> /\ Len(Whole(k)) = 0
  BY DEF Whole
<1>2. KernelTypeOK
  <2>1. GateTypeOK
    BY GateAssumption DEF GateTypeOK, GatePCs
  <2>2. host \in [HostThreads -> [pc: {"idle", "gate", "push", "count"}, launch: {None} \cup Launches, epoch: 0 .. MaxSessions]]
    BY GateAssumption DEF IdleHost
  <2>3. consumer \in [Devices -> [pc: {"idle", "parse"}, epoch: 0 .. MaxSessions]]
    BY GateAssumption DEF IdleConsumer
  <2>4. launched \in Seq(Keys) /\ Len(launched) <= MaxLaunches /\ runs \in Seq(Launches)
    BY KernelAssumption
  <2>5. /\ hostTasks \in [Keys -> Seq(Launches)] /\ kernels \in [Keys -> Seq(Launches)]
        /\ hostGraphs \in [Keys -> {None} \cup Launches] /\ unaging \subseteq DOMAIN launched
        /\ channel \in [Devices -> Seq(SocLogs)]
    OBVIOUS
  <2> QED BY <2>1, <2>2, <2>3, <2>4, <2>5, GateAssumption, KernelAssumption DEF KernelTypeOK
<1>3. GateSessions /\ HostsApart
  BY DEF GateSessions, HostsApart, IdleHost
<1>4. EntriesApart
  BY <1>1 DEF EntriesApart, IdleHost
<1>5. RunsInOrder
  <2>1. {m \in 1 .. Len(runs) : ~Aging(runs[m])} = {}
    OBVIOUS
  <2>2. Len(runs) = 0
    OBVIOUS
  <2> QED BY <2>1, <2>2, FS_EmptySet, KernelAssumption DEF RunsInOrder
<1>6. \A d \in Devices : Len(channel[d]) = 0 /\ channel[d] = <<>>
  OBVIOUS
<1>7. ChannelInOrder /\ AllRecorded
  BY <1>6 DEF ChannelInOrder, LogsPaired, LogsIn, EndsRise, RiseIn, EndsLast, AllRecorded
<1>8. StagedInOrder
  BY <1>6, KernelAssumption DEF StagedInOrder, IdleConsumer, NextIsEnd
<1>9. AgingInOrder
  BY <1>1 DEF AgingInOrder
<1>10. GraphInOrder /\ AgingWaits
  BY <1>1 DEF GraphInOrder, GraphOf, AgingWaits
<1>11. DrainHolds
  BY DEF DrainHolds
<1>12. PendingExact
  <2>1. Waiting = {} /\ Uncounted = {}
    BY <1>2, WaitingIs DEF Uncounted, IdleHost
  <2> QED BY <2>1, FS_EmptySet DEF PendingExact
<1>13. KernelOwnTimes /\ PairsOneRun /\ \A r \in recorded : r.end \in 1 .. Len(runs)
  BY DEF KernelOwnTimes, PairsOneRun
<1> QED BY <1>2, <1>3, <1>4, <1>5, <1>7, <1>8, <1>9, <1>10, <1>11, <1>12, <1>13 DEF KernelIInv

----------------------------------------------------------------------------
(* A part of the invariant stays while nothing that it speaks of changes.    *)

LEMMA EntriesStay ==
    EntriesApart /\ UNCHANGED <<launched, host, hostTasks, kernels, wiped>> => EntriesApart'
<1> SUFFICES ASSUME EntriesApart, UNCHANGED <<launched, host, hostTasks, kernels, wiped>> PROVE EntriesApart'
  OBVIOUS
<1>1. \A k : Whole(k)' = Whole(k)
  BY DEF Whole
<1>2. \A n, k : (IsOf(n, k)' <=> IsOf(n, k)) /\ (InWhole(n, k)' <=> InWhole(n, k))
  BY <1>1 DEF IsOf, InWhole
<1> QED BY <1>1, <1>2 DEF EntriesApart

LEMMA WaitsStay == AgingWaits /\ UNCHANGED <<unaging, hostTasks, kernels>> => AgingWaits'
<1> SUFFICES ASSUME AgingWaits, UNCHANGED <<unaging, hostTasks, kernels>> PROVE AgingWaits'
  OBVIOUS
<1>1. \A k : Whole(k)' = Whole(k)
  BY DEF Whole
<1> QED BY <1>1 DEF AgingWaits, Aging

LEMMA RunsStay == RunsInOrder /\ UNCHANGED <<launched, unaging, runs>> => RunsInOrder'
BY DEF RunsInOrder, Aging

LEMMA ChannelStays == ChannelInOrder /\ UNCHANGED <<launched, runs, channel>> => ChannelInOrder'
BY DEF ChannelInOrder, LogsPaired, LogsIn, EndsRise, RiseIn, EndsLast, IsLog, HasEnd, EndIn, RunKey

LEMMA StagedStays ==
    /\ StagedInOrder /\ UNCHANGED <<staged, kernels, graph, stale, crossed, channel, consumer, epoch>>
    /\ gate'.pc \in {"off", "reopen"} => gate.pc \in {"off", "reopen"}
    /\ gate.pc = "clear" => gate'.pc = "clear"
    => StagedInOrder'
BY DEF StagedInOrder, NextIsEnd, At

LEMMA AgingStays ==
    AgingInOrder /\ UNCHANGED <<launched, unaging, host, hostTasks, hostGraphs, kernels, graph, runs, channel, crossed>>
    => AgingInOrder'
<1> SUFFICES ASSUME AgingInOrder,
                    UNCHANGED <<launched, unaging, host, hostTasks, hostGraphs, kernels, graph, runs, channel, crossed>>
             PROVE AgingInOrder'
  OBVIOUS
<1>1. \A k : Whole(k)' = Whole(k)
  BY DEF Whole
<1>2. \A n, k : InWhole(n, k)' <=> InWhole(n, k)
  BY <1>1 DEF InWhole
<1>3. \A n : (OnItsWay(n)' <=> OnItsWay(n)) /\ (HasEnded(n)' <=> HasEnded(n))
  BY DEF OnItsWay, HasEnded, HasEnd, EndIn, IsLog, RunKey
<1>4. \A k : GraphOf(k)' = GraphOf(k)
  BY DEF GraphOf
<1> QED BY <1>1, <1>2, <1>3, <1>4 DEF AgingInOrder, Aging

LEMMA GraphStays ==
    GraphInOrder /\ UNCHANGED <<launched, unaging, hostGraphs, graph>> /\ crossed \subseteq crossed' => GraphInOrder'
<1> SUFFICES ASSUME GraphInOrder, UNCHANGED <<launched, unaging, hostGraphs, graph>>, crossed \subseteq crossed'
             PROVE GraphInOrder'
  OBVIOUS
<1>1. \A k : GraphOf(k)' = GraphOf(k)
  BY DEF GraphOf
<1> QED BY <1>1 DEF GraphInOrder, IsOf, Aging

LEMMA ClaimsStay ==
    ASSUME UNCHANGED <<launched, unaging>>
    PROVE  \A g, l : Claims(g, l)' <=> Claims(g, l)
BY DEF Claims, Aging

LEMMA RecordedStays ==
    AllRecorded /\ UNCHANGED <<launched, unaging, runs, channel, recorded, crossed>> => AllRecorded'
BY ClaimsStay DEF AllRecorded, RunKey, HasEnd, EndIn, IsLog

LEMMA WaitingStays == UNCHANGED <<launched, unaging, hostTasks, kernels>> => Waiting' = Waiting
BY DEF Waiting, AgingEntries, Aging

LEMMA PendingStays ==
    PendingExact /\ UNCHANGED <<launched, unaging, host, hostTasks, kernels, pending, wiped, drift>> => PendingExact'
BY WaitingStays DEF PendingExact, Uncounted

LEMMA DrainStays ==
    DrainHolds /\ UNCHANGED <<gate, launched, unaging, host, hostTasks, kernels>> => DrainHolds'
BY WaitingStays DEF DrainHolds, Quiet

TimesHold == KernelOwnTimes /\ PairsOneRun /\ \A r \in recorded : r.end \in 1 .. Len(runs)
LEMMA TimesStay == TimesHold /\ UNCHANGED <<launched, unaging, runs, recorded>> => TimesHold'
BY ClaimsStay DEF TimesHold, KernelOwnTimes, PairsOneRun

----------------------------------------------------------------------------
(* The steps of a session. *)

Gates == [switch: BOOLEAN, unregistering: BOOLEAN, pc: GatePCs,
          retry: 0 .. FLUSH_RETRY_MAX_COUNT, zero: BOOLEAN, session: 0 .. MaxSessions]
GateStep ==
    \/ Register
    \/ \E devices \in BOOLEAN : UnRegister(devices)
    \/ RetryReads(pending, Quiet)
    \/ DrainEnds
    \/ StopsAnalysis
    \/ SwitchesOff
    \/ ReopensGate

\* Each of them by the fields it leaves.
LEMMA GateFields ==
    ASSUME GateTypeOK, GateStep
    PROVE  /\ gate' \in Gates
           /\ \/ gate.pc = "off" /\ gate'.pc = "on" /\ gate'.switch /\ ~gate'.zero /\ gate'.session = gate.session + 1
              \/ /\ gate'.session = gate.session /\ gate'.switch = gate.switch
                 /\ \/ gate.pc = "on" /\ gate'.pc \in {"retry", "stop"} /\ gate'.unregistering /\ gate'.zero = gate.zero
                    \/ /\ gate.pc = "retry" /\ gate'.pc = "drain" /\ gate'.unregistering = gate.unregistering
                       /\ gate'.zero => pending = 0 /\ Quiet
                    \/ /\ gate'.unregistering = gate.unregistering /\ gate'.zero = gate.zero
                       /\ <<gate.pc, gate'.pc>> \in {<<"retry", "retry">>, <<"drain", "stop">>, <<"stop", "switch">>}
                    \/ gate.pc = "reopen" /\ gate'.pc = "off" /\ gate'.zero = gate.zero
              \/ /\ gate.pc = "switch" /\ gate'.pc = "clear" /\ ~gate'.switch /\ gate'.session = gate.session
                 /\ gate'.unregistering = gate.unregistering /\ gate'.zero = gate.zero
<1> USE DEF At, Goto, GatePCs, Gates
<1>1. gate \in Gates
  BY DEF GateTypeOK
<1>2. CASE Register
  <2> DEFINE a == [gate EXCEPT !.switch = TRUE]
             b == [a EXCEPT !.unregistering = FALSE]
             c == [b EXCEPT !.pc = "on"]
             d == [c EXCEPT !.session = @ + 1]
             e == [d EXCEPT !.zero = FALSE]
  <2>1. gate' = e /\ gate.pc = "off" /\ gate.session < MaxSessions
    BY <1>2 DEF Register
  <2>2. a \in Gates /\ a.switch /\ a.session = gate.session
    BY <1>1
  <2> HIDE DEF a
  <2>3. b \in Gates /\ b.switch /\ b.session = gate.session
    BY <2>2
  <2> HIDE DEF b
  <2>4. c \in Gates /\ c.switch /\ c.session = gate.session /\ c.pc = "on"
    BY <2>3
  <2> HIDE DEF c
  <2>5. d \in Gates /\ d.switch /\ d.session = gate.session + 1 /\ d.pc = "on"
    BY <1>1, <2>1, <2>4, GateAssumption
  <2> HIDE DEF d
  <2>6. e \in Gates /\ e.switch /\ e.session = gate.session + 1 /\ e.pc = "on" /\ ~e.zero
    BY <2>5
  <2> HIDE DEF e
  <2> QED BY <2>1, <2>6
<1>3. ASSUME NEW devices \in BOOLEAN, UnRegister(devices)
      PROVE /\ gate' \in Gates /\ gate'.session = gate.session /\ gate'.switch = gate.switch
            /\ gate.pc = "on" /\ gate'.pc \in {"retry", "stop"} /\ gate'.unregistering /\ gate'.zero = gate.zero
  <2> DEFINE a == [gate EXCEPT !.unregistering = TRUE]
             b == [a EXCEPT !.retry = 0]
             c == [b EXCEPT !.pc = IF devices THEN "retry" ELSE "stop"]
  <2>1. gate' = c /\ gate.pc = "on"
    BY <1>3 DEF UnRegister, ClosesGate
  <2>2. a \in Gates /\ a.switch = gate.switch /\ a.session = gate.session /\ a.unregistering /\ a.zero = gate.zero
    BY <1>1
  <2> HIDE DEF a
  <2>3. b \in Gates /\ b.switch = gate.switch /\ b.session = gate.session /\ b.unregistering /\ b.zero = gate.zero
    BY <2>2, GateAssumption
  <2> HIDE DEF b
  <2>4. /\ c \in Gates /\ c.switch = gate.switch /\ c.session = gate.session /\ c.unregistering /\ c.zero = gate.zero
        /\ c.pc \in {"retry", "stop"}
    BY <2>3
  <2> HIDE DEF c
  <2> QED BY <2>1, <2>4
<1>4. CASE RetryReads(pending, Quiet)
  <2>1. CASE pending = 0 \/ gate.retry = FLUSH_RETRY_MAX_COUNT
    <3> DEFINE a == [gate EXCEPT !.pc = "drain"]
               zero == pending = 0 /\ Quiet
               b == [a EXCEPT !.zero = zero]
    <3>1. gate' = b /\ gate.pc = "retry" /\ zero \in BOOLEAN
      BY <1>4, <2>1 DEF RetryReads
    <3>2. a \in Gates /\ a.pc = "drain" /\ a.switch = gate.switch /\ a.session = gate.session /\ a.unregistering = gate.unregistering
      BY <1>1
    <3> HIDE DEF a, zero
    <3>3. /\ b \in Gates /\ b.pc = "drain" /\ b.switch = gate.switch /\ b.session = gate.session
          /\ b.unregistering = gate.unregistering /\ b.zero = zero
      BY <3>1, <3>2
    <3> HIDE DEF b
    <3> QED BY <3>1, <3>3 DEF zero
  <2>2. CASE ~(pending = 0 \/ gate.retry = FLUSH_RETRY_MAX_COUNT)
    BY <1>1, <1>4, <2>2, GateAssumption DEF RetryReads
  <2> QED BY <2>1, <2>2
<1>5. CASE DrainEnds \/ StopsAnalysis
  BY <1>1, <1>5 DEF DrainEnds, StopsAnalysis
<1>6. CASE SwitchesOff
  <2> DEFINE a == [gate EXCEPT !.switch = FALSE]
             b == [a EXCEPT !.pc = "clear"]
  <2>1. gate' = b /\ gate.pc = "switch"
    BY <1>6 DEF SwitchesOff
  <2>2. /\ a \in Gates /\ ~a.switch /\ a.session = gate.session /\ a.unregistering = gate.unregistering
        /\ a.zero = gate.zero
    BY <1>1
  <2> HIDE DEF a
  <2>3. /\ b \in Gates /\ ~b.switch /\ b.session = gate.session /\ b.unregistering = gate.unregistering
        /\ b.zero = gate.zero /\ b.pc = "clear"
    BY <2>2
  <2> HIDE DEF b
  <2> QED BY <2>1, <2>3
<1>7. CASE ReopensGate
  <2> DEFINE a == [gate EXCEPT !.unregistering = FALSE]
             b == [a EXCEPT !.pc = "off"]
  <2>1. gate' = b /\ gate.pc = "reopen"
    BY <1>7 DEF ReopensGate
  <2>2. a \in Gates /\ a.switch = gate.switch /\ a.session = gate.session /\ a.zero = gate.zero
    BY <1>1
  <2> HIDE DEF a
  <2>3. b \in Gates /\ b.switch = gate.switch /\ b.session = gate.session /\ b.zero = gate.zero /\ b.pc = "off"
    BY <2>2
  <2> HIDE DEF b
  <2> QED BY <2>1, <2>3
<1> QED BY <1>2, <1>3, <1>4, <1>5, <1>6, <1>7 DEF GateStep

LEMMA GateMoves ==
    ASSUME GateTypeOK, GateSessions, GateStep, UNCHANGED epoch, epoch \in Nat
    PROVE  /\ GateTypeOK' /\ GateSessions'
           /\ gate'.pc \in {"off", "reopen"} => gate.pc \in {"off", "reopen"}
           /\ gate.pc # "clear"
           /\ gate'.zero /\ gate'.pc \in {"drain", "stop", "switch", "clear"} =>
                 \/ gate.zero /\ gate.pc \in {"drain", "stop", "switch", "clear"}
                 \/ pending = 0 /\ Quiet
<1>1. gate \in Gates /\ gate' \in Gates
  BY GateFields DEF GateTypeOK, Gates
<1> QED BY <1>1, GateFields DEF GateTypeOK, GateSessions, Gates, GatePCs

LEMMA SessionKeeps ==
    ASSUME KernelIInv, KernelSession
    PROVE  KernelIInv'
<1> USE DEF KernelIInv
<1>1. UNCHANGED <<launched, unaging, host, hostTasks, hostGraphs, kernels, graph, staged, pending, runs, channel, consumer, lost,
                  recorded, epoch, wiped, drift, crossed, stale>>
  BY DEF KernelSession, kernelVars
<1>2. GateTypeOK' /\ GateSessions'
  BY <1>1, GateMoves DEF KernelTypeOK, KernelSession, GateStep
<1>3. KernelTypeOK'
  BY <1>1, <1>2 DEF KernelTypeOK
<1>4. HostsApart'
  BY <1>1 DEF HostsApart, Aging
<1>5. /\ gate'.pc \in {"off", "reopen"} => gate.pc \in {"off", "reopen"}
      /\ gate.pc # "clear"
      /\ gate'.zero /\ gate'.pc \in {"drain", "stop", "switch", "clear"} =>
            \/ gate.zero /\ gate.pc \in {"drain", "stop", "switch", "clear"}
            \/ pending = 0 /\ Quiet
  BY <1>1, GateMoves DEF KernelTypeOK, KernelSession, GateStep
<1>6. DrainHolds'
  <2>1. Waiting' = Waiting /\ Quiet' = Quiet
    BY <1>1, WaitingStays DEF Quiet
  <2>2. ASSUME pending = 0, Quiet PROVE Waiting = {}
    <3>1. Uncounted = {}
      BY <2>2 DEF Quiet, Uncounted
    <3>2. Cardinality(Uncounted) = 0 /\ Cardinality(Waiting) \in Nat /\ IsFiniteSet(Waiting) /\ drift \in Nat
      BY <3>1, ApartFinite, FS_EmptySet DEF KernelTypeOK
    <3>3. Cardinality(Waiting) = 0
      BY <2>2, <3>2 DEF PendingExact
    <3> QED BY <3>2, <3>3, FS_EmptySet
  <2> QED BY <1>5, <2>1, <2>2 DEF DrainHolds
<1>7. TimesHold'
  BY <1>1, TimesStay DEF TimesHold
<1> QED BY <1>1, <1>2, <1>3, <1>4, <1>5, <1>6, <1>7, EntriesStay, WaitsStay, RunsStay, ChannelStays, StagedStays, AgingStays, GraphStays,
        RecordedStays, PendingStays DEF TimesHold

----------------------------------------------------------------------------
(* A launch. *)

LEMMA LaunchGrows ==
    ASSUME KernelIInv, NEW k \in Keys, Len(launched) < MaxLaunches, launched' = Append(launched, k),
           unaging' = unaging \/ unaging' = unaging \cup {Len(launched) + 1},
           UNCHANGED <<hostTasks, kernels, runs, channel>>
    PROVE  /\ launched' \in Seq(Keys) /\ Len(launched) \in Nat /\ Len(launched') = Len(launched) + 1
           /\ Len(launched') <= MaxLaunches /\ launched'[Len(launched) + 1] = k
           /\ \A n \in 1 .. Len(launched) : launched'[n] = launched[n] /\ n \in 1 .. Len(launched')
           /\ \A m \in 1 .. Len(runs) : runs[m] \in 1 .. Len(launched) /\ RunKey(m)' = RunKey(m)
           /\ \A d, m : m \in 1 .. Len(runs) => (HasEnd(d, m)' <=> HasEnd(d, m))
           /\ \A n : HasEnded(n)' <=> HasEnded(n)
           /\ \A q : Whole(q)' = Whole(q) /\ \A n : InWhole(n, q)' <=> InWhole(n, q)
           /\ \A n, q : IsOf(n, q) => IsOf(n, q)'
           /\ \A n \in 1 .. Len(launched) : Aging(n)' <=> Aging(n)
           /\ \A l \in 1 .. Len(launched) : \A g : Claims(g, l) => Claims(g, l)'
           /\ Waiting' = Waiting
<1> USE DEF KernelIInv
<1>1. launched \in Seq(Keys) /\ Len(launched) \in Nat /\ MaxLaunches \in Nat
  BY KernelAssumption, NotEmpty DEF KernelTypeOK
<1>2. /\ launched' \in Seq(Keys) /\ Len(launched') = Len(launched) + 1 /\ launched'[Len(launched) + 1] = k
      /\ \A n \in 1 .. Len(launched) : launched'[n] = launched[n]
  BY <1>1, Appended
<1>3. \A n \in 1 .. Len(launched) : n \in 1 .. Len(launched')
  BY <1>1, <1>2
<1>4. \A m \in 1 .. Len(runs) : runs[m] \in 1 .. Len(launched) /\ RunKey(m)' = RunKey(m)
  BY <1>2 DEF RunsInOrder, RunKey
<1>5. \A d, m : m \in 1 .. Len(runs) => (HasEnd(d, m)' <=> HasEnd(d, m))
  BY <1>4 DEF HasEnd, EndIn, IsLog
<1>6. \A n : HasEnded(n)' <=> HasEnded(n)
  BY <1>4, <1>5 DEF HasEnded
<1>7. \A q : Whole(q)' = Whole(q)
  BY DEF Whole
<1>8. \A q : \A n : InWhole(n, q)' <=> InWhole(n, q)
  BY <1>7 DEF InWhole
<1>9. \A n, q : IsOf(n, q) => IsOf(n, q)'
  BY <1>2, <1>3 DEF IsOf
<1>11. \A n \in 1 .. Len(launched) : Aging(n)' <=> Aging(n)
  <2>1. \A n \in 1 .. Len(launched) : n # Len(launched) + 1
    BY <1>1
  <2> QED BY <2>1 DEF Aging
<1>12. ASSUME NEW l \in 1 .. Len(launched), NEW g, Claims(g, l) PROVE Claims(g, l)'
  <2>1. g \in unaging /\ launched[g] = launched[l] /\ \A m \in 1 .. g - 1 : launched[m] = launched[g] => Aging(m)
    BY <1>12 DEF Claims
  <2>2. g \in 1 .. Len(launched)
    BY <2>1, NotEmpty DEF KernelTypeOK
  <2>3. launched'[g] = launched[g] /\ launched'[l] = launched[l] /\ g \in unaging'
    BY <1>2, <2>1, <2>2
  <2>4. ASSUME NEW m \in 1 .. g - 1, launched'[m] = launched'[g] PROVE Aging(m)'
    <3>1. m \in 1 .. Len(launched)
      BY <1>1, <2>2
    <3>2. Aging(m)
      BY <1>2, <2>1, <2>3, <2>4, <3>1
    <3> QED BY <1>11, <3>1, <3>2
  <2> QED BY <2>1, <2>3, <2>4 DEF Claims
<1>10. Waiting' = Waiting
  <2>1. \A q \in Keys : \A n : InWhole(n, q) => n \in 1 .. Len(launched)
    BY DEF EntriesApart, InWhole, IsOf
  <2>2. \A n : n \in 1 .. Len(launched) => (Aging(n)' <=> Aging(n))
    BY <1>11
  <2>3. Waiting' = {n \in 1 .. Len(launched') : Aging(n)' /\ \E q \in Keys : InWhole(n, q)'}
    <3>1. DOMAIN launched' = 1 .. Len(launched')
      BY <1>2, NotEmpty
    <3>2. \A q \in Keys : \A n : (n \in Range(hostTasks[q]) \/ n \in Range(kernels[q])) <=> InWhole(n, q)
      BY WholeSequence DEF InWhole
    <3>3. ASSUME NEW n \in 1 .. Len(launched') PROVE AgingEntries'[n] <=> \E q \in Keys : InWhole(n, q)'
      BY <1>8, <3>1, <3>2 DEF AgingEntries
    <3> QED BY <3>1, <3>3 DEF Waiting
  <2> QED BY <1>3, <1>8, <2>1, <2>2, <2>3, WaitingIs
<1> QED BY <1>1, <1>2, <1>3, <1>4, <1>5, <1>6, <1>7, <1>8, <1>9, <1>10, <1>11, <1>12

LEMMA LaunchKeeps ==
    ASSUME KernelIInv, NEW t \in HostThreads, NEW k \in Keys, NEW aging \in BOOLEAN, ReportChecksSwitch(t, k, aging)
    PROVE  KernelIInv'
<1> USE DEF KernelIInv
<1>0. PICK n \in Nat : n = Len(launched) + 1
  BY NotEmpty DEF KernelTypeOK
<1>1. /\ host[t].pc = "idle" /\ Len(launched) < MaxLaunches /\ launched' = Append(launched, k)
      /\ UNCHANGED <<gate, hostTasks, hostGraphs, kernels, graph, staged, pending, runs, channel, consumer, lost,
                     recorded, epoch, wiped, drift, stale>>
      /\ unaging' = unaging \/ unaging' = unaging \cup {n}
      /\ \/ /\ host' = [host EXCEPT ![t] = [pc |-> "gate", launch |-> n, epoch |-> epoch]]
            /\ crossed' = crossed
         \/ crossed' = crossed \cup {k} /\ host' = host
  BY <1>0 DEF ReportChecksSwitch
<1>2. /\ launched' \in Seq(Keys) /\ Len(launched) \in Nat /\ Len(launched') = n
      /\ n <= MaxLaunches /\ launched'[n] = k
      /\ \A x \in 1 .. Len(launched) : launched'[x] = launched[x] /\ x \in 1 .. Len(launched')
      /\ \A m \in 1 .. Len(runs) : runs[m] \in 1 .. Len(launched) /\ RunKey(m)' = RunKey(m)
      /\ \A d, m : m \in 1 .. Len(runs) => (HasEnd(d, m)' <=> HasEnd(d, m))
      /\ \A x : HasEnded(x)' <=> HasEnded(x)
      /\ \A q : Whole(q)' = Whole(q) /\ \A x : InWhole(x, q)' <=> InWhole(x, q)
      /\ \A x, q : IsOf(x, q) => IsOf(x, q)'
      /\ \A x \in 1 .. Len(launched) : Aging(x)' <=> Aging(x)
      /\ \A l \in 1 .. Len(launched) : \A g : Claims(g, l) => Claims(g, l)'
      /\ Waiting' = Waiting
  BY <1>0, <1>1, LaunchGrows
<1>3. /\ host' \in [HostThreads -> [pc: {"idle", "gate", "push", "count"}, launch: {None} \cup Launches, epoch: 0 .. MaxSessions]]
      /\ \A u \in HostThreads \ {t} : host'[u] = host[u]
      /\ \/ host'[t] = [pc |-> "gate", launch |-> n, epoch |-> epoch] /\ crossed' = crossed
         \/ host'[t] = host[t] /\ crossed' = crossed \cup {k}
  <2>1. n \in Launches
    BY <1>0, <1>2, KernelAssumption DEF Launches
  <2>2. [pc |-> "gate", launch |-> n, epoch |-> epoch]
          \in [pc: {"idle", "gate", "push", "count"}, launch: {None} \cup Launches, epoch: 0 .. MaxSessions]
    BY <2>1 DEF KernelTypeOK
  <2>3. host \in [HostThreads -> [pc: {"idle", "gate", "push", "count"}, launch: {None} \cup Launches, epoch: 0 .. MaxSessions]]
    BY DEF KernelTypeOK
  <2> QED BY <1>1, <2>2, <2>3
<1>4. \A u \in HostThreads : host[u].launch \in {None} \cup 1 .. Len(launched) /\ host[u].launch # n
  <2> SUFFICES ASSUME NEW u \in HostThreads PROVE host[u].launch \in {None} \cup 1 .. Len(launched) /\ host[u].launch # n
    OBVIOUS
  <2>1. host[u].launch \in {None} \cup 1 .. Len(launched)
    BY DEF HostsApart
  <2> QED BY <1>0, <1>2, <2>1 DEF None
<1>5. KernelTypeOK'
  <2>1. crossed' \subseteq Keys
    BY <1>1 DEF KernelTypeOK
  <2>2. unaging' \subseteq DOMAIN launched'
    <3>1. DOMAIN launched = 1 .. Len(launched) /\ DOMAIN launched' = 1 .. Len(launched')
      BY <1>2, NotEmpty DEF KernelTypeOK
    <3>2. n \in DOMAIN launched'
      BY <1>0, <1>2, <3>1
    <3>3. DOMAIN launched \subseteq DOMAIN launched'
      BY <1>2, <3>1
    <3>4. unaging \subseteq DOMAIN launched
      BY DEF KernelTypeOK
    <3> QED BY <1>1, <3>2, <3>3, <3>4
  <2> QED BY <1>1, <1>2, <1>3, <2>1, <2>2 DEF KernelTypeOK, GateTypeOK
<1>6. GateSessions'
  BY <1>1 DEF GateSessions
<1>7. n \in 1 .. Len(launched') /\ n # None /\ n \notin 1 .. Len(launched)
  BY <1>0, <1>2 DEF None
<1>8. HostsApart'
  <2>1. ASSUME NEW u \in HostThreads
        PROVE /\ IF host'[u].pc = "idle" THEN host'[u].launch = None ELSE host'[u].launch \in 1 .. Len(launched')
              /\ host'[u].pc = "count" => Aging(host[u].launch)'
    <3>1. host[u].pc = "count" => host[u].launch \in 1 .. Len(launched) /\ Aging(host[u].launch)
      BY DEF HostsApart
    <3>2. host[u].pc = "count" => Aging(host[u].launch)'
      <4> DEFINE l == host[u].launch
      <4>1. host[u].pc = "count" => l \in 1 .. Len(launched) /\ Aging(l)
        BY <3>1
      <4>2. u # t \/ host[u].pc # "count"
        BY <1>1
      <4>3. host[u].pc = "count" => host'[u].launch = l
        BY <1>3, <4>2
      <4> HIDE DEF l
      <4>4. host[u].pc = "count" => l \notin unaging'
        BY <1>2, <4>1 DEF Aging
      <4> QED BY <4>3, <4>4 DEF Aging
    <3>3. host'[u].pc = "count" => host[u].pc = "count"
      BY <1>3
    <3>4. IF host'[u].pc = "idle" THEN host'[u].launch = None ELSE host'[u].launch \in 1 .. Len(launched')
      BY <1>2, <1>3, <1>7 DEF HostsApart
    <3> QED BY <3>2, <3>3, <3>4
  <2>2. ASSUME NEW u \in HostThreads, NEW v \in HostThreads, host'[u].launch = host'[v].launch
        PROVE u = v \/ host'[u].launch = None
    BY <1>3, <1>4, <2>2 DEF HostsApart
  <2>3. wiped' \subseteq 1 .. Len(launched')
    BY <1>1, <1>2 DEF HostsApart
  <2> QED BY <2>1, <2>2, <2>3 DEF HostsApart
<1>9. EntriesApart'
  <2>1. \A q \in Keys : ~InWhole(n, q)
    BY <1>7 DEF EntriesApart, InWhole, IsOf
  <2>2. n \notin wiped
    BY <1>7 DEF HostsApart
  <2>3. ASSUME NEW q \in Keys, NEW i \in 1 .. Len(Whole(q)') PROVE IsOf(Whole(q)[i], q)'
    <3>1. i \in 1 .. Len(Whole(q)) /\ IsOf(Whole(q)[i], q) /\ Whole(q)' = Whole(q)
      BY <1>2 DEF EntriesApart
    <3> QED BY <1>2, <3>1 DEF IsOf
  <2>4. \A u \in HostThreads : host'[u].pc \in {"gate", "push"} =>
          host'[u].launch \notin wiped /\ \A q \in Keys : ~InWhole(host'[u].launch, q)
    BY <1>3, <2>1, <2>2 DEF EntriesApart
  <2>6. \A u \in HostThreads : host'[u].pc \in {"gate", "push"} =>
          host'[u].launch \notin wiped' /\ \A q \in Keys : ~InWhole(host[u].launch, q)'
    BY <1>1, <1>2, <2>4
  <2>7. \A q \in Keys : \A i, j \in 1 .. Len(Whole(q)') : Whole(q)'[i] = Whole(q)'[j] => i = j
    BY <1>2 DEF EntriesApart
  <2> QED BY <2>3, <2>6, <2>7 DEF EntriesApart
<1>13. AgingWaits'
  <2> SUFFICES ASSUME NEW q \in Keys, NEW i \in 1 .. Len(Whole(q)) PROVE ~(Whole(q)[i] \in unaging')
    BY <1>2 DEF AgingWaits, Aging
  <2>1. Whole(q)[i] \in 1 .. Len(launched) /\ Aging(Whole(q)[i])
    BY DEF EntriesApart, IsOf, AgingWaits
  <2> QED BY <1>2, <2>1 DEF Aging
<1>10. RunsInOrder'
  <2>1. \A m \in 1 .. Len(runs) : Aging(runs[m])' <=> Aging(runs[m])
    <3>1. ASSUME NEW x \in 1 .. Len(launched) PROVE x \in unaging' <=> x \in unaging
      BY <1>2 DEF Aging
    <3> QED BY <1>1, <1>2, <3>1 DEF Aging
  <2>2. {m \in 1 .. Len(runs) : ~Aging(runs[m])'} = {m \in 1 .. Len(runs) : ~Aging(runs[m])}
    BY <2>1
  <2>3. ASSUME NEW m \in 1 .. Len(runs), NEW x \in 1 .. runs[m] - 1, launched'[x] = launched'[runs[m]], Aging(x)'
        PROVE \E e \in 1 .. m - 1 : runs[e] = x
    <3>1. x \in 1 .. Len(launched) /\ runs[m] \in 1 .. Len(launched)
      BY <1>2
    <3>2. launched[x] = launched[runs[m]] /\ Aging(x)
      BY <1>2, <2>3, <3>1
    <3> QED BY <3>1, <3>2 DEF RunsInOrder
  <2>4. \A m \in 1 .. Len(runs) : runs[m] \in 1 .. Len(launched')
    BY <1>2
  <2>5. \A m, e \in 1 .. Len(runs) : Aging(runs[m])' /\ runs[m] = runs[e] => m = e
    BY <2>1 DEF RunsInOrder
  <2>6. Cardinality({m \in 1 .. Len(runs) : ~Aging(runs[m])'}) <= MaxReplays
    BY <2>2 DEF RunsInOrder
  <2> QED BY <1>1, <2>3, <2>4, <2>5, <2>6 DEF RunsInOrder
<1>11. ChannelInOrder'
  <2>1. \A m \in 1 .. Len(runs) : launched'[runs'[m]] = launched[runs[m]]
    BY <1>1, <1>2
  <2> SUFFICES ASSUME NEW d \in Devices PROVE LogsPaired(d)' /\ EndsRise(d)' /\ EndsLast(d)'
    BY DEF ChannelInOrder
  <2>2. LogsPaired(d) /\ EndsRise(d) /\ EndsLast(d)
    BY DEF ChannelInOrder
  <2>3. LogsPaired(d)'
    BY <1>1, <2>1, <2>2 DEF LogsPaired, LogsIn, IsLog, RunKey
  <2>4. EndsRise(d)'
    BY <1>1, <2>2 DEF EndsRise, RiseIn
  <2>5. EndsLast(d)'
    <3> SUFFICES ASSUME NEW m \in 1 .. Len(runs), NEW x \in 1 .. Len(runs), m < x,
                        DeviceOf[RunKey(m)'] = d, DeviceOf[RunKey(x)'] = d, HasEnd(d, m)'
                 PROVE HasEnd(d, x)'
      BY <1>1 DEF EndsLast, RunKey
    <3>1. RunKey(m)' = RunKey(m) /\ RunKey(x)' = RunKey(x)
      BY <2>1 DEF RunKey
    <3>2. HasEnd(d, m)
      BY <1>1, <3>1 DEF HasEnd, EndIn, IsLog
    <3>3. HasEnd(d, x)
      BY <2>2, <3>1, <3>2 DEF EndsLast
    <3> QED BY <1>1, <3>1, <3>3 DEF HasEnd, EndIn, IsLog
  <2> QED BY <2>3, <2>4, <2>5
<1>12. StagedInOrder'
  BY <1>1 DEF StagedInOrder, NextIsEnd, At
<1>14. crossed \subseteq crossed' /\ (k \in crossed' \/ OnItsWay(n)')
  <2>1. crossed \subseteq crossed'
    BY <1>1
  <2>2. CASE host'[t] = [pc |-> "gate", launch |-> n, epoch |-> epoch]
    BY <2>1, <2>2 DEF OnItsWay
  <2>3. CASE crossed' = crossed \cup {k}
    BY <2>1, <2>3
  <2> QED BY <1>3, <2>2, <2>3
<1>15. AgingInOrder'
  <2> SUFFICES ASSUME NEW q \in Keys \ crossed', GraphOf(q) = None, NEW x \in 1 .. Len(launched'), launched'[x] = q
      PROVE \/ OnItsWay(x)' /\ ~HasEnded(x) /\ \A i \in 1 .. Len(Whole(q)) : Whole(q)[i] < x
            \/ ~HasEnded(x) /\ InWhole(x, q)
            \/ Aging(x)' /\ HasEnded(x) /\ ~OnItsWay(x)' /\ ~InWhole(x, q)
    <3>1. \A q \in Keys : GraphOf(q)' = GraphOf(q)
      BY <1>1 DEF GraphOf
    <3> QED BY <1>2, <1>14, <3>1 DEF AgingInOrder
  <2>1. CASE x = n
    <3>1. OnItsWay(n)'
      BY <1>2, <1>14, <2>1
    <3>2. ~HasEnded(n)
      BY <1>2, <1>7 DEF HasEnded
    <3>3. \A i \in 1 .. Len(Whole(q)) : Whole(q)[i] < n
      BY <1>0, <1>2 DEF EntriesApart, IsOf
    <3> QED BY <2>1, <3>1, <3>2, <3>3
  <2>2. CASE x # n
    <3>1. x \in 1 .. Len(launched) /\ launched[x] = q
      BY <1>0, <1>2, <2>2
    <3>2. \/ OnItsWay(x) /\ ~HasEnded(x) /\ \A i \in 1 .. Len(Whole(q)) : Whole(q)[i] < x
          \/ ~HasEnded(x) /\ InWhole(x, q)
          \/ Aging(x) /\ HasEnded(x) /\ ~OnItsWay(x) /\ ~InWhole(x, q)
      BY <1>14, <3>1 DEF AgingInOrder
    <3>3. (OnItsWay(x) => OnItsWay(x)') /\ (OnItsWay(x)' => OnItsWay(x))
      BY SMTT(20), <1>1, <1>3, <2>2 DEF OnItsWay
    <3>4. Aging(x)' <=> Aging(x)
      BY <1>2, <3>1
    <3> QED BY <3>2, <3>3, <3>4
  <2> QED BY <2>1, <2>2
<1>16. GraphInOrder'
  <2> SUFFICES ASSUME NEW q \in Keys, GraphOf(q) # None
      PROVE /\ IsOf(GraphOf(q), q)' /\ ~(GraphOf(q) \notin unaging')
            /\ q \notin crossed' => \A x \in 1 .. GraphOf(q) - 1 : launched'[x] = q => x \notin unaging'
    <3>1. \A q \in Keys : GraphOf(q)' = GraphOf(q)
      BY <1>1 DEF GraphOf
    <3> QED BY <3>1 DEF GraphInOrder, Aging, IsOf
  <2>1. IsOf(GraphOf(q), q) /\ GraphOf(q) \in unaging
    BY DEF GraphInOrder, Aging
  <2>2. IsOf(GraphOf(q), q)'
    <3>1. GraphOf(q)' = GraphOf(q)
      BY <1>1 DEF GraphOf
    <3> QED BY <1>2, <2>1, <3>1 DEF IsOf
  <2>3. GraphOf(q) \in unaging'
    BY <1>1, <2>1
  <2>4. ASSUME q \notin crossed', NEW x \in 1 .. GraphOf(q) - 1, launched'[x] = q PROVE x \notin unaging'
    <3>1. x \in 1 .. Len(launched)
      BY <1>2, <2>1 DEF IsOf
    <3>2. launched[x] = q /\ q \notin crossed
      BY <1>2, <1>14, <2>4, <3>1
    <3>3. Aging(x)
      BY <3>2 DEF GraphInOrder
    <3> QED BY <1>2, <3>1, <3>3 DEF Aging
  <2> QED BY <2>2, <2>3, <2>4
<1>17. AllRecorded'
  <2>1. ASSUME NEW m \in 1 .. Len(runs), NEW r \in recorded, r.launch = runs[m] \/ Claims(r.launch, runs[m])
        PROVE r.launch = runs[m] \/ Claims(r.launch, runs[m])'
    BY <1>1, <1>2, <2>1
  <2> QED BY <1>1, <1>2, <1>14, <2>1 DEF AllRecorded
<1>18. Uncounted' = Uncounted
  <2>1. \A u \in HostThreads : host'[u].pc = "count" /\ host'[u].launch \notin wiped'
                              <=> host[u].pc = "count" /\ host[u].launch \notin wiped
    BY <1>1, <1>3
  <2> QED BY <2>1 DEF Uncounted
<1>19. DrainHolds'
  BY <1>1, <1>2, <1>3 DEF DrainHolds, Quiet
<1>20. PendingExact'
  BY <1>1, <1>2, <1>18 DEF PendingExact
<1>21. TimesHold'
  <2>1. KernelOwnTimes'
    <3> SUFFICES ASSUME NEW r \in recorded, ~r.crossed
        PROVE (runs[r.end] = r.launch \/ Claims(r.launch, runs[r.end])') /\ r.start = r.end
      BY <1>1 DEF KernelOwnTimes
    <3>1. r.end \in 1 .. Len(runs)
      OBVIOUS
    <3>2. runs[r.end] \in 1 .. Len(launched)
      BY <1>2, <3>1
    <3>3. r.start = r.end /\ (runs[r.end] = r.launch \/ Claims(r.launch, runs[r.end]))
      BY DEF KernelOwnTimes
    <3>4. ASSUME NEW x \in 1 .. Len(launched), Claims(r.launch, x) PROVE Claims(r.launch, x)'
      BY <1>2, <3>4
    <3>5. Claims(r.launch, runs[r.end]) => Claims(r.launch, runs[r.end])'
      BY <1>1, <3>2, <3>4
    <3> QED BY <3>3, <3>5
  <2> QED BY <1>1, <2>1 DEF TimesHold, PairsOneRun
<1> QED BY <1>5, <1>6, <1>8, <1>9, <1>10, <1>11, <1>12, <1>13, <1>15, <1>16, <1>17, <1>19, <1>20, <1>21 DEF TimesHold

----------------------------------------------------------------------------
(* A thread that only moves: to where its launch still is its own, or away.  *)

HostRecords == [pc: {"idle", "gate", "push", "count"}, launch: {None} \cup Launches, epoch: 0 .. MaxSessions]

LEMMA HostMoves ==
    ASSUME KernelIInv, NEW t \in HostThreads, NEW h \in HostRecords, host' = [host EXCEPT ![t] = h],
           host[t].pc # "idle", UNCHANGED <<launched, unaging, wiped>>,
           IF h.pc = "idle" THEN h.launch = None ELSE h.launch = host[t].launch,
           h.pc = "count" => Aging(h.launch)
    PROVE  /\ host' \in [HostThreads -> HostRecords] /\ host'[t] = h
           /\ \A u \in HostThreads \ {t} : host'[u] = host[u]
           /\ host[t].launch \in 1 .. Len(launched) /\ host[t].launch # None
           /\ HostsApart'
<1> USE DEF KernelIInv
<1>1. host \in [HostThreads -> HostRecords] /\ Len(launched) \in Nat
  BY NotEmpty DEF KernelTypeOK, HostRecords
<1>2. host' \in [HostThreads -> HostRecords] /\ host'[t] = h /\ \A u \in HostThreads \ {t} : host'[u] = host[u]
  BY <1>1
<1>3. host[t].launch \in 1 .. Len(launched)
  BY DEF HostsApart
<1>4. host[t].launch # None
  BY <1>1, <1>3 DEF None
<1>5. ASSUME NEW u \in HostThreads
      PROVE /\ IF host'[u].pc = "idle" THEN host'[u].launch = None ELSE host'[u].launch \in 1 .. Len(launched)
            /\ host'[u].pc = "count" => Aging(host'[u].launch)
  <2>1. CASE u = t
    BY <1>2, <1>3, <2>1
  <2>2. CASE u # t
    BY <1>2, <2>2 DEF HostsApart
  <2> QED BY <2>1, <2>2
<1>6. ASSUME NEW u \in HostThreads, NEW v \in HostThreads, host'[u].launch = host'[v].launch
      PROVE u = v \/ host'[u].launch = None
  <2>1. \A w \in HostThreads : host'[w].launch = host[w].launch \/ host'[w].launch = None
    BY <1>2
  <2> QED BY <1>6, <2>1 DEF HostsApart
<1> QED BY <1>2, <1>3, <1>4, <1>5, <1>6 DEF HostsApart, Aging

LEMMA GateCheckKeeps ==
    ASSUME KernelIInv, NEW t \in HostThreads, NEW isKernel \in BOOLEAN, ReportChecksGate(t, isKernel)
    PROVE  KernelIInv'
<1> USE DEF KernelIInv
<1>0. PICK n : n = host[t].launch
  OBVIOUS
<1>1. PICK h : /\ host' = [host EXCEPT ![t] = h]
               /\ \/ h = IdleHost /\ crossed' = crossed \cup {launched[n]}
                  \/ h = [host[t] EXCEPT !.pc = "push"] /\ crossed' = crossed /\ ~gate.unregistering
  BY <1>0 DEF ReportChecksGate, RefusesReport
<1>2. /\ host[t].pc = "gate"
      /\ UNCHANGED <<gate, launched, unaging, hostTasks, hostGraphs, kernels, graph, staged, pending, runs, channel, consumer,
                     lost, recorded, epoch, wiped, drift, stale>>
  BY DEF ReportChecksGate
<1>3. host[t] \in HostRecords
  BY DEF KernelTypeOK, HostRecords
<1>4. /\ h \in HostRecords
      /\ IF h.pc = "idle" THEN h.launch = None ELSE h.launch = host[t].launch
      /\ h.pc \in {"idle", "push"}
      /\ \/ h.pc = "idle" /\ crossed' = crossed \cup {launched[n]}
         \/ h.pc = "push" /\ crossed' = crossed /\ ~gate.unregistering
  BY <1>1, <1>3, GateAssumption DEF HostRecords, IdleHost
<1>5. /\ host' \in [HostThreads -> HostRecords] /\ host'[t] = h
      /\ \A u \in HostThreads \ {t} : host'[u] = host[u]
      /\ n \in 1 .. Len(launched) /\ n # None
      /\ HostsApart'
  BY <1>0, <1>1, <1>2, <1>4, HostMoves
<1>6. KernelTypeOK'
  <2>1. launched[n] \in Keys /\ crossed' \subseteq Keys
    <3>1. launched[n] \in Keys
      BY <1>5, ElementOfSeq DEF KernelTypeOK
    <3> QED BY <1>1, <3>1 DEF KernelTypeOK
  <2> QED BY <1>2, <1>5, <2>1 DEF KernelTypeOK, GateTypeOK, HostRecords
<1>7. GateSessions'
  BY <1>2 DEF GateSessions
<1>8. EntriesApart'
  <2>1. \A k : Whole(k)' = Whole(k)
    BY <1>2 DEF Whole
  <2>2. ASSUME NEW u \in HostThreads, host'[u].pc \in {"gate", "push"}
        PROVE host[u].pc \in {"gate", "push"} /\ host'[u].launch = host[u].launch
    BY <1>2, <1>4, <1>5, <2>2
  <2>3. ASSUME NEW u \in HostThreads, host'[u].pc \in {"gate", "push"}
        PROVE host'[u].launch \notin wiped /\ \A k \in Keys : ~InWhole(host[u].launch, k)'
    BY <1>2, <2>1, <2>2, <2>3 DEF EntriesApart, InWhole
  <2> QED BY <1>2, <2>1, <2>3 DEF EntriesApart, IsOf
<1>9. StagedInOrder'
  BY <1>1, <1>2 DEF StagedInOrder, NextIsEnd, At
<1>10. crossed \subseteq crossed'
  BY <1>1
<1>11. ASSUME NEW x \in 1 .. Len(launched), launched[x] \notin crossed'
       PROVE OnItsWay(x)' <=> OnItsWay(x)
  <2>1. h.pc = "push" \/ x # n
    BY <1>1, <1>4, <1>11
  <2> QED BY <1>0, <1>2, <1>4, <1>5, <2>1 DEF OnItsWay
<1>12. AgingInOrder'
  <2> SUFFICES ASSUME NEW q \in Keys \ crossed', GraphOf(q) = None
      PROVE /\ \A i, j \in 1 .. Len(Whole(q)) : i < j => Whole(q)[i] < Whole(q)[j]
            /\ \A x \in 1 .. Len(launched) : launched[x] = q =>
                  \/ OnItsWay(x)' /\ ~HasEnded(x) /\ \A i \in 1 .. Len(Whole(q)) : Whole(q)[i] < x
                  \/ ~HasEnded(x) /\ InWhole(x, q)
                  \/ Aging(x) /\ HasEnded(x) /\ ~OnItsWay(x)' /\ ~InWhole(x, q)
    <3>2. \A k : Whole(k)' = Whole(k) /\ (\A x : InWhole(x, k)' <=> InWhole(x, k)) /\ GraphOf(k)' = GraphOf(k)
      BY <1>2 DEF Whole, InWhole, GraphOf
    <3>3. \A x : HasEnded(x)' <=> HasEnded(x)
      <4>1. UNCHANGED <<runs, launched, channel>>
        BY <1>2
      <4>2. \A e, m : (HasEnd(e, m)' <=> HasEnd(e, m)) /\ RunKey(m)' = RunKey(m)
        BY <4>1 DEF HasEnd, EndIn, RunKey
      <4> QED BY <4>1, <4>2 DEF HasEnded
    <3> QED BY <1>2, <3>2, <3>3 DEF AgingInOrder, Aging
  <2> QED BY <1>10, <1>11 DEF AgingInOrder
<1>13. GraphInOrder' /\ AgingWaits'
  BY <1>2, <1>10, GraphStays, WaitsStay
<1>14. AllRecorded'
  BY <1>2, <1>10, ClaimsStay DEF AllRecorded, RunKey, HasEnd, EndIn, IsLog
<1>15. Uncounted' = Uncounted /\ Waiting' = Waiting
  <2>1. \A u \in HostThreads : (host'[u].pc = "count" <=> host[u].pc = "count") /\ (host[u].pc = "count" => host'[u] = host[u])
    BY <1>2, <1>4, <1>5
  <2> QED BY <1>2, <2>1, WaitingStays DEF Uncounted
<1>16. PendingExact'
  BY <1>2, <1>15 DEF PendingExact
<1>17. DrainHolds'
  <2> SUFFICES ASSUME gate.zero, gate.pc \in {"drain", "stop", "switch", "clear"} PROVE Waiting = {} /\ Quiet'
    BY <1>2, <1>15 DEF DrainHolds
  <2>1. h.pc = "idle"
    BY <1>4 DEF GateSessions
  <2> QED BY <1>5, <2>1 DEF DrainHolds, Quiet
<1>18. RunsInOrder' /\ ChannelInOrder' /\ TimesHold'
  BY <1>2, RunsStay, ChannelStays, TimesStay DEF TimesHold
<1> QED BY <1>5, <1>6, <1>7, <1>8, <1>9, <1>12, <1>13, <1>14, <1>16, <1>17, <1>18 DEF TimesHold

LEMMA CountKeeps ==
    ASSUME KernelIInv, NEW t \in HostThreads, ReportCounts(t)
    PROVE  KernelIInv'
<1> USE DEF KernelIInv
<1>1. /\ host[t].pc = "count" /\ pending' = pending + 1
      /\ drift' = drift + (IF host[t].launch \in wiped THEN 1 ELSE 0)
      /\ host' = [host EXCEPT ![t] = IdleHost]
      /\ UNCHANGED <<gate, launched, unaging, hostTasks, hostGraphs, kernels, graph, staged, runs, channel, consumer, lost,
                     recorded, epoch, wiped, crossed, stale>>
  BY DEF ReportCounts
<1>2. /\ host' \in [HostThreads -> HostRecords] /\ host'[t] = IdleHost
      /\ \A u \in HostThreads \ {t} : host'[u] = host[u]
      /\ HostsApart'
  <2>1. IdleHost \in HostRecords /\ IdleHost.pc = "idle" /\ IdleHost.launch = None
    BY GateAssumption DEF HostRecords, IdleHost
  <2> QED BY <1>1, <2>1, HostMoves
<1>3. KernelTypeOK'
  BY <1>1, <1>2 DEF KernelTypeOK, GateTypeOK, HostRecords
<1>4. GateSessions'
  BY <1>1 DEF GateSessions
<1>5. \A u \in HostThreads : (host'[u].pc \in {"gate", "push"} <=> host[u].pc \in {"gate", "push"})
                             /\ (host[u].pc \in {"gate", "push"} => host'[u] = host[u])
  BY <1>1, <1>2 DEF IdleHost
<1>6. \A x : OnItsWay(x)' <=> OnItsWay(x)
  BY <1>5 DEF OnItsWay
<1>7. EntriesApart'
  <2>1. \A k : Whole(k)' = Whole(k)
    BY <1>1 DEF Whole
  <2>2. ASSUME NEW u \in HostThreads, host'[u].pc \in {"gate", "push"}
        PROVE host'[u].launch \notin wiped /\ \A k \in Keys : ~InWhole(host[u].launch, k)'
    BY <1>1, <1>5, <2>1, <2>2 DEF EntriesApart, InWhole
  <2>3. \A k \in Keys : \A i \in 1 .. Len(Whole(k)') : IsOf(Whole(k)[i], k)'
    BY <1>1, <2>1 DEF EntriesApart, IsOf
  <2>5. \A k \in Keys : \A i, j \in 1 .. Len(Whole(k)') : Whole(k)'[i] = Whole(k)'[j] => i = j
    BY <2>1 DEF EntriesApart
  <2>6. \A u \in HostThreads : host'[u].pc \in {"gate", "push"} =>
          host'[u].launch \notin wiped' /\ \A k \in Keys : ~InWhole(host[u].launch, k)'
    BY <1>1, <2>2
  <2> QED BY <2>3, <2>5, <2>6 DEF EntriesApart
<1>8. AgingInOrder'
  <2>1. \A k : Whole(k)' = Whole(k) /\ (\A x : InWhole(x, k)' <=> InWhole(x, k)) /\ GraphOf(k)' = GraphOf(k)
    BY <1>1 DEF Whole, InWhole, GraphOf
  <2>2. \A x : HasEnded(x)' <=> HasEnded(x)
    BY <1>1 DEF HasEnded, HasEnd, EndIn, RunKey, IsLog
  <2> QED BY <1>1, <1>6, <2>1, <2>2 DEF AgingInOrder, Aging
<1>9. GraphInOrder' /\ AgingWaits'
  BY <1>1, GraphStays, WaitsStay
<1>10. PendingExact'
  <2>1. Uncounted' = {u \in HostThreads : host'[u].pc = "count" /\ host'[u].launch \notin wiped} /\ Waiting' = Waiting
    BY <1>1, WaitingStays DEF Uncounted
  <2>2. IsFiniteSet(Uncounted) /\ Cardinality(Uncounted) \in Nat /\ Cardinality(Waiting) \in Nat /\ drift \in Nat /\ pending \in Int
    BY ApartFinite DEF KernelTypeOK
  <2>3. CASE host[t].launch \in wiped
    <3>1. Uncounted' = Uncounted
      BY <1>2, <2>1, <2>3 DEF Uncounted, IdleHost
    <3>2. drift' = drift + 1
      BY <1>1, <2>3
    <3>3. Cardinality(Uncounted') = Cardinality(Uncounted) /\ Cardinality(Waiting') = Cardinality(Waiting)
      BY <2>1, <3>1
    <3> QED BY <1>1, <2>2, <3>2, <3>3 DEF PendingExact
  <2>4. CASE host[t].launch \notin wiped
    <3>1. Uncounted' = Uncounted \ {t} /\ t \in Uncounted
      BY <1>1, <1>2, <2>1, <2>4 DEF Uncounted, IdleHost
    <3>2. Cardinality(Uncounted') = Cardinality(Uncounted) - 1
      BY <2>2, <3>1, FS_RemoveElement
    <3>3. drift' = drift /\ Cardinality(Waiting') = Cardinality(Waiting)
      BY <1>1, <2>1, <2>2, <2>4
    <3> QED BY <1>1, <2>2, <3>2, <3>3 DEF PendingExact
  <2> QED BY <2>3, <2>4
<1>11. DrainHolds'
  <2>1. Waiting' = Waiting
    BY <1>1, WaitingStays
  <2> QED BY <1>1, <1>2, <2>1 DEF DrainHolds, Quiet, IdleHost
<1>12. StagedInOrder' /\ AllRecorded' /\ RunsInOrder' /\ ChannelInOrder' /\ TimesHold'
  BY <1>1, StagedStays, RecordedStays, RunsStay, ChannelStays, TimesStay DEF TimesHold
<1> QED BY <1>2, <1>3, <1>4, <1>7, <1>8, <1>9, <1>10, <1>11, <1>12 DEF TimesHold

----------------------------------------------------------------------------
(* A push: the launch comes after all that waits under its key. *)

LEMMA PushGrows ==
    ASSUME KernelIInv, NEW l \in Launches, NEW k \in Keys, UNCHANGED kernels,
           hostTasks' = [hostTasks EXCEPT ![k] = Append(@, l)]
    PROVE  /\ hostTasks' \in [Keys -> Seq(Launches)] /\ hostTasks'[k] = Append(hostTasks[k], l)
           /\ \A q \in Keys \ {k} : hostTasks'[q] = hostTasks[q] /\ Whole(q)' = Whole(q)
           /\ Len(Whole(k)) \in Nat /\ Len(Whole(k)') = Len(Whole(k)) + 1
           /\ \A i \in 1 .. Len(Whole(k)) : Whole(k)'[i] = Whole(k)[i]
           /\ Whole(k)'[Len(Whole(k)) + 1] = l
<1> USE DEF KernelIInv
<1>1. kernels[k] \in Seq(Launches) /\ hostTasks[k] \in Seq(Launches) /\ Whole(k) \in Seq(Launches)
  BY WholeSequence
<1>2. hostTasks \in [Keys -> Seq(Launches)]
  BY DEF KernelTypeOK
<1>3. hostTasks'[k] = Append(hostTasks[k], l) /\ \A q \in Keys \ {k} : hostTasks'[q] = hostTasks[q]
  BY <1>2
<1>4. Append(hostTasks[k], l) \in Seq(Launches) /\ Append(hostTasks[k], l) # <<>>
  <2>1. Append(hostTasks[k], l) \in Seq(Launches) /\ Len(Append(hostTasks[k], l)) = Len(hostTasks[k]) + 1
    BY <1>1, Appended
  <2>2. Len(hostTasks[k]) \in Nat
    BY <1>1
  <2> QED BY <2>1, <2>2
<1>5. hostTasks' \in [Keys -> Seq(Launches)]
  BY <1>2, <1>4
<1>6. Whole(k)' = Append(Whole(k), l)
  <2> DEFINE s == kernels[k]
             r == hostTasks[k]
  <2>1. Whole(k)' = s \o Append(r, l) /\ Whole(k) = s \o r /\ s \in Seq(Launches) /\ r \in Seq(Launches)
    BY <1>1, <1>3 DEF Whole
  <2> HIDE DEF s, r
  <2> QED BY <2>1, JoinedAppended
<1>7. \A q \in Keys \ {k} : Whole(q)' = Whole(q)
  BY <1>3 DEF Whole
<1>8. /\ Len(Whole(k)) \in Nat /\ Len(Append(Whole(k), l)) = Len(Whole(k)) + 1
      /\ \A i \in 1 .. Len(Whole(k)) : Append(Whole(k), l)[i] = Whole(k)[i]
      /\ Append(Whole(k), l)[Len(Whole(k)) + 1] = l
  BY <1>1, Appended
<1> QED BY <1>3, <1>4, <1>5, <1>6, <1>7, <1>8

LEMMA AgingPushKeeps ==
    ASSUME KernelIInv, NEW t \in HostThreads, ReportPushes(t), Aging(host[t].launch)
    PROVE  KernelIInv'
<1> USE DEF KernelIInv
<1>0. PICK l, k : l = host[t].launch /\ k = launched[l]
  OBVIOUS
<1>a. Aging(l)
  BY <1>0
<1>1. /\ host[t].pc = "push"
      /\ hostTasks' = [hostTasks EXCEPT ![k] = Append(@, l)]
      /\ host' = [host EXCEPT ![t] = [host[t] EXCEPT !.pc = "count"]]
      /\ crossed' = IF host[t].epoch # epoch \/ Overtakes(l) THEN crossed \cup {k} ELSE crossed
      /\ UNCHANGED <<gate, launched, unaging, hostGraphs, kernels, graph, staged, pending, runs, channel, consumer, lost,
                     recorded, epoch, wiped, drift, stale>>
  <2>1. [host EXCEPT ![t] = IF Aging(l) THEN [@ EXCEPT !.pc = "count"] ELSE IdleHost]
          = [host EXCEPT ![t] = [host[t] EXCEPT !.pc = "count"]]
    BY <1>a DEF KernelTypeOK
  <2> QED BY <1>0, <1>a, <2>1 DEF ReportPushes
<1>2. PICK h \in HostRecords : host' = [host EXCEPT ![t] = h] /\ h.pc = "count" /\ h.launch = l
  <2>1. host[t] \in HostRecords
    BY DEF KernelTypeOK, HostRecords
  <2> DEFINE h == [host[t] EXCEPT !.pc = "count"]
  <2>2. h \in HostRecords /\ h.pc = "count" /\ h.launch = l
    BY <1>0, <2>1 DEF HostRecords
  <2> QED BY <1>1, <2>2
<1>3. /\ host' \in [HostThreads -> HostRecords] /\ host'[t] = h
      /\ \A u \in HostThreads \ {t} : host'[u] = host[u]
      /\ l \in 1 .. Len(launched) /\ l # None
      /\ HostsApart'
  <2>1. IF h.pc = "idle" THEN h.launch = None ELSE h.launch = host[t].launch
    BY <1>0, <1>2
  <2>2. h.pc = "count" => Aging(h.launch)
    BY <1>2, <1>a
  <2> QED BY <1>0, <1>1, <1>2, <2>1, <2>2, HostMoves
<1>4. l \in Launches /\ k \in Keys /\ IsOf(l, k)
  <2>1. launched \in Seq(Keys) /\ Len(launched) <= MaxLaunches /\ Len(launched) \in Nat
    BY NotEmpty DEF KernelTypeOK
  <2>2. l \in Launches /\ k \in Keys
    BY <1>0, <1>3, <2>1, ElementOfSeq, KernelAssumption DEF Launches
  <2> QED BY <1>0, <1>3, <2>2 DEF IsOf
<1>5. /\ hostTasks' \in [Keys -> Seq(Launches)] /\ hostTasks'[k] = Append(hostTasks[k], l)
      /\ \A q \in Keys \ {k} : hostTasks'[q] = hostTasks[q] /\ Whole(q)' = Whole(q)
      /\ Len(Whole(k)) \in Nat /\ Len(Whole(k)') = Len(Whole(k)) + 1
      /\ \A i \in 1 .. Len(Whole(k)) : Whole(k)'[i] = Whole(k)[i]
      /\ Whole(k)'[Len(Whole(k)) + 1] = l
  BY <1>1, <1>4, PushGrows
<1>6. KernelTypeOK'
  <2>1. crossed' \subseteq Keys
    BY <1>1, <1>4 DEF KernelTypeOK
  <2> QED BY <1>1, <1>3, <1>5, <2>1 DEF KernelTypeOK, GateTypeOK, HostRecords
<1>7. GateSessions'
  BY <1>1 DEF GateSessions
<1>8. \A q \in Keys : ~InWhole(l, q)
  BY <1>0, <1>1 DEF EntriesApart
<1>9. \A q \in Keys : \A x : InWhole(x, q)' <=> InWhole(x, q) \/ (q = k /\ x = l)
  <2> TAKE q \in Keys
  <2>1. CASE q # k
    <3>1. Whole(q)' = Whole(q)
      BY <1>5, <2>1
    <3> QED BY <2>1, <3>1 DEF InWhole
  <2>2. CASE q = k
    <3>1. 1 .. Len(Whole(k)') = 1 .. Len(Whole(k)) \cup {Len(Whole(k)) + 1}
      BY <1>5
    <3> QED BY <1>5, <2>2, <3>1 DEF InWhole
  <2> QED BY <2>1, <2>2
<1>10. ASSUME NEW x PROVE OnItsWay(x)' <=> OnItsWay(x) /\ x # l
  <2>1. \A u \in HostThreads \ {t} : host[u].launch # l
    BY <1>0, <1>3 DEF HostsApart
  <2> QED BY <1>0, <1>1, <1>2, <1>3, <2>1 DEF OnItsWay
<1>11. crossed \subseteq crossed'
  BY <1>1
<1>12. EntriesApart'
  <2>1. ASSUME NEW q \in Keys
        PROVE /\ \A i \in 1 .. Len(Whole(q)') : Whole(q)'[i] \in 1 .. Len(launched) /\ launched[Whole(q)'[i]] = q
              /\ \A i, j \in 1 .. Len(Whole(q)') : Whole(q)'[i] = Whole(q)'[j] => i = j
    <3>1. CASE q # k
      <4>1. Whole(q)' = Whole(q)
        BY <1>5, <3>1
      <4> QED BY <4>1 DEF EntriesApart, IsOf
    <3>2. CASE q = k
      <4>1. 1 .. Len(Whole(k)') = 1 .. Len(Whole(k)) \cup {Len(Whole(k)) + 1}
        BY <1>5
      <4>2. \A i \in 1 .. Len(Whole(k)) : Whole(k)'[i] # l /\ Whole(k)'[i] \in 1 .. Len(launched) /\ launched[Whole(k)'[i]] = k
        BY <1>4, <1>5, <1>8 DEF EntriesApart, IsOf, InWhole
      <4>3. \A i, j \in 1 .. Len(Whole(k)) : Whole(k)'[i] = Whole(k)'[j] => i = j
        BY <1>4, <1>5 DEF EntriesApart
      <4>0. PICK n, w : n \in Nat /\ n = Len(Whole(k)) /\ w = Whole(k)'
        BY <1>5
      <4>4. 1 .. Len(w) = 1 .. n \cup {n + 1} /\ w[n + 1] = l
        BY <1>5, <4>0, <4>1
      <4>5. \A i \in 1 .. n : w[i] # l /\ w[i] \in 1 .. Len(launched) /\ launched[w[i]] = k
        BY <4>0, <4>2
      <4>6. \A i, j \in 1 .. n : w[i] = w[j] => i = j
        BY <4>0, <4>3
      <4>7. \A i \in 1 .. Len(w) : w[i] \in 1 .. Len(launched) /\ launched[w[i]] = k
        BY <1>3, <1>4, <4>0, <4>4, <4>5 DEF IsOf
      <4>8. \A i, j \in 1 .. Len(w) : w[i] = w[j] => i = j
        <5> SUFFICES ASSUME NEW i \in 1 .. Len(w), NEW j \in 1 .. Len(w), w[i] = w[j] PROVE i = j
          OBVIOUS
        <5>1. CASE i \in 1 .. n /\ j \in 1 .. n
          BY <4>6, <5>1
        <5>2. CASE i = n + 1 \/ j = n + 1
          BY <4>4, <4>5, <5>2
        <5> QED BY <4>4, <5>1, <5>2
      <4> QED BY <3>2, <4>0, <4>7, <4>8
    <3> QED BY <3>1, <3>2
  <2>2. ASSUME NEW u \in HostThreads, host'[u].pc \in {"gate", "push"}
        PROVE host'[u].launch \notin wiped /\ \A q \in Keys : ~InWhole(host[u].launch, q)'
    <3>1. u # t /\ host'[u] = host[u]
      BY <1>2, <1>3, <2>2
    <3>2. host[u].launch # l
      BY <1>0, <1>3, <3>1 DEF HostsApart
    <3>3. host[u].launch \notin wiped /\ \A q \in Keys : ~InWhole(host[u].launch, q)
      BY <2>2, <3>1 DEF EntriesApart
    <3>4. PICK x : x = host[u].launch /\ x = host'[u].launch
      BY <3>1
    <3>5. \A q \in Keys : ~InWhole(x, q)'
      BY <1>9, <3>2, <3>3, <3>4
    <3> QED BY <3>1, <3>3, <3>4, <3>5 DEF InWhole
  <2> QED BY <1>1, <2>1, <2>2 DEF EntriesApart, IsOf
<1>13. StagedInOrder'
  BY <1>1, <1>11 DEF StagedInOrder, NextIsEnd, At
<1>14. ~OnItsWay(l)' /\ OnItsWay(l)
  BY <1>0, <1>1, <1>10 DEF OnItsWay
<1>15. \A x \in 1 .. l - 1 : launched[x] = k /\ OnItsWay(x) => k \in crossed'
  BY <1>0, <1>1 DEF Overtakes, OnItsWay
<1>16. AgingInOrder'
  <2>1. \A x : HasEnded(x)' <=> HasEnded(x)
    BY <1>1 DEF HasEnded, HasEnd, EndIn, RunKey, IsLog
  <2>0. \A q : GraphOf(q)' = GraphOf(q)
    BY <1>1 DEF GraphOf
  <2> SUFFICES ASSUME NEW q \in Keys \ crossed', GraphOf(q) = None
      PROVE /\ \A i, j \in 1 .. Len(Whole(q)') : i < j => Whole(q)'[i] < Whole(q)'[j]
            /\ \A x \in 1 .. Len(launched) : launched[x] = q =>
                  \/ OnItsWay(x)' /\ ~HasEnded(x) /\ \A i \in 1 .. Len(Whole(q)') : Whole(q)'[i] < x
                  \/ ~HasEnded(x) /\ InWhole(x, q)'
                  \/ Aging(x) /\ HasEnded(x) /\ ~OnItsWay(x)' /\ ~InWhole(x, q)'
    BY <1>1, <2>0, <2>1 DEF AgingInOrder, Aging
  <2>2. /\ \A i, j \in 1 .. Len(Whole(q)) : i < j => Whole(q)[i] < Whole(q)[j]
        /\ \A x \in 1 .. Len(launched) : launched[x] = q =>
              \/ OnItsWay(x) /\ ~HasEnded(x) /\ \A i \in 1 .. Len(Whole(q)) : Whole(q)[i] < x
              \/ ~HasEnded(x) /\ InWhole(x, q)
              \/ Aging(x) /\ HasEnded(x) /\ ~OnItsWay(x) /\ ~InWhole(x, q)
    BY <1>11 DEF AgingInOrder
  <2>3. CASE q # k
    <3>1. Whole(q)' = Whole(q)
      BY <1>5, <2>3
    <3>2. ASSUME NEW x \in 1 .. Len(launched), launched[x] = q
          PROVE (OnItsWay(x)' <=> OnItsWay(x)) /\ (InWhole(x, q)' <=> InWhole(x, q))
      <4>1. x # l
        BY <1>0, <2>3, <3>2
      <4> QED BY <1>9, <1>10, <4>1
    <3> QED BY <2>2, <3>1, <3>2
  <2>4. CASE q = k
    <3>1. 1 .. Len(Whole(k)') = 1 .. Len(Whole(k)) \cup {Len(Whole(k)) + 1}
      BY <1>5
    <3>2. ~HasEnded(l) /\ \A i \in 1 .. Len(Whole(k)) : Whole(k)[i] < l
      BY <1>0, <1>3, <1>4, <1>8, <1>14, <2>2, <2>4
    <3>3. ASSUME NEW i \in 1 .. Len(Whole(k)'), NEW j \in 1 .. Len(Whole(k)'), i < j PROVE Whole(k)'[i] < Whole(k)'[j]
      <4>1. i \in 1 .. Len(Whole(k))
        BY <1>5, <3>3
      <4> QED BY <1>5, <2>2, <2>4, <3>1, <3>2, <3>3, <4>1
    <3>4. ASSUME NEW x \in 1 .. Len(launched), launched[x] = k
          PROVE \/ OnItsWay(x)' /\ ~HasEnded(x) /\ \A i \in 1 .. Len(Whole(k)') : Whole(k)'[i] < x
                \/ ~HasEnded(x) /\ InWhole(x, k)'
                \/ Aging(x) /\ HasEnded(x) /\ ~OnItsWay(x)' /\ ~InWhole(x, k)'
      <4>1. CASE x = l
        BY <1>4, <1>9, <3>2, <4>1
      <4>2. CASE x # l /\ OnItsWay(x)
        <5>1. l < x
          <6>1. x \notin 1 .. l - 1
            BY <1>15, <2>4, <3>4, <4>2
          <6> QED BY <1>3, <4>2, <6>1
        <5>2. ~InWhole(x, k) => ~HasEnded(x) /\ \A i \in 1 .. Len(Whole(k)) : Whole(k)[i] < x
          BY <2>2, <2>4, <3>4, <4>2
        <5>3. OnItsWay(x)'
          BY <1>10, <4>2
        <5>4. CASE InWhole(x, k)
          <6>1. ~HasEnded(x)
            BY <2>2, <2>4, <3>4, <4>2, <5>4
          <6> QED BY <1>4, <1>9, <5>4, <6>1
        <5>5. CASE ~InWhole(x, k)
          BY <1>5, <3>1, <5>1, <5>2, <5>3, <5>5
        <5> QED BY <5>4, <5>5
      <4>3. CASE x # l /\ ~OnItsWay(x)
        <5>1. ~OnItsWay(x)' /\ (InWhole(x, k)' <=> InWhole(x, k))
          BY <1>4, <1>9, <1>10, <4>3
        <5> QED BY <2>2, <2>4, <3>4, <4>3, <5>1
      <4> QED BY <4>1, <4>2, <4>3
    <3> QED BY <2>4, <3>3, <3>4
  <2> QED BY <2>3, <2>4
<1>17. GraphInOrder' /\ AgingWaits'
  <2>1. ASSUME NEW q \in Keys, NEW i \in 1 .. Len(Whole(q)') PROVE Whole(q)'[i] \notin unaging
    <3>1. PICK x : x = Whole(q)'[i]
      OBVIOUS
    <3>2. InWhole(x, q)'
      BY <3>1 DEF InWhole
    <3>3. InWhole(x, q) \/ x = l
      BY <1>9, <3>2
    <3> QED BY <1>a, <3>1, <3>3 DEF InWhole, AgingWaits, Aging
  <2> QED BY <1>1, <1>11, <2>1, GraphStays DEF AgingWaits, Aging
<1>18. AllRecorded'
  BY <1>1, <1>11, ClaimsStay DEF AllRecorded, RunKey, HasEnd, EndIn, IsLog
<1>19. DrainHolds'
  BY <1>1 DEF DrainHolds, Quiet
<1>20. PendingExact'
  <2>1. KernelTypeOK /\ HostsApart /\ KernelTypeOK'
    BY <1>6
  <2>2. Waiting' = {x \in 1 .. Len(launched) : Aging(x) /\ \E q \in Keys : InWhole(x, q)'}
    <3>1. DOMAIN launched = 1 .. Len(launched)
      BY NotEmpty DEF KernelTypeOK
    <3>2. ASSUME NEW q \in Keys PROVE \A x : (x \in Range(hostTasks'[q]) \/ x \in Range(kernels'[q])) <=> InWhole(x, q)'
      <4>0. PICK s, r : s = kernels'[q] /\ r = hostTasks'[q]
        OBVIOUS
      <4>1. r \in Seq(Launches) /\ s \in Seq(Launches) /\ Whole(q)' = s \o r
        BY <1>6, <4>0 DEF KernelTypeOK, Whole
      <4>2. Range(s) \cup Range(r) = {(s \o r)[i] : i \in 1 .. Len(s \o r)}
        BY <4>1, JoinedElements
      <4>3. \A x : InWhole(x, q)' <=> x \in {Whole(q)'[i] : i \in 1 .. Len(Whole(q)')}
        BY DEF InWhole
      <4>4. {Whole(q)'[i] : i \in 1 .. Len(Whole(q)')} = Range(s) \cup Range(r)
        BY <4>1, <4>2
      <4> QED BY <4>0, <4>3, <4>4
    <3>3. ASSUME NEW x \in 1 .. Len(launched) PROVE AgingEntries'[x] <=> \E q \in Keys : InWhole(x, q)'
      BY <1>1, <3>1, <3>2 DEF AgingEntries
    <3> QED BY <1>1, <3>1, <3>3 DEF Waiting, Aging
  <2>3. Waiting = {x \in 1 .. Len(launched) : Aging(x) /\ \E q \in Keys : InWhole(x, q)}
    BY WaitingIs
  <2>4. IsFiniteSet(Waiting) /\ IsFiniteSet(Uncounted) /\ Cardinality(Waiting) \in Nat /\ Cardinality(Uncounted) \in Nat
    BY ApartFinite
  <2>5. Waiting' = Waiting \cup {l} /\ l \notin Waiting
    BY <1>3, <1>4, <1>8, <1>9, <1>a, <2>2, <2>3
  <2>6. Uncounted' = Uncounted \cup {t} /\ t \notin Uncounted
    <3>1. l \notin wiped
      BY <1>0, <1>1 DEF EntriesApart
    <3>2. host'[t].pc = "count" /\ host'[t].launch = l /\ host[t].pc = "push"
      BY <1>1, <1>2, <1>3
    <3>3. t \notin Uncounted
      BY <3>2 DEF Uncounted
    <3>4. \A u \in HostThreads : u \in Uncounted' <=> u \in Uncounted \/ u = t
      BY <1>1, <1>3, <3>1, <3>2, <3>3 DEF Uncounted
    <3>5. Uncounted \subseteq HostThreads /\ Uncounted' \subseteq HostThreads
      BY DEF Uncounted
    <3> QED BY <3>3, <3>4, <3>5
  <2>7. Cardinality(Waiting') = Cardinality(Waiting) + 1 /\ Cardinality(Uncounted') = Cardinality(Uncounted) + 1
    BY <2>4, <2>5, <2>6, FS_AddElement
  <2>8. pending \in Int /\ drift \in Nat
    BY DEF KernelTypeOK
  <2> QED BY <1>1, <2>4, <2>7, <2>8 DEF PendingExact
<1>21. RunsInOrder' /\ ChannelInOrder' /\ TimesHold'
  BY <1>1, RunsStay, ChannelStays, TimesStay DEF TimesHold
<1> QED BY <1>3, <1>6, <1>7, <1>12, <1>13, <1>16, <1>17, <1>18, <1>19, <1>20, <1>21 DEF TimesHold

\* A graph's task waits only where none does.
LEMMA GraphPushKeeps ==
    ASSUME KernelIInv, NEW t \in HostThreads, ReportPushes(t), ~Aging(host[t].launch)
    PROVE  KernelIInv'
<1> USE DEF KernelIInv
<1>0. PICK l, k : l = host[t].launch /\ k = launched[l]
  OBVIOUS
<1>1. /\ host[t].pc = "push" /\ ~Aging(l)
      /\ hostGraphs' = [hostGraphs EXCEPT ![k] = IF @ = None THEN l ELSE @]
      /\ host' = [host EXCEPT ![t] = IdleHost]
      /\ crossed' = IF host[t].epoch # epoch \/ Overtakes(l) THEN crossed \cup {k} ELSE crossed
      /\ UNCHANGED <<gate, launched, unaging, hostTasks, kernels, graph, staged, pending, runs, channel, consumer, lost,
                     recorded, epoch, wiped, drift, stale>>
  BY <1>0 DEF ReportPushes
<1>2. /\ host' \in [HostThreads -> HostRecords] /\ host'[t] = IdleHost
      /\ \A u \in HostThreads \ {t} : host'[u] = host[u]
      /\ l \in 1 .. Len(launched) /\ l # None
      /\ HostsApart'
  <2>1. IdleHost \in HostRecords /\ IdleHost.pc = "idle" /\ IdleHost.launch = None
    BY GateAssumption DEF HostRecords, IdleHost
  <2> QED BY <1>0, <1>1, <2>1, HostMoves
<1>3. l \in Launches /\ k \in Keys /\ IsOf(l, k)
  <2>1. launched \in Seq(Keys) /\ Len(launched) <= MaxLaunches /\ Len(launched) \in Nat
    BY NotEmpty DEF KernelTypeOK
  <2>2. l \in Launches /\ k \in Keys
    BY <1>0, <1>2, <2>1, ElementOfSeq, KernelAssumption DEF Launches
  <2> QED BY <1>0, <1>2, <2>2 DEF IsOf
<1>4. crossed \subseteq crossed'
  BY <1>1
<1>5. KernelTypeOK'
  <2>1. crossed' \subseteq Keys
    BY <1>1, <1>3 DEF KernelTypeOK
  <2>2. hostGraphs' \in [Keys -> {None} \cup Launches]
    BY <1>1, <1>3 DEF KernelTypeOK
  <2> QED BY <1>1, <1>2, <2>1, <2>2 DEF KernelTypeOK, GateTypeOK, HostRecords
<1>6. GateSessions'
  BY <1>1 DEF GateSessions
<1>7. /\ \A q \in Keys \ {k} : GraphOf(q)' = GraphOf(q)
      /\ GraphOf(k)' = IF GraphOf(k) = None THEN l ELSE GraphOf(k)
  <2>1. hostGraphs'[k] = (IF hostGraphs[k] = None THEN l ELSE hostGraphs[k]) /\ \A q \in Keys \ {k} : hostGraphs'[q] = hostGraphs[q]
    BY <1>1, <1>3 DEF KernelTypeOK
  <2> QED BY <1>1, <1>3, <2>1 DEF GraphOf
<1>8. \A q : Whole(q)' = Whole(q) /\ \A x : InWhole(x, q)' <=> InWhole(x, q)
  BY <1>1 DEF Whole, InWhole
<1>9. ASSUME NEW x PROVE OnItsWay(x)' <=> OnItsWay(x) /\ x # l
  <2>1. \A u \in HostThreads \ {t} : host[u].launch # l
    BY <1>0, <1>2 DEF HostsApart
  <2> QED BY <1>0, <1>1, <1>2, <2>1 DEF OnItsWay, IdleHost
<1>10. \A u \in HostThreads : host'[u].pc \in {"gate", "push", "count"} => host[u] = host'[u]
  BY <1>2 DEF IdleHost
<1>11. EntriesApart'
  <2>1. ASSUME NEW u \in HostThreads, host'[u].pc \in {"gate", "push"}
        PROVE host'[u].launch \notin wiped' /\ \A q \in Keys : ~InWhole(host[u].launch, q)'
    <3>1. host'[u] = host[u]
      BY <1>10, <2>1
    <3>2. PICK x : x = host[u].launch /\ x = host'[u].launch
      BY <3>1
    <3>3. x \notin wiped /\ \A q \in Keys : ~InWhole(x, q)
      BY <2>1, <3>1, <3>2 DEF EntriesApart
    <3>4. \A q \in Keys : ~InWhole(x, q)'
      BY <1>8, <3>3
    <3> QED BY <1>1, <3>2, <3>3, <3>4 DEF InWhole
  <2>2. \A q \in Keys : \A i \in 1 .. Len(Whole(q)') : IsOf(Whole(q)[i], q)'
    BY <1>1, <1>8 DEF EntriesApart, IsOf
  <2>3. \A q \in Keys : \A i, j \in 1 .. Len(Whole(q)') : Whole(q)'[i] = Whole(q)'[j] => i = j
    BY <1>8 DEF EntriesApart
  <2> QED BY <2>1, <2>2, <2>3 DEF EntriesApart
<1>12. StagedInOrder'
  BY <1>1, <1>4 DEF StagedInOrder, NextIsEnd, At
<1>13. AgingInOrder'
  <2>1. \A x : HasEnded(x)' <=> HasEnded(x)
    BY <1>1 DEF HasEnded, HasEnd, EndIn, RunKey, IsLog
  <2> SUFFICES ASSUME NEW q \in Keys \ crossed', GraphOf(q)' = None
      PROVE /\ \A i, j \in 1 .. Len(Whole(q)) : i < j => Whole(q)[i] < Whole(q)[j]
            /\ \A x \in 1 .. Len(launched) : launched[x] = q =>
                  \/ OnItsWay(x)' /\ ~HasEnded(x) /\ \A i \in 1 .. Len(Whole(q)) : Whole(q)[i] < x
                  \/ ~HasEnded(x) /\ InWhole(x, q)
                  \/ Aging(x) /\ HasEnded(x) /\ ~OnItsWay(x)' /\ ~InWhole(x, q)
    BY <1>1, <1>8, <2>1 DEF AgingInOrder, Aging
  <2>2. q # k /\ q \notin crossed /\ GraphOf(q) = None
    BY <1>2, <1>3, <1>4, <1>7
  <2>3. ASSUME NEW x \in 1 .. Len(launched), launched[x] = q PROVE OnItsWay(x)' <=> OnItsWay(x)
    <3>1. x # l
      BY <1>0, <2>2, <2>3
    <3> QED BY <1>9, <3>1
  <2> QED BY <2>2, <2>3 DEF AgingInOrder
<1>14. GraphInOrder'
  <2> SUFFICES ASSUME NEW q \in Keys, GraphOf(q)' # None
      PROVE /\ GraphOf(q)' \in 1 .. Len(launched) /\ launched[GraphOf(q)'] = q /\ GraphOf(q)' \in unaging
            /\ q \notin crossed' => \A x \in 1 .. GraphOf(q)' - 1 : launched[x] = q => Aging(x)
    BY <1>1 DEF GraphInOrder, IsOf, Aging
  <2>1. CASE q = k /\ GraphOf(k) = None
    <3>1. GraphOf(q)' = l
      BY <1>3, <1>7, <2>1
    <3>2. ASSUME q \notin crossed', NEW x \in 1 .. l - 1, launched[x] = q PROVE Aging(x)
      <4>1. x \in 1 .. Len(launched) /\ q \notin crossed
        BY <1>2, <1>4, <3>2
      <4>2. ~OnItsWay(x)
        BY <1>0, <1>1, <2>1, <3>2 DEF Overtakes, OnItsWay
      <4>3. InWhole(x, q) \/ Aging(x)
        BY <2>1, <3>2, <4>1, <4>2 DEF AgingInOrder
      <4> QED BY <4>3 DEF InWhole, AgingWaits
    <3> QED BY <1>0, <1>1, <1>2, <2>1, <3>1, <3>2 DEF Aging
  <2>2. CASE q # k \/ GraphOf(k) # None
    <3>1. GraphOf(q)' = GraphOf(q)
      BY <1>7, <2>2
    <3> QED BY <1>4, <3>1 DEF GraphInOrder, IsOf, Aging
  <2> QED BY <2>1, <2>2
<1>15. AllRecorded'
  BY <1>1, <1>4, ClaimsStay DEF AllRecorded, RunKey, HasEnd, EndIn, IsLog
<1>16. DrainHolds'
  BY <1>1 DEF DrainHolds, Quiet
<1>17. PendingExact'
  <2>1. Waiting' = Waiting
    BY <1>1, WaitingStays
  <2>2. \A u \in HostThreads : (host'[u].pc = "count" <=> host[u].pc = "count") /\ (host[u].pc = "count" => host'[u] = host[u])
    BY <1>1, <1>2 DEF IdleHost
  <2>3. Uncounted' = Uncounted
    BY <1>1, <2>2 DEF Uncounted
  <2> QED BY <1>1, <2>1, <2>3 DEF PendingExact
<1>18. AgingWaits' /\ RunsInOrder' /\ ChannelInOrder' /\ TimesHold'
  BY <1>1, WaitsStay, RunsStay, ChannelStays, TimesStay DEF TimesHold
<1> QED BY <1>2, <1>5, <1>6, <1>11, <1>12, <1>13, <1>14, <1>15, <1>16, <1>17, <1>18 DEF TimesHold

LEMMA PushKeeps ==
    ASSUME KernelIInv, NEW t \in HostThreads, ReportPushes(t)
    PROVE  KernelIInv'
BY AgingPushKeeps, GraphPushKeeps

----------------------------------------------------------------------------
(* A run. *)

LEMMA PairAppended ==
    ASSUME NEW S, NEW s \in Seq(S), NEW x \in S, NEW y \in S
    PROVE  /\ s \o <<x, y>> \in Seq(S) /\ Len(s) \in Nat /\ Len(s \o <<x, y>>) = Len(s) + 2
           /\ \A i \in 1 .. Len(s) : (s \o <<x, y>>)[i] = s[i]
           /\ (s \o <<x, y>>)[Len(s) + 1] = x /\ (s \o <<x, y>>)[Len(s) + 2] = y
           /\ s \o <<x, y>> # <<>>
           /\ Head(s \o <<x, y>>) = IF s = <<>> THEN x ELSE Head(s)
<1> DEFINE t == <<x, y>>
           u == s \o t
<1>1. t \in Seq(S) /\ Len(t) = 2 /\ t[1] = x /\ t[2] = y
  OBVIOUS
<1> HIDE DEF t
<1>a. t \in Seq(S)
  BY <1>1
<1>2. /\ s \o t \in Seq(S) /\ Len(s) \in Nat /\ Len(s \o t) = Len(s) + Len(t)
      /\ \A i \in 1 .. Len(s) : (s \o t)[i] = s[i]
      /\ \A i \in 1 .. Len(t) : (s \o t)[Len(s) + i] = t[i]
  BY <1>a, Joined
<1> HIDE DEF u
<1>3. 1 \in 1 .. Len(t) /\ 2 \in 1 .. Len(t) /\ u[Len(s) + 1] = x /\ u[Len(s) + 2] = y
  BY <1>1, <1>2 DEF u
<1>4. u # <<>>
  <2>1. u \in Seq(S) /\ Len(u) > 0
    BY <1>1, <1>2 DEF u
  <2> QED BY <2>1, NotEmpty
<1>5. Head(u) = u[1]
  <2>1. u \in Seq(S)
    BY <1>2 DEF u
  <2> QED BY <1>4, <2>1, Rest
<1>6. CASE s = <<>>
  <2>1. Len(s) = 0
    BY <1>6, NotEmpty
  <2>2. u[1] = x
    BY <1>3, <2>1
  <2> QED BY <1>1, <1>2, <1>3, <1>4, <1>5, <1>6, <2>2 DEF u, t
<1>7. CASE s # <<>>
  <2>1. Head(s) = s[1] /\ 1 \in 1 .. Len(s)
    BY <1>7, Rest
  <2> QED BY <1>1, <1>2, <1>3, <1>4, <1>5, <1>7, <2>1 DEF u, t
<1> QED BY <1>6, <1>7

LEMMA IntervalFinite ==
    ASSUME NEW n \in Nat
    PROVE  IsFiniteSet(1 .. n) /\ Cardinality(1 .. n) = n
<1>1. IsFiniteSet(1 .. n) /\ Cardinality(1 .. n) = IF 1 > n THEN 0 ELSE n - 1 + 1
  BY FS_Interval
<1> QED BY <1>1

LEMMA RunsBounded ==
    ASSUME NEW la \in Seq(Keys), NEW ru \in Seq(Launches), NEW U, Len(la) <= MaxLaunches,
           \A m \in 1 .. Len(ru) : ru[m] \in 1 .. Len(la),
           \A m, n \in 1 .. Len(ru) : ru[m] \notin U /\ ru[m] = ru[n] => m = n,
           Cardinality({m \in 1 .. Len(ru) : ~(ru[m] \notin U)}) <= MaxReplays
    PROVE  Len(ru) <= MaxLaunches + MaxReplays
<1> DEFINE A == {m \in 1 .. Len(ru) : ru[m] \notin U}
           G == {m \in 1 .. Len(ru) : ~(ru[m] \notin U)}
           f == [m \in A |-> ru[m]]
<1>1. Len(ru) \in Nat /\ Len(la) \in Nat
  BY NotEmpty
<1>2. IsFiniteSet(1 .. Len(ru)) /\ Cardinality(1 .. Len(ru)) = Len(ru)
  BY <1>1, IntervalFinite
<1>3. IsFiniteSet(1 .. Len(la)) /\ Cardinality(1 .. Len(la)) = Len(la)
  BY <1>1, IntervalFinite
<1>4. A \subseteq 1 .. Len(ru) /\ G \subseteq 1 .. Len(ru) /\ A \cup G = 1 .. Len(ru) /\ A \cap G = {}
  OBVIOUS
<1>5. f \in [A -> 1 .. Len(la)] /\ \A m, n \in A : f[m] = f[n] => m = n
  OBVIOUS
<1> HIDE DEF f, A
<1>6. f \in Injection(A, 1 .. Len(la))
  BY <1>5 DEF Injection, IsInjective
<1>7. Cardinality(A) <= Len(la)
  BY <1>3, <1>6, FS_Injection
<1> HIDE DEF G
<1>8. IsFiniteSet(A) /\ IsFiniteSet(G)
  BY <1>2, <1>4, FS_Subset
<1>9. Cardinality(A) \in Nat /\ Cardinality(G) \in Nat
  BY <1>8, FS_CardinalityType
<1>13. Len(ru) = Cardinality(A \cup G)
  BY <1>2, <1>4
<1>10. Cardinality(A \cup G) = Cardinality(A) + Cardinality(G) - Cardinality(A \cap G)
  BY <1>8, FS_Union
<1>11. Cardinality(A \cap G) = 0
  BY <1>4, FS_EmptySet
<1>12. Cardinality(G) <= MaxReplays
  BY DEF G
<1> QED BY <1>1, <1>7, <1>9, <1>10, <1>11, <1>12, <1>13, KernelAssumption

LEMMA RunGrows ==
    ASSUME KernelIInv, NEW l \in DOMAIN launched, NEW k, NEW n, k = launched[l], n = Len(runs) + 1, RunsTask(l)
    PROVE  /\ l \in 1 .. Len(launched) /\ l \in Launches /\ k \in Keys /\ DeviceOf[k] \in Devices /\ n \in Runs
           /\ runs' \in Seq(Launches) /\ Len(runs) \in Nat /\ Len(runs') = n /\ runs'[n] = l
           /\ 1 .. Len(runs') = 1 .. Len(runs) \cup {n} /\ n \notin 1 .. Len(runs)
           /\ \A m \in 1 .. Len(runs) : runs'[m] = runs[m] /\ RunKey(m)' = RunKey(m)
           /\ RunKey(n)' = k
           /\ RunsInOrder'
<1> USE DEF KernelIInv
<1>1. /\ IF Aging(l) THEN l \notin Range(runs) ELSE Cardinality({m \in DOMAIN runs : ~Aging(runs[m])}) < MaxReplays
      /\ \A m \in 1 .. l - 1 : launched[m] = k /\ Aging(m) => m \in Range(runs)
      /\ runs' = Append(runs, l) /\ UNCHANGED <<launched, unaging>>
  BY DEF RunsTask
<1>2. launched \in Seq(Keys) /\ DOMAIN launched = 1 .. Len(launched) /\ Len(launched) <= MaxLaunches /\ Len(launched) \in Nat
  BY NotEmpty DEF KernelTypeOK
<1>3. l \in 1 .. Len(launched) /\ l \in Launches /\ k \in Keys /\ DeviceOf[k] \in Devices
  BY <1>2, ElementOfSeq, KernelAssumption DEF Launches
<1>4. runs \in Seq(Launches) /\ DOMAIN runs = 1 .. Len(runs) /\ Len(runs) \in Nat
  BY NotEmpty DEF KernelTypeOK
<1>5. /\ runs' \in Seq(Launches) /\ Len(runs') = n /\ runs'[n] = l
      /\ \A m \in 1 .. Len(runs) : runs'[m] = runs[m]
  BY <1>1, <1>3, <1>4, Appended
<1>6. 1 .. Len(runs') = 1 .. Len(runs) \cup {n} /\ n \notin 1 .. Len(runs) /\ n \in Nat
  BY <1>4, <1>5
<1>7. /\ \A m \in 1 .. Len(runs) : RunKey(m)' = RunKey(m)
      /\ RunKey(n)' = k
  BY <1>1, <1>5 DEF RunKey
<1>8. \A m : Aging(m)' <=> Aging(m)
  BY <1>1 DEF Aging
<1>9. /\ \A m \in 1 .. Len(runs) : runs[m] \in 1 .. Len(launched)
      /\ \A m, e \in 1 .. Len(runs) : Aging(runs[m]) /\ runs[m] = runs[e] => m = e
      /\ \A m \in 1 .. Len(runs) : \A x \in 1 .. runs[m] - 1 :
            launched[x] = launched[runs[m]] /\ Aging(x) => \E e \in 1 .. m - 1 : runs[e] = x
      /\ Cardinality({m \in 1 .. Len(runs) : ~Aging(runs[m])}) <= MaxReplays
  BY DEF RunsInOrder
<1>10. \A m \in 1 .. Len(runs') : runs'[m] \in 1 .. Len(launched)
  BY <1>3, <1>5, <1>6, <1>9
<1>11. Aging(l) => \A m \in 1 .. Len(runs) : runs[m] # l
  BY <1>1, <1>4 DEF Range
<1>12. \A m, e \in 1 .. Len(runs') : Aging(runs'[m]) /\ runs'[m] = runs'[e] => m = e
  BY <1>5, <1>6, <1>9, <1>11
<1>13. ASSUME NEW m \in 1 .. Len(runs'), NEW x \in 1 .. runs'[m] - 1, launched[x] = launched[runs'[m]], Aging(x)
       PROVE \E e \in 1 .. m - 1 : runs'[e] = x
  <2>1. CASE m = n
    <3>1. x \in Range(runs)
      BY <1>1, <1>5, <1>13, <2>1
    <3>2. PICK e \in 1 .. Len(runs) : runs[e] = x
      BY <1>4, <3>1 DEF Range
    <3>3. e \in 1 .. m - 1
      BY <1>4, <2>1
    <3> QED BY <1>5, <3>2, <3>3
  <2>2. CASE m # n
    <3>1. m \in 1 .. Len(runs) /\ runs'[m] = runs[m]
      BY <1>5, <1>6, <2>2
    <3>2. PICK e \in 1 .. m - 1 : runs[e] = x
      BY <1>9, <1>13, <3>1
    <3>3. e \in 1 .. Len(runs)
      BY <1>4, <3>1
    <3> QED BY <1>5, <3>2, <3>3
  <2> QED BY <2>1, <2>2
<1>14. Cardinality({m \in 1 .. Len(runs') : ~Aging(runs'[m])}) <= MaxReplays
  <2> DEFINE G == {m \in 1 .. Len(runs) : ~Aging(runs[m])}
             H == {m \in 1 .. Len(runs') : ~Aging(runs'[m])}
  <2>1. n \notin G /\ H = IF Aging(l) THEN G ELSE G \cup {n}
    BY <1>5, <1>6
  <2>2. IsFiniteSet(G)
    <3>1. IsFiniteSet(1 .. Len(runs))
      BY <1>4, FS_Interval
    <3> QED BY <3>1, FS_Subset
  <2>3. Cardinality(G) \in Nat /\ Cardinality(G) <= MaxReplays /\ (~Aging(l) => Cardinality(G) < MaxReplays)
    BY <1>1, <1>4, <1>9, <2>2, FS_CardinalityType
  <2> HIDE DEF G, H
  <2>4. Cardinality(G \cup {n}) = Cardinality(G) + 1
    BY <2>1, <2>2, FS_AddElement
  <2>5. Cardinality(H) <= MaxReplays
    BY <2>1, <2>3, <2>4, KernelAssumption
  <2> QED BY <2>5 DEF H
<1>15. RunsInOrder'
  BY <1>1, <1>8, <1>10, <1>12, <1>13, <1>14 DEF RunsInOrder
<1>16. n \in Runs
  <2>1. \A m, e \in 1 .. Len(runs') : runs'[m] \notin unaging /\ runs'[m] = runs'[e] => m = e
    BY <1>12 DEF Aging
  <2>2. Cardinality({m \in 1 .. Len(runs') : ~(runs'[m] \notin unaging)}) <= MaxReplays
    BY <1>14 DEF Aging
  <2>3. Len(runs') <= MaxLaunches + MaxReplays
    BY <1>2, <1>5, <1>10, <2>1, <2>2, RunsBounded
  <2> QED BY <1>4, <1>5, <2>3, KernelAssumption DEF Runs
<1> QED BY <1>3, <1>4, <1>5, <1>6, <1>7, <1>15, <1>16

\* What a run appends to the channel of its device.
LEMMA RunChannel ==
    ASSUME KernelIInv, NEW l \in DOMAIN launched, NEW k, NEW n, k = launched[l], n = Len(runs) + 1, RunsTask(l)
    PROVE  /\ channel' \in [Devices -> Seq(SocLogs)]
           /\ \A d \in Devices : channel'[d] = channel[d] \/ (d = DeviceOf[k] /\ channel'[d] # <<>>
                   /\ Head(channel'[d]) = IF channel[d] = <<>> THEN [key |-> k, funcType |-> "BEGIN", run |-> n] ELSE Head(channel[d]))
           /\ \A d \in Devices, m \in 1 .. Len(runs) : HasEnd(d, m)' <=> HasEnd(d, m)
           /\ HasEnd(DeviceOf[k], n)'
           /\ ChannelInOrder'
<1> USE DEF KernelIInv
<1>1. /\ l \in 1 .. Len(launched) /\ l \in Launches /\ k \in Keys /\ DeviceOf[k] \in Devices /\ n \in Runs
      /\ runs' \in Seq(Launches) /\ Len(runs) \in Nat /\ Len(runs') = n /\ runs'[n] = l
      /\ 1 .. Len(runs') = 1 .. Len(runs) \cup {n} /\ n \notin 1 .. Len(runs)
      /\ \A m \in 1 .. Len(runs) : runs'[m] = runs[m] /\ RunKey(m)' = RunKey(m)
      /\ RunKey(n)' = k
  BY RunGrows
<1>0. PICK d, B, E : /\ d = DeviceOf[k] /\ B = [key |-> k, funcType |-> "BEGIN", run |-> n]
                     /\ E = [key |-> k, funcType |-> "END", run |-> n]
  OBVIOUS
<1>2. channel' = [channel EXCEPT ![d] = channel[d] \o <<B, E>>] /\ d \in Devices
  BY <1>0, <1>1 DEF RunsTask, KernelTypeOK
<1>3. channel \in [Devices -> Seq(SocLogs)] /\ B \in SocLogs /\ E \in SocLogs
  BY <1>0, <1>1 DEF KernelTypeOK, SocLogs
<1>4. PICK s, u : s = channel[d] /\ u = s \o <<B, E>>
  OBVIOUS
<1>5. /\ u \in Seq(SocLogs) /\ Len(s) \in Nat /\ Len(u) = Len(s) + 2
      /\ \A i \in 1 .. Len(s) : u[i] = s[i]
      /\ u[Len(s) + 1] = B /\ u[Len(s) + 2] = E
      /\ u # <<>>
      /\ Head(u) = IF s = <<>> THEN B ELSE Head(s)
  <2>1. s \in Seq(SocLogs)
    BY <1>2, <1>3, <1>4
  <2> QED BY <1>3, <1>4, <2>1, PairAppended
<1>6. channel'[d] = u /\ \A e \in Devices \ {d} : channel'[e] = channel[e]
  BY <1>2, <1>3, <1>4
<1>7. channel' \in [Devices -> Seq(SocLogs)]
  BY <1>2, <1>3, <1>4, <1>5
<1>8. 1 .. Len(u) = 1 .. Len(s) \cup {Len(s) + 1, Len(s) + 2}
  BY <1>5
<1>9. ASSUME NEW e \in Devices, NEW m \in 1 .. Len(runs) PROVE HasEnd(e, m)' <=> HasEnd(e, m)
  <2>1. PICK key : key = RunKey(m) /\ key = RunKey(m)'
    BY <1>1
  <2>2. HasEnd(e, m) <=> \E i \in 1 .. Len(channel[e]) : channel[e][i].key = key /\ channel[e][i].funcType = "END" /\ channel[e][i].run = m
    BY <2>1 DEF HasEnd, EndIn, IsLog
  <2>3. HasEnd(e, m)' <=> \E i \in 1 .. Len(channel'[e]) : channel'[e][i].key = key /\ channel'[e][i].funcType = "END" /\ channel'[e][i].run = m
    BY <2>1 DEF HasEnd, EndIn, IsLog
  <2>4. CASE e = d
    <3>1. B.run # m /\ E.run # m
      BY <1>0, <1>1
    <3>2. ASSUME NEW i \in 1 .. Len(u), u[i].run = m PROVE i \in 1 .. Len(s) /\ u[i] = s[i]
      BY <1>5, <1>8, <3>1, <3>2
    <3>3. \A i \in 1 .. Len(s) : i \in 1 .. Len(u) /\ u[i] = s[i]
      BY <1>5
    <3>4. HasEnd(e, m) <=> \E i \in 1 .. Len(s) : s[i].key = key /\ s[i].funcType = "END" /\ s[i].run = m
      BY <1>4, <2>2, <2>4
    <3>5. HasEnd(e, m)' <=> \E i \in 1 .. Len(u) : u[i].key = key /\ u[i].funcType = "END" /\ u[i].run = m
      BY <1>6, <2>3, <2>4
    <3> QED BY <3>2, <3>3, <3>4, <3>5
  <2>5. CASE e # d
    BY <1>6, <2>2, <2>3, <2>5
  <2> QED BY <2>4, <2>5
<1>10. HasEnd(d, n)'
  <2>1. HasEnd(d, n)' <=> \E i \in 1 .. Len(channel'[d]) : channel'[d][i].key = RunKey(n)' /\ channel'[d][i].funcType = "END" /\ channel'[d][i].run = n
    BY DEF HasEnd, EndIn, IsLog
  <2>2. u[Len(s) + 2] = E /\ Len(s) + 2 \in 1 .. Len(u) /\ E.key = RunKey(n)' /\ E.funcType = "END" /\ E.run = n
    BY <1>0, <1>1, <1>5
  <2> QED BY <1>6, <2>1, <2>2
<1>11. ASSUME NEW e \in Devices PROVE LogsPaired(e)' /\ EndsRise(e)'
  <2>1. LogsPaired(e) /\ EndsRise(e)
    BY DEF ChannelInOrder
  <2>2. CASE e # d
    <3>1. PICK w : w = channel[e] /\ w = channel'[e]
      BY <1>6, <2>2
    <3>2. \A i \in 1 .. Len(w) :
             /\ w[i].run \in 1 .. Len(runs) /\ w[i].key = RunKey(w[i].run)
             /\ DeviceOf[w[i].key] = e
             /\ w[i].funcType = "BEGIN" => i < Len(w) /\ IsLog(w[i + 1], w[i].key, "END", w[i].run)
             /\ w[i].funcType = "END" /\ i > 1 => IsLog(w[i - 1], w[i].key, "BEGIN", w[i].run)
      BY <2>1, <3>1 DEF LogsPaired, LogsIn, RunKey
    <3>3. \A i \in 1 .. Len(w) : w[i].run \in 1 .. Len(runs') /\ w[i].key = RunKey(w[i].run)'
      BY <1>1, <3>2
    <3>4. LogsPaired(e)'
      BY SMTT(20), <3>1, <3>2, <3>3 DEF LogsPaired, LogsIn, RunKey, IsLog
    <3>5. EndsRise(e)'
      BY <2>1, <3>1 DEF EndsRise, RiseIn
    <3> QED BY <3>4, <3>5
  <2>3. CASE e = d
    <3>1. /\ \A i \in 1 .. Len(s) :
               /\ s[i].run \in 1 .. Len(runs) /\ s[i].key = RunKey(s[i].run)
               /\ DeviceOf[s[i].key] = d
               /\ s[i].funcType = "BEGIN" =>
                     i < Len(s) /\ IsLog(s[i + 1], s[i].key, "END", s[i].run)
               /\ s[i].funcType = "END" /\ i > 1 => IsLog(s[i - 1], s[i].key, "BEGIN", s[i].run)
          /\ \A i, j \in 1 .. Len(s) : s[i].funcType = "END" /\ s[j].funcType = "END" /\ i < j => s[i].run < s[j].run
      BY <1>4, <2>1, <2>3 DEF LogsPaired, LogsIn, RunKey, EndsRise, RiseIn
    <3>2. ASSUME NEW i \in 1 .. Len(u)
          PROVE /\ u[i].run \in 1 .. Len(runs') /\ u[i].key = RunKey(u[i].run)'
                /\ DeviceOf[u[i].key] = d
                /\ u[i].funcType = "BEGIN" =>
                      i < Len(u) /\ IsLog(u[i + 1], u[i].key, "END", u[i].run)
                /\ u[i].funcType = "END" /\ i > 1 => IsLog(u[i - 1], u[i].key, "BEGIN", u[i].run)
      <4>1. CASE i \in 1 .. Len(s)
        <5>1. u[i] = s[i] /\ s[i].run \in 1 .. Len(runs) /\ s[i].key = RunKey(s[i].run) /\ DeviceOf[s[i].key] = d
          BY <1>5, <3>1, <4>1
        <5>2. u[i].key = RunKey(u[i].run)'
          BY <1>1, <5>1
        <5>3. ASSUME u[i].funcType = "BEGIN" PROVE i < Len(u) /\ IsLog(u[i + 1], u[i].key, "END", u[i].run)
          <6>1. i < Len(s) /\ IsLog(s[i + 1], s[i].key, "END", s[i].run)
            BY <3>1, <4>1, <5>1, <5>3
          <6>2. i + 1 \in 1 .. Len(s)
            BY <1>5, <4>1, <6>1
          <6> QED BY <1>5, <5>1, <6>1, <6>2
        <5>4. ASSUME u[i].funcType = "END", i > 1 PROVE IsLog(u[i - 1], u[i].key, "BEGIN", u[i].run)
          <6>1. i - 1 \in 1 .. Len(s)
            BY <1>5, <4>1, <5>4
          <6> QED BY <1>5, <3>1, <4>1, <5>1, <5>4, <6>1
        <5> QED BY <1>1, <5>1, <5>2, <5>3, <5>4
      <4>2. CASE i = Len(s) + 1
        <5>1. u[i] = B /\ u[i + 1] = E /\ i < Len(u) /\ n \in 1 .. Len(runs')
          BY <1>1, <1>5, <4>2
        <5>2. B.key = k /\ B.run = n /\ B.funcType = "BEGIN" /\ IsLog(E, k, "END", n)
          BY <1>0 DEF IsLog
        <5> QED BY <1>0, <1>1, <5>1, <5>2
      <4>3. CASE i = Len(s) + 2
        <5>1. u[i] = E /\ u[i - 1] = B /\ n \in 1 .. Len(runs')
          BY <1>1, <1>5, <4>3
        <5>2. E.key = k /\ E.run = n /\ E.funcType = "END" /\ IsLog(B, k, "BEGIN", n)
          BY <1>0 DEF IsLog
        <5> QED BY <1>0, <1>1, <5>1, <5>2
      <4> QED BY <1>8, <4>1, <4>2, <4>3
    <3>3. ASSUME NEW i \in 1 .. Len(u), NEW j \in 1 .. Len(u), u[i].funcType = "END", u[j].funcType = "END", i < j
          PROVE u[i].run < u[j].run
      <4>1. i \in 1 .. Len(s) /\ u[i] = s[i] /\ s[i].run \in 1 .. Len(runs)
        <5>1. i # Len(s) + 1
          BY <1>0, <1>5, <3>3
        <5>2. i \in 1 .. Len(s)
          BY <1>5, <1>8, <3>3, <5>1
        <5> QED BY <1>5, <3>1, <5>2
      <4>2. CASE j \in 1 .. Len(s)
        BY <1>5, <3>1, <3>3, <4>1, <4>2
      <4>3. CASE j \notin 1 .. Len(s)
        <5>1. u[j].run = n
          BY <1>0, <1>5, <1>8, <4>3
        <5>2. Len(runs) \in Nat /\ n = Len(runs) + 1
          BY <1>0, <1>1
        <5> QED BY <4>1, <5>1, <5>2
      <4> QED BY <4>2, <4>3
    <3>4. LogsPaired(d)'
      BY <1>6, <3>2 DEF LogsPaired, LogsIn, RunKey, IsLog
    <3>5. EndsRise(d)'
      BY <1>6, <3>3 DEF EndsRise, RiseIn
    <3> QED BY <2>3, <3>4, <3>5
  <2> QED BY <2>2, <2>3
<1>12. ASSUME NEW e \in Devices PROVE EndsLast(e)'
  <2> SUFFICES ASSUME NEW m \in 1 .. Len(runs'), NEW x \in 1 .. Len(runs'), m < x,
                      DeviceOf[RunKey(m)'] = e, DeviceOf[RunKey(x)'] = e, HasEnd(e, m)'
               PROVE HasEnd(e, x)'
    BY <1>1 DEF EndsLast, RunKey, RunsTask
  <2>1. CASE x = n
    BY <1>0, <1>1, <1>10, <2>1
  <2>2. CASE x # n
    <3>1. x \in 1 .. Len(runs) /\ m \in 1 .. Len(runs)
      BY <1>1, <2>2
    <3>2. HasEnd(e, m) /\ RunKey(m)' = RunKey(m) /\ RunKey(x)' = RunKey(x)
      BY <1>1, <1>9, <3>1
    <3>3. HasEnd(e, x)
      BY <3>1, <3>2 DEF ChannelInOrder, EndsLast
    <3> QED BY <1>9, <3>1, <3>3
  <2> QED BY <2>1, <2>2
<1>13. ChannelInOrder'
  BY <1>11, <1>12 DEF ChannelInOrder
<1>14. \A e \in Devices : channel'[e] = channel[e] \/ (e = DeviceOf[k] /\ channel'[e] # <<>>
                   /\ Head(channel'[e]) = IF channel[e] = <<>> THEN [key |-> k, funcType |-> "BEGIN", run |-> n] ELSE Head(channel[e]))
  BY SMTT(20), <1>0, <1>4, <1>5, <1>6
<1> QED BY <1>0, <1>7, <1>9, <1>10, <1>13, <1>14

LEMMA RunKeeps ==
    ASSUME KernelIInv, NEW l \in DOMAIN launched, RunsTask(l)
    PROVE  KernelIInv'
<1> USE DEF KernelIInv
<1>0. PICK k, n : k = launched[l] /\ n = Len(runs) + 1
  OBVIOUS
<1>1. /\ l \in 1 .. Len(launched) /\ l \in Launches /\ k \in Keys /\ DeviceOf[k] \in Devices /\ n \in Runs
      /\ runs' \in Seq(Launches) /\ Len(runs) \in Nat /\ Len(runs') = n /\ runs'[n] = l
      /\ 1 .. Len(runs') = 1 .. Len(runs) \cup {n} /\ n \notin 1 .. Len(runs)
      /\ \A m \in 1 .. Len(runs) : runs'[m] = runs[m] /\ RunKey(m)' = RunKey(m)
      /\ RunKey(n)' = k
      /\ RunsInOrder'
  BY <1>0, RunGrows
<1>2. /\ channel' \in [Devices -> Seq(SocLogs)]
      /\ \A d \in Devices : channel'[d] = channel[d] \/ (d = DeviceOf[k] /\ channel'[d] # <<>>
              /\ Head(channel'[d]) = IF channel[d] = <<>> THEN [key |-> k, funcType |-> "BEGIN", run |-> n] ELSE Head(channel[d]))
      /\ \A d \in Devices, m \in 1 .. Len(runs) : HasEnd(d, m)' <=> HasEnd(d, m)
      /\ HasEnd(DeviceOf[k], n)'
      /\ ChannelInOrder'
  BY <1>0, RunChannel
<1>3. UNCHANGED <<gate, launched, unaging, host, hostTasks, hostGraphs, kernels, graph, staged, pending, consumer, lost,
                  recorded, epoch, wiped, drift, crossed, stale>>
  BY <1>0 DEF RunsTask
<1>4. crossed \subseteq crossed' /\ crossed' \subseteq Keys
  BY <1>1, <1>3 DEF KernelTypeOK
<1>5. KernelTypeOK'
  BY <1>1, <1>2, <1>3, <1>4 DEF KernelTypeOK, GateTypeOK
<1>6. GateSessions' /\ HostsApart'
  BY <1>3 DEF GateSessions, HostsApart, Aging
<1>7. \A m \in 1 .. Len(runs) : RunKey(m) \in Keys /\ DeviceOf[RunKey(m)] \in Devices
  <2> SUFFICES ASSUME NEW m \in 1 .. Len(runs) PROVE RunKey(m) \in Keys /\ DeviceOf[RunKey(m)] \in Devices
    OBVIOUS
  <2>1. runs[m] \in 1 .. Len(launched) /\ launched \in Seq(Keys)
    BY DEF RunsInOrder, KernelTypeOK
  <2>2. launched[runs[m]] \in Keys
    BY <2>1, ElementOfSeq
  <2> QED BY <2>2, KernelAssumption DEF RunKey
<1>8. \A x : HasEnded(x)' <=> HasEnded(x)
  <2> TAKE x
  <2>1. HasEnded(x)' <=> \E m \in 1 .. Len(runs') : runs'[m] = x /\ ~HasEnd(DeviceOf[RunKey(m)], m)'
    BY DEF HasEnded
  <2>2. \A m \in 1 .. Len(runs) : (runs'[m] = x /\ ~HasEnd(DeviceOf[RunKey(m)], m)') <=> (runs[m] = x /\ ~HasEnd(DeviceOf[RunKey(m)], m))
    <3> TAKE m \in 1 .. Len(runs)
    <3>1. PICK d \in Devices : d = DeviceOf[RunKey(m)] /\ d = DeviceOf[RunKey(m)']
      BY <1>1, <1>7
    <3>2. HasEnd(d, m)' <=> HasEnd(d, m)
      BY <1>2
    <3> QED BY <1>1, <3>1, <3>2 DEF HasEnd, EndIn
  <2>3. HasEnd(DeviceOf[RunKey(n)], n)'
    <3>1. DeviceOf[RunKey(n)'] = DeviceOf[k]
      BY <1>1
    <3> QED BY <1>2, <3>1 DEF HasEnd, EndIn
  <2> QED BY <1>1, <2>1, <2>2, <2>3 DEF HasEnded
<1>9. EntriesApart'
  BY <1>3, EntriesStay
<1>10. ASSUME NEW q \in Keys, NextIsEnd(q)'
       PROVE NextIsEnd(q) /\ Head(channel'[DeviceOf[q]]) = Head(channel[DeviceOf[q]])
  <2>1. DeviceOf[q] \in Devices
    BY KernelAssumption
  <2>2. [key |-> k, funcType |-> "BEGIN", run |-> n].funcType # "END"
    OBVIOUS
  <2> QED BY <1>2, <1>10, <2>1, <2>2 DEF NextIsEnd
<1>11. StagedInOrder'
  <2>1. \A q \in Keys : staged'[q] # None => kernels'[q] # <<>> \/ graph'[q] # None
    BY <1>3 DEF StagedInOrder
  <2>2. ASSUME NEW q \in Keys \ stale, staged[q] # None
        PROVE /\ gate.pc \notin {"off", "reopen"}
              /\ \/ NextIsEnd(q)' => Head(channel'[DeviceOf[q]]) = Head(channel[DeviceOf[q]]) /\ Head(channel[DeviceOf[q]]).run = staged[q]
                 \/ At("clear") /\ consumer[DeviceOf[q]].pc = "idle"
    BY <1>10, <2>2 DEF StagedInOrder
  <2>3. ASSUME NEW d \in Devices, consumer[d].pc = "parse"
        PROVE /\ channel'[d] # <<>> /\ consumer[d].epoch <= epoch
              /\ consumer[d].epoch # epoch => \A q \in Keys : DeviceOf[q] = d => staged[q] = None
              /\ consumer[d].epoch = epoch => gate.pc \notin {"off", "reopen"}
    BY <1>2, <2>3 DEF StagedInOrder
  <2>4. stale \subseteq crossed'
    BY <1>4 DEF StagedInOrder
  <2>5. ASSUME NEW q \in Keys \ crossed', NextIsEnd(q)'
        PROVE staged[q] = Head(channel'[DeviceOf[q]]).run
    BY <1>4, <1>10, <2>5 DEF StagedInOrder
  <2> QED BY <1>3, <2>1, <2>2, <2>3, <2>4, <2>5 DEF StagedInOrder, At
<1>12. AgingInOrder'
  <2>1. \A q : Whole(q)' = Whole(q)
    BY <1>3 DEF Whole
  <2>2. \A x : OnItsWay(x)' <=> OnItsWay(x)
    BY <1>3 DEF OnItsWay
  <2>3. \A q : \A x : InWhole(x, q)' <=> InWhole(x, q)
    BY <2>1 DEF InWhole
  <2>4. \A q : GraphOf(q)' = GraphOf(q)
    BY <1>3 DEF GraphOf
  <2> QED BY <1>3, <1>8, <2>1, <2>2, <2>3, <2>4 DEF AgingInOrder, Aging
<1>13. GraphInOrder' /\ AgingWaits'
  BY <1>3, GraphStays, WaitsStay
<1>14. AllRecorded'
  <2>0. \A g, x : Claims(g, x)' <=> Claims(g, x)
    BY <1>3, ClaimsStay
  <2> SUFFICES ASSUME NEW m \in 1 .. Len(runs')
      PROVE \/ RunKey(m)' \in crossed' \/ HasEnd(DeviceOf[RunKey(m)], m)'
            \/ \E r \in recorded : r.end = m /\ (r.launch = runs'[m] \/ Claims(r.launch, runs'[m]))
    BY <1>3, <2>0 DEF AllRecorded, Claims, Aging
  <2>1. CASE m = n
    <3>1. DeviceOf[RunKey(m)'] = DeviceOf[k]
      BY <1>1, <2>1
    <3> QED BY <1>2, <2>1, <3>1 DEF HasEnd, EndIn
  <2>2. CASE m # n
    <3>1. m \in 1 .. Len(runs) /\ runs'[m] = runs[m]
      BY <1>1, <2>2
    <3>2. PICK d \in Devices : d = DeviceOf[RunKey(m)] /\ d = DeviceOf[RunKey(m)']
      BY <1>1, <1>7, <3>1
    <3>3. HasEnd(d, m)' <=> HasEnd(d, m)
      BY <1>2, <3>1
    <3>4. \/ RunKey(m) \in crossed \/ HasEnd(d, m)
          \/ \E r \in recorded : r.end = m /\ (r.launch = runs[m] \/ Claims(r.launch, runs[m]))
      BY <3>1, <3>2 DEF AllRecorded
    <3>5. (\E r \in recorded : r.end = m /\ (r.launch = runs[m] \/ Claims(r.launch, runs[m])))
          => (\E r \in recorded : r.end = m /\ (r.launch = runs'[m] \/ Claims(r.launch, runs'[m])))
      BY <3>1
    <3> QED BY <1>1, <1>4, <3>1, <3>2, <3>3, <3>4, <3>5 DEF HasEnd, EndIn
  <2> QED BY <2>1, <2>2
<1>15. DrainHolds' /\ PendingExact'
  BY <1>3, DrainStays, PendingStays
<1>16. TimesHold'
  <2>1. ASSUME NEW r \in recorded, ~r.crossed
        PROVE (runs'[r.end] = r.launch \/ Claims(r.launch, runs'[r.end])) /\ r.start = r.end
    <3>1. r.end \in 1 .. Len(runs)
      OBVIOUS
    <3>2. runs'[r.end] = runs[r.end]
      BY <1>1, <3>1
    <3>3. (runs[r.end] = r.launch \/ Claims(r.launch, runs[r.end])) /\ r.start = r.end
      BY <2>1 DEF KernelOwnTimes
    <3> QED BY <3>2, <3>3
  <2>2. \A g, x : Claims(g, x)' <=> Claims(g, x)
    BY <1>3, ClaimsStay
  <2>3. KernelOwnTimes'
    BY <1>3, <2>1, <2>2 DEF KernelOwnTimes, Claims, Aging
  <2> QED BY <1>1, <1>3, <2>3 DEF TimesHold, PairsOneRun
<1> QED BY <1>1, <1>2, <1>5, <1>6, <1>9, <1>11, <1>12, <1>13, <1>14, <1>15, <1>16 DEF TimesHold

----------------------------------------------------------------------------
(* A consumer goes on to its next record. *)

IsSeen(e, m, d, log) == e = d /\ log.funcType = "END" /\ m = log.run

LEMMA ChannelRest ==
    ASSUME KernelIInv, NEW d \in Devices, NEW log, channel[d] # <<>>, log = Head(channel[d]),
           channel' = [channel EXCEPT ![d] = Tail(@)], UNCHANGED <<launched, runs>>
    PROVE  /\ channel' \in [Devices -> Seq(SocLogs)] /\ channel'[d] = Tail(channel[d])
           /\ \A e \in Devices \ {d} : channel'[e] = channel[e]
           /\ log \in SocLogs /\ log.run \in 1 .. Len(runs) /\ log.key = RunKey(log.run) /\ DeviceOf[log.key] = d
           /\ \A e \in Devices, m \in 1 .. Len(runs) :
                 EndIn(channel'[e], RunKey(m), m) <=> HasEnd(e, m) /\ ~IsSeen(e, m, d, log)
           /\ log.funcType = "END" =>
                 /\ HasEnd(d, log.run) /\ \A m \in 1 .. Len(runs) : HasEnd(d, m) => log.run <= m
                 /\ channel'[d] # <<>> => Head(channel'[d]).funcType = "BEGIN"
           /\ log.funcType = "BEGIN" => channel'[d] # <<>> /\ IsLog(Head(channel'[d]), log.key, "END", log.run)
           /\ ChannelInOrder'
<1> USE DEF KernelIInv
<1>1. PICK s, u : s = channel[d] /\ u = Tail(s)
  OBVIOUS
<1>2. channel \in [Devices -> Seq(SocLogs)] /\ s \in Seq(SocLogs) /\ s # <<>>
  BY <1>1 DEF KernelTypeOK
<1>3. /\ u \in Seq(SocLogs) /\ Len(s) \in Nat \ {0} /\ Len(u) = Len(s) - 1
      /\ log = s[1] /\ s[1] \in SocLogs /\ 1 \in 1 .. Len(s)
      /\ \A i \in 1 .. Len(u) : u[i] = s[i + 1] /\ i + 1 \in 1 .. Len(s)
  BY <1>1, <1>2, Rest
<1>4. channel'[d] = u /\ \A e \in Devices \ {d} : channel'[e] = channel[e]
  BY <1>1, <1>2
<1>5. channel' \in [Devices -> Seq(SocLogs)]
  BY <1>1, <1>2, <1>3
<1>6. /\ \A i \in 1 .. Len(s) :
           /\ s[i].run \in 1 .. Len(runs) /\ s[i].key = RunKey(s[i].run)
           /\ DeviceOf[s[i].key] = d
           /\ s[i].funcType = "BEGIN" =>
                 i < Len(s) /\ IsLog(s[i + 1], s[i].key, "END", s[i].run)
           /\ s[i].funcType = "END" /\ i > 1 => IsLog(s[i - 1], s[i].key, "BEGIN", s[i].run)
      /\ \A i, j \in 1 .. Len(s) : s[i].funcType = "END" /\ s[j].funcType = "END" /\ i < j => s[i].run < s[j].run
  BY <1>1 DEF ChannelInOrder, LogsPaired, LogsIn, RunKey, EndsRise, RiseIn
<1>7. Len(runs) \in Nat /\ \A m : RunKey(m)' = RunKey(m)
  BY NotEmpty DEF KernelTypeOK, RunKey
<1>8. \A m : HasEnd(d, m) <=> \E i \in 1 .. Len(s) : s[i].key = RunKey(m) /\ s[i].funcType = "END" /\ s[i].run = m
  BY <1>1 DEF HasEnd, EndIn, IsLog
<1>9. \A m : HasEnd(d, m)' <=> \E i \in 1 .. Len(u) : u[i].key = RunKey(m) /\ u[i].funcType = "END" /\ u[i].run = m
  BY <1>4, <1>7 DEF HasEnd, EndIn, IsLog
<1>10. ASSUME NEW i \in 1 .. Len(s), i # 1 PROVE i - 1 \in 1 .. Len(u) /\ u[i - 1] = s[i]
  BY <1>3, <1>10
<1>11. ASSUME NEW m \in 1 .. Len(runs)
       PROVE HasEnd(d, m)' <=> HasEnd(d, m) /\ ~(log.funcType = "END" /\ m = log.run)
  <2>1. ASSUME HasEnd(d, m)' PROVE HasEnd(d, m) /\ ~(log.funcType = "END" /\ m = log.run)
    <3>1. PICK i \in 1 .. Len(u) : u[i].key = RunKey(m) /\ u[i].funcType = "END" /\ u[i].run = m
      BY <1>9, <2>1
    <3>2. u[i] = s[i + 1] /\ i + 1 \in 1 .. Len(s) /\ 1 < i + 1
      BY <1>3
    <3>3. log.funcType = "END" => log.run < m
      BY <1>3, <1>6, <3>1, <3>2
    <3> QED BY <1>3, <1>6, <1>8, <3>1, <3>2, <3>3
  <2>2. ASSUME HasEnd(d, m), ~(log.funcType = "END" /\ m = log.run) PROVE HasEnd(d, m)'
    <3>1. PICK i \in 1 .. Len(s) : s[i].key = RunKey(m) /\ s[i].funcType = "END" /\ s[i].run = m
      BY <1>8, <2>2
    <3>2. i # 1
      BY <1>3, <2>2, <3>1
    <3>3. PICK j \in 1 .. Len(u) : u[j] = s[i]
      BY <1>10, <3>2
    <3> QED BY <1>9, <3>1, <3>3
  <2> QED BY <2>1, <2>2
<1>12. ASSUME NEW e \in Devices, NEW m \in 1 .. Len(runs), e # d PROVE HasEnd(e, m)' <=> HasEnd(e, m)
  BY <1>4, <1>7, <1>12 DEF HasEnd, EndIn, IsLog
<1>13. ASSUME log.funcType = "END"
       PROVE /\ HasEnd(d, log.run) /\ \A m \in 1 .. Len(runs) : HasEnd(d, m) => log.run <= m
             /\ u # <<>> => Head(u).funcType = "BEGIN"
  <2>1. HasEnd(d, log.run)
    BY <1>3, <1>6, <1>8, <1>13
  <2>2. ASSUME NEW m \in 1 .. Len(runs), HasEnd(d, m) PROVE log.run <= m
    <3>1. PICK i \in 1 .. Len(s) : s[i].key = RunKey(m) /\ s[i].funcType = "END" /\ s[i].run = m
      BY <1>8, <2>2
    <3>2. i = 1 \/ 1 < i
      BY <1>3
    <3>3. log.run \in 1 .. Len(runs)
      BY <1>3, <1>6
    <3> QED BY <1>3, <1>6, <1>7, <1>13, <3>1, <3>2, <3>3
  <2>3. ASSUME u # <<>> PROVE Head(u).funcType = "BEGIN"
    <3>1. Head(u) = u[1] /\ 1 \in 1 .. Len(u)
      BY <1>3, <2>3, Rest
    <3>2. Head(u) = s[2] /\ 2 \in 1 .. Len(s)
      BY <1>3, <3>1
    <3>3. s[2].funcType = "END" => IsLog(s[2 - 1], s[2].key, "BEGIN", s[2].run)
      BY <1>6, <3>2
    <3>4. s[2].funcType # "END"
      BY <1>3, <1>13, <3>3 DEF IsLog
    <3>5. s[2] \in SocLogs
      BY <1>2, <3>2, ElementOfSeq
    <3> QED BY <3>2, <3>4, <3>5 DEF SocLogs
  <2> QED BY <2>1, <2>2, <2>3
<1>14. ASSUME log.funcType = "BEGIN" PROVE u # <<>> /\ IsLog(Head(u), log.key, "END", log.run)
  <2>1. 1 < Len(s) /\ IsLog(s[2], log.key, "END", log.run)
    BY <1>3, <1>6, <1>14
  <2>2. u # <<>>
    BY <1>3, <2>1, NotEmpty
  <2>3. Head(u) = u[1] /\ 1 \in 1 .. Len(u)
    BY <1>3, <2>2, Rest
  <2> QED BY <1>3, <2>1, <2>2, <2>3
<1>15. log.run \in 1 .. Len(runs) /\ log.key = RunKey(log.run) /\ DeviceOf[log.key] = d
  BY <1>3, <1>6
<1>16. ASSUME NEW e \in Devices PROVE LogsPaired(e)' /\ EndsRise(e)'
  <2>1. CASE e # d
    <3>1. LogsPaired(e) /\ EndsRise(e)
      BY DEF ChannelInOrder
    <3>2. channel'[e] = channel[e]
      BY <1>4, <2>1
    <3> QED BY <3>1, <3>2 DEF LogsPaired, EndsRise
  <2>2. CASE e = d
    <3>1. ASSUME NEW i \in 1 .. Len(u)
          PROVE /\ u[i].run \in 1 .. Len(runs) /\ u[i].key = RunKey(u[i].run)
                /\ DeviceOf[u[i].key] = d
                /\ u[i].funcType = "BEGIN" => i < Len(u) /\ IsLog(u[i + 1], u[i].key, "END", u[i].run)
                /\ u[i].funcType = "END" /\ i > 1 => IsLog(u[i - 1], u[i].key, "BEGIN", u[i].run)
      <4>1. u[i] = s[i + 1] /\ i + 1 \in 1 .. Len(s)
        BY <1>3
      <4>2. ASSUME u[i].funcType = "BEGIN" PROVE i < Len(u) /\ IsLog(u[i + 1], u[i].key, "END", u[i].run)
        <5>1. i + 1 < Len(s) /\ IsLog(s[(i + 1) + 1], s[i + 1].key, "END", s[i + 1].run)
          BY <1>6, <4>1, <4>2
        <5>2. i + 1 \in 1 .. Len(u)
          BY <1>3, <5>1
        <5> QED BY <1>3, <4>1, <5>1, <5>2
      <4>3. ASSUME u[i].funcType = "END", i > 1 PROVE IsLog(u[i - 1], u[i].key, "BEGIN", u[i].run)
        <5>1. IsLog(s[(i + 1) - 1], s[i + 1].key, "BEGIN", s[i + 1].run)
          BY <1>6, <4>1, <4>3
        <5>2. i - 1 \in 1 .. Len(u) /\ (i - 1) + 1 = (i + 1) - 1
          BY <1>3, <4>3
        <5> QED BY <1>3, <4>1, <5>1, <5>2
      <4> QED BY <1>6, <4>1, <4>2, <4>3
    <3>2. ASSUME NEW i \in 1 .. Len(u), NEW j \in 1 .. Len(u), u[i].funcType = "END", u[j].funcType = "END", i < j
          PROVE u[i].run < u[j].run
      <4>0. i \in Nat /\ j \in Nat /\ i < j
        BY <3>2
      <4>1. i + 1 < j + 1 /\ i + 1 \in 1 .. Len(s) /\ j + 1 \in 1 .. Len(s) /\ u[i] = s[i + 1] /\ u[j] = s[j + 1]
        <5>1. i + 1 < j + 1
          BY <4>0
        <5>2. i + 1 \in 1 .. Len(s) /\ u[i] = s[i + 1]
          BY <1>3
        <5>3. j + 1 \in 1 .. Len(s) /\ u[j] = s[j + 1]
          BY <1>3
        <5> QED BY <5>1, <5>2, <5>3
      <4> QED BY <1>6, <3>2, <4>1
    <3>15. LogsIn(u, d, launched, runs)
      BY <3>1 DEF LogsIn, RunKey
    <3>3. LogsPaired(d)'
      BY <1>4, <3>15 DEF LogsPaired
    <3>4. EndsRise(d)'
      BY <1>4, <3>2 DEF EndsRise, RiseIn
    <3> QED BY <2>2, <3>3, <3>4
  <2> QED BY <2>1, <2>2
<1>17. ASSUME NEW e \in Devices PROVE EndsLast(e)'
  <2> SUFFICES ASSUME NEW m \in 1 .. Len(runs), NEW x \in 1 .. Len(runs), m < x,
                      DeviceOf[RunKey(m)] = e, DeviceOf[RunKey(x)] = e, HasEnd(e, m)'
               PROVE HasEnd(e, x)'
    BY <1>7 DEF EndsLast
  <2>1. HasEnd(e, m) => HasEnd(e, x)
    BY DEF ChannelInOrder, EndsLast
  <2>2. CASE e # d
    BY <1>12, <2>1, <2>2
  <2>3. CASE e = d
    <3>1. HasEnd(d, m) /\ ~(log.funcType = "END" /\ m = log.run)
      BY <1>11, <2>3
    <3>2. ~(log.funcType = "END" /\ x = log.run)
      BY <1>7, <1>13, <3>1
    <3> QED BY <1>11, <2>1, <2>3, <3>1, <3>2
  <2> QED BY <2>2, <2>3
<1>18. ChannelInOrder'
  BY <1>16, <1>17 DEF ChannelInOrder
<1>19. ASSUME NEW e \in Devices, NEW m \in 1 .. Len(runs)
       PROVE EndIn(channel'[e], RunKey(m), m) <=> HasEnd(e, m) /\ ~IsSeen(e, m, d, log)
  <2>1. HasEnd(e, m)' <=> EndIn(channel'[e], RunKey(m), m)
    BY <1>7 DEF HasEnd
  <2> QED BY <1>11, <1>12, <2>1 DEF IsSeen
<1> QED BY <1>1, <1>3, <1>4, <1>5, <1>13, <1>14, <1>15, <1>18, <1>19

\* Which ENDs come next, once the head is gone.
LEMMA NextAfter ==
    ASSUME KernelIInv, NEW d \in Devices, NEW log, channel[d] # <<>>, log = Head(channel[d]),
           channel' = [channel EXCEPT ![d] = Tail(@)], UNCHANGED <<launched, runs>>
    PROVE  /\ \A q \in Keys : DeviceOf[q] # d =>
                 (NextIsEnd(q)' <=> NextIsEnd(q)) /\ Head(channel'[DeviceOf[q]]) = Head(channel[DeviceOf[q]])
           /\ \A q \in Keys : DeviceOf[q] = d => (NextIsEnd(q) <=> log.funcType = "END" /\ q = log.key)
           /\ \A q \in Keys : DeviceOf[q] = d => (NextIsEnd(q)' <=> log.funcType = "BEGIN" /\ q = log.key)
           /\ log.funcType = "BEGIN" => Head(channel'[d]).run = log.run
<1>1. /\ channel' \in [Devices -> Seq(SocLogs)] /\ channel'[d] = Tail(channel[d])
      /\ \A e \in Devices \ {d} : channel'[e] = channel[e]
      /\ log \in SocLogs
      /\ log.funcType = "END" => (channel'[d] # <<>> => Head(channel'[d]).funcType = "BEGIN")
      /\ log.funcType = "BEGIN" => channel'[d] # <<>> /\ IsLog(Head(channel'[d]), log.key, "END", log.run)
  BY ChannelRest
<1>2. \A q \in Keys : DeviceOf[q] \in Devices
  BY KernelAssumption
<1>3. log.funcType \in {"BEGIN", "END"}
  BY <1>1 DEF SocLogs
<1>4. \A q \in Keys : DeviceOf[q] # d =>
                 (NextIsEnd(q)' <=> NextIsEnd(q)) /\ Head(channel'[DeviceOf[q]]) = Head(channel[DeviceOf[q]])
  BY <1>1, <1>2 DEF NextIsEnd
<1>5. \A q \in Keys : DeviceOf[q] = d => (NextIsEnd(q) <=> log.funcType = "END" /\ q = log.key)
  BY DEF NextIsEnd
<1>6. \A q \in Keys : DeviceOf[q] = d => (NextIsEnd(q)' <=> log.funcType = "BEGIN" /\ q = log.key)
  <2> PICK u : u = channel'[d]
    OBVIOUS
  <2>1. \A q \in Keys : DeviceOf[q] = d => (NextIsEnd(q)' <=> u # <<>> /\ Head(u).key = q /\ Head(u).funcType = "END")
    BY DEF NextIsEnd
  <2>2. CASE log.funcType = "BEGIN"
    BY <1>1, <2>1, <2>2 DEF IsLog
  <2>3. CASE log.funcType = "END"
    BY <1>1, <2>1, <2>3
  <2> QED BY <1>3, <2>2, <2>3
<1>7. log.funcType = "BEGIN" => Head(channel'[d]).run = log.run
  BY <1>1 DEF IsLog
<1> QED BY <1>4, <1>5, <1>6, <1>7

\* The record goes unseen: its key is crossed, and all else stands.
Unseen(d) ==
    /\ channel[d] # <<>> /\ consumer[d].pc = "idle"
    /\ channel' = [channel EXCEPT ![d] = Tail(@)]
    /\ crossed' = crossed \cup {Head(channel[d]).key}
    /\ UNCHANGED <<gate, launched, unaging, host, hostTasks, hostGraphs, kernels, graph, staged, pending, runs, consumer,
                   recorded, epoch, wiped, drift>>

LEMMA UnseenKeeps ==
    ASSUME KernelIInv, NEW d \in Devices, Unseen(d)
    PROVE  /\ channel' \in [Devices -> Seq(SocLogs)] /\ crossed' \subseteq Keys
           /\ GateSessions' /\ HostsApart' /\ EntriesApart' /\ AgingWaits' /\ RunsInOrder' /\ ChannelInOrder'
           /\ AgingInOrder' /\ GraphInOrder' /\ AllRecorded' /\ DrainHolds' /\ PendingExact' /\ TimesHold'
<1>0. PICK log : log = Head(channel[d])
  OBVIOUS
<1>1. /\ channel[d] # <<>> /\ consumer[d].pc = "idle"
      /\ channel' = [channel EXCEPT ![d] = Tail(@)] /\ crossed' = crossed \cup {log.key}
      /\ UNCHANGED <<gate, launched, unaging, host, hostTasks, hostGraphs, kernels, graph, staged, pending, runs, consumer,
                     recorded, epoch, wiped, drift>>
  BY <1>0 DEF Unseen
<1>2. /\ channel' \in [Devices -> Seq(SocLogs)]
      /\ log \in SocLogs /\ log.run \in 1 .. Len(runs) /\ log.key = RunKey(log.run) /\ DeviceOf[log.key] = d
      /\ \A e \in Devices, m \in 1 .. Len(runs) :
            EndIn(channel'[e], RunKey(m), m) <=> HasEnd(e, m) /\ ~IsSeen(e, m, d, log)
      /\ ChannelInOrder'
  <2>1. UNCHANGED <<launched, runs>>
    BY <1>1
  <2>2. channel[d] # <<>>
    BY <1>1
  <2>3. channel' = [channel EXCEPT ![d] = Tail(@)]
    BY <1>1
  <2>4. log = Head(channel[d])
    BY <1>0
  <2>5. /\ channel' \in [Devices -> Seq(SocLogs)] /\ ChannelInOrder'
        /\ log \in SocLogs /\ log.run \in 1 .. Len(runs) /\ log.key = RunKey(log.run) /\ DeviceOf[log.key] = d
    BY <2>1, <2>2, <2>3, <2>4, ChannelRest
  <2>6. \A e \in Devices, m \in 1 .. Len(runs) :
            EndIn(channel'[e], RunKey(m), m) <=> HasEnd(e, m) /\ ~IsSeen(e, m, d, log)
    <3> TAKE e \in Devices, m \in 1 .. Len(runs)
    <3> QED BY <2>1, <2>2, <2>3, <2>4, ChannelRest
  <2> QED BY <2>5, <2>6
<1> USE DEF KernelIInv
<1>3. crossed' \subseteq Keys /\ crossed \subseteq crossed'
  BY <1>1, <1>2 DEF KernelTypeOK, SocLogs
<1>4. GateSessions' /\ HostsApart' /\ EntriesApart' /\ AgingWaits' /\ RunsInOrder' /\ DrainHolds' /\ PendingExact' /\ TimesHold'
  <2>1. GateSessions' /\ HostsApart'
    BY <1>1 DEF GateSessions, HostsApart, Aging
  <2>2. DrainHolds' /\ PendingExact'
    BY <1>1, DrainStays, PendingStays
  <2>3. EntriesApart' /\ AgingWaits' /\ RunsInOrder' /\ TimesHold'
    BY <1>1, EntriesStay, WaitsStay, RunsStay, TimesStay DEF TimesHold
  <2> QED BY <2>1, <2>2, <2>3
<1>5. \A m : RunKey(m)' = RunKey(m)
  BY <1>1 DEF RunKey
<1>6. \A m \in 1 .. Len(runs) : runs[m] \in 1 .. Len(launched) /\ RunKey(m) \in Keys /\ DeviceOf[RunKey(m)] \in Devices
  <2> SUFFICES ASSUME NEW m \in 1 .. Len(runs) PROVE runs[m] \in 1 .. Len(launched) /\ RunKey(m) \in Keys /\ DeviceOf[RunKey(m)] \in Devices
    OBVIOUS
  <2>1. runs[m] \in 1 .. Len(launched) /\ launched \in Seq(Keys)
    BY DEF RunsInOrder, KernelTypeOK
  <2>2. launched[runs[m]] \in Keys
    BY <2>1, ElementOfSeq
  <2> QED BY <2>1, <2>2, KernelAssumption DEF RunKey
<1>7. ASSUME NEW m \in 1 .. Len(runs), RunKey(m) # log.key
      PROVE HasEnd(DeviceOf[RunKey(m)], m)' <=> HasEnd(DeviceOf[RunKey(m)], m)
  <2>1. PICK e \in Devices : e = DeviceOf[RunKey(m)]
    BY <1>6
  <2>2. EndIn(channel'[e], RunKey(m), m) <=> HasEnd(e, m)
    BY <1>2, <1>7 DEF IsSeen
  <2>3. DeviceOf[RunKey(m)'] = e
    BY <1>5, <2>1
  <2> QED BY <1>5, <2>1, <2>2, <2>3 DEF HasEnd
<1>8. ASSUME NEW x, launched[x] # log.key PROVE HasEnded(x)' <=> HasEnded(x)
  <2>1. HasEnded(x)' <=> \E m \in 1 .. Len(runs) : runs[m] = x /\ ~HasEnd(DeviceOf[RunKey(m)], m)'
    BY <1>1 DEF HasEnded
  <2>2. \A m \in 1 .. Len(runs) : runs[m] = x => RunKey(m) # log.key
    BY <1>8 DEF RunKey
  <2> QED BY <1>7, <2>1, <2>2 DEF HasEnded
<1>9. AgingInOrder'
  <2> SUFFICES ASSUME NEW q \in Keys \ crossed', GraphOf(q) = None
      PROVE /\ \A i, j \in 1 .. Len(Whole(q)) : i < j => Whole(q)[i] < Whole(q)[j]
            /\ \A x \in 1 .. Len(launched) : launched[x] = q =>
                  \/ OnItsWay(x) /\ ~HasEnded(x)' /\ \A i \in 1 .. Len(Whole(q)) : Whole(q)[i] < x
                  \/ ~HasEnded(x)' /\ InWhole(x, q)
                  \/ Aging(x) /\ HasEnded(x)' /\ ~OnItsWay(x) /\ ~InWhole(x, q)
    <3>1. \A k : Whole(k)' = Whole(k) /\ (\A x : InWhole(x, k)' <=> InWhole(x, k)) /\ GraphOf(k)' = GraphOf(k)
      BY <1>1 DEF Whole, InWhole, GraphOf
    <3>2. \A x : OnItsWay(x)' <=> OnItsWay(x)
      BY <1>1 DEF OnItsWay
    <3> QED BY <1>1, <3>1, <3>2 DEF AgingInOrder, Aging
  <2>1. q # log.key /\ q \in Keys \ crossed
    BY <1>1
  <2>2. \A x \in 1 .. Len(launched) : launched[x] = q => (HasEnded(x)' <=> HasEnded(x))
    BY <1>8, <2>1
  <2> QED BY <2>1, <2>2 DEF AgingInOrder
<1>10. GraphInOrder'
  BY <1>1, <1>3, GraphStays
<1>11. AllRecorded'
  <2>0. \A g, x : Claims(g, x)' <=> Claims(g, x)
    BY <1>1, ClaimsStay
  <2> SUFFICES ASSUME NEW m \in 1 .. Len(runs), RunKey(m) \notin crossed', ~HasEnd(DeviceOf[RunKey(m)], m)'
      PROVE \E r \in recorded : r.end = m /\ (r.launch = runs[m] \/ Claims(r.launch, runs[m]))
    BY <1>1, <1>5, <2>0 DEF AllRecorded, Claims, Aging
  <2>1. RunKey(m) # log.key /\ RunKey(m) \notin crossed
    BY <1>1
  <2> QED BY <1>7, <2>1 DEF AllRecorded
<1> QED BY <1>2, <1>3, <1>4, <1>9, <1>10, <1>11

LEMMA LossKeeps ==
    ASSUME KernelIInv, NEW d \in Devices, LosesRecord(d)
    PROVE  KernelIInv'
<1>0. PICK log : log = Head(channel[d])
  OBVIOUS
<1>1. /\ lost < MaxLost /\ lost' = lost + 1 /\ channel[d] # <<>> /\ consumer[d].pc = "idle"
      /\ channel' = [channel EXCEPT ![d] = Tail(@)] /\ crossed' = crossed \cup {log.key}
      /\ stale' = IF log.funcType = "BEGIN" /\ staged[log.key] # None THEN stale \cup {log.key} ELSE stale
      /\ UNCHANGED <<gate, launched, unaging, host, hostTasks, hostGraphs, kernels, graph, staged, pending, runs, consumer,
                     recorded, epoch, wiped, drift>>
  BY <1>0 DEF LosesRecord
<1>2. Unseen(d)
  BY <1>0, <1>1 DEF Unseen
<1>3. /\ channel' \in [Devices -> Seq(SocLogs)] /\ crossed' \subseteq Keys
      /\ GateSessions' /\ HostsApart' /\ EntriesApart' /\ AgingWaits' /\ RunsInOrder' /\ ChannelInOrder'
      /\ AgingInOrder' /\ GraphInOrder' /\ AllRecorded' /\ DrainHolds' /\ PendingExact' /\ TimesHold'
  BY <1>2, UnseenKeeps
<1>4. /\ \A q \in Keys : DeviceOf[q] # d =>
            (NextIsEnd(q)' <=> NextIsEnd(q)) /\ Head(channel'[DeviceOf[q]]) = Head(channel[DeviceOf[q]])
      /\ \A q \in Keys : DeviceOf[q] = d => (NextIsEnd(q)' <=> log.funcType = "BEGIN" /\ q = log.key)
  <2>1. UNCHANGED <<launched, runs>>
    BY <1>1
  <2>2. channel[d] # <<>>
    BY <1>1
  <2>3. channel' = [channel EXCEPT ![d] = Tail(@)]
    BY <1>1
  <2> QED BY <1>0, <2>1, <2>2, <2>3, NextAfter
<1> USE DEF KernelIInv
<1>5. stale' \subseteq crossed' /\ stale \subseteq stale'
  BY <1>1 DEF StagedInOrder
<1>6. KernelTypeOK'
  <2>1. lost' \in 0 .. MaxLost
    BY <1>1, KernelAssumption DEF KernelTypeOK
  <2>2. stale' \subseteq Keys
    BY <1>3, <1>5
  <2> QED BY <1>1, <1>3, <2>1, <2>2 DEF KernelTypeOK, GateTypeOK
<1>7. StagedInOrder'
  <2>1. \A q \in Keys : staged'[q] # None => kernels'[q] # <<>> \/ graph'[q] # None
    BY <1>1 DEF StagedInOrder
  <2>2. ASSUME NEW q \in Keys \ stale', staged[q] # None
        PROVE /\ gate.pc \notin {"off", "reopen"}
              /\ \/ NextIsEnd(q)' => Head(channel'[DeviceOf[q]]).run = staged[q]
                 \/ At("clear") /\ consumer[DeviceOf[q]].pc = "idle"
    <3>1. /\ gate.pc \notin {"off", "reopen"}
          /\ \/ NextIsEnd(q) => Head(channel[DeviceOf[q]]).run = staged[q]
             \/ At("clear") /\ consumer[DeviceOf[q]].pc = "idle"
      BY <1>5, <2>2 DEF StagedInOrder
    <3>2. CASE DeviceOf[q] # d
      BY <1>4, <3>1, <3>2
    <3>3. CASE DeviceOf[q] = d
      <4>1. ~NextIsEnd(q)'
        BY <1>1, <1>4, <2>2, <3>3
      <4> QED BY <3>1, <4>1
    <3> QED BY <3>2, <3>3
  <2>3. ASSUME NEW e \in Devices, consumer[e].pc = "parse"
        PROVE /\ channel'[e] # <<>> /\ consumer[e].epoch <= epoch
              /\ consumer[e].epoch # epoch => \A q \in Keys : DeviceOf[q] = e => staged[q] = None
              /\ consumer[e].epoch = epoch => gate.pc \notin {"off", "reopen"}
    <3>1. e # d
      BY <1>1, <2>3
    <3>2. channel'[e] = channel[e]
      BY <1>1, <3>1 DEF KernelTypeOK
    <3> QED BY <2>3, <3>2 DEF StagedInOrder
  <2>4. ASSUME NEW q \in Keys \ crossed', NextIsEnd(q)'
        PROVE staged[q] = Head(channel'[DeviceOf[q]]).run
    <3>1. q # log.key /\ q \in Keys \ crossed
      BY <1>1
    <3>2. DeviceOf[q] # d
      BY <1>4, <2>4, <3>1
    <3> QED BY <1>4, <2>4, <3>1, <3>2 DEF StagedInOrder
  <2>5. UNCHANGED <<gate, staged, consumer, epoch>> /\ (At("clear")' <=> At("clear"))
    BY <1>1 DEF At
  <2>6. \A q \in Keys \ stale' : staged'[q] # None =>
            /\ gate'.pc \notin {"off", "reopen"}
            /\ \/ NextIsEnd(q)' => Head(channel'[DeviceOf[q]]).run = staged'[q]
               \/ At("clear")' /\ consumer'[DeviceOf[q]].pc = "idle"
    BY <1>5, <2>2, <2>5
  <2>7. \A q \in Keys \ crossed' : NextIsEnd(q)' => staged'[q] = Head(channel'[DeviceOf[q]]).run
    BY <2>4, <2>5
  <2>8. \A q \in Keys : staged'[q] # None => kernels'[q] # <<>> \/ graph'[q] # None
    BY <1>1, <1>5, <2>1 DEF StagedInOrder
  <2> QED BY <1>1, <1>5, <2>3, <2>5, <2>6, <2>7, <2>8 DEF StagedInOrder
<1> QED BY <1>3, <1>6, <1>7 DEF TimesHold

LEMMA CheckKeeps ==
    ASSUME KernelIInv, NEW d \in Devices, SocLogChecks(d)
    PROVE  KernelIInv'
<1>1. CASE gate.switch
  <2> USE DEF KernelIInv
  <2>1. /\ channel[d] # <<>> /\ consumer' = [consumer EXCEPT ![d] = [pc |-> "parse", epoch |-> epoch]]
        /\ UNCHANGED <<gate, launched, unaging, host, hostTasks, hostGraphs, kernels, graph, staged, pending, runs, channel, lost,
                       recorded, epoch, wiped, drift, crossed, stale>>
    BY <1>1 DEF SocLogChecks, IsActivityKindEnable
  <2>2. gate.pc \in {"on", "retry", "drain", "stop", "switch"}
    BY <1>1 DEF GateSessions
  <2>3. /\ consumer' \in [Devices -> [pc: {"idle", "parse"}, epoch: 0 .. MaxSessions]]
        /\ consumer'[d] = [pc |-> "parse", epoch |-> epoch] /\ \A e \in Devices \ {d} : consumer'[e] = consumer[e]
    BY <2>1 DEF KernelTypeOK
  <2>4. KernelTypeOK' /\ GateSessions' /\ HostsApart'
    <3>1. KernelTypeOK'
      BY <2>1, <2>3 DEF KernelTypeOK, GateTypeOK
    <3> QED BY <2>1, <3>1 DEF GateSessions, HostsApart, Aging
  <2>5. StagedInOrder'
    <3>1. ASSUME NEW e \in Devices, consumer'[e].pc = "parse"
          PROVE /\ channel[e] # <<>> /\ consumer'[e].epoch <= epoch
                /\ consumer'[e].epoch # epoch => \A q \in Keys : DeviceOf[q] = e => staged[q] = None
                /\ consumer'[e].epoch = epoch => gate.pc \notin {"off", "reopen"}
      <4>1. epoch \in Int
        BY GateAssumption DEF KernelTypeOK
      <4>2. CASE e = d
        BY <2>1, <2>2, <2>3, <4>1, <4>2
      <4>3. CASE e # d
        BY <2>3, <3>1, <4>3 DEF StagedInOrder
      <4> QED BY <4>2, <4>3
    <3>2. ASSUME NEW q \in Keys \ stale, staged[q] # None
          PROVE gate.pc \notin {"off", "reopen"} /\ (NextIsEnd(q) => Head(channel[DeviceOf[q]]).run = staged[q])
      BY <2>2, <3>2 DEF StagedInOrder, At
    <3>3. /\ \A q \in Keys : staged[q] # None => kernels[q] # <<>> \/ graph[q] # None
          /\ stale \subseteq crossed
          /\ \A q \in Keys \ crossed : NextIsEnd(q) => staged[q] = Head(channel[DeviceOf[q]]).run
      BY DEF StagedInOrder
    <3>4. \A q : NextIsEnd(q)' <=> NextIsEnd(q)
      BY <2>1 DEF NextIsEnd
    <3> QED BY <2>1, <3>1, <3>2, <3>3, <3>4 DEF StagedInOrder
  <2>6. DrainHolds' /\ TimesHold'
    BY <2>1, DrainStays, TimesStay DEF TimesHold
  <2> QED BY <2>1, <2>4, <2>5, <2>6, EntriesStay, WaitsStay, RunsStay, ChannelStays, AgingStays, GraphStays, RecordedStays, PendingStays
          DEF TimesHold
<1>2. CASE ~gate.switch
  <2>0. PICK log : log = Head(channel[d])
    OBVIOUS
  <2>1. /\ channel[d] # <<>> /\ consumer[d].pc = "idle"
        /\ channel' = [channel EXCEPT ![d] = Tail(@)] /\ crossed' = crossed \cup {log.key}
        /\ UNCHANGED <<gate, launched, unaging, host, hostTasks, hostGraphs, kernels, graph, staged, pending, runs, consumer, lost,
                       recorded, epoch, wiped, drift, stale>>
    BY <1>2, <2>0 DEF SocLogChecks, IsActivityKindEnable
  <2>2. Unseen(d)
    BY <2>0, <2>1 DEF Unseen
  <2>3. /\ channel' \in [Devices -> Seq(SocLogs)] /\ crossed' \subseteq Keys
        /\ GateSessions' /\ HostsApart' /\ EntriesApart' /\ AgingWaits' /\ RunsInOrder' /\ ChannelInOrder'
        /\ AgingInOrder' /\ GraphInOrder' /\ AllRecorded' /\ DrainHolds' /\ PendingExact' /\ TimesHold'
    BY <2>2, UnseenKeeps
  <2>4. /\ \A q \in Keys : DeviceOf[q] # d =>
              (NextIsEnd(q)' <=> NextIsEnd(q)) /\ Head(channel'[DeviceOf[q]]) = Head(channel[DeviceOf[q]])
        /\ \A q \in Keys : DeviceOf[q] = d => (NextIsEnd(q)' <=> log.funcType = "BEGIN" /\ q = log.key)
    <3>1. UNCHANGED <<launched, runs>>
      BY <2>1
    <3>2. channel[d] # <<>>
      BY <2>1
    <3>3. channel' = [channel EXCEPT ![d] = Tail(@)]
      BY <2>1
    <3> QED BY <2>0, <3>1, <3>2, <3>3, NextAfter
  <2> USE DEF KernelIInv
  <2>5. KernelTypeOK'
    BY <2>1, <2>3 DEF KernelTypeOK, GateTypeOK
  <2>6. StagedInOrder'
    <3>1. \A q \in Keys : staged'[q] # None => kernels'[q] # <<>> \/ graph'[q] # None
      BY <2>1 DEF StagedInOrder
    <3>2. ASSUME NEW q \in Keys \ stale, staged[q] # None
          PROVE /\ gate.pc \notin {"off", "reopen"}
                /\ \/ NextIsEnd(q)' => Head(channel'[DeviceOf[q]]).run = staged[q]
                   \/ At("clear") /\ consumer[DeviceOf[q]].pc = "idle"
      <4>1. /\ gate.pc \notin {"off", "reopen"}
            /\ \/ NextIsEnd(q) => Head(channel[DeviceOf[q]]).run = staged[q]
               \/ At("clear") /\ consumer[DeviceOf[q]].pc = "idle"
        BY <3>2 DEF StagedInOrder
      <4>2. CASE DeviceOf[q] # d
        BY <2>4, <4>1, <4>2
      <4>3. CASE DeviceOf[q] = d
        <5>1. gate.pc = "clear"
          BY <1>2, <4>1 DEF GateSessions, KernelTypeOK, GateTypeOK, GatePCs
        <5> QED BY <2>1, <4>1, <4>3, <5>1 DEF At
      <4> QED BY <4>2, <4>3
    <3>3. ASSUME NEW e \in Devices, consumer[e].pc = "parse"
          PROVE /\ channel'[e] # <<>> /\ consumer[e].epoch <= epoch
                /\ consumer[e].epoch # epoch => \A q \in Keys : DeviceOf[q] = e => staged[q] = None
                /\ consumer[e].epoch = epoch => gate.pc \notin {"off", "reopen"}
      <4>1. e # d
        BY <2>1, <3>3
      <4>2. channel'[e] = channel[e]
        BY <2>1, <4>1 DEF KernelTypeOK
      <4> QED BY <3>3, <4>2 DEF StagedInOrder
    <3>4. ASSUME NEW q \in Keys \ crossed', NextIsEnd(q)'
          PROVE staged[q] = Head(channel'[DeviceOf[q]]).run
      <4>1. q # log.key /\ q \in Keys \ crossed
        BY <2>1
      <4>2. DeviceOf[q] # d
        BY <2>4, <3>4, <4>1
      <4> QED BY <2>4, <3>4, <4>1, <4>2 DEF StagedInOrder
    <3>5. stale \subseteq crossed'
      BY <2>1 DEF StagedInOrder
    <3>6. UNCHANGED <<gate, staged, consumer, epoch, stale>> /\ (At("clear")' <=> At("clear"))
      BY <2>1 DEF At
    <3>7. \A q \in Keys \ stale' : staged'[q] # None =>
              /\ gate'.pc \notin {"off", "reopen"}
              /\ \/ NextIsEnd(q)' => Head(channel'[DeviceOf[q]]).run = staged'[q]
                 \/ At("clear")' /\ consumer'[DeviceOf[q]].pc = "idle"
      BY <3>2, <3>6
    <3>8. \A q \in Keys \ crossed' : NextIsEnd(q)' => staged'[q] = Head(channel'[DeviceOf[q]]).run
      BY <3>4, <3>6
    <3> QED BY <3>1, <3>3, <3>5, <3>6, <3>7, <3>8 DEF StagedInOrder
  <2> QED BY <2>3, <2>5, <2>6 DEF TimesHold
<1> QED BY <1>1, <1>2

----------------------------------------------------------------------------
(* Clear. *)

LEMMA ClearKeeps ==
    ASSUME KernelIInv, KernelClears
    PROVE  KernelIInv'
<1> USE DEF KernelIInv
<1>1. /\ gate.pc = "clear" /\ gate' = [gate EXCEPT !.pc = "reopen"]
      /\ hostTasks' = [k \in DOMAIN hostTasks |-> <<>>] /\ kernels' = [k \in DOMAIN kernels |-> <<>>]
      /\ hostGraphs' = [k \in DOMAIN hostGraphs |-> None]
      /\ staged' = [k \in DOMAIN staged |-> None] /\ pending' = 0
      /\ epoch' = epoch + 1 /\ drift' = 0
      /\ wiped' = wiped \cup {host[t].launch : t \in {u \in HostThreads : host[u].pc = "count"}}
      /\ crossed' = crossed \cup Unfinished
      /\ UNCHANGED <<launched, unaging, host, graph, runs, channel, consumer, lost, recorded, stale>>
  BY DEF KernelClears, ClearsParser, At, Goto, Emptied, Unstaged
<1>2. /\ gate' \in Gates /\ gate'.pc = "reopen" /\ gate'.session = gate.session /\ gate'.switch = gate.switch
      /\ gate'.unregistering = gate.unregistering /\ gate'.zero = gate.zero
      /\ gate.session = epoch + 1 /\ ~gate.switch /\ gate.unregistering /\ gate.session \in 0 .. MaxSessions /\ epoch \in Nat
  <2>1. gate \in Gates
    BY DEF KernelTypeOK, GateTypeOK, Gates
  <2>2. /\ gate' \in Gates /\ gate'.pc = "reopen" /\ gate'.session = gate.session /\ gate'.switch = gate.switch
        /\ gate'.unregistering = gate.unregistering /\ gate'.zero = gate.zero
    BY <1>1, <2>1 DEF Gates, GatePCs
  <2>3. gate.session = epoch + 1 /\ ~gate.switch /\ gate.unregistering
    BY <1>1, <2>1 DEF GateSessions, Gates
  <2>4. gate.session \in 0 .. MaxSessions /\ epoch \in Nat
    BY <2>1 DEF Gates, KernelTypeOK
  <2> QED BY <2>2, <2>3, <2>4
<1>3. DOMAIN hostTasks = Keys /\ DOMAIN hostGraphs = Keys /\ DOMAIN kernels = Keys /\ DOMAIN staged = Keys
  BY DEF KernelTypeOK
<1>4. \A k \in Keys : kernels'[k] = <<>> /\ hostTasks'[k] = <<>> /\ hostGraphs'[k] = None /\ staged'[k] = None
  BY <1>1, <1>3
<1>5. wiped' \subseteq 1 .. Len(launched)
  BY <1>1 DEF HostsApart
<1>6. crossed' \subseteq Keys /\ crossed \subseteq crossed'
  BY <1>1 DEF KernelTypeOK, Unfinished
<1>7. KernelTypeOK'
  <2>1. Len(launched) \in Nat /\ Len(launched) <= MaxLaunches
    BY NotEmpty DEF KernelTypeOK
  <2>2. wiped' \subseteq Launches
    BY <1>5, <2>1, KernelAssumption DEF Launches
  <2>3. epoch' \in 0 .. MaxSessions
    BY <1>1, <1>2
  <2>4. /\ hostTasks' \in [Keys -> Seq(Launches)] /\ kernels' \in [Keys -> Seq(Launches)]
        /\ staged' \in [Keys -> {None} \cup Runs] /\ hostGraphs' \in [Keys -> {None} \cup Launches]
    BY <1>1, <1>3
  <2> QED BY <1>1, <1>2, <1>6, <2>2, <2>3, <2>4 DEF KernelTypeOK, GateTypeOK, Gates
<1>8. GateSessions'
  BY <1>1, <1>2 DEF GateSessions
<1>9. HostsApart'
  BY <1>1, <1>5 DEF HostsApart, Aging
<1>10. \A k \in Keys : Whole(k)' = <<>> /\ Len(Whole(k)') = 0
  <2>1. <<>> \o <<>> = <<>> /\ Len(<<>>) = 0
    OBVIOUS
  <2>2. \A k \in Keys : Whole(k)' = <<>> \o <<>>
    BY <1>4 DEF Whole
  <2> QED BY <2>1, <2>2
<1>11. EntriesApart'
  <2>1. ASSUME NEW t \in HostThreads, host[t].pc \in {"gate", "push"} PROVE host[t].launch \notin wiped'
    <3>1. host[t].launch \notin wiped
      BY <2>1 DEF EntriesApart
    <3>2. ASSUME NEW u \in HostThreads, host[u].pc = "count" PROVE host[u].launch # host[t].launch
      <4>1. host[t].launch \in 1 .. Len(launched) /\ host[t].launch # None
        BY <2>1, NotEmpty DEF HostsApart, None, KernelTypeOK
      <4>2. u # t
        BY <2>1, <3>2
      <4> QED BY <4>1, <4>2 DEF HostsApart
    <3> QED BY <1>1, <3>1, <3>2
  <2>3. \A t \in HostThreads, k \in Keys : ~InWhole(host[t].launch, k)'
    BY <1>10 DEF InWhole
  <2>4. \A t \in HostThreads : host'[t].pc \in {"gate", "push"} =>
          host'[t].launch \notin wiped' /\ \A k \in Keys : ~InWhole(host[t].launch, k)'
    BY <1>1, <2>1, <2>3
  <2> QED BY <1>10, <2>4 DEF EntriesApart
<1>12. StagedInOrder'
  <2>1. ASSUME NEW d \in Devices, consumer[d].pc = "parse"
        PROVE channel[d] # <<>> /\ consumer[d].epoch <= epoch' /\ consumer[d].epoch # epoch'
    <3>1. channel[d] # <<>> /\ consumer[d].epoch <= epoch
      BY <2>1 DEF StagedInOrder
    <3>2. consumer[d].epoch \in Int
      BY GateAssumption DEF KernelTypeOK
    <3> QED BY <1>1, <1>2, <3>1, <3>2
  <2>2. ASSUME NEW q \in Keys \ crossed' PROVE ~NextIsEnd(q)'
    <3>1. q \notin crossed /\ staged[q] = None
      BY <1>1, <2>2 DEF Unfinished
    <3>2. PICK d \in Devices : d = DeviceOf[q]
      BY KernelAssumption
    <3>3. NextIsEnd(q) => Head(channel[d]).run = None
      BY <3>1, <3>2 DEF StagedInOrder
    <3>4. channel[d] # <<>> => Head(channel[d]).run # None
      <4> SUFFICES ASSUME channel[d] # <<>> PROVE Head(channel[d]).run # None
        OBVIOUS
      <4>1. channel[d] \in Seq(SocLogs)
        BY DEF KernelTypeOK
      <4>2. Head(channel[d]) \in SocLogs
        BY <4>1, Rest
      <4> QED BY <4>2, KernelAssumption DEF SocLogs, Runs, None
    <3>5. NextIsEnd(q)' <=> NextIsEnd(q)
      BY <1>1 DEF NextIsEnd
    <3> QED BY <3>2, <3>3, <3>4, <3>5 DEF NextIsEnd
  <2>3. stale \subseteq crossed'
    BY <1>6 DEF StagedInOrder
  <2> QED BY <1>1, <1>4, <2>1, <2>2, <2>3 DEF StagedInOrder
<1>13. \A q \in Keys \ crossed' : q \notin crossed /\ kernels[q] = <<>> /\ hostTasks[q] = <<>> /\ hostGraphs[q] = None
  BY <1>1 DEF Unfinished
<1>14. AgingInOrder'
  <2>1. \A q \in Keys \ crossed' : Whole(q)' = Whole(q)
    <3>1. <<>> \o <<>> = <<>>
      OBVIOUS
    <3>2. \A q \in Keys \ crossed' : Whole(q) = <<>> \o <<>>
      BY <1>13 DEF Whole
    <3> QED BY <1>10, <3>1, <3>2
  <2>2. \A x : (OnItsWay(x)' <=> OnItsWay(x)) /\ (HasEnded(x)' <=> HasEnded(x))
    BY <1>1 DEF OnItsWay, HasEnded, HasEnd, EndIn, IsLog, RunKey
  <2>3. \A q \in Keys \ crossed' : \A x : InWhole(x, q)' <=> InWhole(x, q)
    BY <2>1 DEF InWhole
  <2>4. \A q \in Keys \ crossed' : GraphOf(q)' = GraphOf(q)
    BY <1>1, <1>4, <1>13 DEF GraphOf
  <2> QED BY <1>1, <1>6, <2>1, <2>2, <2>3, <2>4 DEF AgingInOrder, Aging
<1>15. GraphInOrder'
  <2> SUFFICES ASSUME NEW q \in Keys, graph[q] # None
      PROVE /\ IsOf(graph[q], q) /\ graph[q] \in unaging
            /\ q \notin crossed' => \A n \in 1 .. graph[q] - 1 : launched[n] = q => Aging(n)
    <3>1. \A q \in Keys : GraphOf(q)' = graph[q]
      BY <1>1, <1>4 DEF GraphOf
    <3> QED BY <1>1, <3>1 DEF GraphInOrder, IsOf, Aging
  <2>1. GraphOf(q) = graph[q]
    BY DEF GraphOf
  <2> QED BY <1>6, <2>1 DEF GraphInOrder, Aging
<1>20. AgingWaits'
  BY <1>10 DEF AgingWaits
<1>16. RunsInOrder' /\ ChannelInOrder' /\ TimesHold'
  BY <1>1, RunsStay, ChannelStays, TimesStay DEF TimesHold
<1>17. AllRecorded'
  BY <1>1, <1>6, ClaimsStay DEF AllRecorded, RunKey, HasEnd, EndIn, IsLog
<1>18. DrainHolds'
  BY <1>2 DEF DrainHolds
<1>19. PendingExact'
  <2>1. DOMAIN launched = 1 .. Len(launched)
    BY NotEmpty DEF KernelTypeOK
  <2>2. Waiting' = {}
    <3>1. \A n \in DOMAIN launched : ~AgingEntries'[n]
      <4>1. \A n : n \notin Range(<<>>)
        BY DEF Range
      <4>2. \A k \in Keys, n \in DOMAIN launched : n \notin Range(hostTasks'[k]) /\ n \notin Range(kernels'[k])
        BY <1>4, <4>1
      <4> QED BY <1>1, <4>2 DEF AgingEntries
    <3> QED BY <1>1, <3>1 DEF Waiting
  <2>3. Uncounted' = {}
    BY <1>1 DEF Uncounted
  <2> QED BY <1>1, <2>2, <2>3, FS_EmptySet DEF PendingExact
<1> QED BY <1>7, <1>8, <1>9, <1>11, <1>12, <1>14, <1>15, <1>16, <1>17, <1>18, <1>19, <1>20 DEF TimesHold

----------------------------------------------------------------------------
(* A consumer parses its record. *)

LEMMA QueueIs ==
    ASSUME KernelIInv, NEW q \in Keys
    PROVE  /\ QueueOf(q) = Whole(q) /\ GraphOf(q) \in {None} \cup Launches
           /\ graph[q] # None => GraphOf(q) = graph[q]
           /\ kernels[q] # <<>> => Whole(q) # <<>>
<1>1. QueueOf(q) = Whole(q)
  BY DEF QueueOf, Whole
<1>2. graph[q] \in {None} \cup Launches /\ hostGraphs[q] \in {None} \cup Launches
  BY DEF KernelIInv, KernelTypeOK
<1>3. kernels[q] # <<>> => Whole(q) # <<>>
  BY WholeSequence DEF KernelIInv
<1> QED BY <1>1, <1>2, <1>3 DEF GraphOf

Pops(k, log) == Pairs(k, log) /\ ~IsGraphTask(k)

LEMMA KnownIs ==
    ASSUME KernelIInv, NEW k \in Keys
    PROVE  /\ IsGraphTask(k) <=> GraphOf(k) # None
           /\ Known(k) <=> Whole(k) # <<>> \/ GraphOf(k) # None
           /\ QueueOf(k) = <<>> /\ ~IsGraphTask(k) <=> ~Known(k)
BY QueueIs DEF Known, IsGraphTask

LEMMA ParseMoves ==
    ASSUME KernelIInv, NEW d \in Devices, NEW log, log = Head(channel[d]), SocLogParses(d)
    PROVE  /\ log \in SocLogs /\ log.key \in Keys /\ DeviceOf[log.key] = d
           /\ channel[d] # <<>> /\ consumer[d].pc = "parse"
           /\ kernels' \in [Keys -> Seq(Launches)] /\ hostTasks' \in [Keys -> Seq(Launches)]
           /\ graph' \in [Keys -> {None} \cup Launches] /\ hostGraphs' \in [Keys -> {None} \cup Launches]
           /\ \A q \in Keys :
                 /\ graph'[q] = GraphOf(q) /\ hostTasks'[q] = <<>> /\ GraphOf(q)' = GraphOf(q)
                 /\ kernels'[q] = Whole(q)'
                 /\ ~(q = log.key /\ Pops(log.key, log)) => Whole(q)' = Whole(q)
           /\ Pops(log.key, log) =>
                 Whole(log.key)' = Tail(Whole(log.key)) /\ Whole(log.key) # <<>> /\ GraphOf(log.key) = None
<1>0. PICK k : k = log.key
  OBVIOUS
<1>1. /\ consumer[d].pc = "parse"
      /\ channel' = [channel EXCEPT ![d] = Tail(@)]
      /\ hostTasks' = [q \in DOMAIN hostTasks |-> <<>>]
      /\ hostGraphs' = [q \in DOMAIN hostGraphs |-> None]
      /\ graph' = [q \in DOMAIN graph |-> GraphOf(q)]
      /\ kernels' = IF Pops(k, log) THEN Popped(k) ELSE [q \in DOMAIN kernels |-> QueueOf(q)]
      /\ UNCHANGED <<launched, runs>>
  BY <1>0 DEF SocLogParses, Emptied, Pops
<1>2. channel[d] # <<>>
  BY <1>1 DEF KernelIInv, StagedInOrder
<1>3. log \in SocLogs /\ k \in Keys /\ DeviceOf[k] = d
  <2>1. UNCHANGED <<launched, runs>>
    BY <1>1
  <2>2. channel' = [channel EXCEPT ![d] = Tail(@)]
    BY <1>1
  <2>3. log \in SocLogs /\ DeviceOf[log.key] = d
    BY <1>2, <2>1, <2>2, ChannelRest
  <2> QED BY <1>0, <2>3 DEF SocLogs
<1>4. \A q \in Keys : QueueOf(q) = Whole(q) /\ GraphOf(q) \in {None} \cup Launches
  BY QueueIs
<1> USE DEF KernelIInv
<1>5. DOMAIN hostTasks = Keys /\ DOMAIN graph = Keys /\ DOMAIN kernels = Keys /\ DOMAIN hostGraphs = Keys
  BY DEF KernelTypeOK
<1>6. \A q \in Keys : graph'[q] = GraphOf(q) /\ hostTasks'[q] = <<>> /\ hostGraphs'[q] = None
  BY <1>1, <1>5
<1>7. /\ graph' \in [Keys -> {None} \cup Launches] /\ hostTasks' \in [Keys -> Seq(Launches)]
      /\ hostGraphs' \in [Keys -> {None} \cup Launches]
  BY <1>1, <1>4, <1>5
<1>9. \A q \in Keys : kernels'[q] = IF q = k /\ Pops(k, log) THEN Tail(Whole(q)) ELSE Whole(q)
  BY <1>1, <1>4, <1>5 DEF Popped
<1>10. Pops(k, log) => Whole(k) # <<>> /\ GraphOf(k) = None
  <2>1. Pops(k, log) => Known(k) /\ ~IsGraphTask(k)
    BY DEF Pops, Pairs
  <2> QED BY <1>3, <2>1, KnownIs
<1>11. kernels' \in [Keys -> Seq(Launches)]
  <2>1. \A q \in Keys : Whole(q) \in Seq(Launches)
    BY WholeSequence
  <2>2. Pops(k, log) => Tail(Whole(k)) \in Seq(Launches)
    BY <1>3, <1>10, <2>1, Rest
  <2>3. kernels' = [q \in Keys |-> kernels'[q]]
    BY <1>1, <1>5 DEF Popped
  <2> QED BY <1>9, <2>1, <2>2, <2>3
<1>12. \A q \in Keys : Whole(q)' = kernels'[q]
  <2> SUFFICES ASSUME NEW q \in Keys PROVE Whole(q)' = kernels'[q]
    OBVIOUS
  <2>1. PICK s : s = kernels'[q] /\ s \in Seq(Launches)
    BY <1>11
  <2>2. s \o <<>> = s
    BY <2>1, ConcatEmptySeq
  <2> QED BY <1>6, <2>1, <2>2 DEF Whole
<1>14. \A q \in Keys : GraphOf(q)' = GraphOf(q)
  <2> SUFFICES ASSUME NEW q \in Keys PROVE GraphOf(q)' = GraphOf(q)
    OBVIOUS
  <2>1. PICK g : g = GraphOf(q)
    OBVIOUS
  <2>2. GraphOf(q)' = IF graph'[q] = None THEN hostGraphs'[q] ELSE graph'[q]
    BY DEF GraphOf
  <2> QED BY <1>6, <2>1, <2>2
<1>15. \A q \in Keys : ~(q = k /\ Pops(k, log)) => Whole(q)' = Whole(q)
  BY <1>9, <1>12
<1>16. Pops(k, log) => Whole(k)' = Tail(Whole(k))
  BY <1>3, <1>9, <1>12
<1> QED BY <1>0, <1>1, <1>2, <1>3, <1>6, <1>7, <1>10, <1>11, <1>12, <1>14, <1>15, <1>16

\* Which launches are left in the maps.
LEMMA ParseLeaves ==
    ASSUME KernelIInv, NEW d \in Devices, NEW log, log = Head(channel[d]), SocLogParses(d)
    PROVE  /\ \A q \in Keys : \A n :
                 InWhole(n, q)' <=> InWhole(n, q) /\ ~(q = log.key /\ Pops(log.key, log) /\ n = Head(Whole(q)))
           /\ EntriesApart' /\ AgingWaits'
           /\ \A q \in Keys :
                 (\A i, j \in 1 .. Len(Whole(q)) : i < j => Whole(q)[i] < Whole(q)[j]) =>
                 (\A i, j \in 1 .. Len(Whole(q)') : i < j => Whole(q)'[i] < Whole(q)'[j])
<1>0. PICK k : k = log.key
  OBVIOUS
<1>1. /\ k \in Keys
      /\ \A q \in Keys : ~(q = k /\ Pops(k, log)) => Whole(q)' = Whole(q)
      /\ Pops(k, log) => Whole(k)' = Tail(Whole(k)) /\ Whole(k) # <<>>
  BY <1>0, ParseMoves
<1>2. UNCHANGED <<launched, unaging, host, wiped>>
  BY DEF SocLogParses
<1> USE DEF KernelIInv
<1>4. /\ \A q \in Keys : \A i \in 1 .. Len(Whole(q)) : IsOf(Whole(q)[i], q)
      /\ \A q \in Keys : \A i, j \in 1 .. Len(Whole(q)) : Whole(q)[i] = Whole(q)[j] => i = j
      /\ \A t \in HostThreads : host[t].pc \in {"gate", "push"} =>
            host[t].launch \notin wiped /\ \A q \in Keys : ~InWhole(host[t].launch, q)
  BY DEF EntriesApart
<1>6. ASSUME NEW q \in Keys
      PROVE /\ \A n : InWhole(n, q)' <=> InWhole(n, q) /\ ~(q = k /\ Pops(k, log) /\ n = Head(Whole(q)))
            /\ \A i, j \in 1 .. Len(Whole(q)') : Whole(q)'[i] = Whole(q)'[j] => i = j
            /\ (\A i, j \in 1 .. Len(Whole(q)) : i < j => Whole(q)[i] < Whole(q)[j]) =>
               (\A i, j \in 1 .. Len(Whole(q)') : i < j => Whole(q)'[i] < Whole(q)'[j])
  <2>1. CASE ~(q = k /\ Pops(k, log))
    <3>1. Whole(q)' = Whole(q)
      BY <1>1, <2>1
    <3> QED BY <1>4, <2>1, <3>1 DEF InWhole
  <2>2. CASE q = k /\ Pops(k, log)
    <3>0. PICK s, u : s = Whole(q) /\ u = Whole(q)'
      OBVIOUS
    <3>1. s \in Seq(Launches) /\ s # <<>> /\ u = Tail(s)
      BY <1>1, <2>2, <3>0, WholeSequence
    <3>2. /\ Len(s) \in Nat \ {0} /\ Len(u) = Len(s) - 1
          /\ Head(s) = s[1] /\ 1 \in 1 .. Len(s)
          /\ \A i \in 1 .. Len(u) : u[i] = s[i + 1] /\ i + 1 \in 1 .. Len(s)
      BY <3>1, Rest
    <3>3. \A i, j \in 1 .. Len(s) : s[i] = s[j] => i = j
      BY <1>4, <3>0
    <3>4. ASSUME NEW n PROVE (\E i \in 1 .. Len(u) : u[i] = n) <=> (\E i \in 1 .. Len(s) : s[i] = n) /\ n # Head(s)
      <4>1. ASSUME NEW i \in 1 .. Len(u), u[i] = n PROVE (\E j \in 1 .. Len(s) : s[j] = n) /\ n # Head(s)
        <5>1. s[i + 1] = n /\ i + 1 \in 1 .. Len(s) /\ i + 1 # 1
          BY <3>2, <4>1
        <5> QED BY <3>2, <3>3, <5>1
      <4>2. ASSUME NEW i \in 1 .. Len(s), s[i] = n, n # Head(s) PROVE \E j \in 1 .. Len(u) : u[j] = n
        <5>1. i # 1
          BY <3>2, <4>2
        <5>2. PICK j : j = i - 1
          OBVIOUS
        <5>3. j \in 1 .. Len(u) /\ j + 1 = i
          BY <3>2, <5>1, <5>2
        <5> QED BY <3>2, <4>2, <5>3
      <4> QED BY <4>1, <4>2
    <3>5. \A i, j \in 1 .. Len(u) : u[i] = u[j] => i = j
      <4> SUFFICES ASSUME NEW i \in 1 .. Len(u), NEW j \in 1 .. Len(u), u[i] = u[j] PROVE i = j
        OBVIOUS
      <4>1. s[i + 1] = s[j + 1] /\ i + 1 \in 1 .. Len(s) /\ j + 1 \in 1 .. Len(s)
        BY <3>2
      <4>2. i + 1 = j + 1
        BY <3>3, <4>1
      <4> QED BY <3>2, <4>2
    <3>6. (\A i, j \in 1 .. Len(s) : i < j => s[i] < s[j]) => (\A i, j \in 1 .. Len(u) : i < j => u[i] < u[j])
      BY <3>2
    <3>7. \A n : InWhole(n, q)' <=> \E i \in 1 .. Len(u) : u[i] = n
      BY <3>0 DEF InWhole
    <3>8. \A n : InWhole(n, q) <=> \E i \in 1 .. Len(s) : s[i] = n
      BY <3>0 DEF InWhole
    <3> QED BY <2>2, <3>0, <3>4, <3>5, <3>6, <3>7, <3>8
  <2> QED BY <2>1, <2>2
<1>7. \A q \in Keys : \A n : InWhole(n, q)' => InWhole(n, q)
  BY <1>6
<1>8. EntriesApart'
  <2>1. ASSUME NEW q \in Keys, NEW i \in 1 .. Len(Whole(q)') PROVE Whole(q)'[i] \in 1 .. Len(launched) /\ launched[Whole(q)'[i]] = q
    <3>1. PICK n : n = Whole(q)'[i]
      OBVIOUS
    <3>2. InWhole(n, q)'
      BY <3>1 DEF InWhole
    <3>3. InWhole(n, q)
      BY <1>7, <3>2
    <3> QED BY <1>4, <3>1, <3>3 DEF InWhole, IsOf
  <2>2. ASSUME NEW q \in Keys, NEW i \in 1 .. Len(Whole(q)'), NEW j \in 1 .. Len(Whole(q)'), Whole(q)'[i] = Whole(q)'[j] PROVE i = j
    <3> QED BY <1>6, <2>2
  <2>3. ASSUME NEW t \in HostThreads, host[t].pc \in {"gate", "push"}
        PROVE host[t].launch \notin wiped /\ \A q \in Keys : \A i \in 1 .. Len(Whole(q)') : Whole(q)'[i] # host[t].launch
    <3>0. PICK n : n = host[t].launch
      OBVIOUS
    <3>1. \A q \in Keys : ~InWhole(n, q)'
      BY <1>4, <1>7, <2>3, <3>0
    <3> QED BY <1>4, <2>3, <3>0, <3>1 DEF InWhole
  <2> QED BY <1>2, <2>1, <2>2, <2>3 DEF EntriesApart, IsOf, InWhole
<1>9. AgingWaits'
  <2>1. ASSUME NEW q \in Keys, NEW i \in 1 .. Len(Whole(q)') PROVE Whole(q)'[i] \notin unaging
    <3>1. PICK n : n = Whole(q)'[i]
      OBVIOUS
    <3>2. InWhole(n, q)'
      BY <3>1 DEF InWhole
    <3>3. InWhole(n, q)
      BY <1>7, <3>2
    <3> QED BY <3>1, <3>3 DEF InWhole, AgingWaits, Aging
  <2> QED BY <1>2, <2>1 DEF AgingWaits, Aging
<1> QED BY <1>0, <1>6, <1>8, <1>9

\* What becomes of the staged runs and of the marks on keys.
LEMMA ParseStages ==
    ASSUME KernelIInv, NEW d \in Devices, NEW log, log = Head(channel[d]), SocLogParses(d)
    PROVE  /\ \A q \in Keys \ {log.key} : staged'[q] = staged[q]
           /\ Known(log.key) => staged'[log.key] = IF log.funcType = "BEGIN" THEN log.run ELSE None
           /\ ~Known(log.key) => staged'[log.key] = None /\ log.key \in crossed'
           /\ staged' \in [Keys -> {None} \cup Runs]
           /\ crossed \subseteq crossed' /\ crossed' \subseteq crossed \cup {log.key}
           /\ consumer[d].epoch # epoch => log.key \in crossed' /\ staged[log.key] = None
           /\ stale \subseteq stale' /\ stale' \subseteq crossed'
           /\ Known(log.key) /\ log.funcType = "BEGIN" /\ consumer[d].epoch # epoch => log.key \in stale'
<1>0. PICK k : k = log.key
  OBVIOUS
<1>1. /\ log \in SocLogs /\ k \in Keys /\ DeviceOf[k] = d /\ consumer[d].pc = "parse"
  BY <1>0, ParseMoves
<1>2. /\ staged' = IF ~Known(k) THEN staged
                   ELSE [staged EXCEPT ![k] = IF log.funcType = "BEGIN" THEN log.run ELSE None]
      /\ crossed' = IF consumer[d].epoch # epoch \/ (QueueOf(k) = <<>> /\ ~IsGraphTask(k)) THEN crossed \cup {k} ELSE crossed
      /\ stale' = IF consumer[d].epoch # epoch /\ Known(k) /\ log.funcType = "BEGIN" THEN stale \cup {k} ELSE stale
  BY <1>0 DEF SocLogParses, Staging
<1>3. /\ QueueOf(k) = <<>> /\ ~IsGraphTask(k) <=> ~Known(k)
      /\ Known(k) <=> Whole(k) # <<>> \/ GraphOf(k) # None
  BY <1>1, KnownIs
<1>4. (graph[k] # None => GraphOf(k) = graph[k]) /\ (kernels[k] # <<>> => Whole(k) # <<>>)
  BY <1>1, QueueIs
<1> USE DEF KernelIInv
<1>5. staged \in [Keys -> {None} \cup Runs] /\ log.run \in Runs
  BY <1>1 DEF KernelTypeOK, SocLogs
<1>6. staged' \in [Keys -> {None} \cup Runs]
  BY <1>2, <1>5
<1>7. ASSUME ~Known(k) PROVE staged[k] = None
  <2>1. staged[k] # None => kernels[k] # <<>> \/ graph[k] # None
    BY <1>1 DEF StagedInOrder
  <2> QED BY <1>3, <1>4, <1>7, <2>1
<1>9. consumer[d].epoch # epoch => staged[k] = None
  BY <1>1 DEF StagedInOrder
<1>10. stale \subseteq crossed
  BY DEF StagedInOrder
<1> QED BY <1>0, <1>1, <1>2, <1>3, <1>5, <1>6, <1>7, <1>9, <1>10

LEMMA ParseKeepsStaged ==
    ASSUME KernelIInv, NEW d \in Devices, SocLogParses(d)
    PROVE  StagedInOrder'
<1>0. PICK log, k : log = Head(channel[d]) /\ k = log.key
  OBVIOUS
<1>1. /\ log \in SocLogs /\ k \in Keys /\ DeviceOf[k] = d
      /\ channel[d] # <<>> /\ consumer[d].pc = "parse"
      /\ \A q \in Keys :
            /\ graph'[q] = GraphOf(q) /\ kernels'[q] = Whole(q)'
            /\ ~(q = k /\ Pops(k, log)) => Whole(q)' = Whole(q)
  BY <1>0, ParseMoves
<1>2. /\ \A q \in Keys \ {k} : staged'[q] = staged[q]
      /\ Known(k) => staged'[k] = IF log.funcType = "BEGIN" THEN log.run ELSE None
      /\ ~Known(k) => staged'[k] = None /\ k \in crossed'
      /\ crossed \subseteq crossed'
      /\ consumer[d].epoch # epoch => k \in crossed' /\ staged[k] = None
      /\ stale \subseteq stale' /\ stale' \subseteq crossed'
      /\ Known(k) /\ log.funcType = "BEGIN" /\ consumer[d].epoch # epoch => k \in stale'
  BY <1>0, ParseStages
<1>3. /\ consumer' = [consumer EXCEPT ![d] = IdleConsumer]
      /\ channel' = [channel EXCEPT ![d] = Tail(@)]
      /\ UNCHANGED <<gate, launched, runs, epoch>>
  BY DEF SocLogParses
<1>4. /\ \A q \in Keys : DeviceOf[q] # d =>
            (NextIsEnd(q)' <=> NextIsEnd(q)) /\ Head(channel'[DeviceOf[q]]) = Head(channel[DeviceOf[q]])
      /\ \A q \in Keys : DeviceOf[q] = d => (NextIsEnd(q)' <=> log.funcType = "BEGIN" /\ q = k)
      /\ log.funcType = "BEGIN" => Head(channel'[d]).run = log.run
  <2>1. UNCHANGED <<launched, runs>>
    BY <1>3
  <2>2. channel[d] # <<>>
    BY <1>1
  <2>3. channel' = [channel EXCEPT ![d] = Tail(@)]
    BY <1>3
  <2>4. log = Head(channel[d])
    BY <1>0
  <2>5. \A q \in Keys : DeviceOf[q] # d =>
              (NextIsEnd(q)' <=> NextIsEnd(q)) /\ Head(channel'[DeviceOf[q]]) = Head(channel[DeviceOf[q]])
    BY <2>1, <2>2, <2>3, <2>4, NextAfter
  <2>6. \A q \in Keys : DeviceOf[q] = d => (NextIsEnd(q)' <=> log.funcType = "BEGIN" /\ q = log.key)
    BY <2>1, <2>2, <2>3, <2>4, NextAfter
  <2>7. log.funcType = "BEGIN" => IsLog(Head(channel'[d]), log.key, "END", log.run)
    BY <2>1, <2>2, <2>3, <2>4, ChannelRest
  <2>8. log.key = k
    BY <1>0
  <2> QED BY <2>5, <2>6, <2>7, <2>8 DEF IsLog
<1>5. \A q \in Keys : (graph[q] # None => GraphOf(q) = graph[q]) /\ (kernels[q] # <<>> => Whole(q) # <<>>)
  BY QueueIs
<1>6. Known(k) <=> Whole(k) # <<>> \/ GraphOf(k) # None
  BY <1>1, KnownIs
<1>7. log.funcType \in {"BEGIN", "END"}
  BY <1>1 DEF SocLogs
<1> USE DEF KernelIInv
<1>8. ASSUME NEW q \in Keys, staged'[q] # None PROVE kernels'[q] # <<>> \/ graph'[q] # None
  <2>1. CASE q = k
    <3>1. Known(k) /\ log.funcType = "BEGIN"
      BY <1>2, <1>8, <2>1
    <3>2. ~Pops(k, log)
      BY <3>1 DEF Pops, Pairs
    <3> QED BY <1>1, <1>6, <2>1, <3>1, <3>2
  <2>2. CASE q # k
    <3>1. kernels[q] # <<>> \/ graph[q] # None
      BY <1>2, <1>8, <2>2 DEF StagedInOrder
    <3> QED BY <1>1, <1>5, <2>2, <3>1
  <2> QED BY <2>1, <2>2
<1>9. consumer'[d].pc = "idle" /\ \A e \in Devices \ {d} : consumer'[e] = consumer[e] /\ channel'[e] = channel[e]
  BY <1>3 DEF IdleConsumer, KernelTypeOK
<1>10. ASSUME NEW q \in Keys \ stale', staged'[q] # None
       PROVE /\ gate.pc \notin {"off", "reopen"}
             /\ \/ NextIsEnd(q)' => Head(channel'[DeviceOf[q]]).run = staged'[q]
                \/ At("clear") /\ consumer'[DeviceOf[q]].pc = "idle"
  <2>1. CASE q = k
    <3>1. Known(k) /\ log.funcType = "BEGIN" /\ staged'[k] = log.run
      BY <1>2, <1>10, <2>1
    <3>2. consumer[d].epoch = epoch
      BY <1>2, <1>10, <2>1, <3>1
    <3>3. gate.pc \notin {"off", "reopen"}
      BY <1>1, <3>2 DEF StagedInOrder
    <3> QED BY <1>1, <1>4, <2>1, <3>1, <3>3
  <2>2. CASE q # k
    <3>1. /\ gate.pc \notin {"off", "reopen"}
          /\ \/ NextIsEnd(q) => Head(channel[DeviceOf[q]]).run = staged[q]
             \/ At("clear") /\ consumer[DeviceOf[q]].pc = "idle"
      BY <1>2, <1>10, <2>2 DEF StagedInOrder
    <3>2. CASE DeviceOf[q] = d
      BY <1>4, <2>2, <3>1, <3>2
    <3>3. CASE DeviceOf[q] # d
      <4>1. consumer'[DeviceOf[q]] = consumer[DeviceOf[q]]
        BY <1>9, <3>3, KernelAssumption
      <4> QED BY <1>2, <1>4, <2>2, <3>1, <3>3, <4>1
    <3> QED BY <3>2, <3>3
  <2> QED BY <2>1, <2>2
<1>11. ASSUME NEW e \in Devices, consumer'[e].pc = "parse"
       PROVE /\ channel'[e] # <<>> /\ consumer'[e].epoch <= epoch
             /\ consumer'[e].epoch # epoch => \A q \in Keys : DeviceOf[q] = e => staged'[q] = None
             /\ consumer'[e].epoch = epoch => gate.pc \notin {"off", "reopen"}
  <2>1. e # d /\ consumer[e].pc = "parse"
    BY <1>9, <1>11
  <2>2. /\ channel[e] # <<>> /\ consumer[e].epoch <= epoch
        /\ consumer[e].epoch # epoch => \A q \in Keys : DeviceOf[q] = e => staged[q] = None
        /\ consumer[e].epoch = epoch => gate.pc \notin {"off", "reopen"}
    BY <2>1 DEF StagedInOrder
  <2>3. \A q \in Keys : DeviceOf[q] = e => staged'[q] = staged[q]
    BY <1>1, <1>2, <2>1
  <2> QED BY <1>9, <2>1, <2>2, <2>3
<1>12. ASSUME NEW q \in Keys \ crossed', NextIsEnd(q)' PROVE staged'[q] = Head(channel'[DeviceOf[q]]).run
  <2>1. CASE DeviceOf[q] = d
    <3>1. q = k /\ log.funcType = "BEGIN" /\ Known(k)
      BY <1>2, <1>4, <1>12, <2>1
    <3> QED BY <1>1, <1>2, <1>4, <3>1
  <2>2. CASE DeviceOf[q] # d
    <3>1. NextIsEnd(q) /\ q \in Keys \ crossed /\ q # k
      BY <1>1, <1>2, <1>4, <1>12, <2>2
    <3>2. staged[q] = Head(channel[DeviceOf[q]]).run
      BY <3>1 DEF StagedInOrder
    <3> QED BY <1>2, <1>4, <2>2, <3>1, <3>2
  <2> QED BY <2>1, <2>2
<1> QED BY <1>2, <1>3, <1>8, <1>10, <1>11, <1>12 DEF StagedInOrder, At

\* Of a key that nothing crossed, the END that comes next is of the launch
\* that waits first.
LEMMA FirstIsNext ==
    ASSUME KernelIInv, NEW d \in Devices, NEW log, log = Head(channel[d]), SocLogParses(d),
           NEW k, k = log.key, k \notin crossed, log.funcType = "END"
    PROVE  /\ GraphOf(k) = None /\ Whole(k) # <<>> =>
                 /\ Head(Whole(k)) = runs[log.run] /\ InWhole(runs[log.run], k)
                 /\ ~OnItsWay(runs[log.run]) /\ Aging(runs[log.run])
           /\ GraphOf(k) # None => Claims(GraphOf(k), runs[log.run])
           /\ staged[k] = log.run
<1>1. /\ log \in SocLogs /\ k \in Keys /\ DeviceOf[k] = d
      /\ channel[d] # <<>> /\ consumer[d].pc = "parse"
  BY ParseMoves
<1>2. /\ channel' = [channel EXCEPT ![d] = Tail(@)] /\ UNCHANGED <<launched, runs>>
  BY DEF SocLogParses
<1>3. /\ log.run \in 1 .. Len(runs) /\ k = RunKey(log.run)
      /\ HasEnd(d, log.run) /\ \A m \in 1 .. Len(runs) : HasEnd(d, m) => log.run <= m
  <2>1. UNCHANGED <<launched, runs>>
    BY <1>2
  <2>2. channel[d] # <<>>
    BY <1>1
  <2>3. channel' = [channel EXCEPT ![d] = Tail(@)]
    BY <1>2
  <2> QED BY <2>1, <2>2, <2>3, ChannelRest
<1>4. NextIsEnd(k)
  BY <1>1 DEF NextIsEnd
<1> USE DEF KernelIInv
<1>5. staged[k] = log.run
  BY <1>1, <1>4 DEF StagedInOrder
<1>0. PICK m, x : m = log.run /\ x = runs[m]
  OBVIOUS
<1>6. /\ m \in 1 .. Len(runs) /\ x \in 1 .. Len(launched) /\ launched[x] = k /\ RunKey(m) = k
      /\ HasEnd(d, m) /\ \A e \in 1 .. Len(runs) : HasEnd(d, e) => m <= e
  BY <1>0, <1>3 DEF RunsInOrder, RunKey
<1>7. Len(runs) \in Nat /\ Len(launched) \in Nat
  BY NotEmpty DEF KernelTypeOK
<1>8. ASSUME GraphOf(k) = None, Whole(k) # <<>>
      PROVE Head(Whole(k)) = x /\ InWhole(x, k) /\ ~OnItsWay(x) /\ Aging(x)
  <2>2. Aging(x) => ~HasEnded(x)
    <3> SUFFICES ASSUME Aging(x), NEW e \in 1 .. Len(runs), runs[e] = x, ~HasEnd(DeviceOf[RunKey(e)], e) PROVE FALSE
      BY DEF HasEnded
    <3>1. e = m
      BY <1>0, <1>6 DEF RunsInOrder
    <3> QED BY <1>1, <1>6, <3>1
  <2>3. PICK s : s = Whole(k)
    OBVIOUS
  <2>4. /\ s \in Seq(Launches) /\ s # <<>>
        /\ \A i, j \in 1 .. Len(s) : i < j => s[i] < s[j]
        /\ \A n \in 1 .. Len(launched) : launched[n] = k =>
              \/ OnItsWay(n) /\ ~HasEnded(n) /\ \A i \in 1 .. Len(s) : s[i] < n
              \/ ~HasEnded(n) /\ InWhole(n, k)
              \/ Aging(n) /\ HasEnded(n) /\ ~OnItsWay(n) /\ ~InWhole(n, k)
        /\ \A i \in 1 .. Len(s) : s[i] \in 1 .. Len(launched) /\ launched[s[i]] = k /\ Aging(s[i])
    <3>1. s \in Seq(Launches) /\ s # <<>>
      BY <1>1, <1>8, <2>3, WholeSequence
    <3>2. k \in Keys \ crossed /\ GraphOf(k) = None
      BY <1>1, <1>8
    <3>3. \A i \in 1 .. Len(s) : s[i] \in 1 .. Len(launched) /\ launched[s[i]] = k
      BY <1>1, <2>3 DEF EntriesApart, IsOf
    <3>4. \A i \in 1 .. Len(s) : Aging(s[i])
      BY <1>1, <2>3 DEF AgingWaits
    <3> QED BY <2>3, <3>1, <3>2, <3>3, <3>4 DEF AgingInOrder
  <2>5. Len(s) \in Nat \ {0} /\ Head(s) = s[1] /\ 1 \in 1 .. Len(s)
    BY <2>4, Rest
  <2>6. \A n : InWhole(n, k) <=> \E i \in 1 .. Len(s) : s[i] = n
    BY <2>3 DEF InWhole
  <2>7. PICK h : h = s[1]
    OBVIOUS
  <2>8. h \in 1 .. Len(launched) /\ launched[h] = k /\ InWhole(h, k) /\ ~HasEnded(h) /\ Aging(h)
    <3>1. h \in 1 .. Len(launched) /\ launched[h] = k /\ InWhole(h, k) /\ Aging(h)
      BY <2>4, <2>5, <2>6, <2>7
    <3> QED BY <2>4, <3>1
  <2>9. h = x
    <3> SUFFICES ASSUME h # x PROVE FALSE
      OBVIOUS
    <3>1. h < x
      <4>1. CASE OnItsWay(x) /\ \A i \in 1 .. Len(s) : s[i] < x
        BY <2>5, <2>7, <4>1
      <4>2. CASE InWhole(x, k)
        <5>1. PICK i \in 1 .. Len(s) : s[i] = x
          BY <2>6, <4>2
        <5>2. i # 1 /\ 1 < i
          BY <2>5, <2>7, <5>1
        <5> QED BY <2>4, <2>5, <2>7, <5>1, <5>2
      <4> QED BY <1>6, <2>2, <2>4, <4>1, <4>2
    <3>2. h \in 1 .. x - 1 /\ launched[h] = launched[x]
      BY <1>6, <1>7, <2>8, <3>1
    <3>3. PICK e \in 1 .. m - 1 : runs[e] = h
      <4>1. \A n \in 1 .. runs[m] - 1 : launched[n] = launched[runs[m]] /\ Aging(n) => \E e \in 1 .. m - 1 : runs[e] = n
        BY <1>6 DEF RunsInOrder
      <4> QED BY <1>0, <2>8, <3>2, <4>1
    <3>4. e \in 1 .. Len(runs) /\ RunKey(e) = k /\ ~(m <= e)
      BY <1>6, <1>7, <2>8, <3>3 DEF RunKey
    <3>5. ~HasEnd(d, e)
      BY <1>6, <3>4
    <3>6. HasEnded(h)
      BY <1>1, <3>3, <3>4, <3>5 DEF HasEnded
    <3> QED BY <2>8, <3>6
  <2>10. ~OnItsWay(x)
    BY <1>1, <2>8, <2>9 DEF EntriesApart, OnItsWay
  <2> QED BY <2>3, <2>5, <2>7, <2>8, <2>9, <2>10
<1>9. ASSUME GraphOf(k) # None PROVE Claims(GraphOf(k), x)
  <2>1. PICK g : g = GraphOf(k)
    OBVIOUS
  <2>2. g \in 1 .. Len(launched) /\ launched[g] = k /\ ~Aging(g) /\ \A n \in 1 .. g - 1 : launched[n] = k => Aging(n)
    BY <1>1, <1>9, <2>1 DEF GraphInOrder, IsOf
  <2>3. g \in unaging
    BY <2>2 DEF Aging
  <2> QED BY <1>6, <2>1, <2>2, <2>3 DEF Claims
<1> QED BY <1>0, <1>5, <1>8, <1>9

LEMMA ParseRecords ==
    ASSUME KernelIInv, NEW d \in Devices, NEW log, log = Head(channel[d]), SocLogParses(d), NEW k, k = log.key
    PROVE  /\ recorded' \subseteq [launch: Launches, start: Runs, end: Runs, crossed: BOOLEAN, stale: BOOLEAN]
           /\ TimesHold'
           /\ recorded \subseteq recorded'
           /\ k \notin crossed' /\ log.funcType = "END" =>
                 \E r \in recorded' : r.end = log.run /\ (r.launch = runs[log.run] \/ Claims(r.launch, runs[log.run]))
           /\ k \notin crossed' /\ log.funcType = "END" /\ GraphOf(k) = None =>
                 /\ Pops(k, log) /\ Head(Whole(k)) = runs[log.run] /\ InWhole(runs[log.run], k)
                 /\ ~OnItsWay(runs[log.run]) /\ Aging(runs[log.run])
           /\ pending' = IF Pops(k, log) THEN pending - 1 ELSE pending
<1>1. /\ log \in SocLogs /\ k \in Keys /\ DeviceOf[k] = d /\ channel[d] # <<>> /\ consumer[d].pc = "parse"
  BY ParseMoves
<1>2. PICK l : /\ l = IF IsGraphTask(k) THEN GraphOf(k) ELSE Head(QueueOf(k))
               /\ recorded' = IF Pairs(k, log) THEN recorded \cup {Paired(l, k, log)} ELSE recorded
  BY DEF SocLogParses
<1>3. /\ UNCHANGED <<launched, unaging, runs>>
      /\ channel' = [channel EXCEPT ![d] = Tail(@)]
      /\ pending' = IF Pairs(k, log) /\ IsCounted(k) THEN pending - 1 ELSE pending
  BY DEF SocLogParses
<1>4. (IsGraphTask(k) <=> GraphOf(k) # None) /\ (Known(k) <=> Whole(k) # <<>> \/ GraphOf(k) # None)
  BY <1>1, KnownIs
<1>5. GraphOf(k) \in {None} \cup Launches /\ QueueOf(k) = Whole(k)
  BY <1>1, QueueIs
<1>6. /\ consumer[d].epoch # epoch => staged[k] = None
      /\ crossed \subseteq crossed'
      /\ ~Known(k) => k \in crossed'
  BY ParseStages
<1>7. log.run \in 1 .. Len(runs) /\ log.run \in Runs
  <2>1. UNCHANGED <<launched, runs>>
    BY <1>3
  <2>2. channel[d] # <<>>
    BY <1>1
  <2>3. channel' = [channel EXCEPT ![d] = Tail(@)]
    BY <1>3
  <2>4. log.run \in 1 .. Len(runs)
    BY <2>1, <2>2, <2>3, ChannelRest
  <2> QED BY <1>1, <2>4 DEF SocLogs
<1>8. log.funcType = "END" /\ k \notin crossed =>
        /\ GraphOf(k) = None /\ Whole(k) # <<>> =>
              /\ Head(Whole(k)) = runs[log.run] /\ InWhole(runs[log.run], k)
              /\ ~OnItsWay(runs[log.run]) /\ Aging(runs[log.run])
        /\ GraphOf(k) # None => Claims(GraphOf(k), runs[log.run])
        /\ staged[k] = log.run
  BY FirstIsNext
<1>9. Pairs(k, log) <=> Known(k) /\ log.funcType = "END" /\ staged[k] # None
  BY DEF Pairs
<1>10. ASSUME Pairs(k, log)
       PROVE /\ l \in Launches /\ staged[k] \in Runs
             /\ k \notin crossed => (l = runs[log.run] \/ Claims(l, runs[log.run])) /\ staged[k] = log.run
             /\ k \notin stale => staged[k] = log.run
  <2>1. GraphOf(k) # None => l = GraphOf(k)
    BY <1>2, <1>4, <1>9, <1>10
  <2>2. GraphOf(k) = None => l = Head(Whole(k)) /\ Whole(k) # <<>>
    BY <1>2, <1>4, <1>5, <1>9, <1>10
  <2>3. l \in Launches
    <3>1. CASE GraphOf(k) # None
      BY <1>5, <2>1, <3>1
    <3>2. CASE GraphOf(k) = None
      <4>1. Whole(k) \in Seq(Launches)
        BY <1>1, WholeSequence DEF KernelIInv
      <4> QED BY <2>2, <3>2, <4>1, Rest
    <3> QED BY <3>1, <3>2
  <2>4. staged[k] \in Runs
    BY <1>1, <1>9, <1>10 DEF KernelIInv, KernelTypeOK
  <2>5. k \notin crossed => (l = runs[log.run] \/ Claims(l, runs[log.run])) /\ staged[k] = log.run
    BY <1>8, <1>9, <1>10, <2>1, <2>2
  <2>6. k \notin stale => staged[k] = log.run
    <3>1. NextIsEnd(k)
      BY <1>1, <1>9, <1>10 DEF NextIsEnd
    <3> QED BY <1>1, <1>9, <1>10, <3>1 DEF KernelIInv, StagedInOrder
  <2> QED BY <2>3, <2>4, <2>5, <2>6
<1>11. ASSUME k \notin crossed', log.funcType = "END" PROVE Pairs(k, log) /\ k \notin crossed /\ staged[k] = log.run
  <2>1. Known(k) /\ k \notin crossed
    BY <1>6, <1>11
  <2>2. log.run # None
    BY <1>7, KernelAssumption DEF Runs, None
  <2> QED BY <1>8, <1>9, <1>11, <2>1, <2>2
<1>12. PICK r : r = Paired(l, k, log)
  OBVIOUS
<1>13. /\ r = [launch |-> l, start |-> staged[k], end |-> log.run, crossed |-> k \in crossed, stale |-> k \in stale]
       /\ recorded' = IF Pairs(k, log) THEN recorded \cup {r} ELSE recorded
  BY <1>2, <1>12 DEF Paired
<1>14. r.launch = l /\ r.start = staged[k] /\ r.end = log.run /\ (r.crossed <=> k \in crossed) /\ (r.stale <=> k \in stale)
  BY <1>13
<1>15. Pairs(k, log) => r \in [launch: Launches, start: Runs, end: Runs, crossed: BOOLEAN, stale: BOOLEAN]
  BY <1>7, <1>10, <1>13
<1>16. TimesHold'
  <2>1. /\ \A y \in recorded : ~y.crossed => (runs[y.end] = y.launch \/ Claims(y.launch, runs[y.end])) /\ y.start = y.end
        /\ \A y \in recorded : ~y.stale => y.start = y.end
        /\ \A y \in recorded : y.end \in 1 .. Len(runs)
    BY DEF KernelIInv, KernelOwnTimes, PairsOneRun
  <2>2. Pairs(k, log) => /\ ~r.crossed => (runs[r.end] = r.launch \/ Claims(r.launch, runs[r.end])) /\ r.start = r.end
                         /\ ~r.stale => r.start = r.end
                         /\ r.end \in 1 .. Len(runs)
    BY <1>7, <1>10, <1>14
  <2>3. /\ \A y \in recorded' : ~y.crossed => (runs[y.end] = y.launch \/ Claims(y.launch, runs[y.end])) /\ y.start = y.end
        /\ \A y \in recorded' : ~y.stale => y.start = y.end
        /\ \A y \in recorded' : y.end \in 1 .. Len(runs)
    BY <1>13, <2>1, <2>2
  <2> QED BY <1>3, <2>3, ClaimsStay DEF TimesHold, KernelOwnTimes, PairsOneRun
<1>17. recorded' \subseteq [launch: Launches, start: Runs, end: Runs, crossed: BOOLEAN, stale: BOOLEAN]
  BY <1>13, <1>15 DEF KernelIInv, KernelTypeOK
<1>18. ASSUME k \notin crossed', log.funcType = "END" PROVE \E y \in recorded' : y.end = log.run /\ (y.launch = runs[log.run] \/ Claims(y.launch, runs[log.run]))
  BY <1>10, <1>11, <1>13, <1>14, <1>18
<1>19. ASSUME k \notin crossed', log.funcType = "END", GraphOf(k) = None
       PROVE /\ Pops(k, log) /\ Head(Whole(k)) = runs[log.run] /\ InWhole(runs[log.run], k)
             /\ ~OnItsWay(runs[log.run]) /\ Aging(runs[log.run])
  <2>1. Pairs(k, log) /\ k \notin crossed
    BY <1>11, <1>19
  <2>2. Pops(k, log) /\ Whole(k) # <<>>
    BY <1>4, <1>9, <1>19, <2>1 DEF Pops
  <2> QED BY <1>8, <1>19, <2>1, <2>2
<1>20. pending' = IF Pops(k, log) THEN pending - 1 ELSE pending
  BY <1>3 DEF Pops, IsCounted
<1> QED BY <1>13, <1>16, <1>17, <1>18, <1>19, <1>20

LEMMA ParseKeeps ==
    ASSUME KernelIInv, NEW d \in Devices, SocLogParses(d)
    PROVE  KernelIInv'
<1>0. PICK log, k : log = Head(channel[d]) /\ k = log.key
  OBVIOUS
<1>1. /\ log \in SocLogs /\ k \in Keys /\ DeviceOf[k] = d
      /\ channel[d] # <<>> /\ consumer[d].pc = "parse"
      /\ kernels' \in [Keys -> Seq(Launches)] /\ hostTasks' \in [Keys -> Seq(Launches)]
      /\ graph' \in [Keys -> {None} \cup Launches] /\ hostGraphs' \in [Keys -> {None} \cup Launches]
      /\ \A q \in Keys : GraphOf(q)' = GraphOf(q) /\ (~(q = k /\ Pops(k, log)) => Whole(q)' = Whole(q))
      /\ Pops(k, log) => Whole(k) # <<>> /\ GraphOf(k) = None
  BY <1>0, ParseMoves
<1>2. /\ staged' \in [Keys -> {None} \cup Runs]
      /\ crossed \subseteq crossed' /\ crossed' \subseteq crossed \cup {k} /\ stale' \subseteq crossed'
      /\ ~Known(k) => k \in crossed'
  BY <1>0, ParseStages
<1>3. /\ recorded' \subseteq [launch: Launches, start: Runs, end: Runs, crossed: BOOLEAN, stale: BOOLEAN]
      /\ TimesHold'
      /\ recorded \subseteq recorded'
      /\ k \notin crossed' /\ log.funcType = "END" =>
            \E r \in recorded' : r.end = log.run /\ (r.launch = runs[log.run] \/ Claims(r.launch, runs[log.run]))
      /\ k \notin crossed' /\ log.funcType = "END" /\ GraphOf(k) = None =>
            /\ Pops(k, log) /\ Head(Whole(k)) = runs[log.run] /\ InWhole(runs[log.run], k)
            /\ ~OnItsWay(runs[log.run]) /\ Aging(runs[log.run])
      /\ pending' = IF Pops(k, log) THEN pending - 1 ELSE pending
  BY <1>0, ParseRecords
<1>4. /\ \A q \in Keys : \A n :
            InWhole(n, q)' <=> InWhole(n, q) /\ ~(q = k /\ Pops(k, log) /\ n = Head(Whole(q)))
      /\ EntriesApart' /\ AgingWaits'
      /\ \A q \in Keys :
            (\A i, j \in 1 .. Len(Whole(q)) : i < j => Whole(q)[i] < Whole(q)[j]) =>
            (\A i, j \in 1 .. Len(Whole(q)') : i < j => Whole(q)'[i] < Whole(q)'[j])
  BY <1>0, ParseLeaves
<1>5. /\ consumer' = [consumer EXCEPT ![d] = IdleConsumer]
      /\ channel' = [channel EXCEPT ![d] = Tail(@)]
      /\ UNCHANGED <<gate, launched, unaging, host, runs, lost, epoch, wiped, drift>>
  BY DEF SocLogParses
<1>6. /\ channel' \in [Devices -> Seq(SocLogs)]
      /\ log.run \in 1 .. Len(runs) /\ k = RunKey(log.run)
      /\ \A e \in Devices, m \in 1 .. Len(runs) : EndIn(channel'[e], RunKey(m), m) <=> HasEnd(e, m) /\ ~IsSeen(e, m, d, log)
      /\ ChannelInOrder'
  <2>1. UNCHANGED <<launched, runs>>
    BY <1>5
  <2>2. channel[d] # <<>>
    BY <1>1
  <2>3. channel' = [channel EXCEPT ![d] = Tail(@)]
    BY <1>5
  <2>4. log = Head(channel[d])
    BY <1>0
  <2> QED BY <1>0, <2>1, <2>2, <2>3, <2>4, ChannelRest
<1>7. StagedInOrder'
  BY ParseKeepsStaged
<1> USE DEF KernelIInv
<1>8. KernelTypeOK'
  <2>1. consumer' \in [Devices -> [pc: {"idle", "parse"}, epoch: 0 .. MaxSessions]]
    BY <1>5, GateAssumption DEF KernelTypeOK, IdleConsumer
  <2>2. crossed' \subseteq Keys /\ stale' \subseteq Keys
    BY <1>1, <1>2 DEF KernelTypeOK
  <2>3. pending' \in Int
    BY <1>3 DEF KernelTypeOK
  <2> QED BY <1>1, <1>2, <1>3, <1>5, <1>6, <2>1, <2>2, <2>3 DEF KernelTypeOK, GateTypeOK
<1>9. GateSessions' /\ HostsApart' /\ RunsInOrder'
  BY <1>5, RunsStay DEF GateSessions, HostsApart, Aging
<1>10. \A m : RunKey(m)' = RunKey(m)
  BY <1>5 DEF RunKey
<1>11. \A m \in 1 .. Len(runs) : runs[m] \in 1 .. Len(launched) /\ RunKey(m) \in Keys /\ DeviceOf[RunKey(m)] \in Devices
  <2> SUFFICES ASSUME NEW m \in 1 .. Len(runs) PROVE runs[m] \in 1 .. Len(launched) /\ RunKey(m) \in Keys /\ DeviceOf[RunKey(m)] \in Devices
    OBVIOUS
  <2>1. runs[m] \in 1 .. Len(launched) /\ launched \in Seq(Keys)
    BY DEF RunsInOrder, KernelTypeOK
  <2>2. launched[runs[m]] \in Keys
    BY <2>1, ElementOfSeq
  <2> QED BY <2>1, <2>2, KernelAssumption DEF RunKey
<1>12. ASSUME NEW m \in 1 .. Len(runs), ~(log.funcType = "END" /\ m = log.run)
       PROVE HasEnd(DeviceOf[RunKey(m)], m)' <=> HasEnd(DeviceOf[RunKey(m)], m)
  <2>1. PICK e \in Devices : e = DeviceOf[RunKey(m)]
    BY <1>11
  <2>2. EndIn(channel'[e], RunKey(m), m) <=> HasEnd(e, m)
    BY <1>6, <1>12 DEF IsSeen
  <2>3. DeviceOf[RunKey(m)'] = e
    BY <1>10, <2>1
  <2> QED BY <1>10, <2>1, <2>2, <2>3 DEF HasEnd
<1>13. log.funcType = "END" => ~HasEnd(DeviceOf[RunKey(log.run)], log.run)'
  <2> SUFFICES ASSUME log.funcType = "END" PROVE ~HasEnd(DeviceOf[RunKey(log.run)], log.run)'
    OBVIOUS
  <2>0. PICK m \in 1 .. Len(runs) : m = log.run
    BY <1>6
  <2>1. DeviceOf[RunKey(m)'] = d
    BY <1>1, <1>6, <1>10, <2>0
  <2>2. ~EndIn(channel'[d], RunKey(m), m)
    BY <1>6, <2>0 DEF IsSeen
  <2>3. ~HasEnd(DeviceOf[RunKey(m)], m)'
    BY <1>10, <2>1, <2>2 DEF HasEnd
  <2> QED BY <2>0, <2>3
<1>14. ASSUME NEW x, ~(log.funcType = "END" /\ x = runs[log.run]) PROVE HasEnded(x)' <=> HasEnded(x)
  <2>1. HasEnded(x)' <=> \E m \in 1 .. Len(runs) : runs[m] = x /\ ~HasEnd(DeviceOf[RunKey(m)], m)'
    BY <1>5 DEF HasEnded
  <2>2. \A m \in 1 .. Len(runs) : runs[m] = x => ~(log.funcType = "END" /\ m = log.run)
    BY <1>14
  <2> QED BY <1>12, <2>1, <2>2 DEF HasEnded
<1>15. \A x : OnItsWay(x)' <=> OnItsWay(x)
  BY <1>5 DEF OnItsWay
<1>16. AgingInOrder'
  <2> SUFFICES ASSUME NEW q \in Keys \ crossed', GraphOf(q) = None
      PROVE /\ \A i, j \in 1 .. Len(Whole(q)') : i < j => Whole(q)'[i] < Whole(q)'[j]
            /\ \A x \in 1 .. Len(launched) : launched[x] = q =>
                  \/ OnItsWay(x) /\ ~HasEnded(x)' /\ \A i \in 1 .. Len(Whole(q)') : Whole(q)'[i] < x
                  \/ ~HasEnded(x)' /\ InWhole(x, q)'
                  \/ Aging(x) /\ HasEnded(x)' /\ ~OnItsWay(x) /\ ~InWhole(x, q)'
    BY <1>1, <1>5, <1>15 DEF AgingInOrder, Aging
  <2>1. q \in Keys \ crossed
    BY <1>2
  <2>2. /\ \A i, j \in 1 .. Len(Whole(q)) : i < j => Whole(q)[i] < Whole(q)[j]
        /\ \A x \in 1 .. Len(launched) : launched[x] = q =>
              \/ OnItsWay(x) /\ ~HasEnded(x) /\ \A i \in 1 .. Len(Whole(q)) : Whole(q)[i] < x
              \/ ~HasEnded(x) /\ InWhole(x, q)
              \/ Aging(x) /\ HasEnded(x) /\ ~OnItsWay(x) /\ ~InWhole(x, q)
    BY <2>1 DEF AgingInOrder
  <2>3. \A i, j \in 1 .. Len(Whole(q)') : i < j => Whole(q)'[i] < Whole(q)'[j]
    BY <1>4, <2>1, <2>2
  <2>4. \A n : InWhole(n, q)' => InWhole(n, q)
    BY <1>4, <2>1
  <2>5. ASSUME NEW x \in 1 .. Len(launched), launched[x] = q
        PROVE \/ OnItsWay(x) /\ ~HasEnded(x)' /\ \A i \in 1 .. Len(Whole(q)') : Whole(q)'[i] < x
              \/ ~HasEnded(x)' /\ InWhole(x, q)'
              \/ Aging(x) /\ HasEnded(x)' /\ ~OnItsWay(x) /\ ~InWhole(x, q)'
    <3>1. CASE log.funcType = "END" /\ x = runs[log.run]
      <4>1. q = k
        BY <1>6, <2>5, <3>1 DEF RunKey
      <4>2. Pops(k, log) /\ Head(Whole(k)) = x /\ ~OnItsWay(x) /\ Aging(x)
        BY <1>3, <2>1, <3>1, <4>1
      <4>3. ~InWhole(x, k)'
        BY <1>4, <2>1, <4>1, <4>2
      <4>4. HasEnded(x)'
        <5>1. \E m \in 1 .. Len(runs) : runs[m] = x /\ ~HasEnd(DeviceOf[RunKey(m)], m)'
          BY <1>6, <1>13, <3>1
        <5> QED BY <1>5, <5>1 DEF HasEnded
      <4> QED BY <4>1, <4>2, <4>3, <4>4
    <3>2. CASE ~(log.funcType = "END" /\ x = runs[log.run])
      <4>1. HasEnded(x)' <=> HasEnded(x)
        BY <1>14, <3>2
      <4>2. InWhole(x, q)' <=> InWhole(x, q)
        <5>1. CASE q = k /\ Pops(k, log)
          <6>1. log.funcType = "END"
            BY <5>1 DEF Pops, Pairs
          <6>2. Head(Whole(k)) = runs[log.run]
            BY <1>3, <2>1, <5>1, <6>1
          <6> QED BY <1>4, <2>1, <3>2, <5>1, <6>1, <6>2
        <5>2. CASE ~(q = k /\ Pops(k, log))
          BY <1>4, <2>1, <5>2
        <5> QED BY <5>1, <5>2
      <4>3. ASSUME \A i \in 1 .. Len(Whole(q)) : Whole(q)[i] < x
            PROVE \A i \in 1 .. Len(Whole(q)') : Whole(q)'[i] < x
        <5> SUFFICES ASSUME NEW i \in 1 .. Len(Whole(q)') PROVE Whole(q)'[i] < x
          OBVIOUS
        <5>1. PICK n : n = Whole(q)'[i]
          OBVIOUS
        <5>2. InWhole(n, q)'
          BY <5>1 DEF InWhole
        <5>3. InWhole(n, q)
          BY <2>4, <5>2
        <5> QED BY <4>3, <5>1, <5>3 DEF InWhole
      <4> QED BY <2>2, <2>5, <4>1, <4>2, <4>3
    <3> QED BY <3>1, <3>2
  <2> QED BY <2>3, <2>5
<1>17. GraphInOrder'
  <2>1. \A q \in Keys : GraphOf(q)' = GraphOf(q)
    BY <1>1
  <2> QED BY <1>2, <1>5, <2>1 DEF GraphInOrder, IsOf, Aging
<1>18. AllRecorded'
  <2> SUFFICES ASSUME NEW m \in 1 .. Len(runs), RunKey(m) \notin crossed', ~HasEnd(DeviceOf[RunKey(m)], m)'
      PROVE \E r \in recorded' : r.end = m /\ (r.launch = runs[m] \/ Claims(r.launch, runs[m]))
    <3>1. \A g, l : Claims(g, l)' <=> Claims(g, l)
      BY <1>5, ClaimsStay
    <3> QED BY <1>5, <1>10, <3>1 DEF AllRecorded
  <2>1. CASE log.funcType = "END" /\ m = log.run
    BY <1>3, <1>6, <2>1
  <2>2. CASE ~(log.funcType = "END" /\ m = log.run)
    <3>1. ~HasEnd(DeviceOf[RunKey(m)], m) /\ RunKey(m) \notin crossed
      BY <1>2, <1>12, <2>2
    <3>2. \E r \in recorded : r.end = m /\ (r.launch = runs[m] \/ Claims(r.launch, runs[m]))
      BY <3>1 DEF AllRecorded
    <3> QED BY <1>3, <3>2
  <2> QED BY <2>1, <2>2
<1>19. Waiting' = {x \in 1 .. Len(launched) : Aging(x) /\ \E q \in Keys : InWhole(x, q)'}
  <2>1. DOMAIN launched = 1 .. Len(launched)
    BY NotEmpty DEF KernelTypeOK
  <2>2. ASSUME NEW q \in Keys PROVE \A x : (x \in Range(hostTasks'[q]) \/ x \in Range(kernels'[q])) <=> InWhole(x, q)'
    <3>0. PICK s, r : s = kernels'[q] /\ r = hostTasks'[q]
      OBVIOUS
    <3>1. Whole(q)' = s \o r
      BY <3>0 DEF Whole
    <3>5. s \in Seq(Launches) /\ r \in Seq(Launches)
      BY <1>1, <3>0
    <3>2. Range(s) \cup Range(r) = {(s \o r)[i] : i \in 1 .. Len(s \o r)}
      BY <3>5, JoinedElements
    <3>3. \A x : InWhole(x, q)' <=> x \in {Whole(q)'[i] : i \in 1 .. Len(Whole(q)')}
      BY DEF InWhole
    <3>4. {Whole(q)'[i] : i \in 1 .. Len(Whole(q)')} = Range(s) \cup Range(r)
      BY <3>1, <3>2
    <3> QED BY <3>0, <3>3, <3>4
  <2>3. ASSUME NEW x \in 1 .. Len(launched) PROVE AgingEntries'[x] <=> \E q \in Keys : InWhole(x, q)'
    BY <1>5, <2>1, <2>2 DEF AgingEntries
  <2> QED BY <1>5, <2>1, <2>3 DEF Waiting, Aging
<1>20. Waiting = {x \in 1 .. Len(launched) : Aging(x) /\ \E q \in Keys : InWhole(x, q)}
  BY WaitingIs
<1>21. \A q \in Keys : \A n : InWhole(n, q)' => InWhole(n, q)
  BY <1>4
<1>22. Waiting' \subseteq Waiting
  BY <1>19, <1>20, <1>21
<1>23. PendingExact'
  <2>1. Uncounted' = Uncounted /\ drift' = drift
    BY <1>5 DEF Uncounted
  <2>2. IsFiniteSet(Waiting) /\ Cardinality(Waiting) \in Nat /\ Cardinality(Uncounted) \in Nat /\ pending \in Int /\ drift \in Nat
    BY ApartFinite DEF KernelTypeOK
  <2>3. \A q \in Keys : \A n : InWhole(n, q) => n \in 1 .. Len(launched) /\ launched[n] = q
    BY DEF EntriesApart, InWhole, IsOf
  <2>4. CASE Pops(k, log)
    <3>1. PICK h : h = Head(Whole(k))
      OBVIOUS
    <3>2. k \in Keys /\ InWhole(h, k)
      <4>0. PICK s : s = Whole(k)
        OBVIOUS
      <4>1. s \in Seq(Launches) /\ s # <<>>
        BY <1>1, <2>4, <4>0, WholeSequence
      <4>2. Head(s) = s[1] /\ 1 \in 1 .. Len(s)
        BY <4>1, Rest
      <4> QED BY <1>1, <2>4, <3>1, <4>0, <4>2 DEF InWhole
    <3>3. h \in Waiting
      <4>1. Aging(h)
        BY <3>2 DEF AgingWaits, InWhole
      <4> QED BY <1>20, <2>3, <3>2, <4>1
    <3>4. h \notin Waiting'
      <4>1. ASSUME NEW q \in Keys, InWhole(h, q)' PROVE FALSE
        <5>1. q = k
          BY <1>21, <2>3, <3>2, <4>1
        <5> QED BY <1>4, <2>4, <3>1, <3>2, <4>1, <5>1
      <4> QED BY <1>19, <4>1
    <3>5. ASSUME NEW x \in Waiting, x # h PROVE x \in Waiting'
      <4>1. PICK q \in Keys : InWhole(x, q)
        BY <1>20
      <4>2. Aging(x) /\ x \in 1 .. Len(launched) /\ launched[x] = q
        BY <1>20, <2>3, <4>1
      <4>3. InWhole(x, q)'
        BY <1>4, <3>1, <3>5, <4>1
      <4> QED BY <1>19, <4>2, <4>3
    <3>6. Waiting' = Waiting \ {h}
      BY <1>22, <3>4, <3>5
    <3>7. Cardinality(Waiting') = Cardinality(Waiting) - 1
      BY <2>2, <3>3, <3>6, FS_RemoveElement
    <3> QED BY <1>3, <2>1, <2>2, <2>4, <3>7 DEF PendingExact
  <2>5. CASE ~Pops(k, log)
    <3>1. ASSUME NEW x \in Waiting PROVE x \in Waiting'
      <4>1. PICK q \in Keys : InWhole(x, q)
        BY <1>20
      <4>2. Aging(x) /\ x \in 1 .. Len(launched) /\ launched[x] = q
        BY <1>20, <2>3, <4>1
      <4>3. InWhole(x, q)'
        BY <1>4, <2>5, <4>1
      <4> QED BY <1>19, <4>2, <4>3
    <3>2. Waiting' = Waiting
      BY <1>22, <3>1
    <3> QED BY <1>3, <2>1, <2>5, <3>2 DEF PendingExact
  <2> QED BY <2>4, <2>5
<1>24. DrainHolds'
  <2>1. Quiet' = Quiet /\ gate' = gate
    BY <1>5 DEF Quiet
  <2> QED BY <1>22, <2>1 DEF DrainHolds
<1> QED BY <1>3, <1>4, <1>6, <1>7, <1>8, <1>9, <1>16, <1>17, <1>18, <1>23, <1>24 DEF TimesHold

----------------------------------------------------------------------------
(* The kernels' part of the parsers, step by step.                           *)

LEMMA KernelNextIInv == KernelIInv /\ [KernelNext]_<<gate, kernelVars>> => KernelIInv'
<1> SUFFICES ASSUME KernelIInv, [KernelNext]_<<gate, kernelVars>> PROVE KernelIInv'
  OBVIOUS
<1>1. CASE KernelSession
  BY <1>1, SessionKeeps
<1>2. CASE KernelClears
  BY <1>2, ClearKeeps
<1>3. ASSUME NEW t \in HostThreads, NEW k \in Keys, NEW aging \in BOOLEAN, ReportChecksSwitch(t, k, aging) PROVE KernelIInv'
  BY <1>3, LaunchKeeps
<1>4. ASSUME NEW t \in HostThreads, HostSteps(t) PROVE KernelIInv'
  <2>1. ASSUME NEW isKernel \in BOOLEAN, ReportChecksGate(t, isKernel) PROVE KernelIInv'
    BY <2>1, GateCheckKeeps
  <2>2. CASE ReportPushes(t)
    BY <2>2, PushKeeps
  <2>3. CASE ReportCounts(t)
    BY <2>3, CountKeeps
  <2> QED BY <1>4, <2>1, <2>2, <2>3 DEF HostSteps
<1>5. ASSUME NEW l \in DOMAIN launched, RunsTask(l) PROVE KernelIInv'
  BY <1>5, RunKeeps
<1>6. ASSUME NEW d \in Devices, SocLogChecks(d) PROVE KernelIInv'
  BY <1>6, CheckKeeps
<1>7. ASSUME NEW d \in Devices, SocLogParses(d) PROVE KernelIInv'
  BY <1>7, ParseKeeps
<1>8. ASSUME NEW d \in Devices, LosesRecord(d) PROVE KernelIInv'
  BY <1>8, LossKeeps
<1>9. CASE UNCHANGED <<gate, kernelVars>>
  <2> USE DEF KernelIInv
  <2>1. UNCHANGED <<gate, launched, unaging, host, hostTasks, hostGraphs, kernels, graph, staged, pending, runs, channel,
                    consumer, lost, recorded, epoch, wiped, drift, crossed, stale>>
    BY <1>9 DEF kernelVars
  <2>2. KernelTypeOK' /\ GateSessions' /\ HostsApart'
    BY <2>1 DEF KernelTypeOK, GateTypeOK, GateSessions, HostsApart, Aging
  <2>3. TimesHold' /\ StagedInOrder'
    BY <2>1, TimesStay, StagedStays DEF TimesHold
  <2> QED BY <2>1, <2>2, <2>3, EntriesStay, WaitsStay, RunsStay, ChannelStays, AgingStays, GraphStays, RecordedStays, PendingStays, DrainStays
          DEF TimesHold
<1> QED BY <1>1, <1>2, <1>3, <1>4, <1>5, <1>6, <1>7, <1>8, <1>9 DEF KernelNext, DeviceSteps

\* The inductive invariant of the kernels' parser holds for any number of
\* threads, devices, keys, launches, replays, losses and sessions.
THEOREM KernelInductive == KernelSpec => []KernelIInv
BY KernelInitIInv, KernelNextIInv, PTL DEF KernelSpec

LEMMA KernelIInvIsEnough == KernelIInv => KernelInv
<1> SUFFICES ASSUME KernelIInv PROVE KernelInv
  OBVIOUS
<1> USE DEF KernelIInv
<1>1. DrainSound
  BY DEF DrainSound, DrainHolds, At
<1>2. KernelComplete
  <2> SUFFICES ASSUME \A d \in DOMAIN channel : channel[d] = <<>>, NEW n \in DOMAIN runs, launched[runs[n]] \notin crossed
               PROVE \E r \in recorded : r.end = n /\ (r.launch = runs[n] \/ Claims(r.launch, runs[n]))
    BY DEF KernelComplete
  <2>1. n \in 1 .. Len(runs) /\ DOMAIN channel = Devices
    BY NotEmpty DEF KernelTypeOK
  <2>2. RunKey(n) \in Keys
    <3>1. runs[n] \in 1 .. Len(launched) /\ launched \in Seq(Keys)
      BY <2>1 DEF RunsInOrder, KernelTypeOK
    <3> QED BY <3>1, ElementOfSeq DEF RunKey
  <2>3. channel[DeviceOf[RunKey(n)]] = <<>>
    BY <2>1, <2>2, KernelAssumption
  <2>4. ~HasEnd(DeviceOf[RunKey(n)], n)
    BY <2>3 DEF HasEnd, EndIn
  <2> QED BY <2>1, <2>4 DEF AllRecorded, RunKey
<1> QED BY <1>1, <1>2 DEF KernelInv

\* What the runs check of the kernels' parser: each kernel that nothing
\* crossed gets its own run's times, the count is exact, a drain that reports
\* success has left none, and no kernel's run goes without its record.
THEOREM KernelCorrect == KernelSpec => []KernelInv
BY KernelInductive, KernelIInvIsEnough, PTL

(***************************************************************************)
(* Marker and HcclMarks.  An id is open, while its end may still be told,  *)
(* by one holder only: a range between its start and its end, or an        *)
(* operation.  Nothing has come of the end of what is open.                *)
(***************************************************************************)

Trace(x, flag) == [id |-> x, flag |-> flag]

\* The marks the device's consumer has not begun to read.
Unread == IF reader.pc = "deliver" THEN {traces[i] : i \in DOMAIN traces \ {1}} ELSE ToSet(traces)

HcclRecords == [op: HcclOpDescs, end: MarkIds, counted: {0} \cup MarkIds, ranks: {0} \cup MarkIds]

\* The types, with what TypeOK leaves open: maps are maps, a handle is a domain's.
MarkTypes ==
    /\ HcclTypeOK
    /\ contexts = [x \in DOMAIN contexts |-> contexts[x]] /\ deviceContexts = [x \in DOMAIN deviceContexts |-> deviceContexts[x]]
    /\ markId2HcclOp = [x \in DOMAIN markId2HcclOp |-> markId2HcclOp[x]]
    /\ deviceBase <= MaxSyncs /\ \A t \in MarkThreads : marker[t].handle <= Len(domains)
    /\ \A t \in HcclThreads : hccl[t].pc # "idle" => hccl[t].shape \in Shapes
    /\ hcclReports \in Seq(HcclRecords)

\* A domain is enabled as its name says; what a muted call records is another's name.
NamesTell ==
    /\ \A h \in DOMAIN domains : domains[h].enabled = (domains[h].name \notin disabled)
    /\ \A t \in MarkThreads : marker[t].muted => marker[t].handle # 0 /\ domains[marker[t].handle].name # marker[t].asked

\* The ids whose end may still be told: a range between its start and its end, and an operation.
Starting(t) == marker[t].pc \in {"record", "context"} /\ marker[t].flag = "start"
Ending(t) == marker[t].pc = "record" /\ marker[t].flag = "end"
Wrapping(t) == hccl[t].pc # "idle"
ClientOpen(x) == x \in DOMAIN contexts \/ \E t \in MarkThreads : Starting(t) /\ marker[t].id = x
HcclOpen(x) == \E t \in HcclThreads : Wrapping(t) /\ hccl[t].id = x
Open(x) == ClientOpen(x) \/ HcclOpen(x)

\* Each id is one holder's.
Given == 1 .. gMarkId
IdsGivenOut ==
    /\ DOMAIN contexts \subseteq Given /\ DOMAIN deviceContexts \subseteq Given /\ innerMarkIds \subseteq Given
    /\ DOMAIN markId2HcclOp \subseteq Given
    /\ \A e \in ToSet(traces) \cup ToSet(marks) : e.id \in Given
    /\ \A r \in ToSet(hcclReports) : r.op.id \in Given
    /\ \A t \in MarkThreads : marker[t].pc \in {"record", "context"} => marker[t].id \in Given
    /\ \A t \in HcclThreads : counts[t] <= gMarkId /\ (Wrapping(t) => hccl[t].id \in Given)
OneHolder ==
    /\ \A t, u \in MarkThreads : Starting(t) /\ Starting(u) /\ t # u => marker[t].id # marker[u].id
    /\ \A t, u \in MarkThreads : Ending(t) /\ Ending(u) /\ t # u => marker[t].id # marker[u].id
    /\ \A t \in MarkThreads : Starting(t) => marker[t].id \notin DOMAIN contexts
    /\ \A t, u \in HcclThreads : Wrapping(t) /\ Wrapping(u) /\ t # u => hccl[t].id # hccl[u].id
    /\ \A x \in Given : ClientOpen(x) => ~HcclOpen(x) /\ x \notin innerMarkIds

\* While an id is open nothing has come of its end.
OpenNotEnded ==
    \A x \in Given : Open(x) =>
        /\ Trace(x, "end") \notin ToSet(traces) /\ Trace(x, "instantaneous") \notin ToSet(traces)
        /\ \A m \in ToSet(marks) : m.id = x => m.flag # "end" /\ (m.source = "device" => m.flag = "start")
        /\ \A r \in ToSet(hcclReports) : r.op.id # x
        /\ x \notin told
        /\ \A t \in MarkThreads : Ending(t) => marker[t].id # x

\* What waits for the device's consumer: each once, an end after its start, and none that has been delivered.
TracesOrdered ==
    /\ reader.pc = "deliver" => traces # <<>>
    /\ \A i, j \in DOMAIN traces : i < j =>
          /\ traces[i] # traces[j]
          /\ traces[i].id = traces[j].id => traces[i].flag = "start" /\ traces[j].flag = "end"
    /\ \A e \in ToSet(traces) :
          /\ \A m \in ToSet(marks) : m.source = "device" /\ m.id = e.id => e.flag = "end" /\ m.flag = "start"
          /\ \A r \in ToSet(hcclReports) : r.op.id # e.id

\* The reading that the device's end of a range will be converted with.
EndComing(x) == Open(x) \/ Trace(x, "end") \in Unread
DeviceKeeps(x, base) == base # 0 => x \in DOMAIN deviceContexts /\ deviceContexts[x] = base
DeviceClocks ==
    /\ \A x \in DOMAIN deviceContexts : Trace(x, "start") \notin Unread
    /\ \A m \in ToSet(marks) : (m.source = "device" /\ m.flag = "start" /\ EndComing(m.id)) => DeviceKeeps(m.id, m.base)
    /\ reader.pc = "deliver" =>
          /\ (Head(traces).flag = "start" /\ EndComing(Head(traces).id)) => DeviceKeeps(Head(traces).id, reader.base)
          /\ Head(traces).flag = "end" => \A m \in ToSet(marks) :
                (m.source = "device" /\ m.flag = "start" /\ m.id = Head(traces).id) => m.base \in {0, reader.base}

\* The reading that the host's end of a range will be converted with.
HostStart(m, x) == m.source = "host" /\ m.flag = "start" /\ m.id = x
Fits(base, x) == \A m \in ToSet(marks) : HostStart(m, x) => base \in {0, m.base}
HostClocks ==
    /\ \A x \in DOMAIN contexts : Fits(contexts[x].base, x)
    /\ \A t \in MarkThreads :
          /\ Starting(t) => marker[t].clock \in {0, marker[t].base} /\ Fits(marker[t].clock, marker[t].id)
          /\ Starting(t) /\ marker[t].pc = "record" => \A m \in ToSet(marks) : ~HostStart(m, marker[t].id)
          /\ Starting(t) /\ marker[t].pc = "context" /\ marker[t].taken => \E m \in ToSet(marks) : HostStart(m, marker[t].id)
          /\ marker[t].pc # "idle" /\ marker[t].flag = "end" => marker[t].id \in ranges
          /\ Ending(t) => /\ Fits(marker[t].base, marker[t].id)
                          /\ \A m \in ToSet(marks) : ~(m.source = "host" /\ m.flag = "end" /\ m.id = marker[t].id)
          /\ marker[t].pc \in {"idle", "name", "report", "record", "context"}
          /\ marker[t].pc = "context" => marker[t].flag = "start"
    /\ \A x \in ranges : \E m \in ToSet(marks) : HostStart(m, x)

\* An operation's id is kept, then the operation, then the device is told its end.
OperationsKept ==
    /\ \A t \in HcclThreads : Wrapping(t) =>
          /\ hccl[t].pc = "insert" => hccl[t].ok /\ hccl[t].id \notin innerMarkIds
          /\ hccl[t].pc # "insert" => hccl[t].ok = (hccl[t].id \in innerMarkIds)
          /\ hccl[t].pc # "end" =>
                /\ hccl[t].id \notin DOMAIN markId2HcclOp
                /\ hccl[t].ok /\ Trace(hccl[t].id, "start") \notin ToSet(traces) => hccl[t].id \in early
    /\ \A k \in DOMAIN markId2HcclOp :
          /\ markId2HcclOp[k].id = k /\ markId2HcclOp[k].start \in {NoStart, k}
          /\ (k \in innerMarkIds /\ markId2HcclOp[k].start = NoStart /\ Trace(k, "start") \notin ToSet(traces)) => k \in early
    /\ told \subseteq innerMarkIds
    /\ \A x \in told : Trace(x, "end") \in ToSet(traces) \/ x \notin DOMAIN markId2HcclOp

\* What the consumer takes for an operation's is one, and what it takes for a client's is not, but early.
ReaderTells ==
    /\ \A e \in ToSet(traces) : e.flag = "instantaneous" => e.id \notin innerMarkIds
    /\ reader.pc = "deliver" =>
          IF reader.inner THEN Head(traces).id \in innerMarkIds
          ELSE IF Head(traces).flag = "start" THEN Head(traces).id \in early ELSE Head(traces).id \notin told
    /\ \A m \in ToSet(marks) : m.source = "device" => IF m.flag = "start" THEN m.id \in early ELSE m.id \notin told

MarksIInv ==
    /\ MarkTypes /\ NamesTell /\ IdsGivenOut /\ OneHolder /\ OpenNotEnded /\ TracesOrdered /\ DeviceClocks /\ HostClocks
    /\ OperationsKept /\ ReaderTells
    /\ RangesPaired /\ OneClock /\ DisabledSilent /\ HcclOwn /\ HcclComplete


\* What a sequence holds when an element is added, and when the first is taken.
LEMMA Added ==
    ASSUME NEW S, NEW s \in Seq(S), NEW e \in S
    PROVE  /\ Append(s, e) \in Seq(S) /\ ToSet(Append(s, e)) = ToSet(s) \cup {e} /\ Append(s, e) # <<>>
           /\ DOMAIN s = 1 .. Len(s) /\ DOMAIN Append(s, e) = 1 .. Len(s) + 1 /\ Len(s) \in Nat /\ Len(Append(s, e)) = Len(s) + 1
           /\ \A i \in 1 .. Len(s) : Append(s, e)[i] = s[i]
           /\ Append(s, e)[Len(s) + 1] = e
           /\ \A i \in 1 .. Len(s) + 1 : i \in 1 .. Len(s) \/ i = Len(s) + 1
           /\ s # <<>> => Head(Append(s, e)) = Head(s) /\ Len(s) >= 1
<1>1. /\ Append(s, e) \in Seq(S) /\ Append(s, e) # <<>>
      /\ Len(s) \in Nat /\ Len(Append(s, e)) = Len(s) + 1
      /\ \A i \in 1 .. Len(s) : Append(s, e)[i] = s[i]
      /\ Append(s, e)[Len(s) + 1] = e
  BY AppendProperties, LenProperties
<1>2. DOMAIN s = 1 .. Len(s) /\ DOMAIN Append(s, e) = 1 .. Len(s) + 1
  BY <1>1, LenProperties
<1>3. \A i \in 1 .. Len(s) + 1 : i \in 1 .. Len(s) \/ i = Len(s) + 1
  <2>1. Len(s) \in Nat
    BY <1>1
  <2>2. QED
    BY <2>1
<1>4. (\A i \in 1 .. Len(s) : i \in 1 .. Len(s) + 1) /\ Len(s) + 1 \in 1 .. Len(s) + 1
  <2>1. Len(s) \in Nat
    BY <1>1
  <2>2. QED
    BY <2>1
<1>5. ToSet(Append(s, e)) = {Append(s, e)[i] : i \in 1 .. Len(s) + 1} /\ ToSet(s) = {s[i] : i \in 1 .. Len(s)}
  BY <1>2 DEF ToSet
<1>6. \A x \in ToSet(Append(s, e)) : x \in ToSet(s) \cup {e}
  BY <1>1, <1>3, <1>5
<1>7. \A x \in ToSet(s) : x \in ToSet(Append(s, e))
  BY <1>1, <1>4, <1>5
<1>8. e \in ToSet(Append(s, e))
  BY <1>1, <1>4, <1>5
<1>9. s # <<>> => Head(Append(s, e)) = Head(s) /\ Len(s) >= 1
  <2>1. SUFFICES ASSUME s # <<>> PROVE Head(Append(s, e)) = Head(s) /\ Len(s) >= 1
    OBVIOUS
  <2>2. Len(s) >= 1 /\ 1 \in 1 .. Len(s)
    BY <2>1, <1>1, EmptySeq
  <2>3. Append(s, e)[1] = s[1]
    BY <2>2, <1>1
  <2>4. QED
    BY <2>2, <2>3, <1>1
<1>10. QED
  BY <1>1, <1>2, <1>3, <1>6, <1>7, <1>8, <1>9

LEMMA FirstTaken ==
    ASSUME NEW S, NEW s \in Seq(S), s # <<>>
    PROVE  /\ Tail(s) \in Seq(S) /\ Head(s) = s[1] /\ Head(s) \in S /\ 1 \in DOMAIN s /\ DOMAIN s = 1 .. Len(s) /\ Len(s) \in Nat \ {0}
           /\ Len(Tail(s)) = Len(s) - 1 /\ DOMAIN Tail(s) = 1 .. Len(s) - 1
           /\ \A i \in 1 .. Len(s) - 1 : i + 1 \in DOMAIN s /\ Tail(s)[i] = s[i + 1]
           /\ ToSet(Tail(s)) = {s[i] : i \in DOMAIN s \ {1}}
           /\ ToSet(s) = {Head(s)} \cup ToSet(Tail(s))
<1>1. /\ Tail(s) \in Seq(S) /\ Head(s) = s[1] /\ Head(s) \in S /\ DOMAIN s = 1 .. Len(s) /\ Len(s) \in Nat \ {0}
      /\ Len(Tail(s)) = Len(s) - 1
      /\ \A i \in 1 .. Len(Tail(s)) : Tail(s)[i] = s[i + 1]
  BY HeadTailProperties, EmptySeq, LenProperties, ElementOfSeq
<1>2. PICK n : n = Len(s) /\ n \in Nat \ {0}
  BY <1>1
<1>3. DOMAIN Tail(s) = 1 .. n - 1
  BY <1>1, <1>2, LenProperties
<1>4. \A i \in 1 .. n - 1 : i + 1 \in 1 .. n /\ i + 1 # 1
  BY <1>2
<1>5. \A i \in 1 .. n : i # 1 => i - 1 \in 1 .. n - 1 /\ (i - 1) + 1 = i
  BY <1>2
<1>6. ToSet(Tail(s)) = {Tail(s)[i] : i \in 1 .. n - 1} /\ ToSet(s) = {s[i] : i \in 1 .. n} /\ 1 \in 1 .. n
  <2>1. ToSet(Tail(s)) = {Tail(s)[i] : i \in 1 .. n - 1}
    BY <1>3 DEF ToSet
  <2>2. ToSet(s) = {s[i] : i \in 1 .. n}
    BY <1>1, <1>2 DEF ToSet
  <2>3. 1 \in 1 .. n
    BY <1>2
  <2>4. QED
    BY <2>1, <2>2, <2>3
<1>7. \A i \in 1 .. n - 1 : Tail(s)[i] = s[i + 1]
  BY <1>1, <1>2
<1>8. \A x \in ToSet(Tail(s)) : x \in {s[i] : i \in DOMAIN s \ {1}}
  BY <1>1, <1>2, <1>4, <1>6, <1>7
<1>9. \A x \in {s[i] : i \in DOMAIN s \ {1}} : x \in ToSet(Tail(s))
  <2>1. ASSUME NEW i \in 1 .. n, i # 1 PROVE s[i] \in ToSet(Tail(s))
    <3>1. PICK j : j = i - 1 /\ j \in 1 .. n - 1 /\ j + 1 = i
      BY <2>1, <1>5
    <3>2. s[i] = Tail(s)[j]
      BY <3>1, <1>7
    <3>3. QED
      BY <3>1, <3>2, <1>6
  <2>2. QED
    BY <2>1, <1>1, <1>2
<1>10. ToSet(Tail(s)) = {s[i] : i \in DOMAIN s \ {1}}
  BY <1>8, <1>9
<1>11. ToSet(s) = {Head(s)} \cup ToSet(Tail(s))
  <2>1. \A x \in ToSet(s) : x = s[1] \/ x \in ToSet(Tail(s))
    BY <1>1, <1>2, <1>6, <1>10
  <2>2. \A x \in ToSet(Tail(s)) : x \in ToSet(s)
    BY <1>1, <1>2, <1>6, <1>10
  <2>3. s[1] \in ToSet(s)
    BY <1>6
  <2>4. QED
    BY <2>1, <2>2, <2>3, <1>1
<1>12. QED
  BY <1>1, <1>2, <1>3, <1>4, <1>6, <1>7, <1>10, <1>11

\* The types one by one.
LEMMA MarkTypesAre ==
    ASSUME MarkTypes
    PROVE  /\ domains \in Seq([name: Names \cup {DefaultName}, destroyed: BOOLEAN, enabled: BOOLEAN])
           /\ disabled \subseteq Names \cup {DefaultName} /\ held \in [Names -> 0 .. Len(domains)]
           /\ marker \in [MarkThreads -> [pc: {"idle", "name", "report", "record", "context"}, flag: Flags, asked: Asked,
                                   device: BOOLEAN, id: {0} \cup MarkIds, base: Bases, clock: Bases, handle: Nat, taken: BOOLEAN, muted: BOOLEAN]]
           /\ gMarkId \in 0 .. MaxMarks /\ DOMAIN contexts \subseteq MarkIds
           /\ \A i \in DOMAIN contexts : contexts[i] \in [device: BOOLEAN, base: Bases]
           /\ hostBase \in Bases /\ deviceBase \in Bases /\ markerOn \in BOOLEAN
           /\ traces \in Seq([id: MarkIds, flag: Flags])
           /\ DOMAIN deviceContexts \subseteq MarkIds /\ \A i \in DOMAIN deviceContexts : deviceContexts[i] \in 1 .. MaxSyncs
           /\ reader \in [pc: {"idle", "deliver"}, base: Bases, inner: BOOLEAN]
           /\ marks \in Seq(Markers) /\ ranges \subseteq MarkIds /\ failures \in 0 .. MaxFailures
           /\ hcclOn \in BOOLEAN
           /\ hccl \in [HcclThreads -> [pc: {"idle", "insert", "record", "end"}, id: {0} \cup MarkIds, shape: Shapes \cup {"p2p"}, ok: BOOLEAN]]
           /\ innerMarkIds \subseteq MarkIds
           /\ \A i \in DOMAIN markId2HcclOp : markId2HcclOp[i] \in HcclOpDescs
           /\ counts \in [HcclThreads -> {0} \cup MarkIds]
           /\ early \subseteq MarkIds /\ told \subseteq MarkIds
           /\ \A i \in DOMAIN hcclReports : hcclReports[i].op \in HcclOpDescs
  BY DEF MarkTypes, HcclTypeOK, MarkerTypeOK, DomainsTypeOK

\* The steps that change a switch, a domain or a reading of the clock: nothing else of the marks.
MarksRest ==
    /\ IdsGivenOut /\ OneHolder /\ OpenNotEnded /\ TracesOrdered /\ DeviceClocks /\ HostClocks /\ OperationsKept /\ ReaderTells
    /\ RangesPaired /\ OneClock /\ DisabledSilent /\ HcclOwn /\ HcclComplete

RestVars == <<marker, gMarkId, contexts, traces, deviceContexts, reader, marks, ranges, hccl, innerMarkIds, markId2HcclOp,
              counts, hcclReports, early, told>>

LEMMA RestKept ==
    ASSUME MarksRest, UNCHANGED RestVars
    PROVE  MarksRest'
<1>1. IdsGivenOut' /\ OneHolder' /\ HostClocks' /\ TracesOrdered' /\ OperationsKept' /\ ReaderTells'
  BY DEF MarksRest, RestVars, IdsGivenOut, Given, OneHolder, Starting, Ending, Wrapping, ClientOpen, HcclOpen, HostClocks, HostStart,
         Fits, TracesOrdered, OperationsKept, Trace, ReaderTells
<1>2. \A x : Open(x)' <=> Open(x)
  BY DEF RestVars, Open, ClientOpen, HcclOpen, Starting, Wrapping
<1>3. OpenNotEnded' /\ DeviceClocks'
  BY <1>2 DEF MarksRest, RestVars, OpenNotEnded, Given, Trace, Ending, DeviceClocks, Unread, EndComing, DeviceKeeps
<1>4. RangesPaired' /\ OneClock' /\ DisabledSilent' /\ HcclOwn' /\ HcclComplete'
  BY DEF MarksRest, RestVars, RangesPaired, OneClock, DisabledSilent, HcclOwn, HcclComplete, OpKey
<1>5. QED
  BY <1>1, <1>3, <1>4 DEF MarksRest

LEMMA MarkParts == (MarksIInv <=> MarkTypes /\ NamesTell /\ MarksRest) /\ (MarksIInv' <=> MarkTypes' /\ NamesTell' /\ MarksRest')
  BY DEF MarksIInv, MarksRest


\* The device is told of one more mark: the consumer's own stays the first.
LEMMA TracesGrow ==
    ASSUME MarkTypes, TracesOrdered, NEW e \in [id: MarkIds, flag: Flags], traces' = Append(traces, e), UNCHANGED reader
    PROVE  /\ traces' \in Seq([id: MarkIds, flag: Flags]) /\ traces' # <<>>
           /\ ToSet(traces') = ToSet(traces) \cup {e}
           /\ Unread' = Unread \cup {e}
           /\ reader.pc = "deliver" => traces # <<>> /\ Head(traces') = Head(traces)
           /\ \A i, j \in DOMAIN traces' : i < j =>
                /\ i \in DOMAIN traces /\ traces'[i] = traces[i]
                /\ (j \in DOMAIN traces /\ traces'[j] = traces[j]) \/ traces'[j] = e
<1>1. traces \in Seq([id: MarkIds, flag: Flags])
  BY MarkTypesAre
<1>2. PICK n : n = Len(traces) /\ n \in Nat
  BY <1>1, LenProperties
<1>3. /\ traces' \in Seq([id: MarkIds, flag: Flags]) /\ traces' # <<>> /\ ToSet(traces') = ToSet(traces) \cup {e}
      /\ DOMAIN traces = 1 .. n /\ DOMAIN traces' = 1 .. n + 1
      /\ \A i \in 1 .. n : traces'[i] = traces[i]
      /\ traces'[n + 1] = e
      /\ \A i \in 1 .. n + 1 : i \in 1 .. n \/ i = n + 1
      /\ traces # <<>> => Head(traces') = Head(traces) /\ n >= 1
  <2>1. /\ Append(traces, e) \in Seq([id: MarkIds, flag: Flags]) /\ Append(traces, e) # <<>>
        /\ ToSet(Append(traces, e)) = ToSet(traces) \cup {e}
        /\ DOMAIN traces = 1 .. Len(traces) /\ DOMAIN Append(traces, e) = 1 .. Len(traces) + 1
        /\ \A i \in 1 .. Len(traces) : Append(traces, e)[i] = traces[i]
        /\ Append(traces, e)[Len(traces) + 1] = e
        /\ \A i \in 1 .. Len(traces) + 1 : i \in 1 .. Len(traces) \/ i = Len(traces) + 1
        /\ traces # <<>> => Head(Append(traces, e)) = Head(traces) /\ Len(traces) >= 1
    <3>1. PICK S : S = [id: MarkIds, flag: Flags]
      OBVIOUS
    <3>2. traces \in Seq(S) /\ e \in S
      BY <1>1, <3>1
    <3>3. \A q \in Seq(S), x \in S :
            /\ Append(q, x) \in Seq(S) /\ Append(q, x) # <<>>
            /\ ToSet(Append(q, x)) = ToSet(q) \cup {x}
            /\ DOMAIN q = 1 .. Len(q) /\ DOMAIN Append(q, x) = 1 .. Len(q) + 1
            /\ \A i \in 1 .. Len(q) : Append(q, x)[i] = q[i]
            /\ Append(q, x)[Len(q) + 1] = x
            /\ \A i \in 1 .. Len(q) + 1 : i \in 1 .. Len(q) \/ i = Len(q) + 1
            /\ q # <<>> => Head(Append(q, x)) = Head(q) /\ Len(q) >= 1
      BY Added
    <3>4. QED
      BY <3>1, <3>2, <3>3
  <2>2. QED
    BY <2>1, <1>2
<1>4. reader.pc = "deliver" => traces # <<>>
  BY DEF TracesOrdered
<1>5. \A i, j \in 1 .. n + 1 : i < j => i \in 1 .. n
  BY <1>2
<1>6. \A i, j \in DOMAIN traces' : i < j =>
         /\ i \in DOMAIN traces /\ traces'[i] = traces[i]
         /\ (j \in DOMAIN traces /\ traces'[j] = traces[j]) \/ traces'[j] = e
  BY <1>3, <1>5
<1>7. Unread' = Unread \cup {e}
  <2>1. CASE reader.pc = "deliver"
    <3>1. n >= 1
      BY <2>1, <1>3, <1>4
    <3>2. n + 1 # 1 /\ n + 1 \in 1 .. n + 1 /\ \A i \in 1 .. n : i \in 1 .. n + 1
      BY <1>2, <3>1
    <3>3. Unread = {traces[i] : i \in (1 .. n) \ {1}}
      BY <2>1, <1>3 DEF Unread
    <3>4. Unread' = {traces'[i] : i \in (1 .. n + 1) \ {1}}
      BY <2>1, <1>3 DEF Unread
    <3>5. \A x \in Unread : x \in Unread'
      BY <3>2, <3>3, <3>4, <1>3
    <3>6. e \in Unread'
      BY <3>2, <3>4, <1>3
    <3>7. \A x \in Unread' : x \in Unread \cup {e}
      BY <3>3, <3>4, <1>3
    <3>8. QED
      BY <3>5, <3>6, <3>7
  <2>2. CASE reader.pc # "deliver"
    BY <2>2, <1>3 DEF Unread
  <2>3. QED
    BY <2>1, <2>2
<1>8. QED
  BY <1>3, <1>4, <1>6, <1>7

\* The first mark is taken away when the consumer has done with it.
LEMMA TracesShrink ==
    ASSUME MarkTypes, TracesOrdered, reader.pc = "deliver", traces' = Tail(traces), reader' = IdleReader
    PROVE  /\ traces' \in Seq([id: MarkIds, flag: Flags]) /\ Head(traces) \in [id: MarkIds, flag: Flags]
           /\ ToSet(traces) = {Head(traces)} \cup ToSet(traces') /\ Unread = ToSet(traces') /\ Unread' = ToSet(traces')
           /\ \A e \in ToSet(traces') :
                /\ e # Head(traces)
                /\ e.id = Head(traces).id => Head(traces).flag = "start" /\ e.flag = "end"
           /\ \A i, j \in DOMAIN traces' : i < j =>
                /\ traces'[i] # traces'[j]
                /\ traces'[i].id = traces'[j].id => traces'[i].flag = "start" /\ traces'[j].flag = "end"
<1>1. traces \in Seq([id: MarkIds, flag: Flags]) /\ traces # <<>>
  BY MarkTypesAre DEF TracesOrdered
<1>2. PICK n : n = Len(traces) /\ n \in Nat \ {0}
  BY <1>1, FirstTaken
<1>3. /\ traces' \in Seq([id: MarkIds, flag: Flags]) /\ Head(traces) = traces[1] /\ Head(traces) \in [id: MarkIds, flag: Flags]
      /\ DOMAIN traces = 1 .. n /\ DOMAIN traces' = 1 .. n - 1 /\ 1 \in 1 .. n
      /\ \A i \in 1 .. n - 1 : i + 1 \in 1 .. n /\ traces'[i] = traces[i + 1]
      /\ ToSet(traces') = {traces[i] : i \in (1 .. n) \ {1}}
      /\ ToSet(traces) = {Head(traces)} \cup ToSet(traces')
  <2>1. /\ Tail(traces) \in Seq([id: MarkIds, flag: Flags]) /\ Head(traces) = traces[1]
        /\ Head(traces) \in [id: MarkIds, flag: Flags]
        /\ DOMAIN traces = 1 .. Len(traces) /\ DOMAIN Tail(traces) = 1 .. Len(traces) - 1 /\ 1 \in DOMAIN traces
        /\ \A i \in 1 .. Len(traces) - 1 : i + 1 \in DOMAIN traces /\ Tail(traces)[i] = traces[i + 1]
        /\ ToSet(Tail(traces)) = {traces[i] : i \in DOMAIN traces \ {1}}
        /\ ToSet(traces) = {Head(traces)} \cup ToSet(Tail(traces))
    <3>1. PICK S : S = [id: MarkIds, flag: Flags]
      OBVIOUS
    <3>2. traces \in Seq(S) /\ traces # <<>>
      BY <1>1, <3>1
    <3>3. \A q \in Seq(S) : q # <<>> =>
            /\ Tail(q) \in Seq(S) /\ Head(q) = q[1]
            /\ Head(q) \in S
            /\ DOMAIN q = 1 .. Len(q) /\ DOMAIN Tail(q) = 1 .. Len(q) - 1 /\ 1 \in DOMAIN q
            /\ \A i \in 1 .. Len(q) - 1 : i + 1 \in DOMAIN q /\ Tail(q)[i] = q[i + 1]
            /\ ToSet(Tail(q)) = {q[i] : i \in DOMAIN q \ {1}}
            /\ ToSet(q) = {Head(q)} \cup ToSet(Tail(q))
      BY FirstTaken
    <3>4. QED
      BY <3>1, <3>2, <3>3
  <2>2. QED
    BY <2>1, <1>2
<1>4. Unread = ToSet(traces')
  BY <1>3 DEF Unread
<1>5. Unread' = ToSet(traces')
  BY DEF Unread, IdleReader
<1>6. \A i \in (1 .. n) \ {1} : 1 < i
  BY <1>2
<1>7. \A e \in ToSet(traces') : /\ e # Head(traces)
                                /\ e.id = Head(traces).id => Head(traces).flag = "start" /\ e.flag = "end"
  BY <1>3, <1>6 DEF TracesOrdered
<1>8. \A i, j \in 1 .. n - 1 : i < j => i + 1 < j + 1
  BY <1>2
<1>9. \A i, j \in DOMAIN traces' : i < j =>
         /\ traces'[i] # traces'[j]
         /\ traces'[i].id = traces'[j].id => traces'[i].flag = "start" /\ traces'[j].flag = "end"
  <2>1. ASSUME NEW i \in 1 .. n - 1, NEW j \in 1 .. n - 1, i < j
        PROVE  /\ traces[i + 1] # traces[j + 1]
               /\ traces[i + 1].id = traces[j + 1].id => traces[i + 1].flag = "start" /\ traces[j + 1].flag = "end"
    <3>1. i + 1 \in 1 .. n /\ j + 1 \in 1 .. n /\ i + 1 < j + 1
      BY <2>1, <1>3, <1>8
    <3>2. QED
      BY <3>1, <1>3 DEF TracesOrdered
  <2>2. \A i \in DOMAIN traces' : traces'[i] = traces[i + 1] /\ i \in 1 .. n - 1
    BY <1>3
  <2>3. QED
    BY <2>1, <2>2
<1>10. QED
  BY <1>3, <1>4, <1>5, <1>7, <1>9

\* Telling the device of a mark, and of none.
LEMMA DeviceTold ==
    ASSUME MarkTypes, MarksRest, NEW e \in [id: MarkIds, flag: Flags], traces' = Append(traces, e),
           UNCHANGED <<reader, deviceContexts, marks, hcclReports>>,
           \A f \in ToSet(traces) : f.id = e.id => f.flag = "start" /\ e.flag = "end",
           e.flag = "start" => e.id \notin DOMAIN deviceContexts,
           e.flag = "end" => Open(e.id),
           \A m \in ToSet(marks) : m.source = "device" /\ m.id = e.id => e.flag = "end" /\ m.flag = "start",
           \A r \in ToSet(hcclReports) : r.op.id # e.id,
           \A x \in Given : Open(x)' => Open(x)
    PROVE  TracesOrdered' /\ DeviceClocks'
<1>1. TracesOrdered /\ DeviceClocks /\ IdsGivenOut
  BY DEF MarksRest
<1>2. /\ traces' # <<>> /\ ToSet(traces') = ToSet(traces) \cup {e} /\ Unread' = Unread \cup {e}
      /\ reader.pc = "deliver" => traces # <<>> /\ Head(traces') = Head(traces)
      /\ \A i, j \in DOMAIN traces' : i < j =>
           /\ i \in DOMAIN traces /\ traces'[i] = traces[i]
           /\ (j \in DOMAIN traces /\ traces'[j] = traces[j]) \/ traces'[j] = e
  BY <1>1, TracesGrow
<1>3. \A i \in DOMAIN traces : traces[i] \in ToSet(traces)
  BY DEF ToSet
<1>4. TracesOrdered'
  <2>1. ASSUME NEW i \in DOMAIN traces', NEW j \in DOMAIN traces', i < j
        PROVE  /\ traces'[i] # traces'[j]
               /\ traces'[i].id = traces'[j].id => traces'[i].flag = "start" /\ traces'[j].flag = "end"
    <3>1. /\ i \in DOMAIN traces /\ traces'[i] = traces[i]
          /\ (j \in DOMAIN traces /\ traces'[j] = traces[j]) \/ traces'[j] = e
      BY <2>1, <1>2
    <3>2. CASE j \in DOMAIN traces /\ traces'[j] = traces[j]
      BY <3>1, <3>2, <2>1, <1>1 DEF TracesOrdered
    <3>3. CASE traces'[j] = e
      BY <3>1, <3>3, <1>3
    <3>4. QED
      BY <3>1, <3>2, <3>3
  <2>2. \A f \in ToSet(traces') :
          /\ \A m \in ToSet(marks) : m.source = "device" /\ m.id = f.id => f.flag = "end" /\ m.flag = "start"
          /\ \A r \in ToSet(hcclReports) : r.op.id # f.id
    BY <1>1, <1>2 DEF TracesOrdered
  <2>3. QED
    BY <2>1, <2>2, <1>2 DEF TracesOrdered
<1>5. \A x \in Given : EndComing(x)' => EndComing(x)
  BY <1>2 DEF EndComing, Trace
<1>6. \A m \in ToSet(marks) : m.id \in Given
  BY <1>1 DEF IdsGivenOut
<1>7. PICK h : h = Head(traces) /\ (reader.pc = "deliver" => h.id \in Given /\ Head(traces') = h)
  <2>1. reader.pc = "deliver" => Head(traces) \in ToSet(traces)
    BY <1>2, MarkTypesAre, FirstTaken
  <2>2. QED
    BY <2>1, <1>1, <1>2 DEF IdsGivenOut
<1>8. DeviceClocks'
  <2>1. \A x \in DOMAIN deviceContexts : Trace(x, "start") \notin Unread'
    <3>1. \A x \in DOMAIN deviceContexts : Trace(x, "start") \notin Unread
      BY <1>1 DEF DeviceClocks
    <3>2. \A x : Trace(x, "start").flag = "start" /\ Trace(x, "start").id = x
      BY DEF Trace
    <3>3. QED
      BY <3>1, <3>2, <1>2
  <2>2. \A m \in ToSet(marks) : (m.source = "device" /\ m.flag = "start" /\ EndComing(m.id)') => DeviceKeeps(m.id, m.base)
    BY <1>1, <1>5, <1>6 DEF DeviceClocks
  <2>3. reader.pc = "deliver" =>
          /\ (h.flag = "start" /\ EndComing(h.id)') => DeviceKeeps(h.id, reader.base)
          /\ h.flag = "end" => \A m \in ToSet(marks) :
                (m.source = "device" /\ m.flag = "start" /\ m.id = h.id) => m.base \in {0, reader.base}
    BY <1>1, <1>5, <1>7 DEF DeviceClocks
  <2>4. QED
    BY <2>1, <2>2, <2>3, <1>7 DEF DeviceClocks, DeviceKeeps
<1>9. QED
  BY <1>4, <1>8

LEMMA DeviceUntold ==
    ASSUME MarkTypes, MarksRest, UNCHANGED <<reader, deviceContexts, traces, hcclReports>>,
           \A m \in ToSet(marks') : m.source = "device" => m \in ToSet(marks),
           \A x \in Given : Open(x)' => Open(x)
    PROVE  TracesOrdered' /\ DeviceClocks'
<1>1. TracesOrdered /\ DeviceClocks /\ IdsGivenOut
  BY DEF MarksRest
<1>2. TracesOrdered'
  BY <1>1 DEF TracesOrdered
<1>3. Unread' = Unread
  BY DEF Unread
<1>4. \A x \in Given : EndComing(x)' => EndComing(x)
  BY <1>3 DEF EndComing, Trace
<1>5. \A m \in ToSet(marks) : m.id \in Given
  BY <1>1 DEF IdsGivenOut
<1>6. PICK h : h = Head(traces) /\ (reader.pc = "deliver" => h.id \in Given)
  <2>1. reader.pc = "deliver" => Head(traces) \in ToSet(traces)
    BY <1>1, MarkTypesAre, FirstTaken DEF TracesOrdered
  <2>2. QED
    BY <2>1, <1>1 DEF IdsGivenOut
<1>7. DeviceClocks'
  <2>1. \A m \in ToSet(marks') : (m.source = "device" /\ m.flag = "start" /\ EndComing(m.id)') => DeviceKeeps(m.id, m.base)
    BY <1>1, <1>4, <1>5 DEF DeviceClocks
  <2>2. reader.pc = "deliver" =>
          /\ (h.flag = "start" /\ EndComing(h.id)') => DeviceKeeps(h.id, reader.base)
          /\ h.flag = "end" => \A m \in ToSet(marks') :
                (m.source = "device" /\ m.flag = "start" /\ m.id = h.id) => m.base \in {0, reader.base}
    BY <1>1, <1>4, <1>6 DEF DeviceClocks
  <2>3. QED
    BY <1>1, <1>3, <1>6, <2>1, <2>2 DEF DeviceClocks, DeviceKeeps, Trace
<1>8. QED
  BY <1>2, <1>7

\* What waits for the device, and what was recorded, by the element.
LEMMA ElementsAre ==
    ASSUME MarkTypes
    PROVE  /\ \A f \in ToSet(traces) : f \in [id: MarkIds, flag: Flags] /\ f = Trace(f.id, f.flag)
           /\ \A q \in ToSet(marks) : q \in Markers
<1>1. \A S : \A s \in Seq(S) : \A f \in ToSet(s) : f \in S
  BY LenProperties, ElementOfSeq DEF ToSet
<1>2. traces \in Seq([id: MarkIds, flag: Flags]) /\ marks \in Seq(Markers)
  BY MarkTypesAre
<1>3. \A f \in ToSet(traces) : f \in [id: MarkIds, flag: Flags]
  BY <1>1, <1>2
<1>4. QED
  BY <1>1, <1>2, <1>3 DEF Trace

\* The ids that marks, operations and records are made for are given out, below the bound.
LEMMA GivenMarks ==
    ASSUME MarkTypes
    PROVE  /\ Given \subseteq MarkIds /\ gMarkId + 1 \notin Given /\ gMarkId + 1 # 0
           /\ gMarkId < MaxMarks => gMarkId + 1 \in MarkIds /\ gMarkId + 1 \in 0 .. MaxMarks
           /\ 1 .. gMarkId + 1 = Given \cup {gMarkId + 1}
<1>1. gMarkId \in 0 .. MaxMarks /\ MaxMarks \in Nat
  BY MarkTypesAre, MarkerAssumption
<1>2. Given \subseteq MarkIds /\ gMarkId + 1 \notin Given /\ gMarkId + 1 # 0
  BY <1>1 DEF Given, MarkIds
<1>3. gMarkId < MaxMarks => gMarkId + 1 \in MarkIds /\ gMarkId + 1 \in 0 .. MaxMarks
  BY <1>1 DEF MarkIds
<1>4. 1 .. gMarkId + 1 = Given \cup {gMarkId + 1}
  BY <1>1 DEF Given
<1>5. QED
  BY <1>2, <1>3, <1>4

\* An id that has not been given out is nobody's.
LEMMA FreshId ==
    ASSUME MarkTypes, MarksRest, NEW x, x = gMarkId + 1
    PROVE  /\ x \notin Given /\ x \notin DOMAIN contexts /\ x \notin DOMAIN deviceContexts /\ x \notin innerMarkIds
           /\ x \notin DOMAIN markId2HcclOp /\ x \notin told
           /\ \A e \in ToSet(traces) \cup ToSet(marks) : e.id # x
           /\ \A r \in ToSet(hcclReports) : r.op.id # x
           /\ \A t \in MarkThreads : marker[t].pc \in {"record", "context"} => marker[t].id # x
           /\ \A t \in HcclThreads : Wrapping(t) => hccl[t].id # x
<1>1. x \notin Given
  BY GivenMarks
<1>2. IdsGivenOut /\ told \subseteq innerMarkIds
  BY DEF MarksRest, OperationsKept
<1>3. QED
  BY <1>1, <1>2 DEF IdsGivenOut

\* A step of a thread that is at no mark's id before and after it.
LEMMA BetweenMarks ==
    ASSUME MarkTypes, MarksRest, NEW t \in MarkThreads, ~Starting(t), ~Ending(t), ~Starting(t)', ~Ending(t)',
           \A u \in MarkThreads \ {t} : marker'[u] = marker[u],
           marker'[t].pc # "idle" /\ marker'[t].flag = "end" => marker'[t].id \in ranges,
           marker'[t].pc \in {"idle", "name", "report"},
           gMarkId' \in {gMarkId, gMarkId + 1},
           UNCHANGED <<contexts, traces, deviceContexts, reader, marks, ranges, hccl, innerMarkIds, markId2HcclOp,
                       counts, hcclReports, early, told>>
    PROVE  MarksRest'
<1>1. \A u \in MarkThreads : /\ Starting(u)' <=> Starting(u)
                             /\ Ending(u)' <=> Ending(u)
                             /\ Starting(u) \/ Ending(u) => u # t /\ marker'[u] = marker[u]
  BY DEF Starting, Ending
<1>2. \A u \in HcclThreads : Wrapping(u)' <=> Wrapping(u)
  BY DEF Wrapping
<1>3. \A x : /\ ClientOpen(x)' <=> ClientOpen(x)
             /\ HcclOpen(x)' <=> HcclOpen(x)
             /\ Open(x)' <=> Open(x)
  BY <1>1, <1>2 DEF Open, ClientOpen, HcclOpen
<1>4. Given \subseteq Given' /\ \A y \in Given' : Open(y) => y \in Given
  <2>1. PICK x : x = gMarkId + 1
    OBVIOUS
  <2>2. ~Open(x)
    BY <2>1, FreshId DEF Open, ClientOpen, HcclOpen, Starting
  <2>3. Given' \in {Given, 1 .. gMarkId + 1}
    BY DEF Given
  <2>4. 1 .. gMarkId + 1 = Given \cup {x}
    BY <2>1, GivenMarks
  <2>5. QED
    BY <2>2, <2>3, <2>4
<1>5. IdsGivenOut' /\ OneHolder'
  <2>1. \A u \in MarkThreads : marker'[u].pc \in {"record", "context"} => marker'[u].id \in Given'
    BY <1>4 DEF MarksRest, IdsGivenOut
  <2>2. \A u \in HcclThreads : counts[u] <= gMarkId' /\ (Wrapping(u) => hccl[u].id \in Given')
    <3>1. gMarkId \in Int /\ \A u \in HcclThreads : counts[u] \in Int /\ counts[u] <= gMarkId
      BY MarkTypesAre DEF MarksRest, IdsGivenOut, MarkIds
    <3>2. \A u \in HcclThreads : counts[u] <= gMarkId'
      BY <3>1
    <3>3. QED
      BY <3>2, <1>4 DEF MarksRest, IdsGivenOut
  <2>3. IdsGivenOut'
    BY <1>2, <1>4, <2>1, <2>2 DEF MarksRest, IdsGivenOut
  <2>4. \A y \in Given' : ClientOpen(y)' => ~HcclOpen(y)' /\ y \notin innerMarkIds
    BY <1>3, <1>4 DEF MarksRest, OneHolder, Open
  <2>5. OneHolder'
    BY <1>1, <1>2, <2>4 DEF MarksRest, OneHolder
  <2>6. QED
    BY <2>3, <2>5
<1>6. HostClocks'
  <2>1. ASSUME NEW u \in MarkThreads
        PROVE  /\ Starting(u)' => marker'[u].clock \in {0, marker'[u].base} /\ Fits(marker'[u].clock, marker'[u].id)
               /\ Starting(u)' /\ marker'[u].pc = "record" => \A m \in ToSet(marks) : ~HostStart(m, marker'[u].id)
               /\ Starting(u)' /\ marker'[u].pc = "context" /\ marker'[u].taken => \E m \in ToSet(marks) : HostStart(m, marker'[u].id)
               /\ marker'[u].pc # "idle" /\ marker'[u].flag = "end" => marker'[u].id \in ranges
               /\ Ending(u)' => /\ Fits(marker'[u].base, marker'[u].id)
                                /\ \A m \in ToSet(marks) : ~(m.source = "host" /\ m.flag = "end" /\ m.id = marker'[u].id)
               /\ marker'[u].pc \in {"idle", "name", "report", "record", "context"}
               /\ marker'[u].pc = "context" => marker'[u].flag = "start"
    BY <1>1 DEF MarksRest, HostClocks
  <2>2. QED
    BY <2>1 DEF MarksRest, HostClocks, Fits, HostStart
<1>7. OpenNotEnded' /\ DeviceClocks'
  <2>1. OpenNotEnded'
    BY <1>1, <1>3, <1>4 DEF MarksRest, OpenNotEnded, Trace
  <2>2. DeviceClocks'
    BY <1>3 DEF MarksRest, DeviceClocks, Unread, EndComing, DeviceKeeps, Trace
  <2>3. QED
    BY <2>1, <2>2
<1>8. TracesOrdered' /\ OperationsKept' /\ ReaderTells'
  BY <1>2 DEF MarksRest, TracesOrdered, OperationsKept, Trace, ReaderTells
<1>9. RangesPaired' /\ OneClock' /\ DisabledSilent' /\ HcclOwn' /\ HcclComplete'
  BY DEF MarksRest, RangesPaired, OneClock, DisabledSilent, HcclOwn, HcclComplete, OpKey
<1>10. QED
  BY <1>5, <1>6, <1>7, <1>8, <1>9 DEF MarksRest

\* The domains: a name stays with its handle, and what is disabled is told apart by name.
LEMMA ManagerKeepsNames ==
    ASSUME DomainsTypeOK, \A h \in DOMAIN domains : domains[h].enabled = (domains[h].name \notin disabled), ChangesDomains
    PROVE  /\ DomainsTypeOK' /\ Len(domains) <= Len(domains')
           /\ \A h \in DOMAIN domains : domains'[h].name = domains[h].name
           /\ \A h \in DOMAIN domains' : domains'[h].enabled = (domains'[h].name \notin disabled')
<1> DEFINE Domain == [name: Names \cup {DefaultName}, destroyed: BOOLEAN, enabled: BOOLEAN]
<1>1. domains \in Seq(Domain) /\ disabled \subseteq Names \cup {DefaultName} /\ held \in [Names -> 0 .. Len(domains)]
  BY DEF DomainsTypeOK
<1>2. PICK n : n = Len(domains) /\ n \in Nat
  BY <1>1, LenProperties
<1>3. DOMAIN domains = 1 .. n /\ \A h \in 1 .. n : domains[h] \in Domain
  BY <1>1, <1>2, LenProperties, ElementOfSeq
<1>4. \A s : s \in [1 .. n -> Domain] => s \in Seq(Domain) /\ Len(s) = n /\ DOMAIN s = 1 .. n
  <2>1. ASSUME NEW s \in [1 .. n -> Domain] PROVE s \in Seq(Domain) /\ Len(s) = n /\ DOMAIN s = 1 .. n
    <3>1. s \in Seq(Domain)
      <4>1. s = [i \in 1 .. n |-> s[i]] /\ \A i \in 1 .. n : s[i] \in Domain
        OBVIOUS
      <4>2. [i \in 1 .. n |-> s[i]] \in Seq(Domain)
        BY <4>1, <1>2
      <4>3. QED
        BY <4>1, <4>2
    <3>2. Len(s) \in Nat /\ 1 .. Len(s) = 1 .. n
      BY <3>1, LenProperties
    <3>3. Len(s) = n
      BY <3>2, <1>2
    <3>4. QED
      BY <3>1, <3>2, <3>3
  <2>2. QED
    BY <2>1
<1>5. domains \in [1 .. n -> Domain]
  BY <1>1, <1>2, <1>3, LenProperties
<1>6. CASE \E name \in Names : CreateDomainHandle(name)
  <2>1. PICK name \in Names : CreateDomainHandle(name)
    BY <1>6
  <2>2. CASE \E h \in Matching(name) : domains' = [domains EXCEPT ![h].destroyed = FALSE] /\ held' = [held EXCEPT ![name] = h]
    <3>1. PICK h \in 1 .. n : domains' = [domains EXCEPT ![h].destroyed = FALSE] /\ held' = [held EXCEPT ![name] = h]
      BY <2>2, <1>3 DEF Matching, Handles
    <3>2. domains' \in [1 .. n -> Domain]
      BY <3>1, <1>3, <1>5
    <3>3. domains' \in Seq(Domain) /\ Len(domains') = n /\ DOMAIN domains' = 1 .. n
      BY <3>2, <1>4
    <3>4. held' \in [Names -> 0 .. n]
      BY <3>1, <1>1, <1>2
    <3>5. \A i \in 1 .. n : domains'[i].name = domains[i].name /\ domains'[i].enabled = domains[i].enabled
      BY <3>1, <1>3
    <3>6. UNCHANGED disabled
      BY <2>1 DEF CreateDomainHandle
    <3>7. DomainsTypeOK' /\ Len(domains) <= Len(domains')
      BY <3>3, <3>4, <3>6, <1>1, <1>2 DEF DomainsTypeOK
    <3>8. QED
      BY <3>3, <3>5, <3>6, <3>7, <1>3
  <2>3. CASE domains' = Append(domains, Attr(name, StartsEnabled(name))) /\ held' = [held EXCEPT ![name] = Len(domains) + 1]
    <3>1. PICK d : d = Attr(name, StartsEnabled(name)) /\ d \in Domain /\ d.name = name /\ d.enabled = (name \notin disabled)
      <4>1. PICK on \in BOOLEAN : on = (name \notin disabled)
        OBVIOUS
      <4>2. StartsEnabled(name) = on
        BY <4>1 DEF StartsEnabled
      <4>3. Attr(name, StartsEnabled(name)) = [name |-> name, destroyed |-> FALSE, enabled |-> on]
        BY <4>2 DEF Attr
      <4>4. [name |-> name, destroyed |-> FALSE, enabled |-> on] \in Domain
        BY <4>1
      <4>5. PICK d : d = [name |-> name, destroyed |-> FALSE, enabled |-> on]
        OBVIOUS
      <4>6. d.name = name /\ d.enabled = on
        BY <4>5
      <4>7. QED
        BY <4>1, <4>3, <4>4, <4>5, <4>6
    <3>2. /\ domains' \in Seq(Domain) /\ Len(domains') = n + 1 /\ DOMAIN domains' = 1 .. n + 1
          /\ \A i \in 1 .. n : domains'[i] = domains[i]
          /\ domains'[n + 1] = d
          /\ \A i \in 1 .. n + 1 : i \in 1 .. n \/ i = n + 1
      BY <2>3, <3>1, <1>1, <1>2, Added
    <3>3. held' \in [Names -> 0 .. n + 1]
      BY <2>3, <1>1, <1>2
    <3>4. UNCHANGED disabled
      BY <2>1 DEF CreateDomainHandle
    <3>5. DomainsTypeOK' /\ Len(domains) <= Len(domains')
      BY <3>2, <3>3, <3>4, <1>1, <1>2 DEF DomainsTypeOK
    <3>6. QED
      BY <3>1, <3>2, <3>4, <3>5, <1>3
  <2>4. QED
    BY <2>1, <2>2, <2>3 DEF CreateDomainHandle
<1>7. CASE \E name \in Names : DestroyDomainHandle(name)
  <2>1. PICK name \in Names : DestroyDomainHandle(name)
    BY <1>7
  <2>2. PICK h \in 1 .. n : domains' = [domains EXCEPT ![h].destroyed = TRUE]
    <3>1. held[name] \in 1 .. n
      BY <2>1, <1>1, <1>2 DEF DestroyDomainHandle
    <3>2. QED
      BY <3>1, <2>1 DEF DestroyDomainHandle
  <2>3. domains' \in [1 .. n -> Domain]
    BY <2>2, <1>3, <1>5
  <2>4. domains' \in Seq(Domain) /\ Len(domains') = n /\ DOMAIN domains' = 1 .. n
    BY <2>3, <1>4
  <2>5. \A i \in 1 .. n : domains'[i].name = domains[i].name /\ domains'[i].enabled = domains[i].enabled
    BY <2>2, <1>3
  <2>6. UNCHANGED <<disabled, held>>
    BY <2>1 DEF DestroyDomainHandle
  <2>7. DomainsTypeOK' /\ Len(domains) <= Len(domains')
    BY <2>4, <2>6, <1>1, <1>2 DEF DomainsTypeOK
  <2>8. QED
    BY <2>4, <2>5, <2>6, <2>7, <1>3
<1>8. CASE \E name \in Asked, flag \in BOOLEAN : SetMstxDomainEnableStatus(name, flag)
  <2>1. PICK name \in Asked, flag \in BOOLEAN : SetMstxDomainEnableStatus(name, flag)
    BY <1>8
  <2>2. /\ domains' = [h \in 1 .. n |-> IF domains[h].name = name THEN [domains[h] EXCEPT !.enabled = flag] ELSE domains[h]]
        /\ disabled' = IF flag THEN disabled \ {name} ELSE disabled \cup {name}
        /\ UNCHANGED held
    BY <2>1, <1>3 DEF SetMstxDomainEnableStatus, Handles
  <2>3. domains' \in [1 .. n -> Domain]
    BY <2>2, <1>3
  <2>4. domains' \in Seq(Domain) /\ Len(domains') = n /\ DOMAIN domains' = 1 .. n
    BY <2>3, <1>4
  <2>5. \A i \in 1 .. n : /\ domains'[i].name = domains[i].name
                          /\ domains'[i].enabled = IF domains[i].name = name THEN flag ELSE domains[i].enabled
    BY <2>2, <1>3
  <2>6. \A i \in 1 .. n : domains'[i].enabled = (domains'[i].name \notin disabled')
    BY <2>2, <2>5, <1>3
  <2>7. DomainsTypeOK' /\ Len(domains) <= Len(domains')
    BY <2>2, <2>4, <1>1, <1>2 DEF DomainsTypeOK, Asked
  <2>8. QED
    BY <2>4, <2>5, <2>6, <2>7, <1>3
<1>9. QED
  BY <1>6, <1>7, <1>8 DEF ChangesDomains

\* The types in each step.
LEMMA MarkerTypes ==
    ASSUME MarkTypes, IdsGivenOut, NEW t \in MarkThreads,
           NEW r \in [pc: {"idle", "name", "report", "record", "context"}, flag: Flags, asked: Asked, device: BOOLEAN,
                      id: {0} \cup MarkIds, base: Bases, clock: Bases, handle: Nat, taken: BOOLEAN, muted: BOOLEAN],
           r.handle <= Len(domains), marker' = [marker EXCEPT ![t] = r],
           UNCHANGED <<domainVars, hcclVars, markerOn, deviceBase, deviceContexts, reader>>,
           gMarkId' \in 0 .. MaxMarks, hostBase' \in Bases, failures' \in 0 .. MaxFailures, ranges' \subseteq MarkIds,
           DOMAIN contexts' \subseteq MarkIds, \A i \in DOMAIN contexts' : contexts'[i] \in [device: BOOLEAN, base: Bases],
           contexts' = [x \in DOMAIN contexts' |-> contexts'[x]],
           traces' \in Seq([id: MarkIds, flag: Flags]), marks' \in Seq(Markers)
    PROVE  MarkTypes'
<1>1. DomainsTypeOK'
  BY DEF domainVars, MarkTypes, HcclTypeOK, MarkerTypeOK, DomainsTypeOK
<1>2. marker' \in [MarkThreads -> [pc: {"idle", "name", "report", "record", "context"}, flag: Flags, asked: Asked, device: BOOLEAN,
                      id: {0} \cup MarkIds, base: Bases, clock: Bases, handle: Nat, taken: BOOLEAN, muted: BOOLEAN]]
  <2>1. marker \in [MarkThreads -> [pc: {"idle", "name", "report", "record", "context"}, flag: Flags, asked: Asked, device: BOOLEAN,
                      id: {0} \cup MarkIds, base: Bases, clock: Bases, handle: Nat, taken: BOOLEAN, muted: BOOLEAN]]
    BY MarkTypesAre
  <2>2. QED
    BY <2>1
<1>3. MarkerTypeOK'
  BY <1>1, <1>2 DEF MarkTypes, HcclTypeOK, MarkerTypeOK
<1>4. HcclTypeOK'
  BY <1>3 DEF hcclVars, MarkTypes, HcclTypeOK
<1>5. \A u \in MarkThreads : marker'[u].handle <= Len(domains)
  <2>1. \A u \in MarkThreads : marker'[u] = IF u = t THEN r ELSE marker[u]
    BY MarkTypesAre
  <2>2. QED
    BY <2>1 DEF MarkTypes
<1>6. QED
  BY <1>4, <1>5 DEF MarkTypes, domainVars, hcclVars

LEMMA MarkerNames ==
    ASSUME MarkTypes, NamesTell, NEW t \in MarkThreads, NEW r, r.muted => r.handle # 0 /\ domains[r.handle].name # r.asked,
           marker' = [marker EXCEPT ![t] = r], UNCHANGED domainVars
    PROVE  NamesTell'
<1>1. \A u \in MarkThreads : marker'[u] = IF u = t THEN r ELSE marker[u]
  BY MarkTypesAre
<1>2. \A u \in MarkThreads : marker'[u].muted => marker'[u].handle # 0 /\ domains[marker'[u].handle].name # marker'[u].asked
  BY <1>1 DEF NamesTell
<1>3. QED
  BY <1>2 DEF NamesTell, domainVars

LEMMA HcclTypes ==
    ASSUME MarkTypes, UNCHANGED <<domainVars, markerOn, marker, contexts, hostBase, deviceBase, deviceContexts, ranges>>,
           gMarkId' \in 0 .. MaxMarks, failures' \in 0 .. MaxFailures,
           traces' \in Seq([id: MarkIds, flag: Flags]), reader' \in [pc: {"idle", "deliver"}, base: Bases, inner: BOOLEAN],
           marks' \in Seq(Markers), hcclOn' \in BOOLEAN,
           hccl' \in [HcclThreads -> [pc: {"idle", "insert", "record", "end"}, id: {0} \cup MarkIds, shape: Shapes \cup {"p2p"}, ok: BOOLEAN]],
           \A t \in HcclThreads : hccl'[t].pc # "idle" => hccl'[t].shape \in Shapes,
           innerMarkIds' \subseteq MarkIds, \A i \in DOMAIN markId2HcclOp' : markId2HcclOp'[i] \in HcclOpDescs,
           markId2HcclOp' = [x \in DOMAIN markId2HcclOp' |-> markId2HcclOp'[x]],
           counts' \in [HcclThreads -> {0} \cup MarkIds], early' \subseteq MarkIds, told' \subseteq MarkIds,
           \A i \in DOMAIN hcclReports' : hcclReports'[i].op \in HcclOpDescs, hcclReports' \in Seq(HcclRecords)
    PROVE  MarkTypes'
<1>1. DomainsTypeOK'
  BY DEF domainVars, MarkTypes, HcclTypeOK, MarkerTypeOK, DomainsTypeOK
<1>2. MarkerTypeOK'
  BY <1>1 DEF MarkTypes, HcclTypeOK, MarkerTypeOK
<1>3. HcclTypeOK'
  BY <1>2 DEF HcclTypeOK
<1>4. QED
  BY <1>3 DEF MarkTypes, domainVars

\* A call begins, and finds its domain's name.
LEMMA CallBeginsKeeps ==
    ASSUME MarksIInv, NEW t \in MarkThreads, NEW flag \in Flags, NEW asked \in Asked, NEW device \in BOOLEAN, NEW id \in {0} \cup MarkIds,
           CallBegins(t, flag, asked, device, id), flag = "end" => id \in ranges, UNCHANGED hcclVars
    PROVE  MarksIInv'
<1>1. MarkTypes /\ NamesTell /\ MarksRest /\ IdsGivenOut
  BY MarkParts DEF MarksRest
<1>2. PICK r : r = [pc |-> "name", flag |-> flag, asked |-> asked, device |-> device, id |-> id, base |-> 0, clock |-> 0,
                    handle |-> HandleOf(asked), taken |-> FALSE, muted |-> asked \in disabled]
  OBVIOUS
<1>3. HandleOf(asked) \in Nat /\ HandleOf(asked) <= Len(domains) /\ Len(domains) \in Nat
  BY <1>1, MarkTypesAre, LenProperties DEF HandleOf, Asked
<1>4. r \in [pc: {"idle", "name", "report", "record", "context"}, flag: Flags, asked: Asked, device: BOOLEAN,
             id: {0} \cup MarkIds, base: Bases, clock: Bases, handle: Nat, taken: BOOLEAN, muted: BOOLEAN]
  BY <1>2, <1>3 DEF Bases
<1>5. marker' = [marker EXCEPT ![t] = r]
  BY <1>2 DEF CallBegins
<1>6. UNCHANGED <<domainVars, markerOn, gMarkId, contexts, hostBase, deviceBase, traces, deviceContexts, reader, marks, ranges, failures>>
  BY DEF CallBegins
<1>7. MarkTypes'
  <2>1. gMarkId' \in 0 .. MaxMarks /\ hostBase' \in Bases /\ failures' \in 0 .. MaxFailures /\ ranges' \subseteq MarkIds
    BY <1>1, <1>6, MarkTypesAre
  <2>2. /\ DOMAIN contexts' \subseteq MarkIds /\ \A i \in DOMAIN contexts' : contexts'[i] \in [device: BOOLEAN, base: Bases]
        /\ contexts' = [x \in DOMAIN contexts' |-> contexts'[x]]
    BY <1>1, <1>6, MarkTypesAre DEF MarkTypes
  <2>3. traces' \in Seq([id: MarkIds, flag: Flags]) /\ marks' \in Seq(Markers)
    BY <1>1, <1>6, MarkTypesAre
  <2>4. r.handle <= Len(domains)
    BY <1>2, <1>3
  <2>5. QED
    BY <1>1, <1>4, <1>5, <1>6, <2>1, <2>2, <2>3, <2>4, MarkerTypes
<1>8. NamesTell'
  <2>1. asked \in disabled => HandleOf(asked) # 0 /\ domains[HandleOf(asked)].name # asked
    <3>1. SUFFICES ASSUME asked \in disabled PROVE HandleOf(asked) # 0 /\ domains[HandleOf(asked)].name # asked
      OBVIOUS
    <3>2. asked # DefaultName /\ HandleOf(asked) # 0 /\ domains[HandleOf(asked)].enabled
      BY <3>1 DEF CallBegins, IsEnabled, IsNameEnabled, IsHandleEnabled
    <3>3. HandleOf(asked) \in DOMAIN domains
      <4>1. HandleOf(asked) \in 1 .. Len(domains)
        BY <1>3, <3>2
      <4>2. QED
        BY <4>1, <1>1, MarkTypesAre, LenProperties
    <3>4. QED
      BY <3>1, <3>2, <3>3, <1>1 DEF NamesTell
  <2>2. r.muted => r.handle # 0 /\ domains[r.handle].name # r.asked
    BY <2>1, <1>2
  <2>3. QED
    BY <2>2, <1>1, <1>5, <1>6, MarkerNames
<1>9. MarksRest'
  <2>1. \A u \in MarkThreads : marker'[u] = IF u = t THEN r ELSE marker[u]
    BY <1>1, <1>5, MarkTypesAre
  <2>2. marker[t].pc = "idle"
    BY DEF CallBegins
  <2>3. ~Starting(t) /\ ~Ending(t)
    BY <2>2 DEF Starting, Ending
  <2>4. marker'[t].pc = "name" /\ marker'[t].flag = flag /\ marker'[t].id = id
    BY <2>1, <1>2
  <2>5. ~Starting(t)' /\ ~Ending(t)'
    BY <2>4 DEF Starting, Ending
  <2>6. QED
    BY <1>1, <1>6, <2>1, <2>3, <2>4, <2>5, BetweenMarks DEF hcclVars
<1>10. QED
  BY <1>7, <1>8, <1>9, MarkParts

LEMMA FindsNameKeeps ==
    ASSUME MarksIInv, NEW t \in MarkThreads, FindsName(t), UNCHANGED hcclVars
    PROVE  MarksIInv'
<1>1. MarkTypes /\ NamesTell /\ MarksRest /\ IdsGivenOut
  BY MarkParts DEF MarksRest
<1>2. marker[t] \in [pc: {"idle", "name", "report", "record", "context"}, flag: Flags, asked: Asked, device: BOOLEAN,
             id: {0} \cup MarkIds, base: Bases, clock: Bases, handle: Nat, taken: BOOLEAN, muted: BOOLEAN]
  BY <1>1, MarkTypesAre
<1>3. PICK r : r = IF marker[t].handle = 0 \/ HasName(marker[t].handle) THEN [marker[t] EXCEPT !.pc = "report"] ELSE IdleMarker
  OBVIOUS
<1>4. r \in [pc: {"idle", "name", "report", "record", "context"}, flag: Flags, asked: Asked, device: BOOLEAN,
             id: {0} \cup MarkIds, base: Bases, clock: Bases, handle: Nat, taken: BOOLEAN, muted: BOOLEAN]
  BY <1>2, <1>3 DEF IdleMarker, Flags, Asked, Bases
<1>5. marker' = [marker EXCEPT ![t] = r]
  BY <1>3 DEF FindsName
<1>6. UNCHANGED <<domainVars, markerOn, gMarkId, contexts, hostBase, deviceBase, traces, deviceContexts, reader, marks, ranges, failures>>
  BY DEF FindsName
<1>7. \/ /\ r.pc = "report" /\ r.flag = marker[t].flag /\ r.id = marker[t].id
         /\ r.handle = marker[t].handle /\ r.muted = marker[t].muted /\ r.asked = marker[t].asked
      \/ r = IdleMarker /\ r.pc = "idle" /\ ~r.muted /\ r.handle = 0
  BY <1>2, <1>3 DEF IdleMarker
<1>8. Len(domains) \in Nat /\ r.handle <= Len(domains)
  <2>1. Len(domains) \in Nat
    BY <1>1, MarkTypesAre, LenProperties
  <2>2. marker[t].handle <= Len(domains)
    BY <1>1 DEF MarkTypes
  <2>3. QED
    BY <2>1, <2>2, <1>7
<1>9. MarkTypes'
  <2>1. gMarkId' \in 0 .. MaxMarks /\ hostBase' \in Bases /\ failures' \in 0 .. MaxFailures /\ ranges' \subseteq MarkIds
    BY <1>1, <1>6, MarkTypesAre
  <2>2. /\ DOMAIN contexts' \subseteq MarkIds /\ \A i \in DOMAIN contexts' : contexts'[i] \in [device: BOOLEAN, base: Bases]
        /\ contexts' = [x \in DOMAIN contexts' |-> contexts'[x]]
    BY <1>1, <1>6, MarkTypesAre DEF MarkTypes
  <2>3. traces' \in Seq([id: MarkIds, flag: Flags]) /\ marks' \in Seq(Markers)
    BY <1>1, <1>6, MarkTypesAre
  <2>4. QED
    BY <1>1, <1>4, <1>5, <1>6, <1>8, <2>1, <2>2, <2>3, MarkerTypes
<1>10. NamesTell'
  <2>1. r.muted => r.handle # 0 /\ domains[r.handle].name # r.asked
    BY <1>1, <1>7 DEF NamesTell
  <2>2. QED
    BY <2>1, <1>1, <1>5, <1>6, MarkerNames
<1>11. MarksRest'
  <2>1. \A u \in MarkThreads : marker'[u] = IF u = t THEN r ELSE marker[u]
    BY <1>1, <1>5, MarkTypesAre
  <2>2. marker[t].pc = "name"
    BY DEF FindsName
  <2>3. ~Starting(t) /\ ~Ending(t)
    BY <2>2 DEF Starting, Ending
  <2>4. marker'[t] = r
    BY <2>1
  <2>5. ~Starting(t)' /\ ~Ending(t)' /\ marker'[t].pc \in {"idle", "name", "report"}
    BY <2>4, <1>7 DEF Starting, Ending
  <2>6. marker'[t].pc # "idle" /\ marker'[t].flag = "end" => marker'[t].id \in ranges
    BY <2>2, <2>4, <1>1, <1>7 DEF MarksRest, HostClocks
  <2>7. QED
    BY <1>1, <1>6, <2>1, <2>3, <2>5, <2>6, BetweenMarks DEF hcclVars
<1>12. QED
  BY <1>9, <1>10, <1>11, MarkParts

\* Telling the device of a mark or of none leaves what waits for it in order.
LEMMA DeviceMayBeTold ==
    ASSUME MarkTypes, MarksRest, NEW e \in [id: MarkIds, flag: Flags], traces' \in {traces, Append(traces, e)},
           UNCHANGED <<reader, deviceContexts, marks, hcclReports>>,
           \A f \in ToSet(traces) : f.id = e.id => f.flag = "start" /\ e.flag = "end",
           e.flag = "start" => e.id \notin DOMAIN deviceContexts,
           e.flag = "end" => Open(e.id),
           \A m \in ToSet(marks) : m.source = "device" /\ m.id = e.id => e.flag = "end" /\ m.flag = "start",
           \A r \in ToSet(hcclReports) : r.op.id # e.id,
           \A x \in Given : Open(x)' => Open(x)
    PROVE  /\ TracesOrdered' /\ DeviceClocks'
           /\ traces' \in Seq([id: MarkIds, flag: Flags]) /\ (traces' = <<>> => traces = <<>>)
           /\ ToSet(traces) \subseteq ToSet(traces') /\ ToSet(traces') \subseteq ToSet(traces) \cup {e}
           /\ reader.pc = "deliver" => Head(traces') = Head(traces) /\ Head(traces) \in ToSet(traces)
<1>1. TracesOrdered /\ traces \in Seq([id: MarkIds, flag: Flags])
  BY MarkTypesAre DEF MarksRest
<1>2. reader.pc = "deliver" => Head(traces) \in ToSet(traces)
  BY <1>1, FirstTaken DEF TracesOrdered
<1>3. CASE traces' = traces
  <2>1. TracesOrdered' /\ DeviceClocks'
    BY <1>3, DeviceUntold
  <2>2. QED
    BY <2>1, <1>1, <1>2, <1>3
<1>4. CASE traces' = Append(traces, e)
  <2>1. TracesOrdered' /\ DeviceClocks'
    BY <1>4, DeviceTold
  <2>2. /\ traces' \in Seq([id: MarkIds, flag: Flags]) /\ traces' # <<>> /\ ToSet(traces') = ToSet(traces) \cup {e}
        /\ reader.pc = "deliver" => Head(traces') = Head(traces)
    BY <1>1, <1>4, TracesGrow
  <2>3. QED
    BY <2>1, <2>2, <1>2
<1>5. QED
  BY <1>3, <1>4

\* What the reader takes a mark for when the traces grow, and the operations kept.
LEMMA TracesMayGrow ==
    ASSUME MarksRest, NEW e, ToSet(traces) \subseteq ToSet(traces'), ToSet(traces') \subseteq ToSet(traces) \cup {e},
           reader.pc = "deliver" => Head(traces') = Head(traces) /\ Head(traces) \in ToSet(traces),
           UNCHANGED <<reader, innerMarkIds, early, told, marks>>,
           e.flag = "instantaneous" => e.id \notin innerMarkIds
    PROVE  ReaderTells'
<1>1. \A f \in ToSet(traces') : f.flag = "instantaneous" => f.id \notin innerMarkIds
  BY DEF MarksRest, ReaderTells
<1>2. QED
  BY <1>1 DEF MarksRest, ReaderTells

\* Below 2^32 marks an operation is kept under its own id.
LEMMA OpKeyIs ==
    ASSUME MaxMarks < OpKeys, NEW x \in MarkIds
    PROVE  OpKey(x) = x
<1>1. x \in Nat /\ x < OpKeys /\ OpKeys \in Nat \ {0} /\ MaxMarks \in Nat
  BY MarkerAssumption, HcclAssumption DEF MarkIds
<1>2. x % OpKeys = x
  BY <1>1
<1>3. QED
  BY <1>2 DEF OpKey

\* When nothing waits, an operation whose end was told is no longer kept.
LEMMA NoneLeft ==
    ASSUME MaxMarks < OpKeys, told' \subseteq MarkIds, OperationsKept',
           \A i, j \in DOMAIN hcclReports' : hcclReports'[i].op.id = hcclReports'[j].op.id => i = j
    PROVE  HcclComplete'
<1>1. ASSUME traces' = <<>>, NEW x \in told' PROVE OpKey(x) \notin DOMAIN markId2HcclOp'
  <2>1. OpKey(x) = x
    BY OpKeyIs
  <2>2. Trace(x, "end") \in ToSet(traces') \/ x \notin DOMAIN markId2HcclOp'
    BY DEF OperationsKept, Trace
  <2>3. ToSet(traces') = {}
    BY <1>1, EmptySeq DEF ToSet
  <2>4. QED
    BY <2>1, <2>2, <2>3
<1>2. QED
  BY <1>1 DEF HcclComplete, OpKey


\* A mark or a range's start is given an id, and the device may be told of it.
LEMMA ReportsMarkKeeps ==
    ASSUME MarksIInv, NEW t \in MarkThreads, ReportsMark(t, TRUE), UNCHANGED hcclVars
    PROVE  MarksIInv'
<1>1. MarkTypes /\ NamesTell /\ MarksRest /\ IdsGivenOut
  BY MarkParts DEF MarksRest
<1>2. PICK x : x = gMarkId + 1
  OBVIOUS
<1>3. PICK m : m = marker[t]
  OBVIOUS
<1>4. /\ m \in [pc: {"idle", "name", "report", "record", "context"}, flag: Flags, asked: Asked, device: BOOLEAN,
             id: {0} \cup MarkIds, base: Bases, clock: Bases, handle: Nat, taken: BOOLEAN, muted: BOOLEAN]
      /\ m.pc = "report" /\ m.flag # "end" /\ gMarkId < MaxMarks
  BY <1>1, <1>3, MarkTypesAre DEF ReportsMark
<1>5. PICK b : b = FirstReading /\ b \in Bases /\ hostBase \in {0, b}
  BY <1>1, MarkTypesAre DEF FirstReading, Bases
<1>6. hostBase \in Bases
  BY <1>1, MarkTypesAre
<1>7. PICK r : r = [m EXCEPT !.pc = "record", !.id = x, !.base = b, !.clock = hostBase]
  OBVIOUS
<1>8. x \in MarkIds /\ x \in 0 .. MaxMarks /\ 1 .. x = Given \cup {x} /\ x # 0
  BY <1>1, <1>2, <1>4, GivenMarks
<1>9. /\ r \in [pc: {"idle", "name", "report", "record", "context"}, flag: Flags, asked: Asked, device: BOOLEAN,
             id: {0} \cup MarkIds, base: Bases, clock: Bases, handle: Nat, taken: BOOLEAN, muted: BOOLEAN]
      /\ r.pc = "record" /\ r.id = x /\ r.base = b /\ r.clock = hostBase /\ r.flag = m.flag
      /\ r.handle = m.handle /\ r.muted = m.muted /\ r.asked = m.asked
  BY <1>4, <1>5, <1>6, <1>7, <1>8
<1>10. /\ marker' = [marker EXCEPT ![t] = r] /\ gMarkId' = x /\ hostBase' = b /\ failures' \in {failures, failures + 0}
       /\ traces' = IF m.device THEN Append(traces, Trace(x, m.flag)) ELSE traces
       /\ UNCHANGED <<domainVars, markerOn, contexts, deviceBase, deviceContexts, reader, marks, ranges>>
  BY <1>2, <1>3, <1>5, <1>7 DEF ReportsMark, Succeeds, Traces, Trace
<1>11. \A u \in MarkThreads : marker'[u] = IF u = t THEN r ELSE marker[u]
  BY <1>1, <1>10, MarkTypesAre
<1>12. /\ x \notin Given /\ x \notin DOMAIN contexts /\ x \notin DOMAIN deviceContexts /\ x \notin innerMarkIds
       /\ x \notin DOMAIN markId2HcclOp /\ x \notin told
       /\ \A e \in ToSet(traces) \cup ToSet(marks) : e.id # x
       /\ \A q \in ToSet(hcclReports) : q.op.id # x
       /\ \A u \in MarkThreads : marker[u].pc \in {"record", "context"} => marker[u].id # x
       /\ \A u \in HcclThreads : Wrapping(u) => hccl[u].id # x
  BY <1>1, <1>2, FreshId
<1>13. /\ \A u \in MarkThreads \ {t} : (Starting(u)' <=> Starting(u)) /\ (Ending(u)' <=> Ending(u)) /\ marker'[u] = marker[u]
       /\ ~Starting(t) /\ ~Ending(t) /\ ~Ending(t)' /\ marker'[t] = r /\ (Starting(t)' <=> m.flag = "start")
  BY <1>3, <1>4, <1>9, <1>11 DEF Starting, Ending
<1>14. /\ \A y : (y # x => (ClientOpen(y)' <=> ClientOpen(y)) /\ (Open(y)' <=> Open(y))) /\ (HcclOpen(y)' <=> HcclOpen(y))
       /\ ClientOpen(x)' <=> m.flag = "start"
       /\ ~HcclOpen(x)
  <2>1. \A y : HcclOpen(y)' <=> HcclOpen(y)
    BY DEF HcclOpen, Wrapping, hcclVars
  <2>2. ~HcclOpen(x)
    BY <1>12 DEF HcclOpen
  <2>3. \A y : y # x => (ClientOpen(y)' <=> ClientOpen(y))
    BY <1>9, <1>10, <1>13 DEF ClientOpen
  <2>4. ClientOpen(x)' <=> m.flag = "start"
    <3>1. \A u \in MarkThreads \ {t} : Starting(u)' => marker'[u].id # x
      BY <1>12, <1>13 DEF Starting
    <3>2. QED
      BY <3>1, <1>9, <1>10, <1>12, <1>13 DEF ClientOpen
  <2>5. QED
    BY <2>1, <2>2, <2>3, <2>4 DEF Open
<1>15. /\ TracesOrdered' /\ DeviceClocks'
       /\ traces' \in Seq([id: MarkIds, flag: Flags]) /\ (traces' = <<>> => traces = <<>>)
       /\ ToSet(traces) \subseteq ToSet(traces') /\ ToSet(traces') \subseteq ToSet(traces) \cup {Trace(x, m.flag)}
       /\ reader.pc = "deliver" => Head(traces') = Head(traces) /\ Head(traces) \in ToSet(traces)
  <2>1. PICK e : e = Trace(x, m.flag)
    OBVIOUS
  <2>2. e \in [id: MarkIds, flag: Flags] /\ e.id = x /\ e.flag = m.flag
    BY <2>1, <1>4, <1>8 DEF Trace
  <2>3. traces' \in {traces, Append(traces, e)}
    BY <2>1, <1>10
  <2>4. UNCHANGED <<reader, deviceContexts, marks, hcclReports>>
    BY <1>10 DEF hcclVars
  <2>5. \A y \in Given : Open(y)' => Open(y)
    BY <1>12, <1>14
  <2>6. \A f \in ToSet(traces) : f.id = e.id => f.flag = "start" /\ e.flag = "end"
    BY <2>2, <1>12
  <2>7. (e.flag = "start" => e.id \notin DOMAIN deviceContexts) /\ (e.flag = "end" => Open(e.id))
    BY <2>2, <1>4, <1>12
  <2>8. \A q \in ToSet(marks) : q.source = "device" /\ q.id = e.id => e.flag = "end" /\ q.flag = "start"
    BY <2>2, <1>12
  <2>9. \A q \in ToSet(hcclReports) : q.op.id # e.id
    BY <2>2, <1>12
  <2>10. QED
    BY <2>1, <2>2, <2>3, <2>4, <2>5, <2>6, <2>7, <2>8, <2>9, <1>1, DeviceMayBeTold
<1>16. MarkTypes'
  <2>1. gMarkId' \in 0 .. MaxMarks /\ hostBase' \in Bases /\ ranges' \subseteq MarkIds
    BY <1>1, <1>5, <1>8, <1>10, MarkTypesAre
  <2>2. failures' \in 0 .. MaxFailures
    BY <1>1, <1>10, MarkTypesAre, MarkerAssumption
  <2>3. /\ DOMAIN contexts' \subseteq MarkIds /\ \A i \in DOMAIN contexts' : contexts'[i] \in [device: BOOLEAN, base: Bases]
        /\ contexts' = [y \in DOMAIN contexts' |-> contexts'[y]]
    BY <1>1, <1>10, MarkTypesAre DEF MarkTypes
  <2>4. marks' \in Seq(Markers)
    BY <1>1, <1>10, MarkTypesAre
  <2>5. r.handle <= Len(domains)
    BY <1>1, <1>3, <1>9 DEF MarkTypes
  <2>6. QED
    BY <1>1, <1>9, <1>10, <1>15, <2>1, <2>2, <2>3, <2>4, <2>5, MarkerTypes
<1>17. NamesTell'
  <2>1. r.muted => r.handle # 0 /\ domains[r.handle].name # r.asked
    BY <1>1, <1>3, <1>9 DEF NamesTell
  <2>2. QED
    BY <2>1, <1>1, <1>10, MarkerNames
<1>18. Given' = Given \cup {x}
  BY <1>8, <1>10 DEF Given
<1>19. IdsGivenOut'
  <2>1. /\ DOMAIN contexts' \subseteq Given' /\ DOMAIN deviceContexts' \subseteq Given' /\ innerMarkIds' \subseteq Given'
        /\ DOMAIN markId2HcclOp' \subseteq Given'
        /\ \A q \in ToSet(hcclReports)' : q.op.id \in Given'
        /\ \A e \in ToSet(marks') : e.id \in Given'
    BY <1>1, <1>10, <1>18 DEF IdsGivenOut, hcclVars
  <2>2. \A e \in ToSet(traces') : e.id \in Given'
    BY <1>1, <1>15, <1>18 DEF IdsGivenOut, Trace
  <2>3. \A u \in MarkThreads : marker'[u].pc \in {"record", "context"} => marker'[u].id \in Given'
    BY <1>1, <1>9, <1>11, <1>18 DEF IdsGivenOut
  <2>4. \A u \in HcclThreads : counts'[u] <= gMarkId' /\ (Wrapping(u)' => hccl'[u].id \in Given')
    <3>1. gMarkId \in Int /\ \A u \in HcclThreads : counts[u] \in Int /\ counts[u] <= gMarkId
      BY <1>1, MarkTypesAre DEF IdsGivenOut, MarkIds
    <3>2. \A u \in HcclThreads : counts[u] <= x
      BY <3>1, <1>2
    <3>3. QED
      BY <3>2, <1>1, <1>10, <1>18 DEF IdsGivenOut, hcclVars, Wrapping
  <2>5. QED
    BY <2>1, <2>2, <2>3, <2>4 DEF IdsGivenOut
<1>20. OneHolder'
  <2>1. /\ \A u, v \in MarkThreads : Starting(u)' /\ Starting(v)' /\ u # v => marker'[u].id # marker'[v].id
        /\ \A u, v \in MarkThreads : Ending(u)' /\ Ending(v)' /\ u # v => marker'[u].id # marker'[v].id
        /\ \A u \in MarkThreads : Starting(u)' => marker'[u].id \notin DOMAIN contexts'
    <3>1. \A u \in MarkThreads \ {t} : Starting(u)' => marker'[u].id # x
      BY <1>12, <1>13 DEF Starting
    <3>2. QED
      BY <3>1, <1>1, <1>9, <1>10, <1>12, <1>13 DEF MarksRest, OneHolder
  <2>2. \A u, v \in HcclThreads : Wrapping(u)' /\ Wrapping(v)' /\ u # v => hccl'[u].id # hccl'[v].id
    BY <1>1 DEF MarksRest, OneHolder, hcclVars, Wrapping
  <2>3. \A y \in Given' : ClientOpen(y)' => ~HcclOpen(y)' /\ y \notin innerMarkIds'
    BY <1>1, <1>12, <1>14, <1>18 DEF MarksRest, OneHolder, hcclVars
  <2>4. QED
    BY <2>1, <2>2, <2>3 DEF OneHolder
<1>21. OpenNotEnded'
  <2>1. \A u \in MarkThreads : Ending(u)' => Ending(u) /\ marker'[u].id = marker[u].id /\ marker'[u].id # x
    BY <1>12, <1>13 DEF Ending
  <2>2. ASSUME NEW y \in Given', Open(y)'
        PROVE  /\ Trace(y, "end") \notin ToSet(traces') /\ Trace(y, "instantaneous") \notin ToSet(traces')
               /\ \A q \in ToSet(marks) : q.id = y => q.flag # "end" /\ (q.source = "device" => q.flag = "start")
               /\ \A q \in ToSet(hcclReports) : q.op.id # y
               /\ y \notin told
               /\ \A u \in MarkThreads : Ending(u)' => marker'[u].id # y
    <3>1. CASE y = x
      <4>1. m.flag = "start"
        BY <2>2, <3>1, <1>14 DEF Open
      <4>2. Trace(x, "end") # Trace(x, m.flag) /\ Trace(x, "instantaneous") # Trace(x, m.flag)
        BY <4>1 DEF Trace
      <4>3. Trace(x, "end").id = x /\ Trace(x, "instantaneous").id = x
        BY DEF Trace
      <4>4. QED
        BY <4>2, <4>3, <3>1, <1>12, <1>15, <2>1
    <3>2. CASE y # x
      <4>1. y \in Given /\ Open(y)
        BY <3>2, <2>2, <1>14, <1>18
      <4>2. Trace(y, "end") # Trace(x, m.flag) /\ Trace(y, "instantaneous") # Trace(x, m.flag)
        BY <3>2 DEF Trace
      <4>3. QED
        BY <4>1, <4>2, <1>1, <1>15, <2>1 DEF MarksRest, OpenNotEnded
    <3>3. QED
      BY <3>1, <3>2
  <2>3. QED
    BY <2>2, <1>10 DEF OpenNotEnded, hcclVars, Trace
<1>22. HostClocks'
  <2>1. ASSUME NEW u \in MarkThreads
        PROVE  /\ Starting(u)' => marker'[u].clock \in {0, marker'[u].base} /\ Fits(marker'[u].clock, marker'[u].id)
               /\ Starting(u)' /\ marker'[u].pc = "record" => \A q \in ToSet(marks) : ~HostStart(q, marker'[u].id)
               /\ Starting(u)' /\ marker'[u].pc = "context" /\ marker'[u].taken => \E q \in ToSet(marks) : HostStart(q, marker'[u].id)
               /\ marker'[u].pc # "idle" /\ marker'[u].flag = "end" => marker'[u].id \in ranges
               /\ Ending(u)' => /\ Fits(marker'[u].base, marker'[u].id)
                                /\ \A q \in ToSet(marks) : ~(q.source = "host" /\ q.flag = "end" /\ q.id = marker'[u].id)
               /\ marker'[u].pc \in {"idle", "name", "report", "record", "context"}
               /\ marker'[u].pc = "context" => marker'[u].flag = "start"
    <3>1. CASE u = t
      <4>1. \A q \in ToSet(marks) : ~HostStart(q, x)
        BY <1>12 DEF HostStart
      <4>2. Fits(hostBase, x)
        BY <4>1 DEF Fits
      <4>3. QED
        BY <3>1, <4>1, <4>2, <1>4, <1>5, <1>9, <1>13
    <3>2. CASE u # t
      BY <3>2, <1>1, <1>13 DEF MarksRest, HostClocks
    <3>3. QED
      BY <3>1, <3>2
  <2>2. QED
    BY <2>1, <1>1, <1>10 DEF MarksRest, HostClocks, Fits, HostStart
<1>23. OperationsKept' /\ ReaderTells'
  <2>1. \A y, f : Trace(y, f) \in ToSet(traces) => Trace(y, f) \in ToSet(traces')
    BY <1>15
  <2>2. OperationsKept'
    BY <2>1, <1>1 DEF MarksRest, OperationsKept, hcclVars, Wrapping, Trace
  <2>3. Trace(x, m.flag).id = x
    BY DEF Trace
  <2>4. QED
    BY <2>2, <2>3, <1>1, <1>10, <1>12, <1>15, TracesMayGrow DEF hcclVars
<1>24. RangesPaired' /\ OneClock' /\ DisabledSilent' /\ HcclOwn'
  BY <1>1, <1>10 DEF MarksRest, RangesPaired, OneClock, DisabledSilent, HcclOwn, hcclVars
<1>25. HcclComplete'
  BY <1>1, <1>15 DEF MarksRest, HcclComplete, hcclVars, OpKey
<1>26. QED
  BY <1>15, <1>16, <1>17, <1>19, <1>20, <1>21, <1>22, <1>23, <1>24, <1>25, MarkParts DEF MarksRest

\* A call that cannot tell the device, or finds no range to end, leaves nothing behind.
LEMMA GivesUp ==
    ASSUME MarksIInv, NEW t \in MarkThreads, marker[t].pc = "report", marker' = [marker EXCEPT ![t] = IdleMarker],
           gMarkId' \in {gMarkId, gMarkId + 1}, gMarkId' \in 0 .. MaxMarks, hostBase' \in Bases, failures' \in 0 .. MaxFailures,
           UNCHANGED <<domainVars, hcclVars, markerOn, contexts, deviceBase, traces, deviceContexts, reader, marks, ranges>>
    PROVE  MarksIInv'
<1>1. MarkTypes /\ NamesTell /\ MarksRest /\ IdsGivenOut
  BY MarkParts DEF MarksRest
<1>2. PICK r : r = IdleMarker
  OBVIOUS
<1>3. /\ r \in [pc: {"idle", "name", "report", "record", "context"}, flag: Flags, asked: Asked, device: BOOLEAN,
             id: {0} \cup MarkIds, base: Bases, clock: Bases, handle: Nat, taken: BOOLEAN, muted: BOOLEAN]
      /\ r.pc = "idle" /\ ~r.muted /\ r.handle = 0
  BY <1>2 DEF IdleMarker, Flags, Asked, Bases
<1>4. marker' = [marker EXCEPT ![t] = r]
  BY <1>2
<1>5. MarkTypes'
  <2>1. /\ DOMAIN contexts' \subseteq MarkIds /\ \A i \in DOMAIN contexts' : contexts'[i] \in [device: BOOLEAN, base: Bases]
        /\ contexts' = [x \in DOMAIN contexts' |-> contexts'[x]]
    BY <1>1, MarkTypesAre DEF MarkTypes
  <2>2. traces' \in Seq([id: MarkIds, flag: Flags]) /\ marks' \in Seq(Markers) /\ ranges' \subseteq MarkIds
    BY <1>1, MarkTypesAre
  <2>3. r.handle <= Len(domains)
    BY <1>1, <1>3, MarkTypesAre, LenProperties
  <2>4. QED
    BY <1>1, <1>3, <1>4, <2>1, <2>2, <2>3, MarkerTypes
<1>6. NamesTell'
  BY <1>1, <1>3, <1>4, MarkerNames
<1>7. MarksRest'
  <2>1. \A u \in MarkThreads : marker'[u] = IF u = t THEN r ELSE marker[u]
    BY <1>1, <1>4, MarkTypesAre
  <2>2. ~Starting(t) /\ ~Ending(t)
    BY DEF Starting, Ending
  <2>3. marker'[t].pc = "idle"
    BY <2>1, <1>3
  <2>4. ~Starting(t)' /\ ~Ending(t)'
    BY <2>3 DEF Starting, Ending
  <2>5. QED
    BY <1>1, <2>1, <2>2, <2>3, <2>4, BetweenMarks DEF hcclVars
<1>8. QED
  BY <1>5, <1>6, <1>7, MarkParts

\* What a failure is counted as.
LEMMA FailuresBounded ==
    ASSUME MarkTypes, NEW ok \in BOOLEAN, Succeeds(ok)
    PROVE  failures' \in 0 .. MaxFailures
BY MarkTypesAre, MarkerAssumption DEF Succeeds

LEMMA ReportsMarkFails ==
    ASSUME MarksIInv, NEW t \in MarkThreads, ReportsMark(t, FALSE), UNCHANGED hcclVars
    PROVE  MarksIInv'
<1>1. MarkTypes
  BY MarkParts
<1>2. gMarkId' = gMarkId + 1 /\ gMarkId' \in 0 .. MaxMarks
  BY <1>1, GivenMarks DEF ReportsMark
<1>3. hostBase' \in Bases
  BY <1>1, MarkTypesAre DEF ReportsMark, FirstReading, Bases
<1>4. failures' \in 0 .. MaxFailures
  BY <1>1, FailuresBounded DEF ReportsMark
<1>5. marker' = [marker EXCEPT ![t] = IdleMarker] /\ marker[t].pc = "report"
  BY DEF ReportsMark
<1>6. UNCHANGED <<domainVars, markerOn, contexts, deviceBase, traces, deviceContexts, reader, marks, ranges>>
  BY DEF ReportsMark, Traces
<1>7. QED
  BY <1>2, <1>3, <1>4, <1>5, <1>6, GivesUp

\* A range is ended: its context goes, and the device may be told.
LEMMA RangeEnds ==
    ASSUME MarksIInv, NEW t \in MarkThreads, ReportsRangeEnd(t, TRUE), marker[t].id \in DOMAIN contexts, UNCHANGED hcclVars
    PROVE  MarksIInv'
<1>1. MarkTypes /\ NamesTell /\ MarksRest /\ IdsGivenOut
  BY MarkParts DEF MarksRest
<1>2. PICK m : m = marker[t]
  OBVIOUS
<1>3. PICK x : x = m.id
  OBVIOUS
<1>4. /\ m \in [pc: {"idle", "name", "report", "record", "context"}, flag: Flags, asked: Asked, device: BOOLEAN,
             id: {0} \cup MarkIds, base: Bases, clock: Bases, handle: Nat, taken: BOOLEAN, muted: BOOLEAN]
      /\ m.pc = "report" /\ m.flag = "end" /\ x \in DOMAIN contexts /\ x \in MarkIds /\ x \in ranges
  <2>1. m.pc = "report" /\ m.flag = "end"
    BY <1>2 DEF ReportsRangeEnd
  <2>2. x \in ranges
    BY <1>1, <1>2, <1>3, <2>1 DEF MarksRest, HostClocks
  <2>3. QED
    BY <1>1, <1>2, <1>3, <2>1, <2>2, MarkTypesAre
<1>5. PICK b : b = contexts[x].base
  OBVIOUS
<1>6. PICK d : d = contexts[x].device
  OBVIOUS
<1>7. b \in Bases /\ d \in BOOLEAN
  BY <1>1, <1>4, <1>5, <1>6, MarkTypesAre
<1>8. PICK r : r = [m EXCEPT !.pc = "record", !.base = b]
  OBVIOUS
<1>9. /\ r \in [pc: {"idle", "name", "report", "record", "context"}, flag: Flags, asked: Asked, device: BOOLEAN,
             id: {0} \cup MarkIds, base: Bases, clock: Bases, handle: Nat, taken: BOOLEAN, muted: BOOLEAN]
      /\ r.pc = "record" /\ r.id = x /\ r.base = b /\ r.flag = "end" /\ r.handle = m.handle /\ r.muted = m.muted /\ r.asked = m.asked
  BY <1>3, <1>4, <1>7, <1>8
<1>10. /\ marker' = [marker EXCEPT ![t] = r]
       /\ contexts' = DropAt(contexts, x)
       /\ traces' = IF d THEN Append(traces, Trace(x, "end")) ELSE traces
       /\ UNCHANGED <<domainVars, markerOn, gMarkId, hostBase, deviceBase, deviceContexts, reader, marks, ranges>>
  <2>1. marker' = [marker EXCEPT ![t].pc = "record", ![t].base = b]
    BY <1>2, <1>3, <1>5 DEF ReportsRangeEnd, EndBase
  <2>2. marker' = [marker EXCEPT ![t] = r]
    BY <2>1, <1>1, <1>2, <1>8, MarkTypesAre
  <2>3. QED
    BY <2>2, <1>2, <1>3, <1>6 DEF ReportsRangeEnd, Forgets, Traces, Trace
<1>11. \A u \in MarkThreads : marker'[u] = IF u = t THEN r ELSE marker[u]
  BY <1>1, <1>10, MarkTypesAre
<1>12. /\ DOMAIN contexts' = DOMAIN contexts \ {x} /\ \A y \in DOMAIN contexts \ {x} : contexts'[y] = contexts[y]
       /\ contexts' = [y \in DOMAIN contexts' |-> contexts'[y]]
  BY <1>10 DEF DropAt
<1>13. x \in Given /\ ClientOpen(x) /\ Open(x)
  BY <1>1, <1>4 DEF IdsGivenOut, Open, ClientOpen
<1>14. /\ Trace(x, "end") \notin ToSet(traces) /\ Trace(x, "instantaneous") \notin ToSet(traces)
       /\ \A q \in ToSet(marks) : q.id = x => q.flag # "end" /\ (q.source = "device" => q.flag = "start")
       /\ \A q \in ToSet(hcclReports) : q.op.id # x
       /\ x \notin told
       /\ \A u \in MarkThreads : Ending(u) => marker[u].id # x
       /\ \A u \in MarkThreads : Starting(u) => marker[u].id # x
       /\ ~HcclOpen(x) /\ x \notin innerMarkIds
  <2>1. OpenNotEnded /\ OneHolder
    BY <1>1 DEF MarksRest
  <2>2. /\ Trace(x, "end") \notin ToSet(traces) /\ Trace(x, "instantaneous") \notin ToSet(traces)
        /\ \A q \in ToSet(marks) : q.id = x => q.flag # "end" /\ (q.source = "device" => q.flag = "start")
        /\ \A q \in ToSet(hcclReports) : q.op.id # x
        /\ x \notin told
        /\ \A u \in MarkThreads : Ending(u) => marker[u].id # x
    BY <2>1, <1>13 DEF OpenNotEnded
  <2>3. /\ \A u \in MarkThreads : Starting(u) => marker[u].id # x
        /\ ~HcclOpen(x) /\ x \notin innerMarkIds
    BY <2>1, <1>4, <1>13 DEF OneHolder
  <2>4. QED
    BY <2>2, <2>3
<1>15. /\ \A u \in MarkThreads : /\ Starting(u)' <=> Starting(u)
                                 /\ u # t => (Ending(u)' <=> Ending(u)) /\ marker'[u] = marker[u]
                                 /\ Starting(u) => u # t
       /\ ~Ending(t) /\ Ending(t)' /\ marker'[t] = r
  BY <1>2, <1>4, <1>9, <1>11 DEF Starting, Ending
<1>16. /\ \A y : /\ HcclOpen(y)' <=> HcclOpen(y)
                 /\ ClientOpen(y)' <=> ClientOpen(y) /\ y # x
                 /\ Open(y)' <=> Open(y) /\ y # x
  <2>1. \A y : HcclOpen(y)' <=> HcclOpen(y)
    BY DEF HcclOpen, Wrapping, hcclVars
  <2>2. \A y : y # x => (ClientOpen(y)' <=> ClientOpen(y))
    BY <1>12, <1>15 DEF ClientOpen
  <2>3. ~ClientOpen(x)'
    BY <1>12, <1>14, <1>15 DEF ClientOpen
  <2>4. QED
    BY <2>1, <2>2, <2>3, <1>14 DEF Open
<1>17. /\ TracesOrdered' /\ DeviceClocks'
       /\ traces' \in Seq([id: MarkIds, flag: Flags]) /\ (traces' = <<>> => traces = <<>>)
       /\ ToSet(traces) \subseteq ToSet(traces') /\ ToSet(traces') \subseteq ToSet(traces) \cup {Trace(x, "end")}
       /\ reader.pc = "deliver" => Head(traces') = Head(traces) /\ Head(traces) \in ToSet(traces)
  <2>1. PICK e : e = Trace(x, "end")
    OBVIOUS
  <2>2. e \in [id: MarkIds, flag: Flags] /\ e.id = x /\ e.flag = "end"
    BY <2>1, <1>4 DEF Trace, Flags
  <2>3. traces' \in {traces, Append(traces, e)}
    BY <2>1, <1>10
  <2>4. UNCHANGED <<reader, deviceContexts, marks, hcclReports>>
    BY <1>10 DEF hcclVars
  <2>5. \A y \in Given : Open(y)' => Open(y)
    BY <1>16
  <2>6. \A f \in ToSet(traces) : f.id = e.id => f.flag = "start" /\ e.flag = "end"
    <3>1. \A f \in ToSet(traces) : f = Trace(f.id, f.flag) /\ f.flag \in Flags
      BY <1>1, ElementsAre
    <3>2. QED
      BY <3>1, <2>2, <1>14 DEF Flags
  <2>7. (e.flag = "start" => e.id \notin DOMAIN deviceContexts) /\ (e.flag = "end" => Open(e.id))
    BY <2>2, <1>13
  <2>8. \A q \in ToSet(marks) : q.source = "device" /\ q.id = e.id => e.flag = "end" /\ q.flag = "start"
    BY <2>2, <1>14
  <2>9. \A q \in ToSet(hcclReports) : q.op.id # e.id
    BY <2>2, <1>14
  <2>10. QED
    BY <2>1, <2>2, <2>3, <2>4, <2>5, <2>6, <2>7, <2>8, <2>9, <1>1, DeviceMayBeTold
<1>18. MarkTypes'
  <2>1. gMarkId' \in 0 .. MaxMarks /\ hostBase' \in Bases /\ ranges' \subseteq MarkIds
    BY <1>1, <1>10, MarkTypesAre
  <2>2. failures' \in 0 .. MaxFailures
    BY <1>1, FailuresBounded DEF ReportsRangeEnd
  <2>3. DOMAIN contexts' \subseteq MarkIds /\ \A i \in DOMAIN contexts' : contexts'[i] \in [device: BOOLEAN, base: Bases]
    BY <1>1, <1>12, MarkTypesAre
  <2>4. marks' \in Seq(Markers)
    BY <1>1, <1>10, MarkTypesAre
  <2>5. r.handle <= Len(domains)
    BY <1>1, <1>2, <1>9 DEF MarkTypes
  <2>6. QED
    BY <1>1, <1>9, <1>10, <1>12, <1>17, <2>1, <2>2, <2>3, <2>4, <2>5, MarkerTypes
<1>19. NamesTell'
  <2>1. r.muted => r.handle # 0 /\ domains[r.handle].name # r.asked
    BY <1>1, <1>2, <1>9 DEF NamesTell
  <2>2. QED
    BY <2>1, <1>1, <1>10, MarkerNames
<1>20. IdsGivenOut'
  <2>1. Given' = Given
    BY <1>10 DEF Given
  <2>2. \A e \in ToSet(traces') : e.id \in Given
    BY <1>1, <1>13, <1>17 DEF IdsGivenOut, Trace
  <2>3. \A u \in MarkThreads : marker'[u].pc \in {"record", "context"} => marker'[u].id \in Given
    BY <1>1, <1>9, <1>11, <1>13 DEF IdsGivenOut
  <2>4. DOMAIN contexts' \subseteq Given
    BY <1>1, <1>12 DEF IdsGivenOut
  <2>5. QED
    BY <2>1, <2>2, <2>3, <2>4, <1>1, <1>10 DEF IdsGivenOut, hcclVars, Wrapping
<1>21. OneHolder'
  <2>1. /\ \A u, v \in MarkThreads : Starting(u)' /\ Starting(v)' /\ u # v => marker'[u].id # marker'[v].id
        /\ \A u \in MarkThreads : Starting(u)' => marker'[u].id \notin DOMAIN contexts'
    BY <1>1, <1>12, <1>15 DEF MarksRest, OneHolder
  <2>2. \A u, v \in MarkThreads : Ending(u)' /\ Ending(v)' /\ u # v => marker'[u].id # marker'[v].id
    BY <1>1, <1>9, <1>14, <1>15 DEF MarksRest, OneHolder
  <2>3. \A u, v \in HcclThreads : Wrapping(u)' /\ Wrapping(v)' /\ u # v => hccl'[u].id # hccl'[v].id
    BY <1>1 DEF MarksRest, OneHolder, hcclVars, Wrapping
  <2>4. Given' = Given
    BY <1>10 DEF Given
  <2>5. \A y \in Given' : ClientOpen(y)' => ~HcclOpen(y)' /\ y \notin innerMarkIds'
    BY <1>1, <1>16, <2>4 DEF MarksRest, OneHolder, hcclVars
  <2>6. QED
    BY <2>1, <2>2, <2>3, <2>5 DEF OneHolder
<1>22. OpenNotEnded'
  <2>1. ASSUME NEW y \in Given, Open(y)'
        PROVE  /\ Trace(y, "end") \notin ToSet(traces') /\ Trace(y, "instantaneous") \notin ToSet(traces')
               /\ \A q \in ToSet(marks) : q.id = y => q.flag # "end" /\ (q.source = "device" => q.flag = "start")
               /\ \A q \in ToSet(hcclReports) : q.op.id # y
               /\ y \notin told
               /\ \A u \in MarkThreads : Ending(u)' => marker'[u].id # y
    <3>1. y # x /\ Open(y)
      BY <2>1, <1>16
    <3>2. Trace(y, "end") # Trace(x, "end") /\ Trace(y, "instantaneous") # Trace(x, "end")
      BY <3>1 DEF Trace
    <3>3. \A u \in MarkThreads : Ending(u)' => marker'[u].id # y
      BY <3>1, <1>1, <1>9, <1>15 DEF MarksRest, OpenNotEnded
    <3>4. QED
      BY <3>1, <3>2, <3>3, <1>1, <1>17 DEF MarksRest, OpenNotEnded
  <2>2. Given' = Given
    BY <1>10 DEF Given
  <2>3. QED
    BY <2>1, <2>2, <1>10 DEF OpenNotEnded, hcclVars, Trace
<1>23. HostClocks'
  <2>1. ASSUME NEW u \in MarkThreads
        PROVE  /\ Starting(u)' => marker'[u].clock \in {0, marker'[u].base} /\ Fits(marker'[u].clock, marker'[u].id)
               /\ Starting(u)' /\ marker'[u].pc = "record" => \A q \in ToSet(marks) : ~HostStart(q, marker'[u].id)
               /\ Starting(u)' /\ marker'[u].pc = "context" /\ marker'[u].taken => \E q \in ToSet(marks) : HostStart(q, marker'[u].id)
               /\ marker'[u].pc # "idle" /\ marker'[u].flag = "end" => marker'[u].id \in ranges
               /\ Ending(u)' => /\ Fits(marker'[u].base, marker'[u].id)
                                /\ \A q \in ToSet(marks) : ~(q.source = "host" /\ q.flag = "end" /\ q.id = marker'[u].id)
               /\ marker'[u].pc \in {"idle", "name", "report", "record", "context"}
               /\ marker'[u].pc = "context" => marker'[u].flag = "start"
    <3>1. CASE u = t
      <4>1. Fits(b, x)
        BY <1>1, <1>4, <1>5 DEF MarksRest, HostClocks
      <4>2. \A q \in ToSet(marks) : ~(q.source = "host" /\ q.flag = "end" /\ q.id = x)
        BY <1>14
      <4>3. ~Starting(u)'
        BY <3>1, <1>15
      <4>4. QED
        BY <3>1, <4>1, <4>2, <4>3, <1>4, <1>9, <1>15
    <3>2. CASE u # t
      BY <3>2, <1>1, <1>15 DEF MarksRest, HostClocks
    <3>3. QED
      BY <3>1, <3>2
  <2>2. \A y \in DOMAIN contexts' : Fits(contexts'[y].base, y)
    BY <1>1, <1>12 DEF MarksRest, HostClocks
  <2>3. QED
    BY <2>1, <2>2, <1>1, <1>10 DEF MarksRest, HostClocks, Fits, HostStart
<1>24. OperationsKept' /\ ReaderTells'
  <2>1. \A y, f : Trace(y, f) \in ToSet(traces) => Trace(y, f) \in ToSet(traces')
    BY <1>17
  <2>2. OperationsKept'
    BY <2>1, <1>1 DEF MarksRest, OperationsKept, hcclVars, Wrapping, Trace
  <2>3. Trace(x, "end").flag = "end"
    BY DEF Trace
  <2>4. QED
    BY <2>2, <2>3, <1>1, <1>10, <1>17, TracesMayGrow DEF hcclVars
<1>25. RangesPaired' /\ OneClock' /\ DisabledSilent' /\ HcclOwn'
  BY <1>1, <1>10 DEF MarksRest, RangesPaired, OneClock, DisabledSilent, HcclOwn, hcclVars
<1>26. HcclComplete'
  BY <1>1, <1>17 DEF MarksRest, HcclComplete, hcclVars, OpKey
<1>27. QED
  BY <1>17, <1>18, <1>19, <1>20, <1>21, <1>22, <1>23, <1>24, <1>25, <1>26, MarkParts DEF MarksRest

LEMMA ReportsRangeEndKeeps ==
    ASSUME MarksIInv, NEW t \in MarkThreads, NEW ok \in BOOLEAN, ReportsRangeEnd(t, ok), UNCHANGED hcclVars
    PROVE  MarksIInv'
<1>1. CASE marker[t].id \in DOMAIN contexts /\ ok
  BY <1>1, RangeEnds
<1>2. CASE ~(marker[t].id \in DOMAIN contexts /\ ok)
  <2>1. MarkTypes
    BY MarkParts
  <2>2. failures' \in 0 .. MaxFailures
    BY <2>1, FailuresBounded DEF ReportsRangeEnd
  <2>3. marker[t].pc = "report" /\ marker' = [marker EXCEPT ![t] = IdleMarker]
    BY <1>2 DEF ReportsRangeEnd
  <2>4. UNCHANGED <<domainVars, markerOn, gMarkId, hostBase, contexts, deviceBase, traces, deviceContexts, reader, marks, ranges>>
    BY <1>2 DEF ReportsRangeEnd
  <2>5. gMarkId' \in {gMarkId, gMarkId + 1} /\ gMarkId' \in 0 .. MaxMarks /\ hostBase' \in Bases
    BY <2>1, <2>4, MarkTypesAre
  <2>6. QED
    BY <2>2, <2>3, <2>4, <2>5, GivesUp
<1>3. QED
  BY <1>1, <1>2

\* What has been recorded stays paired, of one clock and silent with one mark more.
LEMMA MarkAdded ==
    ASSUME MarkTypes, RangesPaired, OneClock, DisabledSilent, NEW k \in Markers, marks' = Append(marks, k),
           k.flag = "end" => \A q \in ToSet(marks) : q.flag = "end" /\ q.id = k.id => q.source # k.source,
           k.flag = "end" /\ k.source = "host" => \E q \in ToSet(marks) : HostStart(q, k.id),
           k.flag = "end" => \A q \in ToSet(marks) : q.flag = "start" /\ q.id = k.id /\ q.source = k.source
                                => k.base = q.base \/ (k.source = "host" /\ k.base = 0) \/ q.base = 0,
           k.flag = "start" => \A q \in ToSet(marks) : q.id = k.id /\ q.source = k.source => q.flag # "end",
           k.muted /\ k.kept /\ k.flag # "end" => k.name # k.asked
    PROVE  RangesPaired' /\ OneClock' /\ DisabledSilent'
<1>1. PICK n : n = Len(marks) /\ n \in Nat
  BY MarkTypesAre, LenProperties
<1>2. /\ DOMAIN marks = 1 .. n /\ DOMAIN marks' = 1 .. n + 1
      /\ \A i \in 1 .. n : marks'[i] = marks[i]
      /\ marks'[n + 1] = k
      /\ \A i \in 1 .. n + 1 : i \in 1 .. n \/ i = n + 1
  BY <1>1, MarkTypesAre, Added
<1>3. \A i \in 1 .. n : marks[i] \in ToSet(marks)
  BY <1>2 DEF ToSet
<1>4. \A q \in ToSet(marks) : \E i \in 1 .. n : q = marks[i]
  BY <1>2 DEF ToSet
<1>5. \A i \in 1 .. n : i # n + 1 /\ i \in 1 .. (n + 1) - 1
  BY <1>1
<1>6. RangesPaired'
  <2>1. ASSUME NEW j \in DOMAIN marks', marks'[j].flag = "end"
        PROVE  /\ \A i \in DOMAIN marks' : i # j => marks'[i].id # marks'[j].id \/ marks'[i].flag # "end" \/ marks'[i].source # marks'[j].source
               /\ marks'[j].source = "host" =>
                    \E i \in 1 .. j - 1 : marks'[i].id = marks'[j].id /\ marks'[i].flag = "start" /\ marks'[i].source = "host"
    <3>1. CASE j \in 1 .. n
      <4>1. /\ \A i \in 1 .. n : i # j => marks[i].id # marks[j].id \/ marks[i].flag # "end" \/ marks[i].source # marks[j].source
            /\ marks[j].source = "host" =>
                  \E i \in 1 .. j - 1 : marks[i].id = marks[j].id /\ marks[i].flag = "start" /\ marks[i].source = "host"
        <5>1. j \in DOMAIN marks /\ marks[j].flag = "end"
          BY <2>1, <3>1, <1>2
        <5>2. /\ \A i \in DOMAIN marks : i # j => marks[i].id # marks[j].id \/ marks[i].flag # "end" \/ marks[i].source # marks[j].source
              /\ marks[j].source = "host" =>
                    \E i \in 1 .. j - 1 : marks[i].id = marks[j].id /\ marks[i].flag = "start" /\ marks[i].source = "host"
          BY <5>1 DEF RangesPaired
        <5>3. DOMAIN marks = 1 .. n
          BY <1>2
        <5>4. QED
          BY <5>2, <5>3
      <4>2. \A i \in 1 .. j - 1 : marks'[i] = marks[i]
        BY <3>1, <1>1, <1>2
      <4>3. k.id # marks[j].id \/ k.flag # "end" \/ k.source # marks[j].source
        BY <2>1, <3>1, <1>2, <1>3
      <4>4. marks'[j] = marks[j]
        BY <3>1, <1>2
      <4>5. \A i \in DOMAIN marks' : i # j => marks'[i].id # marks'[j].id \/ marks'[i].flag # "end" \/ marks'[i].source # marks'[j].source
        BY <4>1, <4>3, <4>4, <1>2
      <4>6. marks'[j].source = "host" =>
               \E i \in 1 .. j - 1 : marks'[i].id = marks'[j].id /\ marks'[i].flag = "start" /\ marks'[i].source = "host"
        BY <4>1, <4>2, <4>4
      <4>7. QED
        BY <4>5, <4>6
    <3>2. CASE j = n + 1
      <4>1. \A i \in 1 .. n : marks[i].id # k.id \/ marks[i].flag # "end" \/ marks[i].source # k.source
        BY <2>1, <3>2, <1>2, <1>3
      <4>2. k.source = "host" => \E i \in 1 .. n : marks[i].id = k.id /\ marks[i].flag = "start" /\ marks[i].source = "host"
        BY <2>1, <3>2, <1>2, <1>4 DEF HostStart
      <4>3. QED
        BY <3>2, <4>1, <4>2, <1>2, <1>5
    <3>3. QED
      BY <3>1, <3>2, <1>2
  <2>2. QED
    BY <2>1, Zenon DEF RangesPaired
<1>7. OneClock'
  <2>1. ASSUME NEW i \in DOMAIN marks', NEW j \in DOMAIN marks',
               marks'[i].id = marks'[j].id /\ marks'[i].source = marks'[j].source, marks'[i].flag = "start" /\ marks'[j].flag = "end"
        PROVE  marks'[j].base = marks'[i].base \/ (marks'[i].source = "host" /\ marks'[j].base = 0) \/ marks'[i].base = 0
    <3>1. CASE i \in 1 .. n /\ j \in 1 .. n
      <4>1. marks'[i] = marks[i] /\ marks'[j] = marks[j] /\ i \in DOMAIN marks /\ j \in DOMAIN marks
        BY <3>1, <1>2
      <4>2. /\ marks[i].id = marks[j].id /\ marks[i].source = marks[j].source
            /\ marks[i].flag = "start" /\ marks[j].flag = "end"
        BY <2>1, <4>1
      <4>3. marks[j].base = marks[i].base \/ (marks[i].source = "host" /\ marks[j].base = 0) \/ marks[i].base = 0
        BY <4>1, <4>2 DEF OneClock
      <4>4. QED
        BY <4>1, <4>3
    <3>2. CASE i \in 1 .. n /\ j = n + 1
      BY <2>1, <3>2, <1>2, <1>3
    <3>3. CASE i = n + 1 /\ j \in 1 .. n
      BY <2>1, <3>3, <1>2, <1>3
    <3>4. CASE i = n + 1 /\ j = n + 1
      BY <2>1, <3>4
    <3>5. QED
      BY <3>1, <3>2, <3>3, <3>4, <1>2
  <2>2. QED
    BY <2>1, Zenon DEF OneClock
<1>8. DisabledSilent'
  <2>1. ASSUME NEW i \in 1 .. n + 1, marks'[i].muted /\ marks'[i].kept /\ marks'[i].flag # "end"
        PROVE  marks'[i].name # marks'[i].asked
    <3>1. CASE i \in 1 .. n
      BY <2>1, <3>1, <1>2 DEF DisabledSilent
    <3>2. CASE i = n + 1
      BY <2>1, <3>2, <1>2
    <3>3. QED
      BY <3>1, <3>2, <1>2
  <2>2. DOMAIN marks' = 1 .. n + 1
    BY <1>2
  <2>3. QED
    BY <2>1, <2>2 DEF DisabledSilent
<1>9. QED
  BY <1>6, <1>7, <1>8

\* The thread's record of what it has reported, which a range's start goes on to keep.
LEMMA RecordsMarkKeeps ==
    ASSUME MarksIInv, NEW t \in MarkThreads, NEW ok \in BOOLEAN, RecordsMark(t, ok), UNCHANGED hcclVars
    PROVE  MarksIInv'
<1>1. MarkTypes /\ NamesTell /\ MarksRest /\ IdsGivenOut
  BY MarkParts DEF MarksRest
<1>2. PICK m : m = marker[t]
  OBVIOUS
<1>3. PICK x : x = m.id
  OBVIOUS
<1>4. /\ m \in [pc: {"idle", "name", "report", "record", "context"}, flag: Flags, asked: Asked, device: BOOLEAN,
             id: {0} \cup MarkIds, base: Bases, clock: Bases, handle: Nat, taken: BOOLEAN, muted: BOOLEAN]
      /\ m.pc = "record"
  BY <1>1, <1>2, MarkTypesAre DEF RecordsMark
<1>5. x \in Given /\ x \in MarkIds
  BY <1>1, <1>2, <1>3, <1>4, GivenMarks DEF IdsGivenOut
<1>6. PICK r : r = IF m.flag = "start" THEN [m EXCEPT !.pc = "context", !.taken = ok] ELSE IdleMarker
  OBVIOUS
<1>7. r \in [pc: {"idle", "name", "report", "record", "context"}, flag: Flags, asked: Asked, device: BOOLEAN,
             id: {0} \cup MarkIds, base: Bases, clock: Bases, handle: Nat, taken: BOOLEAN, muted: BOOLEAN]
  BY <1>4, <1>6 DEF IdleMarker, Flags, Asked, Bases
<1>8. /\ m.flag = "start" => /\ r.pc = "context" /\ r.id = x /\ r.base = m.base /\ r.clock = m.clock /\ r.flag = "start" /\ r.taken = ok
                             /\ r.handle = m.handle /\ r.muted = m.muted /\ r.asked = m.asked
      /\ m.flag # "start" => r.pc = "idle" /\ ~r.muted /\ r.handle = 0
  BY <1>3, <1>4, <1>6 DEF IdleMarker
<1>9. PICK k : k = [[id |-> m.id, flag |-> m.flag, source |-> "host", name |-> NameIn(m),
                     asked |-> m.asked, base |-> m.base, muted |-> m.muted, kept |-> TRUE] EXCEPT !.kept = markerOn]
  OBVIOUS
<1>10. NameIn(m) \in Asked \cup {""} /\ (m.flag # "end" /\ m.muted => NameIn(m) # m.asked)
  <2>1. domains \in Seq([name: Names \cup {DefaultName}, destroyed: BOOLEAN, enabled: BOOLEAN]) /\ m.handle <= Len(domains)
    BY <1>1, <1>2, MarkTypesAre DEF MarkTypes
  <2>2. m.handle # 0 => m.handle \in 1 .. Len(domains)
    BY <2>1, <1>4, LenProperties
  <2>3. m.handle # 0 => domains[m.handle].name \in Names \cup {DefaultName}
    <3>1. \A S : \A s \in Seq(S) : \A i \in 1 .. Len(s) : s[i] \in S
      BY ElementOfSeq
    <3>2. m.handle # 0 => domains[m.handle] \in [name: Names \cup {DefaultName}, destroyed: BOOLEAN, enabled: BOOLEAN]
      BY <2>1, <2>2, <3>1
    <3>3. QED
      BY <3>2
  <2>4. m.muted => m.handle # 0 /\ domains[m.handle].name # m.asked
    BY <1>1, <1>2 DEF NamesTell
  <2>5. QED
    BY <2>3, <2>4 DEF NameIn, Asked
<1>11. /\ k \in Markers
       /\ k.id = x /\ k.flag = m.flag /\ k.source = "host" /\ k.name = NameIn(m) /\ k.asked = m.asked /\ k.base = m.base /\ k.muted = m.muted
  <2>1. PICK k0 : k0 = [id |-> m.id, flag |-> m.flag, source |-> "host", name |-> NameIn(m),
                        asked |-> m.asked, base |-> m.base, muted |-> m.muted, kept |-> TRUE]
    OBVIOUS
  <2>2. /\ k0 \in Markers
        /\ k0.id = x /\ k0.flag = m.flag /\ k0.source = "host" /\ k0.name = NameIn(m) /\ k0.asked = m.asked /\ k0.base = m.base /\ k0.muted = m.muted
    BY <2>1, <1>3, <1>4, <1>5, <1>10 DEF Markers
  <2>3. k = [k0 EXCEPT !.kept = markerOn] /\ markerOn \in BOOLEAN
    BY <2>1, <1>1, <1>9, MarkTypesAre
  <2>4. QED
    BY <2>2, <2>3 DEF Markers
<1>12. /\ marker' = [marker EXCEPT ![t] = r]
       /\ marks' = IF ok THEN Append(marks, k) ELSE marks
       /\ UNCHANGED <<domainVars, markerOn, gMarkId, contexts, hostBase, deviceBase, traces, deviceContexts, reader, ranges>>
  BY <1>2, <1>6, <1>9 DEF RecordsMark, Delivers
<1>13. \A u \in MarkThreads : marker'[u] = IF u = t THEN r ELSE marker[u]
  BY <1>1, <1>12, MarkTypesAre
<1>14. marks' \in Seq(Markers) /\ ToSet(marks) \subseteq ToSet(marks') /\ ToSet(marks') \subseteq ToSet(marks) \cup {k} /\ (ok => k \in ToSet(marks'))
  <2>1. marks \in Seq(Markers)
    BY <1>1, MarkTypesAre
  <2>2. Append(marks, k) \in Seq(Markers) /\ ToSet(Append(marks, k)) = ToSet(marks) \cup {k}
    BY <2>1, <1>11, Added
  <2>3. QED
    BY <2>1, <2>2, <1>12
<1>15. /\ \A u \in MarkThreads : /\ Starting(u)' <=> Starting(u)
                                 /\ Ending(u)' => Ending(u) /\ u # t
                                 /\ u # t => marker'[u] = marker[u]
       /\ (Starting(t) <=> m.flag = "start") /\ (Ending(t) <=> m.flag = "end") /\ marker'[t] = r
  BY <1>2, <1>4, <1>8, <1>13 DEF Starting, Ending
<1>16. /\ \A u \in MarkThreads : Starting(u) => marker'[u].id = marker[u].id
       /\ \A y : /\ HcclOpen(y)' <=> HcclOpen(y)
                 /\ ClientOpen(y)' <=> ClientOpen(y)
                 /\ Open(y)' <=> Open(y)
  <2>1. \A u \in MarkThreads : Starting(u) => marker'[u].id = marker[u].id
    BY <1>2, <1>3, <1>8, <1>15
  <2>2. \A y : HcclOpen(y)' <=> HcclOpen(y)
    BY DEF HcclOpen, Wrapping, hcclVars
  <2>3. \A y : ClientOpen(y)' <=> ClientOpen(y)
    BY <2>1, <1>12, <1>15 DEF ClientOpen
  <2>4. QED
    BY <2>1, <2>2, <2>3 DEF Open
<1>17. m.flag = "start" => /\ Open(x) /\ x \notin DOMAIN contexts
                           /\ \A u \in MarkThreads \ {t} : Starting(u) => marker[u].id # x
                           /\ \A u \in MarkThreads : Ending(u) => marker[u].id # x
                           /\ \A q \in ToSet(marks) : q.id = x => q.flag # "end"
                           /\ \A q \in ToSet(marks) : ~HostStart(q, x)
                           /\ m.clock \in {0, m.base}
  <2>1. SUFFICES ASSUME m.flag = "start"
                 PROVE  /\ Open(x) /\ x \notin DOMAIN contexts
                        /\ \A u \in MarkThreads \ {t} : Starting(u) => marker[u].id # x
                        /\ \A u \in MarkThreads : Ending(u) => marker[u].id # x
                        /\ \A q \in ToSet(marks) : q.id = x => q.flag # "end"
                        /\ \A q \in ToSet(marks) : ~HostStart(q, x)
                        /\ m.clock \in {0, m.base}
    OBVIOUS
  <2>2. Starting(t) /\ Open(x)
    BY <2>1, <1>2, <1>3, <1>15 DEF Open, ClientOpen
  <2>3. x \notin DOMAIN contexts /\ \A u \in MarkThreads \ {t} : Starting(u) => marker[u].id # x
    BY <2>2, <1>1, <1>2, <1>3 DEF MarksRest, OneHolder
  <2>4. /\ \A u \in MarkThreads : Ending(u) => marker[u].id # x
        /\ \A q \in ToSet(marks) : q.id = x => q.flag # "end"
    BY <2>2, <1>1, <1>5 DEF MarksRest, OpenNotEnded
  <2>5. (\A q \in ToSet(marks) : ~HostStart(q, x)) /\ m.clock \in {0, m.base}
    BY <2>2, <1>1, <1>2, <1>3, <1>4 DEF MarksRest, HostClocks
  <2>6. QED
    BY <2>2, <2>3, <2>4, <2>5
<1>18. m.flag = "end" => /\ \A y \in Given : Open(y) => y # x
                         /\ \A u \in MarkThreads \ {t} : Ending(u) => marker[u].id # x
                         /\ \A q \in ToSet(marks) : ~(q.source = "host" /\ q.flag = "end" /\ q.id = x)
                         /\ Fits(m.base, x)
                         /\ \E q \in ToSet(marks) : HostStart(q, x)
  <2>1. SUFFICES ASSUME m.flag = "end"
                 PROVE  /\ \A y \in Given : Open(y) => y # x
                        /\ \A u \in MarkThreads \ {t} : Ending(u) => marker[u].id # x
                        /\ \A q \in ToSet(marks) : ~(q.source = "host" /\ q.flag = "end" /\ q.id = x)
                        /\ Fits(m.base, x)
                        /\ \E q \in ToSet(marks) : HostStart(q, x)
    OBVIOUS
  <2>2. Ending(t)
    BY <2>1, <1>15
  <2>3. \A y \in Given : Open(y) => y # x
    BY <2>2, <1>1, <1>2, <1>3 DEF MarksRest, OpenNotEnded
  <2>4. \A u \in MarkThreads \ {t} : Ending(u) => marker[u].id # x
    BY <2>2, <1>1, <1>2, <1>3 DEF MarksRest, OneHolder
  <2>5. /\ \A q \in ToSet(marks) : ~(q.source = "host" /\ q.flag = "end" /\ q.id = x)
        /\ Fits(m.base, x)
    BY <2>2, <1>1, <1>2, <1>3 DEF MarksRest, HostClocks
  <2>6. x \in ranges
    BY <2>1, <1>1, <1>2, <1>3, <1>4 DEF MarksRest, HostClocks
  <2>7. QED
    BY <2>3, <2>4, <2>5, <2>6, <1>1 DEF MarksRest, HostClocks
<1>19. MarkTypes'
  <2>1. gMarkId' \in 0 .. MaxMarks /\ hostBase' \in Bases /\ ranges' \subseteq MarkIds
    BY <1>1, <1>12, MarkTypesAre
  <2>2. failures' \in 0 .. MaxFailures
    BY <1>1, FailuresBounded DEF RecordsMark
  <2>3. /\ DOMAIN contexts' \subseteq MarkIds /\ \A i \in DOMAIN contexts' : contexts'[i] \in [device: BOOLEAN, base: Bases]
        /\ contexts' = [y \in DOMAIN contexts' |-> contexts'[y]]
    BY <1>1, <1>12, MarkTypesAre DEF MarkTypes
  <2>4. traces' \in Seq([id: MarkIds, flag: Flags])
    BY <1>1, <1>12, MarkTypesAre
  <2>5. r.handle <= Len(domains)
    <3>1. Len(domains) \in Nat /\ m.handle <= Len(domains)
      BY <1>1, <1>2, MarkTypesAre, LenProperties DEF MarkTypes
    <3>2. QED
      BY <3>1, <1>8
  <2>6. QED
    BY <1>1, <1>7, <1>12, <1>14, <2>1, <2>2, <2>3, <2>4, <2>5, MarkerTypes
<1>20. NamesTell'
  <2>1. r.muted => r.handle # 0 /\ domains[r.handle].name # r.asked
    BY <1>1, <1>2, <1>8 DEF NamesTell
  <2>2. QED
    BY <2>1, <1>1, <1>12, MarkerNames
<1>21. Given' = Given
  BY <1>12 DEF Given
<1>22. IdsGivenOut'
  <2>1. \A q \in ToSet(marks') : q.id \in Given
    BY <1>1, <1>5, <1>11, <1>14 DEF IdsGivenOut
  <2>2. \A u \in MarkThreads : marker'[u].pc \in {"record", "context"} => marker'[u].id \in Given
    BY <1>1, <1>5, <1>8, <1>13 DEF IdsGivenOut
  <2>3. QED
    BY <2>1, <2>2, <1>1, <1>12, <1>21 DEF IdsGivenOut, hcclVars, Wrapping
<1>23. OneHolder'
  <2>1. /\ \A u, v \in MarkThreads : Starting(u)' /\ Starting(v)' /\ u # v => marker'[u].id # marker'[v].id
        /\ \A u \in MarkThreads : Starting(u)' => marker'[u].id \notin DOMAIN contexts'
    BY <1>1, <1>12, <1>15, <1>16 DEF MarksRest, OneHolder
  <2>2. \A u, v \in MarkThreads : Ending(u)' /\ Ending(v)' /\ u # v => marker'[u].id # marker'[v].id
    BY <1>1, <1>15 DEF MarksRest, OneHolder
  <2>3. \A u, v \in HcclThreads : Wrapping(u)' /\ Wrapping(v)' /\ u # v => hccl'[u].id # hccl'[v].id
    BY <1>1 DEF MarksRest, OneHolder, hcclVars, Wrapping
  <2>4. \A y \in Given' : ClientOpen(y)' => ~HcclOpen(y)' /\ y \notin innerMarkIds'
    BY <1>1, <1>16, <1>21 DEF MarksRest, OneHolder, hcclVars
  <2>5. QED
    BY <2>1, <2>2, <2>3, <2>4 DEF OneHolder
<1>24. OpenNotEnded'
  <2>1. ASSUME NEW y \in Given, Open(y)'
        PROVE  /\ Trace(y, "end") \notin ToSet(traces) /\ Trace(y, "instantaneous") \notin ToSet(traces)
               /\ \A q \in ToSet(marks') : q.id = y => q.flag # "end" /\ (q.source = "device" => q.flag = "start")
               /\ \A q \in ToSet(hcclReports) : q.op.id # y
               /\ y \notin told
               /\ \A u \in MarkThreads : Ending(u)' => marker'[u].id # y
    <3>1. Open(y)
      BY <2>1, <1>16
    <3>2. \A q \in ToSet(marks) : q.id = y => q.flag # "end" /\ (q.source = "device" => q.flag = "start")
      BY <3>1, <1>1 DEF MarksRest, OpenNotEnded
    <3>3. k.id = y => k.flag # "end" /\ (k.source = "device" => k.flag = "start")
      BY <3>1, <1>11, <1>18
    <3>4. \A u \in MarkThreads : Ending(u)' => marker'[u].id # y
      BY <3>1, <1>1, <1>15 DEF MarksRest, OpenNotEnded
    <3>5. QED
      BY <3>1, <3>2, <3>3, <3>4, <1>1, <1>14 DEF MarksRest, OpenNotEnded
  <2>2. QED
    BY <2>1, <1>12, <1>21 DEF OpenNotEnded, hcclVars, Trace
<1>25. TracesOrdered' /\ DeviceClocks'
  <2>1. \A q \in ToSet(marks') : q.source = "device" => q \in ToSet(marks)
    BY <1>11, <1>14
  <2>2. \A y \in Given : Open(y)' => Open(y)
    BY <1>16
  <2>3. QED
    BY <2>1, <2>2, <1>1, <1>12, DeviceUntold DEF hcclVars
<1>26. HostClocks'
  <2>1. \A y : (\A q \in ToSet(marks') : HostStart(q, y) => q \in ToSet(marks) \/ (q = k /\ m.flag = "start" /\ y = x))
    BY <1>11, <1>14 DEF HostStart
  <2>2. \A b, y : Fits(b, y) /\ (y # x \/ m.flag # "start") => \A q \in ToSet(marks') : HostStart(q, y) => b \in {0, q.base}
    BY <2>1 DEF Fits
  <2>3. \A y : (\E q \in ToSet(marks) : HostStart(q, y)) => \E q \in ToSet(marks') : HostStart(q, y)
    BY <1>14
  <2>4. ASSUME NEW u \in MarkThreads
        PROVE  /\ Starting(u)' => /\ marker'[u].clock \in {0, marker'[u].base}
                                 /\ \A q \in ToSet(marks') : HostStart(q, marker'[u].id) => marker'[u].clock \in {0, q.base}
               /\ Starting(u)' /\ marker'[u].pc = "record" => \A q \in ToSet(marks') : ~HostStart(q, marker'[u].id)
               /\ Starting(u)' /\ marker'[u].pc = "context" /\ marker'[u].taken => \E q \in ToSet(marks') : HostStart(q, marker'[u].id)
               /\ marker'[u].pc # "idle" /\ marker'[u].flag = "end" => marker'[u].id \in ranges
               /\ Ending(u)' => /\ \A q \in ToSet(marks') : HostStart(q, marker'[u].id) => marker'[u].base \in {0, q.base}
                                /\ \A q \in ToSet(marks') : ~(q.source = "host" /\ q.flag = "end" /\ q.id = marker'[u].id)
               /\ marker'[u].pc \in {"idle", "name", "report", "record", "context"}
               /\ marker'[u].pc = "context" => marker'[u].flag = "start"
    <3>1. CASE u = t
      <4>1. CASE m.flag = "start"
        <5>1. marker'[u].pc = "context" /\ marker'[u].flag = "start" /\ marker'[u].id = x /\ marker'[u].clock = m.clock
              /\ marker'[u].base = m.base /\ marker'[u].taken = ok /\ ~Ending(u)'
          BY <3>1, <4>1, <1>8, <1>15
        <5>2. \A q \in ToSet(marks') : HostStart(q, x) => q = k
          BY <4>1, <1>14, <1>17
        <5>3. ok => HostStart(k, x) /\ k \in ToSet(marks')
          BY <4>1, <1>11, <1>14 DEF HostStart
        <5>4. QED
          BY <4>1, <5>1, <5>2, <5>3, <1>11, <1>17
      <4>2. CASE m.flag # "start"
        <5>1. marker'[u].pc = "idle" /\ ~Starting(u)' /\ ~Ending(u)'
          BY <3>1, <4>2, <1>8, <1>15
        <5>2. QED
          BY <5>1
      <4>3. QED
        BY <4>1, <4>2
    <3>2. CASE u # t
      <4>1. marker'[u] = marker[u] /\ (Starting(u)' <=> Starting(u)) /\ (Ending(u)' => Ending(u))
        BY <3>2, <1>15
      <4>2. /\ Starting(u) => /\ marker[u].clock \in {0, marker[u].base} /\ Fits(marker[u].clock, marker[u].id)
            /\ Starting(u) /\ marker[u].pc = "record" => \A q \in ToSet(marks) : ~HostStart(q, marker[u].id)
            /\ Starting(u) /\ marker[u].pc = "context" /\ marker[u].taken => \E q \in ToSet(marks) : HostStart(q, marker[u].id)
            /\ marker[u].pc # "idle" /\ marker[u].flag = "end" => marker[u].id \in ranges
            /\ Ending(u) => /\ Fits(marker[u].base, marker[u].id)
                            /\ \A q \in ToSet(marks) : ~(q.source = "host" /\ q.flag = "end" /\ q.id = marker[u].id)
            /\ marker[u].pc \in {"idle", "name", "report", "record", "context"}
            /\ marker[u].pc = "context" => marker[u].flag = "start"
        BY <1>1 DEF MarksRest, HostClocks
      <4>3. Starting(u) \/ Ending(u) => marker[u].id # x \/ m.flag # "start"
        BY <3>2, <1>17
      <4>4. Ending(u) => marker[u].id # x \/ m.flag # "end"
        BY <3>2, <1>18
      <4>5. Starting(u) => \A q \in ToSet(marks') : HostStart(q, marker[u].id) => marker[u].clock \in {0, q.base}
        BY <4>2, <4>3, <2>2
      <4>6. Starting(u) /\ marker[u].pc = "record" => \A q \in ToSet(marks') : ~HostStart(q, marker[u].id)
        BY <4>2, <4>3, <2>1
      <4>7. Ending(u) => /\ \A q \in ToSet(marks') : HostStart(q, marker[u].id) => marker[u].base \in {0, q.base}
                         /\ \A q \in ToSet(marks') : ~(q.source = "host" /\ q.flag = "end" /\ q.id = marker[u].id)
        BY <4>2, <4>3, <4>4, <2>2, <1>11, <1>14
      <4>8. QED
        BY <4>1, <4>2, <4>5, <4>6, <4>7, <2>3
    <3>3. QED
      BY <3>1, <3>2
  <2>5. \A y \in DOMAIN contexts : \A q \in ToSet(marks') : HostStart(q, y) => contexts[y].base \in {0, q.base}
    <3>1. \A y \in DOMAIN contexts : Fits(contexts[y].base, y)
      BY <1>1 DEF MarksRest, HostClocks
    <3>2. QED
      BY <3>1, <2>2, <1>17
  <2>6. \A y \in ranges : \E q \in ToSet(marks') : HostStart(q, y)
    BY <2>3, <1>1 DEF MarksRest, HostClocks
  <2>7. QED
    BY <2>4, <2>5, <2>6, <1>12 DEF HostClocks, Fits, HostStart
<1>27. OperationsKept' /\ ReaderTells'
  <2>1. OperationsKept'
    BY <1>1, <1>12 DEF MarksRest, OperationsKept, hcclVars, Wrapping, Trace
  <2>2. \A q \in ToSet(marks') : q.source = "device" => q \in ToSet(marks)
    BY <1>11, <1>14
  <2>3. QED
    BY <2>1, <2>2, <1>1, <1>12 DEF MarksRest, ReaderTells, hcclVars
<1>28. RangesPaired' /\ OneClock' /\ DisabledSilent'
  <2>1. RangesPaired /\ OneClock /\ DisabledSilent
    BY <1>1 DEF MarksRest
  <2>2. CASE ok
    <3>1. k.flag = "end" => \A q \in ToSet(marks) : q.flag = "end" /\ q.id = k.id => q.source # k.source
      BY <1>11, <1>18
    <3>2. k.flag = "end" /\ k.source = "host" => \E q \in ToSet(marks) : HostStart(q, k.id)
      BY <1>11, <1>18
    <3>3. k.flag = "end" => \A q \in ToSet(marks) : q.flag = "start" /\ q.id = k.id /\ q.source = k.source
                                => k.base = q.base \/ (k.source = "host" /\ k.base = 0) \/ q.base = 0
      BY <1>11, <1>18 DEF Fits, HostStart
    <3>4. k.flag = "start" => \A q \in ToSet(marks) : q.id = k.id /\ q.source = k.source => q.flag # "end"
      BY <1>11, <1>17
    <3>5. k.muted /\ k.kept /\ k.flag # "end" => k.name # k.asked
      BY <1>10, <1>11
    <3>6. marks' = Append(marks, k)
      BY <2>2, <1>12
    <3>7. QED
      BY <2>1, <3>1, <3>2, <3>3, <3>4, <3>5, <3>6, <1>1, <1>11, MarkAdded
  <2>3. CASE ~ok
    BY <2>1, <2>3, <1>12 DEF RangesPaired, OneClock, DisabledSilent
  <2>4. QED
    BY <2>2, <2>3
<1>29. HcclOwn' /\ HcclComplete'
  BY <1>1, <1>12 DEF MarksRest, HcclOwn, HcclComplete, hcclVars, OpKey
<1>30. QED
  BY <1>19, <1>20, <1>22, <1>23, <1>24, <1>25, <1>26, <1>27, <1>28, <1>29, MarkParts DEF MarksRest

\* A range's context is kept, and its id returned if its start was recorded.
LEMMA KeepsRangeKeeps ==
    ASSUME MarksIInv, NEW t \in MarkThreads, KeepsRange(t), UNCHANGED hcclVars
    PROVE  MarksIInv'
<1>1. MarkTypes /\ NamesTell /\ MarksRest /\ IdsGivenOut
  BY MarkParts DEF MarksRest
<1>2. PICK m : m = marker[t]
  OBVIOUS
<1>3. PICK x : x = m.id
  OBVIOUS
<1>4. /\ m \in [pc: {"idle", "name", "report", "record", "context"}, flag: Flags, asked: Asked, device: BOOLEAN,
             id: {0} \cup MarkIds, base: Bases, clock: Bases, handle: Nat, taken: BOOLEAN, muted: BOOLEAN]
      /\ m.pc = "context" /\ m.flag = "start"
  <2>1. m.pc = "context"
    BY <1>2 DEF KeepsRange
  <2>2. m.flag = "start"
    BY <2>1, <1>1, <1>2 DEF MarksRest, HostClocks
  <2>3. QED
    BY <2>1, <2>2, <1>1, <1>2, MarkTypesAre
<1>5. x \in Given /\ x \in MarkIds
  BY <1>1, <1>2, <1>3, <1>4, GivenMarks DEF IdsGivenOut
<1>6. PICK r : r = IdleMarker
  OBVIOUS
<1>7. /\ r \in [pc: {"idle", "name", "report", "record", "context"}, flag: Flags, asked: Asked, device: BOOLEAN,
             id: {0} \cup MarkIds, base: Bases, clock: Bases, handle: Nat, taken: BOOLEAN, muted: BOOLEAN]
      /\ r.pc = "idle" /\ ~r.muted /\ r.handle = 0
  BY <1>6 DEF IdleMarker, Flags, Asked, Bases
<1>8. PICK c : c = [device |-> m.device, base |-> m.clock]
  OBVIOUS
<1>9. /\ marker' = [marker EXCEPT ![t] = r]
      /\ contexts' = PutAt(contexts, x, c)
      /\ ranges' = IF m.taken THEN ranges \cup {x} ELSE ranges
      /\ UNCHANGED <<domainVars, markerOn, gMarkId, hostBase, deviceBase, traces, deviceContexts, reader, marks, failures>>
  BY <1>2, <1>3, <1>6, <1>8 DEF KeepsRange
<1>10. /\ DOMAIN contexts' = DOMAIN contexts \cup {x} /\ contexts'[x] = c
       /\ \A y \in DOMAIN contexts : y # x => contexts'[y] = contexts[y]
       /\ contexts' = [y \in DOMAIN contexts' |-> contexts'[y]]
  BY <1>9 DEF PutAt
<1>11. \A u \in MarkThreads : marker'[u] = IF u = t THEN r ELSE marker[u]
  BY <1>1, <1>9, MarkTypesAre
<1>12. /\ \A u \in MarkThreads : /\ Starting(u)' <=> (Starting(u) /\ u # t)
                                 /\ Ending(u)' <=> Ending(u)
                                 /\ Ending(u) => u # t
                                 /\ u # t => marker'[u] = marker[u]
       /\ Starting(t) /\ marker'[t] = r
  BY <1>2, <1>4, <1>7, <1>11 DEF Starting, Ending
<1>13. /\ Open(x) /\ x \notin DOMAIN contexts
       /\ \A u \in MarkThreads \ {t} : Starting(u) => marker[u].id # x
       /\ Fits(m.clock, x)
       /\ m.taken => \E q \in ToSet(marks) : HostStart(q, x)
  <2>1. Open(x)
    BY <1>2, <1>3, <1>12 DEF Open, ClientOpen
  <2>2. x \notin DOMAIN contexts /\ \A u \in MarkThreads \ {t} : Starting(u) => marker[u].id # x
    BY <1>1, <1>2, <1>3, <1>12 DEF MarksRest, OneHolder
  <2>3. Fits(m.clock, x) /\ (m.taken => \E q \in ToSet(marks) : HostStart(q, x))
    BY <1>1, <1>2, <1>3, <1>4, <1>12 DEF MarksRest, HostClocks
  <2>4. QED
    BY <2>1, <2>2, <2>3
<1>14. \A y : /\ HcclOpen(y)' <=> HcclOpen(y)
              /\ ClientOpen(y)' <=> ClientOpen(y)
              /\ Open(y)' <=> Open(y)
  <2>1. \A y : HcclOpen(y)' <=> HcclOpen(y)
    BY DEF HcclOpen, Wrapping, hcclVars
  <2>2. \A y : ClientOpen(y)' <=> ClientOpen(y)
    BY <1>2, <1>3, <1>10, <1>12 DEF ClientOpen
  <2>3. QED
    BY <2>1, <2>2 DEF Open
<1>15. MarkTypes'
  <2>1. gMarkId' \in 0 .. MaxMarks /\ hostBase' \in Bases /\ ranges' \subseteq MarkIds /\ failures' \in 0 .. MaxFailures
    BY <1>1, <1>5, <1>9, MarkTypesAre
  <2>2. DOMAIN contexts' \subseteq MarkIds /\ \A i \in DOMAIN contexts' : contexts'[i] \in [device: BOOLEAN, base: Bases]
    BY <1>1, <1>4, <1>5, <1>8, <1>10, MarkTypesAre
  <2>3. traces' \in Seq([id: MarkIds, flag: Flags]) /\ marks' \in Seq(Markers)
    BY <1>1, <1>9, MarkTypesAre
  <2>4. r.handle <= Len(domains)
    BY <1>1, <1>7, MarkTypesAre, LenProperties
  <2>5. QED
    BY <1>1, <1>7, <1>9, <1>10, <2>1, <2>2, <2>3, <2>4, MarkerTypes
<1>16. NamesTell'
  BY <1>1, <1>7, <1>9, MarkerNames
<1>17. Given' = Given
  BY <1>9 DEF Given
<1>18. IdsGivenOut'
  <2>1. \A u \in MarkThreads : marker'[u].pc \in {"record", "context"} => marker'[u].id \in Given
    BY <1>1, <1>7, <1>11 DEF IdsGivenOut
  <2>2. DOMAIN contexts' \subseteq Given
    BY <1>1, <1>5, <1>10 DEF IdsGivenOut
  <2>3. QED
    BY <2>1, <2>2, <1>1, <1>9, <1>17 DEF IdsGivenOut, hcclVars, Wrapping
<1>19. OneHolder'
  <2>1. /\ \A u, v \in MarkThreads : Starting(u)' /\ Starting(v)' /\ u # v => marker'[u].id # marker'[v].id
        /\ \A u, v \in MarkThreads : Ending(u)' /\ Ending(v)' /\ u # v => marker'[u].id # marker'[v].id
    BY <1>1, <1>12 DEF MarksRest, OneHolder
  <2>2. \A u \in MarkThreads : Starting(u)' => marker'[u].id \notin DOMAIN contexts'
    BY <1>1, <1>10, <1>12, <1>13 DEF MarksRest, OneHolder
  <2>3. \A u, v \in HcclThreads : Wrapping(u)' /\ Wrapping(v)' /\ u # v => hccl'[u].id # hccl'[v].id
    BY <1>1 DEF MarksRest, OneHolder, hcclVars, Wrapping
  <2>4. \A y \in Given' : ClientOpen(y)' => ~HcclOpen(y)' /\ y \notin innerMarkIds'
    BY <1>1, <1>14, <1>17 DEF MarksRest, OneHolder, hcclVars
  <2>5. QED
    BY <2>1, <2>2, <2>3, <2>4 DEF OneHolder
<1>20. OpenNotEnded'
  <2>1. \A y \in Given : Open(y)' => \A u \in MarkThreads : Ending(u)' => marker'[u].id # y
    BY <1>1, <1>12, <1>14 DEF MarksRest, OpenNotEnded
  <2>2. QED
    BY <2>1, <1>1, <1>9, <1>14, <1>17 DEF MarksRest, OpenNotEnded, hcclVars, Trace
<1>21. TracesOrdered' /\ DeviceClocks'
  BY <1>1, <1>9, <1>14, DeviceUntold DEF hcclVars
<1>22. HostClocks'
  <2>1. ASSUME NEW u \in MarkThreads
        PROVE  /\ Starting(u)' => marker'[u].clock \in {0, marker'[u].base} /\ Fits(marker'[u].clock, marker'[u].id)
               /\ Starting(u)' /\ marker'[u].pc = "record" => \A q \in ToSet(marks) : ~HostStart(q, marker'[u].id)
               /\ Starting(u)' /\ marker'[u].pc = "context" /\ marker'[u].taken => \E q \in ToSet(marks) : HostStart(q, marker'[u].id)
               /\ marker'[u].pc # "idle" /\ marker'[u].flag = "end" => marker'[u].id \in ranges'
               /\ Ending(u)' => /\ Fits(marker'[u].base, marker'[u].id)
                                /\ \A q \in ToSet(marks) : ~(q.source = "host" /\ q.flag = "end" /\ q.id = marker'[u].id)
               /\ marker'[u].pc \in {"idle", "name", "report", "record", "context"}
               /\ marker'[u].pc = "context" => marker'[u].flag = "start"
    <3>1. CASE u = t
      BY <3>1, <1>7, <1>12
    <3>2. CASE u # t
      <4>1. ranges \subseteq ranges'
        BY <1>9
      <4>2. QED
        BY <3>2, <4>1, <1>1, <1>12 DEF MarksRest, HostClocks
    <3>3. QED
      BY <3>1, <3>2
  <2>2. \A y \in DOMAIN contexts' : Fits(contexts'[y].base, y)
    <3>1. c.base = m.clock
      BY <1>8
    <3>2. QED
      BY <3>1, <1>1, <1>10, <1>13 DEF MarksRest, HostClocks
  <2>3. \A y \in ranges' : \E q \in ToSet(marks) : HostStart(q, y)
    BY <1>1, <1>9, <1>13 DEF MarksRest, HostClocks
  <2>4. QED
    BY <2>1, <2>2, <2>3, <1>9 DEF HostClocks, Fits, HostStart
<1>23. OperationsKept' /\ ReaderTells'
  BY <1>1, <1>9 DEF MarksRest, OperationsKept, ReaderTells, hcclVars, Wrapping, Trace
<1>24. RangesPaired' /\ OneClock' /\ DisabledSilent' /\ HcclOwn' /\ HcclComplete'
  BY <1>1, <1>9 DEF MarksRest, RangesPaired, OneClock, DisabledSilent, HcclOwn, HcclComplete, hcclVars, OpKey
<1>25. QED
  BY <1>15, <1>16, <1>18, <1>19, <1>20, <1>21, <1>22, <1>23, <1>24, MarkParts DEF MarksRest

\* The consumer takes the first mark up: the reading kept for its range, if there is one, goes with it.
LEMMA DeviceReadsAnyKeeps ==
    ASSUME MarksIInv, DeviceReadsAny
    PROVE  MarksIInv'
<1>1. MarkTypes /\ NamesTell /\ MarksRest /\ IdsGivenOut /\ TracesOrdered /\ DeviceClocks
  BY MarkParts DEF MarksRest
<1>2. PICK h : h = Head(traces)
  OBVIOUS
<1>3. PICK x : x = h.id
  OBVIOUS
<1>4. PICK inner : inner = (x \in innerMarkIds) /\ inner \in BOOLEAN
  <2>1. PICK inner : inner = (x \in innerMarkIds)
    OBVIOUS
  <2>2. inner \in BOOLEAN
    BY <2>1
  <2>3. QED
    BY <2>1, <2>2
<1>5. reader.pc = "idle" /\ traces # <<>> /\ traces \in Seq([id: MarkIds, flag: Flags])
  BY <1>1, MarkTypesAre DEF DeviceReadsAny, DeviceReads
<1>6. PICK base : base = IF x \in DOMAIN deviceContexts THEN deviceContexts[x] ELSE deviceBase
  OBVIOUS
<1>7. reader' = [pc |-> "deliver", base |-> base, inner |-> inner]
  BY <1>2, <1>3, <1>4, <1>6 DEF DeviceReadsAny, DeviceReads, DeviceBaseOf
<1>8. /\ deviceContexts' = IF x \in DOMAIN deviceContexts THEN DropAt(deviceContexts, x)
                           ELSE IF deviceBase # 0 /\ h.flag # "instantaneous" THEN PutAt(deviceContexts, x, deviceBase) ELSE deviceContexts
      /\ early' = IF h.flag = "start" /\ x \notin innerMarkIds THEN early \cup {x} ELSE early
      /\ UNCHANGED <<domainVars, markerOn, marker, gMarkId, contexts, hostBase, deviceBase, traces, marks, ranges, failures>>
      /\ UNCHANGED <<hcclOn, hccl, innerMarkIds, markId2HcclOp, counts, hcclReports, told>>
  BY <1>2, <1>3 DEF DeviceReadsAny, DeviceReads, KeepsBase
<1>9. /\ h \in ToSet(traces) /\ h \in [id: MarkIds, flag: Flags] /\ x \in Given /\ x \in MarkIds
      /\ Unread = ToSet(traces) /\ Unread' \subseteq Unread
      /\ \A e \in Unread' : e.id = x => h.flag = "start" /\ e.flag = "end"
  <2>1. \A S : \A s \in Seq(S) : s # <<>> =>
            /\ Head(s) = s[1] /\ Head(s) \in S /\ 1 \in DOMAIN s /\ DOMAIN s = 1 .. Len(s) /\ Len(s) \in Nat \ {0}
            /\ ToSet(Tail(s)) = {s[i] : i \in DOMAIN s \ {1}}
            /\ ToSet(s) = {Head(s)} \cup ToSet(Tail(s))
    BY FirstTaken
  <2>2. /\ h = traces[1] /\ h \in [id: MarkIds, flag: Flags] /\ 1 \in DOMAIN traces /\ DOMAIN traces = 1 .. Len(traces)
        /\ Len(traces) \in Nat \ {0} /\ h \in ToSet(traces)
        /\ ToSet(Tail(traces)) = {traces[i] : i \in DOMAIN traces \ {1}} /\ ToSet(Tail(traces)) \subseteq ToSet(traces)
    BY <2>1, <1>2, <1>5
  <2>3. Unread = ToSet(traces)
    BY <1>5 DEF Unread
  <2>4. Unread' = {traces[i] : i \in DOMAIN traces \ {1}}
    BY <1>7, <1>8 DEF Unread
  <2>5. \A i \in DOMAIN traces \ {1} : 1 < i
    BY <2>2
  <2>6. \A e \in Unread' : e.id = x => h.flag = "start" /\ e.flag = "end"
    BY <2>2, <2>4, <2>5, <1>1, <1>3 DEF TracesOrdered
  <2>7. x \in Given /\ x \in MarkIds
    BY <2>2, <1>1, <1>3, GivenMarks DEF IdsGivenOut
  <2>8. QED
    BY <2>2, <2>3, <2>4, <2>6, <2>7
<1>10. base \in Bases /\ reader' \in [pc: {"idle", "deliver"}, base: Bases, inner: BOOLEAN]
  <2>1. base \in Bases
    BY <1>1, <1>6, MarkTypesAre DEF Bases
  <2>2. QED
    BY <2>1, <1>4, <1>7
<1>11. /\ DOMAIN deviceContexts' \subseteq DOMAIN deviceContexts \cup {x}
       /\ \A y \in DOMAIN deviceContexts : y # x => y \in DOMAIN deviceContexts' /\ deviceContexts'[y] = deviceContexts[y]
       /\ x \in DOMAIN deviceContexts => x \notin DOMAIN deviceContexts'
       /\ x \notin DOMAIN deviceContexts => IF deviceBase # 0 /\ h.flag # "instantaneous"
                                            THEN x \in DOMAIN deviceContexts' /\ deviceContexts'[x] = deviceBase
                                            ELSE x \notin DOMAIN deviceContexts'
       /\ deviceContexts' = [y \in DOMAIN deviceContexts' |-> deviceContexts'[y]]
  <2>1. CASE x \in DOMAIN deviceContexts
    BY <2>1, <1>8 DEF DropAt
  <2>2. CASE x \notin DOMAIN deviceContexts
    <3>1. deviceContexts = [y \in DOMAIN deviceContexts |-> deviceContexts[y]]
      BY <1>1 DEF MarkTypes
    <3>2. QED
      BY <2>2, <3>1, <1>8 DEF PutAt
  <2>3. QED
    BY <2>1, <2>2
<1>12. MarkTypes'
  <2>1. DomainsTypeOK'
    BY <1>1, <1>8 DEF domainVars, MarkTypes, HcclTypeOK, MarkerTypeOK, DomainsTypeOK
  <2>2. DOMAIN deviceContexts' \subseteq MarkIds /\ \A y \in DOMAIN deviceContexts' : deviceContexts'[y] \in 1 .. MaxSyncs
    <3>1. deviceBase # 0 => deviceBase \in 1 .. MaxSyncs
      BY <1>1, MarkTypesAre, MarkerAssumption DEF MarkTypes, Bases
    <3>2. QED
      BY <3>1, <1>1, <1>9, <1>11, MarkTypesAre
  <2>3. MarkerTypeOK'
    BY <2>1, <2>2, <1>1, <1>8, <1>10 DEF MarkTypes, HcclTypeOK, MarkerTypeOK
  <2>4. early' \subseteq MarkIds
    BY <1>1, <1>8, <1>9, MarkTypesAre
  <2>5. HcclTypeOK'
    BY <2>3, <2>4, <1>1, <1>8 DEF MarkTypes, HcclTypeOK
  <2>6. QED
    BY <2>5, <1>1, <1>8, <1>11 DEF MarkTypes, domainVars
<1>13. NamesTell'
  BY <1>1, <1>8 DEF NamesTell, domainVars
<1>14. Given' = Given
  BY <1>8 DEF Given
<1>15. /\ \A y : Open(y)' <=> Open(y)
       /\ early \subseteq early'
  BY <1>8 DEF Open, ClientOpen, HcclOpen, Starting, Wrapping
<1>16. IdsGivenOut'
  <2>1. DOMAIN deviceContexts' \subseteq Given
    BY <1>1, <1>9, <1>11 DEF IdsGivenOut
  <2>2. QED
    BY <2>1, <1>1, <1>8, <1>14 DEF IdsGivenOut, Wrapping
<1>17. OneHolder' /\ HostClocks'
  BY <1>1, <1>8, <1>14 DEF MarksRest, OneHolder, HostClocks, HostStart, Fits, Starting, Ending, Wrapping, ClientOpen, HcclOpen
<1>18. OpenNotEnded'
  BY <1>1, <1>8, <1>14, <1>15 DEF MarksRest, OpenNotEnded, Trace, Ending
<1>19. TracesOrdered'
  BY <1>1, <1>5, <1>8 DEF TracesOrdered
<1>20. \A y : EndComing(y)' => EndComing(y)
  BY <1>9, <1>15 DEF EndComing, Trace
<1>21. h.flag = "end" => ~EndComing(x)'
  <2>1. SUFFICES ASSUME h.flag = "end" PROVE ~EndComing(x)'
    OBVIOUS
  <2>2. h = Trace(x, "end")
    BY <2>1, <1>1, <1>3, <1>9, ElementsAre
  <2>3. ~Open(x)
    BY <2>2, <1>1, <1>9 DEF MarksRest, OpenNotEnded
  <2>4. Trace(x, "end") \notin Unread'
    BY <2>1, <1>9 DEF Trace
  <2>5. QED
    BY <2>3, <2>4, <1>15 DEF EndComing, Trace
<1>22. \A y, b : DeviceKeeps(y, b) /\ (y # x \/ x \notin DOMAIN deviceContexts) =>
                   (b # 0 => y \in DOMAIN deviceContexts' /\ deviceContexts'[y] = b)
  BY <1>11 DEF DeviceKeeps
<1>23. DeviceClocks'
  <2>1. \A y \in DOMAIN deviceContexts' : Trace(y, "start") \notin Unread'
    <3>1. \A y \in DOMAIN deviceContexts : Trace(y, "start") \notin Unread
      BY <1>1 DEF DeviceClocks
    <3>2. Trace(x, "start") \notin Unread'
      BY <1>9 DEF Trace
    <3>3. QED
      BY <3>1, <3>2, <1>9, <1>11
  <2>2. ASSUME NEW q \in ToSet(marks), q.source = "device", q.flag = "start", EndComing(q.id)'
        PROVE  q.base # 0 => q.id \in DOMAIN deviceContexts' /\ deviceContexts'[q.id] = q.base
    <3>1. PICK y : y = q.id
      OBVIOUS
    <3>2. EndComing(y)
      BY <2>2, <3>1, <1>20
    <3>3. DeviceKeeps(y, q.base)
      BY <2>2, <3>1, <3>2, <1>1 DEF DeviceClocks
    <3>4. CASE y = x
      <4>1. h.flag = "end"
        BY <2>2, <3>1, <3>4, <1>1, <1>3, <1>9 DEF TracesOrdered
      <4>2. QED
        BY <2>2, <3>1, <3>4, <4>1, <1>21
    <3>5. CASE y # x
      BY <3>1, <3>3, <3>5, <1>22
    <3>6. QED
      BY <3>4, <3>5
  <2>3. ASSUME h.flag = "start", base # 0
        PROVE  x \in DOMAIN deviceContexts' /\ deviceContexts'[x] = base
    <3>1. h = Trace(x, "start")
      BY <2>3, <1>1, <1>3, <1>9, ElementsAre
    <3>2. x \notin DOMAIN deviceContexts
      BY <3>1, <1>1, <1>9 DEF DeviceClocks
    <3>3. QED
      BY <2>3, <3>2, <1>6, <1>11
  <2>4. ASSUME h.flag = "end", NEW q \in ToSet(marks), q.source = "device", q.flag = "start", q.id = x
        PROVE  q.base \in {0, base}
    <3>1. h = Trace(x, "end")
      BY <2>4, <1>1, <1>3, <1>9, ElementsAre
    <3>2. EndComing(x)
      BY <3>1, <1>9 DEF EndComing
    <3>3. DeviceKeeps(x, q.base)
      BY <2>4, <3>2, <1>1 DEF DeviceClocks
    <3>4. QED
      BY <3>3, <1>6 DEF DeviceKeeps
  <2>5. reader'.pc = "deliver" /\ reader'.base = base
    BY <1>7
  <2>6. \A q \in ToSet(marks) : (q.source = "device" /\ q.flag = "start" /\ EndComing(q.id)')
           => (q.base # 0 => q.id \in DOMAIN deviceContexts' /\ deviceContexts'[q.id] = q.base)
    BY <2>2
  <2>7. /\ (Head(traces).flag = "start" /\ EndComing(x)') => (base # 0 => x \in DOMAIN deviceContexts' /\ deviceContexts'[x] = base)
        /\ Head(traces).flag = "end" => \A q \in ToSet(marks) :
                (q.source = "device" /\ q.flag = "start" /\ q.id = x) => q.base \in {0, base}
    BY <2>3, <2>4, <1>2
  <2>8. Head(traces).id = x
    BY <1>2, <1>3
  <2>9. QED
    BY <2>1, <2>5, <2>6, <2>7, <2>8, <1>8 DEF DeviceClocks, DeviceKeeps
<1>24. OperationsKept'
  BY <1>1, <1>8, <1>15 DEF MarksRest, OperationsKept, Wrapping, Trace
<1>25. ReaderTells'
  <2>1. ReaderTells /\ told \subseteq innerMarkIds
    BY <1>1 DEF MarksRest, OperationsKept
  <2>2. IF reader'.inner THEN Head(traces).id \in innerMarkIds
        ELSE IF Head(traces).flag = "start" THEN Head(traces).id \in early' ELSE Head(traces).id \notin told
    <3>1. reader'.inner = inner
      BY <1>7
    <3>2. QED
      BY <2>1, <3>1, <1>2, <1>3, <1>4, <1>8
  <2>3. QED
    BY <2>1, <2>2, <1>8, <1>15 DEF ReaderTells
<1>26. RangesPaired' /\ OneClock' /\ DisabledSilent' /\ HcclOwn' /\ HcclComplete'
  BY <1>1, <1>8, <1>15 DEF MarksRest, RangesPaired, OneClock, DisabledSilent, HcclOwn, HcclComplete, OpKey
<1>27. QED
  BY <1>12, <1>13, <1>16, <1>17, <1>18, <1>19, <1>23, <1>24, <1>25, <1>26, MarkParts DEF MarksRest

\* The consumer hands a client's mark over.
LEMMA DeviceDeliversKeeps ==
    ASSUME MarksIInv, MaxMarks < OpKeys, DeviceDelivers, UNCHANGED hcclVars
    PROVE  MarksIInv'
<1>1. MarkTypes /\ NamesTell /\ MarksRest /\ IdsGivenOut /\ TracesOrdered /\ DeviceClocks /\ ReaderTells
  BY MarkParts DEF MarksRest
<1>2. PICK h : h = Head(traces)
  OBVIOUS
<1>3. PICK x : x = h.id
  OBVIOUS
<1>4. PICK base : base = reader.base
  OBVIOUS
<1>5. /\ reader.pc = "deliver" /\ ~reader.inner /\ base \in Bases
      /\ reader' = IdleReader /\ traces' = Tail(traces)
      /\ UNCHANGED <<domainVars, markerOn, marker, gMarkId, contexts, hostBase, deviceBase, deviceContexts, ranges, failures>>
  BY <1>1, <1>4, MarkTypesAre DEF DeviceDelivers
<1>6. /\ traces' \in Seq([id: MarkIds, flag: Flags]) /\ h \in [id: MarkIds, flag: Flags]
      /\ ToSet(traces) = {h} \cup ToSet(traces') /\ Unread = ToSet(traces') /\ Unread' = ToSet(traces')
      /\ \A e \in ToSet(traces') : e # h /\ (e.id = x => h.flag = "start" /\ e.flag = "end")
      /\ \A i, j \in DOMAIN traces' : i < j =>
           /\ traces'[i] # traces'[j]
           /\ traces'[i].id = traces'[j].id => traces'[i].flag = "start" /\ traces'[j].flag = "end"
  BY <1>1, <1>2, <1>3, <1>5, TracesShrink
<1>7. h \in ToSet(traces) /\ x \in Given /\ x \in MarkIds /\ h = Trace(x, h.flag)
  BY <1>1, <1>3, <1>6, GivenMarks, ElementsAre DEF IdsGivenOut
<1>8. PICK k : k = [[id |-> x, flag |-> h.flag, source |-> "device", name |-> "", asked |-> "", base |-> base, muted |-> FALSE, kept |-> TRUE]
                    EXCEPT !.kept = markerOn]
  OBVIOUS
<1>9. /\ k \in Markers
      /\ k.id = x /\ k.flag = h.flag /\ k.source = "device" /\ k.base = base /\ ~k.muted
  <2>1. PICK k0 : k0 = [id |-> x, flag |-> h.flag, source |-> "device", name |-> "", asked |-> "", base |-> base, muted |-> FALSE, kept |-> TRUE]
    OBVIOUS
  <2>2. /\ k0 \in Markers
        /\ k0.id = x /\ k0.flag = h.flag /\ k0.source = "device" /\ k0.base = base /\ ~k0.muted
    BY <2>1, <1>5, <1>6, <1>7 DEF Markers
  <2>3. k = [k0 EXCEPT !.kept = markerOn] /\ markerOn \in BOOLEAN
    BY <2>1, <1>1, <1>8, MarkTypesAre
  <2>4. QED
    BY <2>2, <2>3 DEF Markers
<1>10. marks' = Append(marks, k)
  BY <1>2, <1>3, <1>4, <1>8 DEF DeviceDelivers, Delivers, DeviceMark
<1>11. marks' \in Seq(Markers) /\ ToSet(marks') = ToSet(marks) \cup {k}
  BY <1>1, <1>9, <1>10, Added, MarkTypesAre
<1>12. /\ h.flag = "start" => x \in early
       /\ h.flag # "start" => x \notin told
  BY <1>1, <1>2, <1>3, <1>5 DEF ReaderTells
<1>13. \A q \in ToSet(marks) : q.source = "device" /\ q.id = x => h.flag = "end" /\ q.flag = "start"
  BY <1>1, <1>3, <1>7 DEF TracesOrdered
<1>14. MarkTypes'
  <2>1. DomainsTypeOK'
    BY <1>1, <1>5 DEF domainVars, MarkTypes, HcclTypeOK, MarkerTypeOK, DomainsTypeOK
  <2>2. reader' \in [pc: {"idle", "deliver"}, base: Bases, inner: BOOLEAN]
    BY <1>5 DEF IdleReader, Bases
  <2>3. MarkerTypeOK'
    BY <2>1, <2>2, <1>1, <1>5, <1>6, <1>11 DEF MarkTypes, HcclTypeOK, MarkerTypeOK
  <2>4. HcclTypeOK'
    BY <2>3, <1>1 DEF MarkTypes, HcclTypeOK, hcclVars
  <2>5. QED
    BY <2>4, <1>1, <1>5 DEF MarkTypes, domainVars, hcclVars
<1>15. NamesTell'
  BY <1>1, <1>5 DEF NamesTell, domainVars
<1>16. Given' = Given
  BY <1>5 DEF Given
<1>17. \A y : Open(y)' <=> Open(y)
  BY <1>5 DEF Open, ClientOpen, HcclOpen, Starting, Wrapping, hcclVars
<1>18. IdsGivenOut'
  BY <1>1, <1>5, <1>6, <1>7, <1>9, <1>11, <1>16 DEF IdsGivenOut, Wrapping, hcclVars
<1>19. OneHolder'
  BY <1>1, <1>5, <1>16 DEF MarksRest, OneHolder, Starting, Ending, Wrapping, ClientOpen, HcclOpen, hcclVars
<1>20. OpenNotEnded'
  <2>1. ASSUME NEW y \in Given, Open(y)
        PROVE  /\ Trace(y, "end") \notin ToSet(traces') /\ Trace(y, "instantaneous") \notin ToSet(traces')
               /\ \A q \in ToSet(marks') : q.id = y => q.flag # "end" /\ (q.source = "device" => q.flag = "start")
               /\ \A q \in ToSet(hcclReports) : q.op.id # y
               /\ y \notin told
               /\ \A u \in MarkThreads : Ending(u) => marker[u].id # y
    <3>1. /\ Trace(y, "end") \notin ToSet(traces) /\ Trace(y, "instantaneous") \notin ToSet(traces)
          /\ \A q \in ToSet(marks) : q.id = y => q.flag # "end" /\ (q.source = "device" => q.flag = "start")
          /\ \A q \in ToSet(hcclReports) : q.op.id # y
          /\ y \notin told
          /\ \A u \in MarkThreads : Ending(u) => marker[u].id # y
      BY <2>1, <1>1 DEF MarksRest, OpenNotEnded
    <3>2. k.id = y => k.flag = "start"
      BY <3>1, <1>6, <1>7, <1>9 DEF Flags
    <3>3. QED
      BY <3>1, <3>2, <1>6, <1>11
  <2>2. QED
    BY <2>1, <1>5, <1>16, <1>17 DEF OpenNotEnded, hcclVars, Trace, Ending
<1>21. TracesOrdered'
  <2>1. \A e \in ToSet(traces') :
          /\ \A q \in ToSet(marks') : q.source = "device" /\ q.id = e.id => e.flag = "end" /\ q.flag = "start"
          /\ \A r \in ToSet(hcclReports) : r.op.id # e.id
    <3>1. ASSUME NEW e \in ToSet(traces'), NEW q \in ToSet(marks'), q.source = "device", q.id = e.id
          PROVE  e.flag = "end" /\ q.flag = "start"
      <4>1. CASE q \in ToSet(marks)
        BY <3>1, <4>1, <1>1, <1>6 DEF TracesOrdered
      <4>2. CASE q = k
        BY <3>1, <4>2, <1>6, <1>9
      <4>3. QED
        BY <4>1, <4>2, <1>11
    <3>2. \A e \in ToSet(traces') : \A r \in ToSet(hcclReports) : r.op.id # e.id
      BY <1>1, <1>6 DEF TracesOrdered
    <3>3. QED
      BY <3>1, <3>2
  <2>2. reader'.pc # "deliver"
    BY <1>5 DEF IdleReader
  <2>3. QED
    BY <2>1, <2>2, <1>6 DEF TracesOrdered, hcclVars
<1>22. \A y : EndComing(y)' <=> EndComing(y)
  BY <1>6, <1>17 DEF EndComing, Trace
<1>23. DeviceClocks'
  <2>1. \A y \in DOMAIN deviceContexts : Trace(y, "start") \notin Unread'
    BY <1>1, <1>6 DEF DeviceClocks
  <2>2. ASSUME NEW q \in ToSet(marks'), q.source = "device", q.flag = "start", EndComing(q.id)'
        PROVE  DeviceKeeps(q.id, q.base)
    <3>1. PICK y : y = q.id
      OBVIOUS
    <3>2. EndComing(y)
      BY <2>2, <3>1, <1>22
    <3>3. CASE q \in ToSet(marks)
      BY <2>2, <3>1, <3>2, <3>3, <1>1 DEF DeviceClocks
    <3>4. CASE q = k
      <4>1. h.flag = "start" /\ y = x /\ q.base = base
        BY <2>2, <3>1, <3>4, <1>9
      <4>2. DeviceKeeps(x, base)
        BY <3>2, <4>1, <1>1, <1>2, <1>3, <1>4, <1>5 DEF DeviceClocks
      <4>3. QED
        BY <3>1, <4>1, <4>2
    <3>5. QED
      BY <3>3, <3>4, <1>11
  <2>3. reader'.pc # "deliver"
    BY <1>5 DEF IdleReader
  <2>4. QED
    BY <2>1, <2>2, <2>3, <1>5 DEF DeviceClocks, DeviceKeeps, Trace
<1>24. HostClocks'
  <2>1. \A y, q : q \in ToSet(marks') /\ HostStart(q, y) <=> q \in ToSet(marks) /\ HostStart(q, y)
    BY <1>9, <1>11 DEF HostStart
  <2>2. \A y : (\E q \in ToSet(marks) : HostStart(q, y)) => \E q \in ToSet(marks') : HostStart(q, y)
    BY <1>11
  <2>3. \A y, b : Fits(b, y)' <=> Fits(b, y)
    BY <2>1 DEF Fits, HostStart
  <2>4. \A q \in ToSet(marks') : q.source = "host" => q \in ToSet(marks)
    BY <1>9, <1>11
  <2>5. /\ \A y \in DOMAIN contexts : Fits(contexts[y].base, y)
        /\ \A y \in ranges : \E q \in ToSet(marks') : HostStart(q, y)
    BY <1>1, <2>2 DEF MarksRest, HostClocks
  <2>6. ASSUME NEW u \in MarkThreads
        PROVE  /\ Starting(u) => marker[u].clock \in {0, marker[u].base} /\ Fits(marker[u].clock, marker[u].id)
               /\ Starting(u) /\ marker[u].pc = "record" => \A q \in ToSet(marks') : ~HostStart(q, marker[u].id)
               /\ Starting(u) /\ marker[u].pc = "context" /\ marker[u].taken => \E q \in ToSet(marks') : HostStart(q, marker[u].id)
               /\ marker[u].pc # "idle" /\ marker[u].flag = "end" => marker[u].id \in ranges
               /\ Ending(u) => /\ Fits(marker[u].base, marker[u].id)
                               /\ \A q \in ToSet(marks') : ~(q.source = "host" /\ q.flag = "end" /\ q.id = marker[u].id)
               /\ marker[u].pc \in {"idle", "name", "report", "record", "context"}
               /\ marker[u].pc = "context" => marker[u].flag = "start"
    BY <1>1, <2>1, <2>2, <2>4 DEF MarksRest, HostClocks
  <2>7. \A u \in MarkThreads : /\ Starting(u) => \A q \in ToSet(marks') : HostStart(q, marker[u].id) => marker[u].clock \in {0, q.base}
                               /\ Ending(u) => \A q \in ToSet(marks') : HostStart(q, marker[u].id) => marker[u].base \in {0, q.base}
    BY <2>1, <2>6 DEF Fits
  <2>8. \A y \in DOMAIN contexts : \A q \in ToSet(marks') : HostStart(q, y) => contexts[y].base \in {0, q.base}
    BY <2>1, <2>5 DEF Fits
  <2>9. QED
    BY <2>5, <2>6, <2>7, <2>8, <1>5 DEF HostClocks, Fits, HostStart, Starting, Ending
<1>25. OperationsKept'
  <2>1. OperationsKept
    BY <1>1 DEF MarksRest
  <2>2. \A y : Trace(y, "start") \notin ToSet(traces') => Trace(y, "start") \notin ToSet(traces) \/ y \in early
    BY <1>6, <1>7, <1>12 DEF Trace
  <2>3. \A y \in told : Trace(y, "end") \in ToSet(traces) => Trace(y, "end") \in ToSet(traces')
    BY <1>6, <1>7, <1>12 DEF Trace
  <2>4. /\ \A u \in HcclThreads :
              (Wrapping(u) /\ hccl[u].pc # "end" /\ hccl[u].ok /\ Trace(hccl[u].id, "start") \notin ToSet(traces')) => hccl[u].id \in early
        /\ \A y \in DOMAIN markId2HcclOp :
              (y \in innerMarkIds /\ markId2HcclOp[y].start = NoStart /\ Trace(y, "start") \notin ToSet(traces')) => y \in early
        /\ \A y \in told : Trace(y, "end") \in ToSet(traces') \/ y \notin DOMAIN markId2HcclOp
    BY <2>1, <2>2, <2>3 DEF OperationsKept
  <2>5. QED
    BY <2>1, <2>4 DEF OperationsKept, hcclVars, Wrapping, Trace
<1>26. ReaderTells'
  <2>1. \A q \in ToSet(marks') : q.source = "device" => IF q.flag = "start" THEN q.id \in early ELSE q.id \notin told
    BY <1>1, <1>9, <1>11, <1>12 DEF ReaderTells
  <2>2. \A e \in ToSet(traces') : e.flag = "instantaneous" => e.id \notin innerMarkIds
    BY <1>1, <1>6 DEF ReaderTells
  <2>3. reader'.pc # "deliver"
    BY <1>5 DEF IdleReader
  <2>4. QED
    BY <2>1, <2>2, <2>3 DEF ReaderTells, hcclVars
<1>27. RangesPaired' /\ OneClock' /\ DisabledSilent'
  <2>1. RangesPaired /\ OneClock /\ DisabledSilent
    BY <1>1 DEF MarksRest
  <2>2. k.flag = "end" => \A q \in ToSet(marks) : q.flag = "end" /\ q.id = k.id => q.source # k.source
    BY <1>9, <1>13
  <2>3. k.flag = "end" /\ k.source = "host" => \E q \in ToSet(marks) : HostStart(q, k.id)
    BY <1>9
  <2>4. k.flag = "end" => \A q \in ToSet(marks) : q.flag = "start" /\ q.id = k.id /\ q.source = k.source
                                => k.base = q.base \/ (k.source = "host" /\ k.base = 0) \/ q.base = 0
    <3>1. h.flag = "end" => \A q \in ToSet(marks) : q.source = "device" /\ q.flag = "start" /\ q.id = x => q.base \in {0, base}
      BY <1>1, <1>2, <1>3, <1>4, <1>5 DEF DeviceClocks
    <3>2. QED
      BY <3>1, <1>9
  <2>5. k.flag = "start" => \A q \in ToSet(marks) : q.id = k.id /\ q.source = k.source => q.flag # "end"
    BY <1>9, <1>13
  <2>6. k.muted /\ k.kept /\ k.flag # "end" => k.name # k.asked
    BY <1>9
  <2>7. QED
    BY <2>1, <2>2, <2>3, <2>4, <2>5, <2>6, <1>1, <1>9, <1>10, MarkAdded
<1>28. HcclOwn'
  BY <1>1 DEF MarksRest, HcclOwn, hcclVars
<1>29. HcclComplete'
  <2>1. told' \subseteq MarkIds
    BY <1>1, MarkTypesAre DEF hcclVars
  <2>2. \A i, j \in DOMAIN hcclReports' : hcclReports'[i].op.id = hcclReports'[j].op.id => i = j
    BY <1>1 DEF MarksRest, HcclComplete, hcclVars
  <2>3. QED
    BY <2>1, <2>2, <1>25, NoneLeft
<1>30. QED
  BY <1>14, <1>15, <1>18, <1>19, <1>20, <1>21, <1>23, <1>24, <1>25, <1>26, <1>27, <1>28, <1>29, MarkParts DEF MarksRest


\* The switches, the domains and the readings of the clocks.
LEMMA ChangesDomainsKeeps ==
    ASSUME MarksIInv, ChangesDomains, UNCHANGED hcclVars
    PROVE  MarksIInv'
<1>1. MarkTypes /\ NamesTell /\ MarksRest
  BY MarkParts
<1>2. UNCHANGED markVars
  BY DEF ChangesDomains
<1>3. MarksRest'
  BY <1>1, <1>2, RestKept DEF markVars, hcclVars, RestVars
<1>4. DomainsTypeOK /\ \A h \in DOMAIN domains : domains[h].enabled = (domains[h].name \notin disabled)
  BY <1>1 DEF MarkTypes, HcclTypeOK, MarkerTypeOK, NamesTell
<1>5. /\ DomainsTypeOK' /\ Len(domains) <= Len(domains')
      /\ \A h \in DOMAIN domains : domains'[h].name = domains[h].name
      /\ \A h \in DOMAIN domains' : domains'[h].enabled = (domains'[h].name \notin disabled')
  BY <1>4, ManagerKeepsNames
<1>6. /\ Len(domains) \in Nat /\ Len(domains') \in Nat /\ DOMAIN domains = 1 .. Len(domains)
  BY <1>4, <1>5, LenProperties DEF DomainsTypeOK
<1>7. \A t \in MarkThreads : marker[t].handle \in Nat /\ marker[t].handle <= Len(domains)
  BY <1>1, MarkTypesAre DEF MarkTypes
<1>8. MarkTypes'
  <2>1. MarkerTypeOK'
    BY <1>1, <1>2, <1>5 DEF markVars, MarkTypes, HcclTypeOK, MarkerTypeOK
  <2>2. HcclTypeOK'
    BY <2>1, <1>1 DEF MarkTypes, HcclTypeOK, hcclVars
  <2>3. \A t \in MarkThreads : marker[t].handle <= Len(domains')
    BY <1>5, <1>6, <1>7
  <2>4. QED
    BY <2>2, <2>3, <1>1, <1>2 DEF MarkTypes, markVars, hcclVars
<1>9. NamesTell'
  <2>1. \A t \in MarkThreads : marker[t].muted => marker[t].handle # 0 /\ domains[marker[t].handle].name # marker[t].asked
    BY <1>1 DEF NamesTell
  <2>2. \A t \in MarkThreads : marker[t].handle # 0 => marker[t].handle \in DOMAIN domains
    BY <1>6, <1>7
  <2>3. \A t \in MarkThreads : marker[t].muted => marker[t].handle # 0 /\ domains'[marker[t].handle].name # marker[t].asked
    BY <2>1, <2>2, <1>5
  <2>4. QED
    BY <2>3, <1>2, <1>5 DEF NamesTell, markVars
<1>10. QED
  BY <1>3, <1>8, <1>9, MarkParts

LEMMA ReadingsKeep ==
    ASSUME MarksIInv, SwitchesMarker \/ InitHostTimeInfo \/ InitDeviceTimeInfo, UNCHANGED hcclVars
    PROVE  MarksIInv'
<1>1. MarkTypes /\ NamesTell /\ MarksRest
  BY MarkParts
<1>2. UNCHANGED <<domainVars, marker, gMarkId, contexts, traces, deviceContexts, reader, marks, ranges, failures>>
  BY DEF SwitchesMarker, InitHostTimeInfo, InitDeviceTimeInfo
<1>3. MarksRest'
  BY <1>1, <1>2, RestKept DEF hcclVars, RestVars
<1>4. NamesTell'
  BY <1>1, <1>2 DEF NamesTell, domainVars
<1>5. markerOn' \in BOOLEAN /\ hostBase' \in Bases /\ deviceBase' \in Bases /\ deviceBase' <= MaxSyncs
  <2>1. /\ markerOn \in BOOLEAN /\ hostBase \in Bases /\ deviceBase \in Bases /\ deviceBase <= MaxSyncs /\ MaxSyncs \in Nat
    BY <1>1, MarkTypesAre, MarkerAssumption DEF MarkTypes
  <2>2. CASE SwitchesMarker
    BY <2>1, <2>2 DEF SwitchesMarker
  <2>3. CASE InitHostTimeInfo
    BY <2>1, <2>3 DEF InitHostTimeInfo, Bases
  <2>4. CASE InitDeviceTimeInfo
    BY <2>1, <2>4 DEF InitDeviceTimeInfo, Bases
  <2>5. QED
    BY <2>2, <2>3, <2>4
<1>6. MarkTypes'
  <2>1. DomainsTypeOK'
    BY <1>1, <1>2 DEF domainVars, MarkTypes, HcclTypeOK, MarkerTypeOK, DomainsTypeOK
  <2>2. MarkerTypeOK'
    BY <2>1, <1>1, <1>2, <1>5 DEF MarkTypes, HcclTypeOK, MarkerTypeOK
  <2>3. HcclTypeOK'
    BY <2>2, <1>1 DEF MarkTypes, HcclTypeOK, hcclVars
  <2>4. QED
    BY <2>3, <1>1, <1>2, <1>5 DEF MarkTypes, domainVars, hcclVars
<1>7. QED
  BY <1>3, <1>4, <1>6, MarkParts

LEMMA SwitchesHcclKeeps ==
    ASSUME MarksIInv, SwitchesHccl
    PROVE  MarksIInv'
<1>1. MarkTypes /\ NamesTell /\ MarksRest
  BY MarkParts
<1>2. UNCHANGED <<domainVars, markVars, hccl, innerMarkIds, markId2HcclOp, counts, hcclReports, early, told>> /\ hcclOn' = ~hcclOn
  BY DEF SwitchesHccl
<1>3. MarksRest'
  BY <1>1, <1>2, RestKept DEF markVars, RestVars
<1>4. NamesTell'
  BY <1>1, <1>2 DEF NamesTell, domainVars, markVars
<1>5. MarkTypes'
  <2>1. DomainsTypeOK'
    BY <1>1, <1>2 DEF domainVars, MarkTypes, HcclTypeOK, MarkerTypeOK, DomainsTypeOK
  <2>2. MarkerTypeOK'
    BY <2>1, <1>1, <1>2 DEF markVars, MarkTypes, HcclTypeOK, MarkerTypeOK
  <2>3. hcclOn' \in BOOLEAN
    BY <1>1, <1>2, MarkTypesAre
  <2>4. HcclTypeOK'
    BY <2>2, <2>3, <1>1, <1>2 DEF MarkTypes, HcclTypeOK
  <2>5. QED
    BY <2>4, <1>1, <1>2 DEF MarkTypes, domainVars, markVars
<1>6. QED
  BY <1>3, <1>4, <1>5, MarkParts


\* An operation's range is begun: its id is new, and the device may be told of it.
LEMMA InnerDeviceStartKeeps ==
    ASSUME MarksIInv, NEW t \in HcclThreads, NEW shape \in Shapes, NEW ok \in BOOLEAN, InnerDeviceStartA(t, shape, ok)
    PROVE  MarksIInv'
<1>1. MarkTypes /\ NamesTell /\ MarksRest /\ IdsGivenOut
  BY MarkParts DEF MarksRest
<1>2. PICK x : x = gMarkId + 1
  OBVIOUS
<1>3. PICK r : r = [pc |-> IF ok THEN "insert" ELSE "record", id |-> x, shape |-> shape, ok |-> ok]
  OBVIOUS
<1>4. /\ r.pc = (IF ok THEN "insert" ELSE "record") /\ r.id = x /\ r.shape = shape /\ r.ok = ok /\ r.pc \in {"insert", "record"}
  BY <1>3
<1>5. /\ hccl[t].pc = "idle" /\ gMarkId < MaxMarks /\ gMarkId' = x
      /\ traces' = IF ok THEN Append(traces, Trace(x, "start")) ELSE traces
      /\ hccl' = [hccl EXCEPT ![t] = r]
      /\ counts' = [counts EXCEPT ![t] = IF shape = "alltoallv" THEN x ELSE counts[t]]
      /\ UNCHANGED <<domainVars, markerOn, marker, contexts, hostBase, deviceBase, deviceContexts, reader, marks, ranges,
                     hcclOn, innerMarkIds, markId2HcclOp, hcclReports, early, told>>
  BY <1>2, <1>3 DEF InnerDeviceStartA, Wraps, Traces, Trace, FilledCounts
<1>6. x \in MarkIds /\ x \in 0 .. MaxMarks /\ 1 .. x = Given \cup {x} /\ x # 0
  BY <1>1, <1>2, <1>5, GivenMarks
<1>7. /\ x \notin Given /\ x \notin DOMAIN contexts /\ x \notin DOMAIN deviceContexts /\ x \notin innerMarkIds
      /\ x \notin DOMAIN markId2HcclOp /\ x \notin told
      /\ \A e \in ToSet(traces) \cup ToSet(marks) : e.id # x
      /\ \A q \in ToSet(hcclReports) : q.op.id # x
      /\ \A u \in MarkThreads : marker[u].pc \in {"record", "context"} => marker[u].id # x
      /\ \A u \in HcclThreads : Wrapping(u) => hccl[u].id # x
  BY <1>1, <1>2, FreshId
<1>8. \A u \in HcclThreads : /\ hccl'[u] = IF u = t THEN r ELSE hccl[u]
                             /\ counts'[u] = IF u = t /\ shape = "alltoallv" THEN x ELSE counts[u]
  BY <1>1, <1>5, MarkTypesAre
<1>9. /\ \A u \in HcclThreads \ {t} : (Wrapping(u)' <=> Wrapping(u)) /\ hccl'[u] = hccl[u]
      /\ ~Wrapping(t) /\ Wrapping(t)' /\ hccl'[t] = r
  BY <1>4, <1>5, <1>8 DEF Wrapping
<1>10. \A y : /\ ClientOpen(y)' <=> ClientOpen(y)
              /\ y # x => (HcclOpen(y)' <=> HcclOpen(y)) /\ (Open(y)' <=> Open(y))
  <2>1. \A y : ClientOpen(y)' <=> ClientOpen(y)
    BY <1>5 DEF ClientOpen, Starting
  <2>2. \A y : y # x => (HcclOpen(y)' <=> HcclOpen(y))
    BY <1>4, <1>9 DEF HcclOpen
  <2>3. QED
    BY <2>1, <2>2 DEF Open
<1>11. ~ClientOpen(x)
  BY <1>7 DEF ClientOpen, Starting
<1>12. /\ TracesOrdered' /\ DeviceClocks'
       /\ traces' \in Seq([id: MarkIds, flag: Flags]) /\ (traces' = <<>> => traces = <<>>)
       /\ ToSet(traces) \subseteq ToSet(traces') /\ ToSet(traces') \subseteq ToSet(traces) \cup {Trace(x, "start")}
       /\ reader.pc = "deliver" => Head(traces') = Head(traces) /\ Head(traces) \in ToSet(traces)
  <2>1. PICK e : e = Trace(x, "start")
    OBVIOUS
  <2>2. e \in [id: MarkIds, flag: Flags] /\ e.id = x /\ e.flag = "start"
    BY <2>1, <1>6 DEF Trace, Flags
  <2>3. traces' \in {traces, Append(traces, e)}
    BY <2>1, <1>5
  <2>4. UNCHANGED <<reader, deviceContexts, marks, hcclReports>>
    BY <1>5
  <2>5. \A y \in Given : Open(y)' => Open(y)
    BY <1>7, <1>10
  <2>6. \A f \in ToSet(traces) : f.id = e.id => f.flag = "start" /\ e.flag = "end"
    BY <2>2, <1>7
  <2>7. (e.flag = "start" => e.id \notin DOMAIN deviceContexts) /\ (e.flag = "end" => Open(e.id))
    BY <2>2, <1>7
  <2>8. \A q \in ToSet(marks) : q.source = "device" /\ q.id = e.id => e.flag = "end" /\ q.flag = "start"
    BY <2>2, <1>7
  <2>9. \A q \in ToSet(hcclReports) : q.op.id # e.id
    BY <2>2, <1>7
  <2>10. QED
    BY <2>1, <2>2, <2>3, <2>4, <2>5, <2>6, <2>7, <2>8, <2>9, <1>1, DeviceMayBeTold
<1>13. ok => Trace(x, "start") \in ToSet(traces')
  <2>1. SUFFICES ASSUME ok PROVE Trace(x, "start") \in ToSet(traces')
    OBVIOUS
  <2>2. Trace(x, "start") \in [id: MarkIds, flag: Flags] /\ traces \in Seq([id: MarkIds, flag: Flags])
    BY <1>1, <1>6, MarkTypesAre DEF Trace, Flags
  <2>3. traces' = Append(traces, Trace(x, "start"))
    BY <2>1, <1>5
  <2>4. PICK S : S = [id: MarkIds, flag: Flags]
    OBVIOUS
  <2>5. ToSet(Append(traces, Trace(x, "start"))) = ToSet(traces) \cup {Trace(x, "start")}
    <3>1. \A s \in Seq(S), e \in S : ToSet(Append(s, e)) = ToSet(s) \cup {e}
      BY Added
    <3>2. QED
      BY <3>1, <2>2, <2>4
  <2>6. QED
    BY <2>3, <2>5
<1>14. MarkTypes'
  <2>1. gMarkId' \in 0 .. MaxMarks
    BY <1>5, <1>6
  <2>2. failures' \in 0 .. MaxFailures
    BY <1>1, FailuresBounded DEF InnerDeviceStartA
  <2>3. marks' \in Seq(Markers) /\ reader' \in [pc: {"idle", "deliver"}, base: Bases, inner: BOOLEAN] /\ hcclOn' \in BOOLEAN
    BY <1>1, <1>5, MarkTypesAre
  <2>4. hccl' \in [HcclThreads -> [pc: {"idle", "insert", "record", "end"}, id: {0} \cup MarkIds, shape: Shapes \cup {"p2p"}, ok: BOOLEAN]]
    <3>1. r \in [pc: {"idle", "insert", "record", "end"}, id: {0} \cup MarkIds, shape: Shapes \cup {"p2p"}, ok: BOOLEAN]
      BY <1>3, <1>6
    <3>2. hccl \in [HcclThreads -> [pc: {"idle", "insert", "record", "end"}, id: {0} \cup MarkIds, shape: Shapes \cup {"p2p"}, ok: BOOLEAN]]
      BY <1>1, MarkTypesAre
    <3>3. QED
      BY <3>1, <3>2, <1>5
  <2>5. \A u \in HcclThreads : hccl'[u].pc # "idle" => hccl'[u].shape \in Shapes
    BY <1>1, <1>4, <1>8 DEF MarkTypes
  <2>6. counts' \in [HcclThreads -> {0} \cup MarkIds]
    BY <1>1, <1>5, <1>6, MarkTypesAre
  <2>7. innerMarkIds' \subseteq MarkIds /\ early' \subseteq MarkIds /\ told' \subseteq MarkIds
    BY <1>1, <1>5, MarkTypesAre
  <2>8. /\ \A i \in DOMAIN markId2HcclOp' : markId2HcclOp'[i] \in HcclOpDescs
        /\ markId2HcclOp' = [y \in DOMAIN markId2HcclOp' |-> markId2HcclOp'[y]]
        /\ \A i \in DOMAIN hcclReports' : hcclReports'[i].op \in HcclOpDescs
        /\ hcclReports' \in Seq(HcclRecords)
    BY <1>1, <1>5, MarkTypesAre DEF MarkTypes
  <2>9. UNCHANGED <<domainVars, markerOn, marker, contexts, hostBase, deviceBase, deviceContexts, ranges>>
    BY <1>5
  <2>10. QED
    BY <2>1, <2>2, <2>3, <2>4, <2>5, <2>6, <2>7, <2>8, <2>9, <1>1, <1>12, HcclTypes
<1>15. NamesTell'
  BY <1>1, <1>5 DEF NamesTell, domainVars
<1>16. Given' = Given \cup {x}
  BY <1>5, <1>6 DEF Given
<1>17. IdsGivenOut'
  <2>1. \A e \in ToSet(traces') : e.id \in Given'
    BY <1>1, <1>12, <1>16 DEF IdsGivenOut, Trace
  <2>2. \A u \in HcclThreads : counts'[u] <= gMarkId' /\ (Wrapping(u)' => hccl'[u].id \in Given')
    <3>1. gMarkId \in Int /\ \A u \in HcclThreads : counts[u] \in Int /\ counts[u] <= gMarkId
      BY <1>1, MarkTypesAre DEF IdsGivenOut, MarkIds
    <3>2. \A u \in HcclThreads : counts'[u] <= x
      BY <3>1, <1>2, <1>8
    <3>3. \A u \in HcclThreads : Wrapping(u)' => hccl'[u].id \in Given'
      BY <1>1, <1>4, <1>8, <1>9, <1>16 DEF IdsGivenOut
    <3>4. QED
      BY <3>2, <3>3, <1>5
  <2>3. /\ DOMAIN contexts' \subseteq Given' /\ DOMAIN deviceContexts' \subseteq Given' /\ innerMarkIds' \subseteq Given'
        /\ DOMAIN markId2HcclOp' \subseteq Given'
        /\ \A e \in ToSet(marks') : e.id \in Given'
        /\ \A q \in ToSet(hcclReports') : q.op.id \in Given'
        /\ \A u \in MarkThreads : marker'[u].pc \in {"record", "context"} => marker'[u].id \in Given'
    BY <1>1, <1>5, <1>16 DEF IdsGivenOut
  <2>4. QED
    BY <2>1, <2>2, <2>3 DEF IdsGivenOut
<1>18. OneHolder'
  <2>1. /\ \A u, v \in MarkThreads : Starting(u)' /\ Starting(v)' /\ u # v => marker'[u].id # marker'[v].id
        /\ \A u, v \in MarkThreads : Ending(u)' /\ Ending(v)' /\ u # v => marker'[u].id # marker'[v].id
        /\ \A u \in MarkThreads : Starting(u)' => marker'[u].id \notin DOMAIN contexts'
    BY <1>1, <1>5 DEF MarksRest, OneHolder, Starting, Ending
  <2>2. \A u, v \in HcclThreads : Wrapping(u)' /\ Wrapping(v)' /\ u # v => hccl'[u].id # hccl'[v].id
    <3>1. \A u \in HcclThreads \ {t} : Wrapping(u)' => hccl'[u].id # x
      BY <1>7, <1>9
    <3>2. \A u, v \in HcclThreads \ {t} : Wrapping(u)' /\ Wrapping(v)' /\ u # v => hccl'[u].id # hccl'[v].id
      BY <1>1, <1>9 DEF MarksRest, OneHolder
    <3>3. QED
      BY <3>1, <3>2, <1>4, <1>9
  <2>3. \A y \in Given' : ClientOpen(y)' => ~HcclOpen(y)' /\ y \notin innerMarkIds'
    BY <1>1, <1>5, <1>10, <1>11, <1>16 DEF MarksRest, OneHolder
  <2>4. QED
    BY <2>1, <2>2, <2>3 DEF OneHolder
<1>19. OpenNotEnded'
  <2>1. \A u \in MarkThreads : Ending(u) => marker[u].id # x
    BY <1>7 DEF Ending
  <2>2. ASSUME NEW y \in Given', Open(y)'
        PROVE  /\ Trace(y, "end") \notin ToSet(traces') /\ Trace(y, "instantaneous") \notin ToSet(traces')
               /\ \A q \in ToSet(marks) : q.id = y => q.flag # "end" /\ (q.source = "device" => q.flag = "start")
               /\ \A q \in ToSet(hcclReports) : q.op.id # y
               /\ y \notin told
               /\ \A u \in MarkThreads : Ending(u) => marker[u].id # y
    <3>1. Trace(y, "end") # Trace(x, "start") /\ Trace(y, "instantaneous") # Trace(x, "start")
      BY DEF Trace
    <3>2. CASE y = x
      <4>1. Trace(x, "end").id = x /\ Trace(x, "instantaneous").id = x
        BY DEF Trace
      <4>2. QED
        BY <3>1, <3>2, <4>1, <2>1, <1>7, <1>12
    <3>3. CASE y # x
      <4>1. y \in Given /\ Open(y)
        BY <3>3, <2>2, <1>10, <1>16
      <4>2. QED
        BY <3>1, <4>1, <1>1, <1>12 DEF MarksRest, OpenNotEnded
    <3>4. QED
      BY <3>2, <3>3
  <2>3. QED
    BY <2>2, <1>5 DEF OpenNotEnded, Trace, Ending
<1>20. HostClocks'
  BY <1>1, <1>5 DEF MarksRest, HostClocks, Fits, HostStart, Starting, Ending
<1>21. OperationsKept'
  <2>1. OperationsKept
    BY <1>1 DEF MarksRest
  <2>2. \A y, f : Trace(y, f) \in ToSet(traces) => Trace(y, f) \in ToSet(traces')
    BY <1>12
  <2>3. ASSUME NEW u \in HcclThreads, Wrapping(u)'
        PROVE  /\ hccl'[u].pc = "insert" => hccl'[u].ok /\ hccl'[u].id \notin innerMarkIds
               /\ hccl'[u].pc # "insert" => hccl'[u].ok = (hccl'[u].id \in innerMarkIds)
               /\ hccl'[u].pc # "end" =>
                     /\ hccl'[u].id \notin DOMAIN markId2HcclOp
                     /\ hccl'[u].ok /\ Trace(hccl'[u].id, "start") \notin ToSet(traces') => hccl'[u].id \in early
    <3>1. CASE u = t
      <4>1. hccl'[u] = r
        BY <3>1, <1>9
      <4>2. (r.pc = "insert" => r.ok) /\ (r.pc # "insert" => r.ok = FALSE)
        BY <1>4
      <4>3. QED
        BY <4>1, <4>2, <1>4, <1>7, <1>13
    <3>2. CASE u # t
      <4>1. Wrapping(u) /\ hccl'[u] = hccl[u]
        BY <2>3, <3>2, <1>9
      <4>2. QED
        BY <4>1, <2>1, <2>2 DEF OperationsKept
    <3>3. QED
      BY <3>1, <3>2
  <2>4. QED
    BY <2>1, <2>2, <2>3, <1>5 DEF OperationsKept, Trace
<1>22. ReaderTells'
  <2>1. Trace(x, "start").flag = "start"
    BY DEF Trace
  <2>2. QED
    BY <2>1, <1>1, <1>5, <1>12, TracesMayGrow
<1>23. RangesPaired' /\ OneClock' /\ DisabledSilent'
  BY <1>1, <1>5 DEF MarksRest, RangesPaired, OneClock, DisabledSilent
<1>24. HcclOwn'
  <2>1. HcclOwn
    BY <1>1 DEF MarksRest
  <2>2. \A i \in DOMAIN hcclReports : hcclReports[i] \in ToSet(hcclReports)
    BY DEF ToSet
  <2>3. \A i \in DOMAIN hcclReports : hcclReports[i].op.id # x
    BY <2>2, <1>7
  <2>4. \A i \in DOMAIN hcclReports : hcclReports[i].op.thread \in HcclThreads
    BY <1>1, MarkTypesAre DEF HcclOpDescs
  <2>5. \A i \in DOMAIN hcclReports :
           counts[hcclReports[i].op.thread] # hcclReports[i].op.id => counts'[hcclReports[i].op.thread] # hcclReports[i].op.id
    BY <2>3, <2>4, <1>8
  <2>6. QED
    BY <2>1, <2>5, <1>5 DEF HcclOwn
<1>25. HcclComplete'
  BY <1>1, <1>5, <1>12 DEF MarksRest, HcclComplete, OpKey
<1>26. QED
  BY <1>12, <1>14, <1>15, <1>17, <1>18, <1>19, <1>20, <1>21, <1>22, <1>23, <1>24, <1>25, MarkParts DEF MarksRest


\* Its id is kept for the consumer.
LEMMA InsertsInnerKeeps ==
    ASSUME MarksIInv, NEW t \in HcclThreads, InsertsInner(t)
    PROVE  MarksIInv'
<1>1. MarkTypes /\ NamesTell /\ MarksRest /\ IdsGivenOut
  BY MarkParts DEF MarksRest
<1>2. PICK x : x = hccl[t].id
  OBVIOUS
<1>3. PICK r : r = [hccl[t] EXCEPT !.pc = "record"]
  OBVIOUS
<1>4. hccl[t] \in [pc: {"idle", "insert", "record", "end"}, id: {0} \cup MarkIds, shape: Shapes \cup {"p2p"}, ok: BOOLEAN]
  BY <1>1, MarkTypesAre
<1>5. /\ r \in [pc: {"idle", "insert", "record", "end"}, id: {0} \cup MarkIds, shape: Shapes \cup {"p2p"}, ok: BOOLEAN]
      /\ r.pc = "record" /\ r.id = x /\ r.shape = hccl[t].shape /\ r.ok = hccl[t].ok
  BY <1>2, <1>3, <1>4
<1>6. /\ hccl[t].pc = "insert" /\ innerMarkIds' = innerMarkIds \cup {x} /\ hccl' = [hccl EXCEPT ![t] = r]
      /\ UNCHANGED <<domainVars, markVars, hcclOn, markId2HcclOp, counts, hcclReports, early, told>>
  BY <1>2, <1>3 DEF InsertsInner
<1>7. \A u \in HcclThreads : hccl'[u] = IF u = t THEN r ELSE hccl[u]
  BY <1>1, <1>6, MarkTypesAre
<1>8. /\ \A u \in HcclThreads : /\ Wrapping(u)' <=> Wrapping(u)
                                /\ hccl'[u].id = hccl[u].id /\ hccl'[u].ok = hccl[u].ok /\ hccl'[u].shape = hccl[u].shape
                                /\ u # t => hccl'[u] = hccl[u]
      /\ Wrapping(t)
  BY <1>2, <1>5, <1>6, <1>7 DEF Wrapping
<1>9. \A y : /\ ClientOpen(y)' <=> ClientOpen(y)
             /\ HcclOpen(y)' <=> HcclOpen(y)
             /\ Open(y)' <=> Open(y)
  <2>1. \A y : ClientOpen(y)' <=> ClientOpen(y)
    BY <1>6 DEF ClientOpen, Starting, markVars
  <2>2. \A y : HcclOpen(y)' <=> HcclOpen(y)
    BY <1>8 DEF HcclOpen
  <2>3. QED
    BY <2>1, <2>2 DEF Open
<1>10. /\ HcclOpen(x) /\ Open(x) /\ x \in Given /\ x \in MarkIds /\ ~ClientOpen(x)
       /\ x \notin innerMarkIds /\ hccl[t].ok /\ x \notin DOMAIN markId2HcclOp
       /\ \A u \in HcclThreads \ {t} : Wrapping(u) => hccl[u].id # x
  <2>1. HcclOpen(x) /\ Open(x)
    BY <1>2, <1>8 DEF HcclOpen, Open
  <2>2. x \in Given /\ x \in MarkIds
    BY <1>1, <1>2, <1>8, GivenMarks DEF IdsGivenOut
  <2>3. x \notin innerMarkIds /\ hccl[t].ok /\ x \notin DOMAIN markId2HcclOp
    BY <1>1, <1>2, <1>6, <1>8 DEF MarksRest, OperationsKept
  <2>4. ~ClientOpen(x) /\ \A u \in HcclThreads \ {t} : Wrapping(u) => hccl[u].id # x
    BY <2>1, <2>2, <1>1, <1>2, <1>8 DEF MarksRest, OneHolder
  <2>5. QED
    BY <2>1, <2>2, <2>3, <2>4
<1>11. MarkTypes'
  <2>1. hccl' \in [HcclThreads -> [pc: {"idle", "insert", "record", "end"}, id: {0} \cup MarkIds, shape: Shapes \cup {"p2p"}, ok: BOOLEAN]]
    <3>1. hccl \in [HcclThreads -> [pc: {"idle", "insert", "record", "end"}, id: {0} \cup MarkIds, shape: Shapes \cup {"p2p"}, ok: BOOLEAN]]
      BY <1>1, MarkTypesAre
    <3>2. QED
      BY <3>1, <1>5, <1>6
  <2>2. \A u \in HcclThreads : hccl'[u].pc # "idle" => hccl'[u].shape \in Shapes
    BY <1>1, <1>8 DEF MarkTypes, Wrapping
  <2>3. /\ gMarkId' \in 0 .. MaxMarks /\ failures' \in 0 .. MaxFailures /\ traces' \in Seq([id: MarkIds, flag: Flags])
        /\ reader' \in [pc: {"idle", "deliver"}, base: Bases, inner: BOOLEAN] /\ marks' \in Seq(Markers) /\ hcclOn' \in BOOLEAN
        /\ innerMarkIds' \subseteq MarkIds /\ counts' \in [HcclThreads -> {0} \cup MarkIds] /\ early' \subseteq MarkIds /\ told' \subseteq MarkIds
    BY <1>1, <1>6, <1>10, MarkTypesAre DEF markVars
  <2>4. /\ \A i \in DOMAIN markId2HcclOp' : markId2HcclOp'[i] \in HcclOpDescs
        /\ markId2HcclOp' = [y \in DOMAIN markId2HcclOp' |-> markId2HcclOp'[y]]
        /\ \A i \in DOMAIN hcclReports' : hcclReports'[i].op \in HcclOpDescs
        /\ hcclReports' \in Seq(HcclRecords)
    BY <1>1, <1>6, MarkTypesAre DEF MarkTypes
  <2>5. UNCHANGED <<domainVars, markerOn, marker, contexts, hostBase, deviceBase, deviceContexts, ranges>>
    BY <1>6 DEF markVars
  <2>6. QED
    BY <2>1, <2>2, <2>3, <2>4, <2>5, <1>1, HcclTypes
<1>12. NamesTell'
  BY <1>1, <1>6 DEF NamesTell, domainVars, markVars
<1>13. Given' = Given
  BY <1>6 DEF Given, markVars
<1>14. IdsGivenOut'
  BY <1>1, <1>6, <1>8, <1>10, <1>13 DEF IdsGivenOut, markVars
<1>15. OneHolder'
  <2>1. /\ \A u, v \in MarkThreads : Starting(u)' /\ Starting(v)' /\ u # v => marker'[u].id # marker'[v].id
        /\ \A u, v \in MarkThreads : Ending(u)' /\ Ending(v)' /\ u # v => marker'[u].id # marker'[v].id
        /\ \A u \in MarkThreads : Starting(u)' => marker'[u].id \notin DOMAIN contexts'
    BY <1>1, <1>6 DEF MarksRest, OneHolder, Starting, Ending, markVars
  <2>2. \A u, v \in HcclThreads : Wrapping(u)' /\ Wrapping(v)' /\ u # v => hccl'[u].id # hccl'[v].id
    BY <1>1, <1>8 DEF MarksRest, OneHolder
  <2>3. \A y \in Given : ClientOpen(y)' => ~HcclOpen(y)' /\ y \notin innerMarkIds'
    BY <1>1, <1>6, <1>9, <1>10 DEF MarksRest, OneHolder
  <2>4. QED
    BY <2>1, <2>2, <2>3, <1>13 DEF OneHolder
<1>16. OpenNotEnded'
  BY <1>1, <1>6, <1>9, <1>13 DEF MarksRest, OpenNotEnded, Trace, Ending, markVars
<1>17. TracesOrdered' /\ DeviceClocks'
  <2>1. UNCHANGED <<reader, deviceContexts, traces, hcclReports>>
    BY <1>6 DEF markVars
  <2>2. \A q \in ToSet(marks') : q.source = "device" => q \in ToSet(marks)
    BY <1>6 DEF markVars
  <2>3. QED
    BY <2>1, <2>2, <1>1, <1>9, DeviceUntold
<1>18. HostClocks'
  BY <1>1, <1>6 DEF MarksRest, HostClocks, Fits, HostStart, Starting, Ending, markVars
<1>19. OperationsKept'
  <2>1. OperationsKept
    BY <1>1 DEF MarksRest
  <2>2. traces' = traces
    BY <1>6 DEF markVars
  <2>3. ASSUME NEW u \in HcclThreads, Wrapping(u)'
        PROVE  /\ hccl'[u].pc = "insert" => hccl'[u].ok /\ hccl'[u].id \notin innerMarkIds'
               /\ hccl'[u].pc # "insert" => hccl'[u].ok = (hccl'[u].id \in innerMarkIds')
               /\ hccl'[u].pc # "end" =>
                     /\ hccl'[u].id \notin DOMAIN markId2HcclOp
                     /\ hccl'[u].ok /\ Trace(hccl'[u].id, "start") \notin ToSet(traces) => hccl'[u].id \in early
    <3>1. Wrapping(u)
      BY <2>3, <1>8
    <3>2. CASE u = t
      <4>1. hccl'[u] = r /\ r.pc = "record" /\ r.id = x /\ r.ok
        BY <3>2, <1>5, <1>7, <1>10
      <4>2. r.ok = TRUE /\ (x \in innerMarkIds') = TRUE
        BY <4>1, <1>5, <1>6
      <4>3. Trace(x, "start") \notin ToSet(traces) => x \in early
        BY <2>1, <1>2, <1>6, <1>8, <1>10 DEF OperationsKept
      <4>4. QED
        BY <4>1, <4>2, <4>3, <1>10
    <3>3. CASE u # t
      <4>1. hccl'[u] = hccl[u] /\ hccl[u].id # x
        BY <3>1, <3>3, <1>8, <1>10
      <4>2. (hccl[u].id \in innerMarkIds') = (hccl[u].id \in innerMarkIds)
        BY <4>1, <1>6
      <4>3. QED
        BY <4>1, <4>2, <3>1, <2>1 DEF OperationsKept
    <3>4. QED
      BY <3>2, <3>3
  <2>4. \A k \in DOMAIN markId2HcclOp : k # x
    BY <1>10
  <2>5. QED
    BY <2>1, <2>2, <2>3, <2>4, <1>6 DEF OperationsKept, Trace
<1>20. ReaderTells'
  <2>1. \A e \in ToSet(traces) : e.flag = "instantaneous" => e.id # x
    <3>1. Trace(x, "instantaneous") \notin ToSet(traces)
      BY <1>1, <1>10 DEF MarksRest, OpenNotEnded
    <3>2. QED
      BY <3>1, <1>1, ElementsAre
  <2>2. QED
    BY <2>1, <1>1, <1>6 DEF MarksRest, ReaderTells, markVars
<1>21. RangesPaired' /\ OneClock' /\ DisabledSilent' /\ HcclOwn' /\ HcclComplete'
  BY <1>1, <1>6 DEF MarksRest, RangesPaired, OneClock, DisabledSilent, HcclOwn, HcclComplete, OpKey, markVars
<1>22. QED
  BY <1>11, <1>12, <1>14, <1>15, <1>16, <1>17, <1>18, <1>19, <1>20, <1>21, MarkParts DEF MarksRest

\* The operation is kept under its id.
LEMMA RecordHcclOpKeeps ==
    ASSUME MarksIInv, MaxMarks < OpKeys, NEW t \in HcclThreads, RecordHcclOp(t)
    PROVE  MarksIInv'
<1>1. MarkTypes /\ NamesTell /\ MarksRest /\ IdsGivenOut
  BY MarkParts DEF MarksRest
<1>2. PICK x : x = hccl[t].id
  OBVIOUS
<1>3. PICK r : r = [hccl[t] EXCEPT !.pc = "end"]
  OBVIOUS
<1>4. hccl[t] \in [pc: {"idle", "insert", "record", "end"}, id: {0} \cup MarkIds, shape: Shapes \cup {"p2p"}, ok: BOOLEAN]
  BY <1>1, MarkTypesAre
<1>5. /\ r \in [pc: {"idle", "insert", "record", "end"}, id: {0} \cup MarkIds, shape: Shapes \cup {"p2p"}, ok: BOOLEAN]
      /\ r.pc = "end" /\ r.id = x /\ r.shape = hccl[t].shape /\ r.ok = hccl[t].ok
  BY <1>2, <1>3, <1>4
<1>6. PICK op : op = [id |-> x, shape |-> hccl[t].shape, thread |-> t, start |-> NoStart]
  OBVIOUS
<1>7. /\ hccl[t].pc = "record" /\ hccl' = [hccl EXCEPT ![t] = r] /\ markId2HcclOp' = PutAt(markId2HcclOp, OpKey(x), op)
      /\ UNCHANGED <<domainVars, markVars, hcclOn, innerMarkIds, counts, hcclReports, early, told>>
  BY <1>2, <1>3, <1>6 DEF RecordHcclOp
<1>8. \A u \in HcclThreads : hccl'[u] = IF u = t THEN r ELSE hccl[u]
  BY <1>1, <1>7, MarkTypesAre
<1>9. /\ \A u \in HcclThreads : /\ Wrapping(u)' <=> Wrapping(u)
                                /\ hccl'[u].id = hccl[u].id /\ hccl'[u].ok = hccl[u].ok /\ hccl'[u].shape = hccl[u].shape
                                /\ u # t => hccl'[u] = hccl[u]
      /\ Wrapping(t)
  BY <1>2, <1>5, <1>7, <1>8 DEF Wrapping
<1>10. \A y : /\ ClientOpen(y)' <=> ClientOpen(y)
              /\ HcclOpen(y)' <=> HcclOpen(y)
              /\ Open(y)' <=> Open(y)
  <2>1. \A y : ClientOpen(y)' <=> ClientOpen(y)
    BY <1>7 DEF ClientOpen, Starting, markVars
  <2>2. \A y : HcclOpen(y)' <=> HcclOpen(y)
    BY <1>9 DEF HcclOpen
  <2>3. QED
    BY <2>1, <2>2 DEF Open
<1>11. /\ Open(x) /\ x \in Given /\ x \in MarkIds /\ x \notin told /\ OpKey(x) = x
       /\ \A u \in HcclThreads \ {t} : Wrapping(u) => hccl[u].id # x
  <2>1. HcclOpen(x) /\ Open(x)
    BY <1>2, <1>9 DEF HcclOpen, Open
  <2>2. x \in Given /\ x \in MarkIds
    BY <1>1, <1>2, <1>9, GivenMarks DEF IdsGivenOut
  <2>3. x \notin told
    BY <2>1, <2>2, <1>1 DEF MarksRest, OpenNotEnded
  <2>4. \A u \in HcclThreads \ {t} : Wrapping(u) => hccl[u].id # x
    BY <1>1, <1>2, <1>9 DEF MarksRest, OneHolder
  <2>5. QED
    BY <2>1, <2>2, <2>3, <2>4, OpKeyIs
<1>12. op \in HcclOpDescs /\ op.id = x /\ op.start = NoStart
  <2>1. hccl[t].shape \in Shapes
    BY <1>1, <1>9 DEF MarkTypes, Wrapping
  <2>2. QED
    BY <2>1, <1>6, <1>11 DEF HcclOpDescs
<1>13. /\ DOMAIN markId2HcclOp' = DOMAIN markId2HcclOp \cup {x}
       /\ \A k \in DOMAIN markId2HcclOp' : markId2HcclOp'[k] = IF k = x THEN op ELSE markId2HcclOp[k]
       /\ markId2HcclOp' = [y \in DOMAIN markId2HcclOp' |-> markId2HcclOp'[y]]
  BY <1>7, <1>11 DEF PutAt
<1>14. MarkTypes'
  <2>1. hccl' \in [HcclThreads -> [pc: {"idle", "insert", "record", "end"}, id: {0} \cup MarkIds, shape: Shapes \cup {"p2p"}, ok: BOOLEAN]]
    <3>1. hccl \in [HcclThreads -> [pc: {"idle", "insert", "record", "end"}, id: {0} \cup MarkIds, shape: Shapes \cup {"p2p"}, ok: BOOLEAN]]
      BY <1>1, MarkTypesAre
    <3>2. QED
      BY <3>1, <1>5, <1>7
  <2>2. \A u \in HcclThreads : hccl'[u].pc # "idle" => hccl'[u].shape \in Shapes
    BY <1>1, <1>9 DEF MarkTypes, Wrapping
  <2>3. /\ gMarkId' \in 0 .. MaxMarks /\ failures' \in 0 .. MaxFailures /\ traces' \in Seq([id: MarkIds, flag: Flags])
        /\ reader' \in [pc: {"idle", "deliver"}, base: Bases, inner: BOOLEAN] /\ marks' \in Seq(Markers) /\ hcclOn' \in BOOLEAN
        /\ innerMarkIds' \subseteq MarkIds /\ counts' \in [HcclThreads -> {0} \cup MarkIds] /\ early' \subseteq MarkIds /\ told' \subseteq MarkIds
    BY <1>1, <1>7, MarkTypesAre DEF markVars
  <2>4. /\ \A i \in DOMAIN markId2HcclOp' : markId2HcclOp'[i] \in HcclOpDescs
        /\ \A i \in DOMAIN hcclReports' : hcclReports'[i].op \in HcclOpDescs
        /\ hcclReports' \in Seq(HcclRecords)
    BY <1>1, <1>7, <1>12, <1>13, MarkTypesAre DEF MarkTypes
  <2>5. UNCHANGED <<domainVars, markerOn, marker, contexts, hostBase, deviceBase, deviceContexts, ranges>>
    BY <1>7 DEF markVars
  <2>6. QED
    BY <2>1, <2>2, <2>3, <2>4, <2>5, <1>1, <1>13, HcclTypes
<1>15. NamesTell'
  BY <1>1, <1>7 DEF NamesTell, domainVars, markVars
<1>16. Given' = Given
  BY <1>7 DEF Given, markVars
<1>17. IdsGivenOut'
  BY <1>1, <1>7, <1>9, <1>11, <1>13, <1>16 DEF IdsGivenOut, markVars
<1>18. OneHolder'
  <2>1. /\ \A u, v \in MarkThreads : Starting(u)' /\ Starting(v)' /\ u # v => marker'[u].id # marker'[v].id
        /\ \A u, v \in MarkThreads : Ending(u)' /\ Ending(v)' /\ u # v => marker'[u].id # marker'[v].id
        /\ \A u \in MarkThreads : Starting(u)' => marker'[u].id \notin DOMAIN contexts'
    BY <1>1, <1>7 DEF MarksRest, OneHolder, Starting, Ending, markVars
  <2>2. \A u, v \in HcclThreads : Wrapping(u)' /\ Wrapping(v)' /\ u # v => hccl'[u].id # hccl'[v].id
    BY <1>1, <1>9 DEF MarksRest, OneHolder
  <2>3. \A y \in Given : ClientOpen(y)' => ~HcclOpen(y)' /\ y \notin innerMarkIds'
    BY <1>1, <1>7, <1>10 DEF MarksRest, OneHolder
  <2>4. QED
    BY <2>1, <2>2, <2>3, <1>16 DEF OneHolder
<1>19. OpenNotEnded'
  BY <1>1, <1>7, <1>10, <1>16 DEF MarksRest, OpenNotEnded, Trace, Ending, markVars
<1>20. TracesOrdered' /\ DeviceClocks'
  <2>1. UNCHANGED <<reader, deviceContexts, traces, hcclReports>>
    BY <1>7 DEF markVars
  <2>2. \A q \in ToSet(marks') : q.source = "device" => q \in ToSet(marks)
    BY <1>7 DEF markVars
  <2>3. QED
    BY <2>1, <2>2, <1>1, <1>10, DeviceUntold
<1>21. HostClocks'
  BY <1>1, <1>7 DEF MarksRest, HostClocks, Fits, HostStart, Starting, Ending, markVars
<1>22. OperationsKept'
  <2>1. OperationsKept
    BY <1>1 DEF MarksRest
  <2>2. traces' = traces
    BY <1>7 DEF markVars
  <2>3. /\ r.ok = (x \in innerMarkIds)
        /\ r.ok /\ Trace(x, "start") \notin ToSet(traces) => x \in early
    BY <2>1, <1>2, <1>5, <1>7, <1>9 DEF OperationsKept
  <2>4. ASSUME NEW u \in HcclThreads, Wrapping(u)'
        PROVE  /\ hccl'[u].pc = "insert" => hccl'[u].ok /\ hccl'[u].id \notin innerMarkIds
               /\ hccl'[u].pc # "insert" => hccl'[u].ok = (hccl'[u].id \in innerMarkIds)
               /\ hccl'[u].pc # "end" =>
                     /\ hccl'[u].id \notin DOMAIN markId2HcclOp'
                     /\ hccl'[u].ok /\ Trace(hccl'[u].id, "start") \notin ToSet(traces) => hccl'[u].id \in early
    <3>1. Wrapping(u)
      BY <2>4, <1>9
    <3>2. CASE u = t
      BY <3>2, <2>3, <1>5, <1>8
    <3>3. CASE u # t
      <4>1. hccl'[u] = hccl[u] /\ hccl[u].id # x
        BY <3>1, <3>3, <1>9, <1>11
      <4>2. QED
        BY <4>1, <3>1, <2>1, <1>13 DEF OperationsKept
    <3>4. QED
      BY <3>2, <3>3
  <2>5. ASSUME NEW k \in DOMAIN markId2HcclOp'
        PROVE  /\ markId2HcclOp'[k].id = k /\ markId2HcclOp'[k].start \in {NoStart, k}
               /\ (k \in innerMarkIds /\ markId2HcclOp'[k].start = NoStart /\ Trace(k, "start") \notin ToSet(traces)) => k \in early
    <3>1. CASE k = x
      <4>1. x \in innerMarkIds => r.ok
        BY <2>3
      <4>2. QED
        BY <3>1, <4>1, <2>3, <1>12, <1>13
    <3>2. CASE k # x
      BY <3>2, <2>1, <1>13 DEF OperationsKept
    <3>3. QED
      BY <3>1, <3>2
  <2>6. \A y \in told : Trace(y, "end") \in ToSet(traces) \/ y \notin DOMAIN markId2HcclOp'
    BY <2>1, <1>11, <1>13 DEF OperationsKept
  <2>7. QED
    BY <2>1, <2>2, <2>4, <2>5, <2>6, <1>7 DEF OperationsKept, Trace
<1>23. ReaderTells'
  BY <1>1, <1>7 DEF MarksRest, ReaderTells, markVars
<1>24. RangesPaired' /\ OneClock' /\ DisabledSilent' /\ HcclOwn'
  BY <1>1, <1>7 DEF MarksRest, RangesPaired, OneClock, DisabledSilent, HcclOwn, markVars
<1>25. HcclComplete'
  <2>1. told' \subseteq MarkIds
    BY <1>1, <1>7, MarkTypesAre
  <2>2. \A i, j \in DOMAIN hcclReports' : hcclReports'[i].op.id = hcclReports'[j].op.id => i = j
    BY <1>1, <1>7 DEF MarksRest, HcclComplete
  <2>3. QED
    BY <2>1, <2>2, <1>22, NoneLeft
<1>26. QED
  BY <1>14, <1>15, <1>17, <1>18, <1>19, <1>20, <1>21, <1>22, <1>23, <1>24, <1>25, MarkParts DEF MarksRest


\* The operation's range is ended: the device may be told, and the call is over.
LEMMA InnerDeviceEndKeeps ==
    ASSUME MarksIInv, MaxMarks < OpKeys, NEW t \in HcclThreads, NEW ok \in BOOLEAN, InnerDeviceEndA(t, ok)
    PROVE  MarksIInv'
<1>1. MarkTypes /\ NamesTell /\ MarksRest /\ IdsGivenOut
  BY MarkParts DEF MarksRest
<1>2. PICK x : x = hccl[t].id
  OBVIOUS
<1>3. PICK r : r = IdleHccl
  OBVIOUS
<1>4. /\ r \in [pc: {"idle", "insert", "record", "end"}, id: {0} \cup MarkIds, shape: Shapes \cup {"p2p"}, ok: BOOLEAN]
      /\ r.pc = "idle"
  BY <1>3 DEF IdleHccl
<1>5. /\ hccl[t].pc = "end" /\ hccl' = [hccl EXCEPT ![t] = r]
      /\ traces' = IF ok /\ x \in innerMarkIds THEN Append(traces, Trace(x, "end")) ELSE traces
      /\ told' = IF ok /\ x \in innerMarkIds THEN told \cup {x} ELSE told
      /\ UNCHANGED <<domainVars, markerOn, marker, gMarkId, contexts, hostBase, deviceBase, deviceContexts, reader, marks, ranges,
                     hcclOn, innerMarkIds, markId2HcclOp, counts, hcclReports, early>>
  BY <1>2, <1>3 DEF InnerDeviceEndA, Traces, Trace, InnerIdsAfter
<1>6. \A u \in HcclThreads : hccl'[u] = IF u = t THEN r ELSE hccl[u]
  BY <1>1, <1>5, MarkTypesAre
<1>7. /\ \A u \in HcclThreads : u # t => (Wrapping(u)' <=> Wrapping(u)) /\ hccl'[u] = hccl[u]
      /\ Wrapping(t) /\ ~Wrapping(t)'
  BY <1>4, <1>5, <1>6 DEF Wrapping
<1>8. /\ HcclOpen(x) /\ Open(x) /\ x \in Given /\ x \in MarkIds /\ ~ClientOpen(x)
      /\ \A u \in HcclThreads \ {t} : Wrapping(u) => hccl[u].id # x
  <2>1. HcclOpen(x) /\ Open(x)
    BY <1>2, <1>7 DEF HcclOpen, Open
  <2>2. x \in Given /\ x \in MarkIds
    BY <1>1, <1>2, <1>7, GivenMarks DEF IdsGivenOut
  <2>3. ~ClientOpen(x) /\ \A u \in HcclThreads \ {t} : Wrapping(u) => hccl[u].id # x
    BY <2>1, <2>2, <1>1, <1>2, <1>7 DEF MarksRest, OneHolder
  <2>4. QED
    BY <2>1, <2>2, <2>3
<1>9. /\ Trace(x, "end") \notin ToSet(traces) /\ Trace(x, "instantaneous") \notin ToSet(traces)
      /\ \A q \in ToSet(marks) : q.id = x => q.flag # "end" /\ (q.source = "device" => q.flag = "start")
      /\ \A q \in ToSet(hcclReports) : q.op.id # x
      /\ x \notin told
      /\ \A u \in MarkThreads : Ending(u) => marker[u].id # x
  BY <1>1, <1>8 DEF MarksRest, OpenNotEnded
<1>10. \A y : /\ ClientOpen(y)' <=> ClientOpen(y)
              /\ HcclOpen(y)' => HcclOpen(y) /\ y # x
              /\ Open(y)' => Open(y) /\ y # x
  <2>1. \A y : ClientOpen(y)' <=> ClientOpen(y)
    BY <1>5 DEF ClientOpen, Starting
  <2>2. \A y : HcclOpen(y)' => HcclOpen(y) /\ y # x
    BY <1>7, <1>8 DEF HcclOpen
  <2>3. QED
    BY <2>1, <2>2, <1>8 DEF Open
<1>11. \A f \in ToSet(traces) : f.id = x => f.flag = "start"
  <2>1. \A f \in ToSet(traces) : f = Trace(f.id, f.flag) /\ f.flag \in Flags
    BY <1>1, ElementsAre
  <2>2. QED
    BY <2>1, <1>9 DEF Flags
<1>12. /\ TracesOrdered' /\ DeviceClocks'
       /\ traces' \in Seq([id: MarkIds, flag: Flags]) /\ (traces' = <<>> => traces = <<>>)
       /\ ToSet(traces) \subseteq ToSet(traces') /\ ToSet(traces') \subseteq ToSet(traces) \cup {Trace(x, "end")}
       /\ reader.pc = "deliver" => Head(traces') = Head(traces) /\ Head(traces) \in ToSet(traces)
  <2>1. PICK e : e = Trace(x, "end")
    OBVIOUS
  <2>2. e \in [id: MarkIds, flag: Flags] /\ e.id = x /\ e.flag = "end"
    BY <2>1, <1>8 DEF Trace, Flags
  <2>3. traces' \in {traces, Append(traces, e)}
    BY <2>1, <1>5
  <2>4. UNCHANGED <<reader, deviceContexts, marks, hcclReports>>
    BY <1>5
  <2>5. \A y \in Given : Open(y)' => Open(y)
    BY <1>10
  <2>6. \A f \in ToSet(traces) : f.id = e.id => f.flag = "start" /\ e.flag = "end"
    BY <2>2, <1>11
  <2>7. (e.flag = "start" => e.id \notin DOMAIN deviceContexts) /\ (e.flag = "end" => Open(e.id))
    BY <2>2, <1>8
  <2>8. \A q \in ToSet(marks) : q.source = "device" /\ q.id = e.id => e.flag = "end" /\ q.flag = "start"
    BY <2>2, <1>9
  <2>9. \A q \in ToSet(hcclReports) : q.op.id # e.id
    BY <2>2, <1>9
  <2>10. QED
    BY <2>1, <2>2, <2>3, <2>4, <2>5, <2>6, <2>7, <2>8, <2>9, <1>1, DeviceMayBeTold
<1>13. ok /\ x \in innerMarkIds => Trace(x, "end") \in ToSet(traces')
  <2>1. SUFFICES ASSUME ok, x \in innerMarkIds PROVE Trace(x, "end") \in ToSet(traces')
    OBVIOUS
  <2>2. Trace(x, "end") \in [id: MarkIds, flag: Flags] /\ traces \in Seq([id: MarkIds, flag: Flags])
    BY <1>1, <1>8, MarkTypesAre DEF Trace, Flags
  <2>3. traces' = Append(traces, Trace(x, "end"))
    BY <2>1, <1>5
  <2>4. PICK S : S = [id: MarkIds, flag: Flags]
    OBVIOUS
  <2>5. ToSet(Append(traces, Trace(x, "end"))) = ToSet(traces) \cup {Trace(x, "end")}
    <3>1. \A s \in Seq(S), e \in S : ToSet(Append(s, e)) = ToSet(s) \cup {e}
      BY Added
    <3>2. QED
      BY <3>1, <2>2, <2>4
  <2>6. QED
    BY <2>3, <2>5
<1>14. \A y \in told' : y \in told \/ (y = x /\ x \in innerMarkIds /\ Trace(x, "end") \in ToSet(traces'))
  BY <1>5, <1>13
<1>15. MarkTypes'
  <2>1. hccl' \in [HcclThreads -> [pc: {"idle", "insert", "record", "end"}, id: {0} \cup MarkIds, shape: Shapes \cup {"p2p"}, ok: BOOLEAN]]
    <3>1. hccl \in [HcclThreads -> [pc: {"idle", "insert", "record", "end"}, id: {0} \cup MarkIds, shape: Shapes \cup {"p2p"}, ok: BOOLEAN]]
      BY <1>1, MarkTypesAre
    <3>2. QED
      BY <3>1, <1>4, <1>5
  <2>2. \A u \in HcclThreads : hccl'[u].pc # "idle" => hccl'[u].shape \in Shapes
    BY <1>1, <1>4, <1>6 DEF MarkTypes
  <2>3. /\ gMarkId' \in 0 .. MaxMarks
        /\ reader' \in [pc: {"idle", "deliver"}, base: Bases, inner: BOOLEAN] /\ marks' \in Seq(Markers) /\ hcclOn' \in BOOLEAN
        /\ innerMarkIds' \subseteq MarkIds /\ counts' \in [HcclThreads -> {0} \cup MarkIds] /\ early' \subseteq MarkIds
    BY <1>1, <1>5, MarkTypesAre
  <2>4. told' \subseteq MarkIds
    BY <1>1, <1>5, <1>8, MarkTypesAre
  <2>5. failures' \in 0 .. MaxFailures
    BY <1>1, FailuresBounded DEF InnerDeviceEndA
  <2>6. /\ \A i \in DOMAIN markId2HcclOp' : markId2HcclOp'[i] \in HcclOpDescs
        /\ markId2HcclOp' = [y \in DOMAIN markId2HcclOp' |-> markId2HcclOp'[y]]
        /\ \A i \in DOMAIN hcclReports' : hcclReports'[i].op \in HcclOpDescs
        /\ hcclReports' \in Seq(HcclRecords)
    BY <1>1, <1>5, MarkTypesAre DEF MarkTypes
  <2>7. UNCHANGED <<domainVars, markerOn, marker, contexts, hostBase, deviceBase, deviceContexts, ranges>>
    BY <1>5
  <2>8. QED
    BY <2>1, <2>2, <2>3, <2>4, <2>5, <2>6, <2>7, <1>1, <1>12, HcclTypes
<1>16. NamesTell'
  BY <1>1, <1>5 DEF NamesTell, domainVars
<1>17. Given' = Given
  BY <1>5 DEF Given
<1>18. IdsGivenOut'
  <2>1. \A e \in ToSet(traces') : e.id \in Given
    BY <1>1, <1>8, <1>12 DEF IdsGivenOut, Trace
  <2>2. \A u \in HcclThreads : Wrapping(u)' => hccl'[u].id \in Given
    BY <1>1, <1>7 DEF IdsGivenOut
  <2>3. QED
    BY <2>1, <2>2, <1>1, <1>5, <1>17 DEF IdsGivenOut
<1>19. OneHolder'
  <2>1. /\ \A u, v \in MarkThreads : Starting(u)' /\ Starting(v)' /\ u # v => marker'[u].id # marker'[v].id
        /\ \A u, v \in MarkThreads : Ending(u)' /\ Ending(v)' /\ u # v => marker'[u].id # marker'[v].id
        /\ \A u \in MarkThreads : Starting(u)' => marker'[u].id \notin DOMAIN contexts'
    BY <1>1, <1>5 DEF MarksRest, OneHolder, Starting, Ending
  <2>2. \A u, v \in HcclThreads : Wrapping(u)' /\ Wrapping(v)' /\ u # v => hccl'[u].id # hccl'[v].id
    BY <1>1, <1>7 DEF MarksRest, OneHolder
  <2>3. \A y \in Given : ClientOpen(y)' => ~HcclOpen(y)' /\ y \notin innerMarkIds'
    BY <1>1, <1>5, <1>10 DEF MarksRest, OneHolder
  <2>4. QED
    BY <2>1, <2>2, <2>3, <1>17 DEF OneHolder
<1>20. OpenNotEnded'
  <2>1. ASSUME NEW y \in Given, Open(y)'
        PROVE  /\ Trace(y, "end") \notin ToSet(traces') /\ Trace(y, "instantaneous") \notin ToSet(traces')
               /\ \A q \in ToSet(marks) : q.id = y => q.flag # "end" /\ (q.source = "device" => q.flag = "start")
               /\ \A q \in ToSet(hcclReports) : q.op.id # y
               /\ y \notin told'
               /\ \A u \in MarkThreads : Ending(u) => marker[u].id # y
    <3>1. Open(y) /\ y # x
      BY <2>1, <1>10
    <3>2. Trace(y, "end") # Trace(x, "end") /\ Trace(y, "instantaneous") # Trace(x, "end")
      BY <3>1 DEF Trace
    <3>3. QED
      BY <3>1, <3>2, <1>1, <1>12, <1>14 DEF MarksRest, OpenNotEnded
  <2>2. QED
    BY <2>1, <1>5, <1>17 DEF OpenNotEnded, Trace, Ending
<1>21. HostClocks'
  BY <1>1, <1>5 DEF MarksRest, HostClocks, Fits, HostStart, Starting, Ending
<1>22. OperationsKept'
  <2>1. OperationsKept
    BY <1>1 DEF MarksRest
  <2>2. \A y, f : Trace(y, f) \in ToSet(traces) => Trace(y, f) \in ToSet(traces')
    BY <1>12
  <2>3. \A u \in HcclThreads : Wrapping(u)' =>
          /\ hccl'[u].pc = "insert" => hccl'[u].ok /\ hccl'[u].id \notin innerMarkIds
          /\ hccl'[u].pc # "insert" => hccl'[u].ok = (hccl'[u].id \in innerMarkIds)
          /\ hccl'[u].pc # "end" =>
                /\ hccl'[u].id \notin DOMAIN markId2HcclOp
                /\ hccl'[u].ok /\ Trace(hccl'[u].id, "start") \notin ToSet(traces') => hccl'[u].id \in early
    BY <2>1, <2>2, <1>7 DEF OperationsKept
  <2>4. told' \subseteq innerMarkIds /\ \A y \in told' : Trace(y, "end") \in ToSet(traces') \/ y \notin DOMAIN markId2HcclOp
    BY <2>1, <2>2, <1>14 DEF OperationsKept
  <2>5. QED
    BY <2>1, <2>2, <2>3, <2>4, <1>5 DEF OperationsKept, Trace
<1>23. ReaderTells'
  <2>1. ReaderTells
    BY <1>1 DEF MarksRest
  <2>2. \A e \in ToSet(traces') : e.flag = "instantaneous" => e.id \notin innerMarkIds
    BY <2>1, <1>12 DEF ReaderTells, Trace
  <2>3. reader.pc = "deliver" /\ Head(traces).flag # "start" => Head(traces).id # x
    BY <1>11, <1>12
  <2>4. \A q \in ToSet(marks) : q.source = "device" /\ q.flag # "start" => q.id # x
    BY <1>9
  <2>5. QED
    BY <2>1, <2>2, <2>3, <2>4, <1>5, <1>12, <1>14 DEF ReaderTells
<1>24. RangesPaired' /\ OneClock' /\ DisabledSilent' /\ HcclOwn'
  BY <1>1, <1>5 DEF MarksRest, RangesPaired, OneClock, DisabledSilent, HcclOwn
<1>25. HcclComplete'
  <2>1. told' \subseteq MarkIds
    BY <1>1, <1>5, <1>8, MarkTypesAre
  <2>2. \A i, j \in DOMAIN hcclReports' : hcclReports'[i].op.id = hcclReports'[j].op.id => i = j
    BY <1>1, <1>5 DEF MarksRest, HcclComplete
  <2>3. QED
    BY <2>1, <2>2, <1>22, NoneLeft
<1>26. QED
  BY <1>12, <1>15, <1>16, <1>18, <1>19, <1>20, <1>21, <1>22, <1>23, <1>24, <1>25, MarkParts DEF MarksRest


\* The consumer makes an operation's mark into its record.
LEMMA HcclMarkMade ==
    ASSUME MarkTypes, OperationsKept, NEW x \in MarkIds, NEW flag \in {"start", "end"},
           IF flag = "start" THEN HcclStarts(x, x) ELSE HcclEnds(x, x)
    PROVE  /\ DOMAIN markId2HcclOp' \subseteq DOMAIN markId2HcclOp
           /\ \A k \in DOMAIN markId2HcclOp' :
                \/ markId2HcclOp'[k] = markId2HcclOp[k] /\ ~(k = x /\ flag = "start")
                \/ k = x /\ flag = "start" /\ markId2HcclOp'[k] = [markId2HcclOp[k] EXCEPT !.start = x]
           /\ markId2HcclOp' = [y \in DOMAIN markId2HcclOp' |-> markId2HcclOp'[y]]
           /\ flag = "end" => x \notin DOMAIN markId2HcclOp'
           /\ early' = IF flag = "start" /\ x \notin DOMAIN markId2HcclOp THEN early \cup {x} ELSE early
           /\ \/ hcclReports' = hcclReports
              \/ /\ flag = "end" /\ x \in DOMAIN markId2HcclOp
                 /\ hcclReports' = Append(hcclReports, Reckoned(markId2HcclOp[x], x))
<1>1. markId2HcclOp = [y \in DOMAIN markId2HcclOp |-> markId2HcclOp[y]]
  BY DEF MarkTypes
<1>2. CASE flag = "start" /\ x \in DOMAIN markId2HcclOp
  <2>1. markId2HcclOp' = [markId2HcclOp EXCEPT ![x].start = x] /\ UNCHANGED <<hcclReports, early>>
    BY <1>2 DEF HcclStarts
  <2>2. /\ DOMAIN markId2HcclOp' = DOMAIN markId2HcclOp
        /\ markId2HcclOp' = [y \in DOMAIN markId2HcclOp' |-> markId2HcclOp'[y]]
        /\ \A k \in DOMAIN markId2HcclOp : markId2HcclOp'[k] = IF k = x THEN [markId2HcclOp[k] EXCEPT !.start = x] ELSE markId2HcclOp[k]
    BY <2>1, <1>1, <1>2
  <2>3. QED
    BY <2>1, <2>2, <1>2
<1>3. CASE flag = "start" /\ x \notin DOMAIN markId2HcclOp
  BY <1>1, <1>3 DEF HcclStarts
<1>4. CASE flag = "end" /\ x \in DOMAIN markId2HcclOp
  <2>1. markId2HcclOp' = DropAt(markId2HcclOp, x) /\ UNCHANGED early
    BY <1>4 DEF HcclEnds
  <2>2. hcclReports' = IF hcclOn THEN Append(hcclReports, Reckoned(markId2HcclOp[x], x)) ELSE hcclReports
    BY <1>4 DEF HcclEnds
  <2>3. \/ hcclReports' = hcclReports
        \/ hcclReports' = Append(hcclReports, Reckoned(markId2HcclOp[x], x))
    BY <2>2
  <2>4. /\ DOMAIN markId2HcclOp' = DOMAIN markId2HcclOp \ {x}
        /\ markId2HcclOp' = [y \in DOMAIN markId2HcclOp' |-> markId2HcclOp'[y]]
        /\ \A k \in DOMAIN markId2HcclOp' : markId2HcclOp'[k] = markId2HcclOp[k]
    BY <2>1 DEF DropAt
  <2>5. QED
    BY <2>1, <2>3, <2>4, <1>4
<1>5. CASE flag = "end" /\ x \notin DOMAIN markId2HcclOp
  BY <1>1, <1>5 DEF HcclEnds
<1>6. QED
  BY <1>2, <1>3, <1>4, <1>5

\* A record that is added to the others.
LEMMA ReportAdded ==
    ASSUME MarkTypes, HcclOwn, \A i, j \in DOMAIN hcclReports : hcclReports[i].op.id = hcclReports[j].op.id => i = j,
           NEW q \in HcclRecords, hcclReports' = Append(hcclReports, q), early \subseteq early', UNCHANGED counts,
           \A r \in ToSet(hcclReports) : r.op.id # q.op.id,
           q.end = q.op.id, q.op.id \notin early' => q.op.start = q.op.id,
           q.counted = q.op.id \/ (q.op.shape = "alltoallv" /\ counts[q.op.thread] # q.op.id),
           q.op.shape \in RankedShapes => q.ranks = q.op.id, q.op.shape = "scatter" => q.ranks = 0
    PROVE  /\ hcclReports' \in Seq(HcclRecords) /\ \A i \in DOMAIN hcclReports' : hcclReports'[i].op \in HcclOpDescs
           /\ ToSet(hcclReports') = ToSet(hcclReports) \cup {q}
           /\ HcclOwn'
           /\ \A i, j \in DOMAIN hcclReports' : hcclReports'[i].op.id = hcclReports'[j].op.id => i = j
<1>1. PICK n : n = Len(hcclReports) /\ n \in Nat
  BY LenProperties DEF MarkTypes
<1>2. /\ hcclReports' \in Seq(HcclRecords) /\ ToSet(hcclReports') = ToSet(hcclReports) \cup {q}
      /\ DOMAIN hcclReports = 1 .. n /\ DOMAIN hcclReports' = 1 .. n + 1
      /\ \A i \in 1 .. n : hcclReports'[i] = hcclReports[i]
      /\ hcclReports'[n + 1] = q
      /\ \A i \in 1 .. n + 1 : i \in 1 .. n \/ i = n + 1
  BY <1>1, Added DEF MarkTypes
<1>3. \A i \in 1 .. n : hcclReports[i] \in ToSet(hcclReports) /\ hcclReports[i].op \in HcclOpDescs
  BY <1>2, MarkTypesAre DEF ToSet
<1>4. \A i \in DOMAIN hcclReports' : hcclReports'[i].op \in HcclOpDescs
  BY <1>2, <1>3 DEF HcclRecords
<1>5. HcclOwn'
  <2>1. ASSUME NEW r, r \in ToSet(hcclReports) \/ r = q
        PROVE  /\ r.end = r.op.id
               /\ r.op.id \notin early' => r.op.start = r.op.id
               /\ r.counted = r.op.id \/ (r.op.shape = "alltoallv" /\ counts[r.op.thread] # r.op.id)
               /\ r.op.shape \in RankedShapes => r.ranks = r.op.id
               /\ r.op.shape = "scatter" => r.ranks = 0
    <3>1. CASE r = q
      BY <3>1
    <3>2. CASE r \in ToSet(hcclReports)
      <4>1. PICK i \in DOMAIN hcclReports : r = hcclReports[i]
        BY <3>2 DEF ToSet
      <4>2. QED
        BY <4>1 DEF HcclOwn
    <3>3. QED
      BY <2>1, <3>1, <3>2
  <2>2. \A i \in DOMAIN hcclReports' : hcclReports'[i] \in ToSet(hcclReports) \/ hcclReports'[i] = q
    BY <1>2, <1>3
  <2>3. QED
    BY <2>1, <2>2 DEF HcclOwn
<1>6. \A i, j \in DOMAIN hcclReports' : hcclReports'[i].op.id = hcclReports'[j].op.id => i = j
  <2>1. \A i \in 1 .. n : hcclReports[i].op.id # q.op.id
    BY <1>3
  <2>2. ASSUME NEW i \in 1 .. n + 1, NEW j \in 1 .. n + 1, hcclReports'[i].op.id = hcclReports'[j].op.id
        PROVE  i = j
    <3>1. (i \in 1 .. n \/ i = n + 1) /\ (j \in 1 .. n \/ j = n + 1)
      BY <1>2
    <3>2. CASE i \in 1 .. n /\ j \in 1 .. n
      BY <3>2, <2>2, <1>2
    <3>3. CASE i \in 1 .. n /\ j = n + 1
      BY <3>3, <2>1, <2>2, <1>2
    <3>4. CASE i = n + 1 /\ j \in 1 .. n
      BY <3>4, <2>1, <2>2, <1>2
    <3>5. QED
      BY <3>1, <3>2, <3>3, <3>4
  <2>3. QED
    BY <2>2, <1>2
<1>7. QED
  BY <1>2, <1>4, <1>5, <1>6

LEMMA RecordHcclMarkerKeeps ==
    ASSUME MarksIInv, MaxMarks < OpKeys, RecordHcclMarker
    PROVE  MarksIInv'
<1>1. MarkTypes /\ NamesTell /\ MarksRest /\ IdsGivenOut /\ TracesOrdered /\ DeviceClocks /\ ReaderTells /\ OperationsKept
  BY MarkParts DEF MarksRest
<1>2. PICK h : h = Head(traces)
  OBVIOUS
<1>3. PICK x : x = h.id
  OBVIOUS
<1>4. /\ reader.pc = "deliver" /\ reader.inner /\ reader' = IdleReader /\ traces' = Tail(traces)
      /\ IF h.flag = "start" THEN HcclStarts(x, x) ELSE HcclEnds(x, x)
      /\ UNCHANGED <<domainVars, markerOn, marker, gMarkId, contexts, hostBase, deviceBase, deviceContexts, marks, ranges, failures,
                     hcclOn, hccl, innerMarkIds, counts, told>>
  BY <1>2, <1>3 DEF RecordHcclMarker
<1>5. /\ traces' \in Seq([id: MarkIds, flag: Flags]) /\ h \in [id: MarkIds, flag: Flags]
      /\ ToSet(traces) = {h} \cup ToSet(traces') /\ Unread = ToSet(traces') /\ Unread' = ToSet(traces')
      /\ \A e \in ToSet(traces') : e # h /\ (e.id = x => h.flag = "start" /\ e.flag = "end")
      /\ \A i, j \in DOMAIN traces' : i < j =>
           /\ traces'[i] # traces'[j]
           /\ traces'[i].id = traces'[j].id => traces'[i].flag = "start" /\ traces'[j].flag = "end"
  BY <1>1, <1>2, <1>3, <1>4, TracesShrink
<1>6. h \in ToSet(traces) /\ x \in Given /\ x \in MarkIds /\ h = Trace(x, h.flag)
  BY <1>1, <1>3, <1>5, GivenMarks, ElementsAre DEF IdsGivenOut
<1>7. x \in innerMarkIds /\ h.flag \in {"start", "end"}
  <2>1. x \in innerMarkIds
    BY <1>1, <1>2, <1>3, <1>4 DEF ReaderTells
  <2>2. h.flag # "instantaneous"
    BY <2>1, <1>1, <1>3, <1>6 DEF ReaderTells
  <2>3. QED
    BY <2>1, <2>2, <1>5 DEF Flags
<1>8. PICK flag \in {"start", "end"} : flag = h.flag
  BY <1>7
<1>9. /\ DOMAIN markId2HcclOp' \subseteq DOMAIN markId2HcclOp
      /\ \A k \in DOMAIN markId2HcclOp' :
           \/ markId2HcclOp'[k] = markId2HcclOp[k] /\ ~(k = x /\ flag = "start")
           \/ k = x /\ flag = "start" /\ markId2HcclOp'[k] = [markId2HcclOp[k] EXCEPT !.start = x]
      /\ markId2HcclOp' = [y \in DOMAIN markId2HcclOp' |-> markId2HcclOp'[y]]
      /\ flag = "end" => x \notin DOMAIN markId2HcclOp'
      /\ early' = IF flag = "start" /\ x \notin DOMAIN markId2HcclOp THEN early \cup {x} ELSE early
      /\ \/ hcclReports' = hcclReports
         \/ /\ flag = "end" /\ x \in DOMAIN markId2HcclOp
            /\ hcclReports' = Append(hcclReports, Reckoned(markId2HcclOp[x], x))
  <2>1. IF flag = "start" THEN HcclStarts(x, x) ELSE HcclEnds(x, x)
    BY <1>4, <1>8
  <2>2. QED
    BY <2>1, <1>1, <1>6, HcclMarkMade
<1>10. /\ \A k \in DOMAIN markId2HcclOp : /\ markId2HcclOp[k] \in HcclOpDescs /\ markId2HcclOp[k].id = k
                                          /\ markId2HcclOp[k].start \in {NoStart, k}
       /\ \A k \in DOMAIN markId2HcclOp' : /\ markId2HcclOp'[k] \in HcclOpDescs /\ markId2HcclOp'[k].id = k
                                           /\ markId2HcclOp'[k].start = IF k = x /\ flag = "start" THEN x ELSE markId2HcclOp[k].start
  <2>1. \A k \in DOMAIN markId2HcclOp : markId2HcclOp[k] \in HcclOpDescs /\ markId2HcclOp[k].id = k /\ markId2HcclOp[k].start \in {NoStart, k}
    BY <1>1, MarkTypesAre DEF OperationsKept
  <2>2. \A d \in HcclOpDescs : [d EXCEPT !.start = x] \in HcclOpDescs /\ [d EXCEPT !.start = x].id = d.id /\ [d EXCEPT !.start = x].start = x
    BY <1>6 DEF HcclOpDescs
  <2>3. ASSUME NEW k \in DOMAIN markId2HcclOp'
        PROVE  /\ markId2HcclOp'[k] \in HcclOpDescs /\ markId2HcclOp'[k].id = k
               /\ markId2HcclOp'[k].start = IF k = x /\ flag = "start" THEN x ELSE markId2HcclOp[k].start
    <3>1. PICK d : d = markId2HcclOp[k]
      OBVIOUS
    <3>2. d \in HcclOpDescs /\ d.id = k
      BY <3>1, <2>1, <1>9
    <3>3. CASE markId2HcclOp'[k] = d /\ ~(k = x /\ flag = "start")
      BY <3>1, <3>2, <3>3
    <3>4. CASE k = x /\ flag = "start" /\ markId2HcclOp'[k] = [d EXCEPT !.start = x]
      BY <3>2, <3>4, <2>2
    <3>5. QED
      BY <3>1, <3>3, <3>4, <1>9
  <2>4. QED
    BY <2>1, <2>3
<1>11. early \subseteq early' /\ early' \subseteq MarkIds
  BY <1>1, <1>6, <1>9, MarkTypesAre
<1>12. flag = "end" => Trace(x, "start") \notin ToSet(traces) /\ h = Trace(x, "end")
  <2>1. Trace(x, "start").id = x /\ Trace(x, "start").flag = "start"
    BY DEF Trace
  <2>2. QED
    BY <2>1, <1>5, <1>6, <1>8
<1>13. /\ hcclReports' \in Seq(HcclRecords) /\ \A i \in DOMAIN hcclReports' : hcclReports'[i].op \in HcclOpDescs
       /\ \A r \in ToSet(hcclReports') : r \in ToSet(hcclReports) \/ (flag = "end" /\ r.op.id = x)
       /\ HcclOwn'
       /\ \A i, j \in DOMAIN hcclReports' : hcclReports'[i].op.id = hcclReports'[j].op.id => i = j
  <2>1. HcclOwn /\ \A i, j \in DOMAIN hcclReports : hcclReports[i].op.id = hcclReports[j].op.id => i = j
    BY <1>1 DEF MarksRest, HcclComplete
  <2>2. CASE hcclReports' = hcclReports
    <3>1. HcclOwn'
      BY <2>1, <2>2, <1>4, <1>11 DEF HcclOwn
    <3>2. hcclReports' \in Seq(HcclRecords) /\ \A i \in DOMAIN hcclReports' : hcclReports'[i].op \in HcclOpDescs
      BY <2>2, <1>1, MarkTypesAre DEF MarkTypes
    <3>3. QED
      BY <3>1, <3>2, <2>1, <2>2
  <2>3. CASE /\ flag = "end" /\ x \in DOMAIN markId2HcclOp
             /\ hcclReports' = Append(hcclReports, Reckoned(markId2HcclOp[x], x))
    <3>1. PICK op : op = markId2HcclOp[x]
      OBVIOUS
    <3>2. op \in HcclOpDescs /\ op.id = x /\ op.start \in {NoStart, x}
      BY <2>3, <3>1, <1>10
    <3>3. PICK read : read = CountsRead(op)
      OBVIOUS
    <3>4. read \in {0} \cup MarkIds /\ (read = x \/ (op.shape = "alltoallv" /\ counts[op.thread] # x))
      <4>1. counts[op.thread] \in {0} \cup MarkIds
        BY <3>2, <1>1, MarkTypesAre DEF HcclOpDescs
      <4>2. QED
        BY <4>1, <3>2, <3>3, <1>6 DEF CountsRead
    <3>14. PICK size : size = RankSize(op)
      OBVIOUS
    <3>15. /\ size \in {0} \cup MarkIds
          /\ (op.shape \in RankedShapes => size = x) /\ (op.shape = "scatter" => size = 0)
      BY <3>2, <3>14, <1>6 DEF RankSize, RankedShapes
    <3>5. PICK q : q = [op |-> op, end |-> x, counted |-> read, ranks |-> size]
      OBVIOUS
    <3>6. q \in HcclRecords /\ q.op = op /\ q.end = x /\ q.counted = read /\ q.ranks = size
      BY <3>2, <3>4, <3>5, <3>15, <1>6 DEF HcclRecords
    <3>7. op.start = NoStart => x \in early
      BY <2>3, <3>1, <1>1, <1>7, <1>12 DEF OperationsKept, Trace
    <3>8. \A r \in ToSet(hcclReports) : r.op.id # q.op.id
      BY <3>2, <3>6, <1>1, <1>3, <1>6 DEF TracesOrdered
    <3>9. q.op.id \notin early' => q.op.start = q.op.id
      BY <3>2, <3>6, <3>7, <1>11
    <3>10. /\ q.counted = q.op.id \/ (q.op.shape = "alltoallv" /\ counts[q.op.thread] # q.op.id)
           /\ q.op.shape \in RankedShapes => q.ranks = q.op.id
           /\ q.op.shape = "scatter" => q.ranks = 0
      BY <3>2, <3>4, <3>6, <3>15
    <3>11. hcclReports' = Append(hcclReports, q) /\ q.end = q.op.id /\ UNCHANGED counts
      BY <2>3, <3>1, <3>2, <3>3, <3>5, <3>6, <3>14, <1>4 DEF Reckoned
    <3>12. /\ hcclReports' \in Seq(HcclRecords) /\ \A i \in DOMAIN hcclReports' : hcclReports'[i].op \in HcclOpDescs
           /\ ToSet(hcclReports') = ToSet(hcclReports) \cup {q}
           /\ HcclOwn'
           /\ \A i, j \in DOMAIN hcclReports' : hcclReports'[i].op.id = hcclReports'[j].op.id => i = j
      BY <2>1, <3>6, <3>8, <3>9, <3>10, <3>11, <1>1, <1>11, ReportAdded
    <3>13. QED
      BY <2>3, <3>2, <3>6, <3>12
  <2>4. QED
    BY <2>2, <2>3, <1>9
<1>14. MarkTypes'
  <2>1. hccl' \in [HcclThreads -> [pc: {"idle", "insert", "record", "end"}, id: {0} \cup MarkIds, shape: Shapes \cup {"p2p"}, ok: BOOLEAN]]
    BY <1>1, <1>4, MarkTypesAre
  <2>2. \A u \in HcclThreads : hccl'[u].pc # "idle" => hccl'[u].shape \in Shapes
    BY <1>1, <1>4 DEF MarkTypes
  <2>3. /\ gMarkId' \in 0 .. MaxMarks /\ failures' \in 0 .. MaxFailures /\ marks' \in Seq(Markers) /\ hcclOn' \in BOOLEAN
        /\ innerMarkIds' \subseteq MarkIds /\ counts' \in [HcclThreads -> {0} \cup MarkIds] /\ told' \subseteq MarkIds
    BY <1>1, <1>4, MarkTypesAre
  <2>4. reader' \in [pc: {"idle", "deliver"}, base: Bases, inner: BOOLEAN]
    BY <1>4 DEF IdleReader, Bases
  <2>5. UNCHANGED <<domainVars, markerOn, marker, contexts, hostBase, deviceBase, deviceContexts, ranges>>
    BY <1>4
  <2>6. \A i \in DOMAIN markId2HcclOp' : markId2HcclOp'[i] \in HcclOpDescs
    BY <1>10
  <2>7. QED
    BY <2>1, <2>2, <2>3, <2>4, <2>5, <2>6, <1>1, <1>5, <1>9, <1>11, <1>13, HcclTypes
<1>15. NamesTell'
  BY <1>1, <1>4 DEF NamesTell, domainVars
<1>16. Given' = Given
  BY <1>4 DEF Given
<1>17. \A y : Open(y)' <=> Open(y)
  BY <1>4 DEF Open, ClientOpen, HcclOpen, Starting, Wrapping
<1>18. IdsGivenOut'
  <2>1. /\ \A e \in ToSet(traces') : e.id \in Given
        /\ \A r \in ToSet(hcclReports') : r.op.id \in Given
        /\ DOMAIN markId2HcclOp' \subseteq Given
    BY <1>1, <1>5, <1>6, <1>9, <1>13 DEF IdsGivenOut
  <2>2. QED
    BY <2>1, <1>1, <1>4, <1>16 DEF IdsGivenOut, Wrapping
<1>19. OneHolder'
  BY <1>1, <1>4, <1>16 DEF MarksRest, OneHolder, Starting, Ending, Wrapping, ClientOpen, HcclOpen
<1>20. OpenNotEnded'
  <2>1. ASSUME NEW y \in Given, Open(y)
        PROVE  /\ Trace(y, "end") \notin ToSet(traces') /\ Trace(y, "instantaneous") \notin ToSet(traces')
               /\ \A q \in ToSet(marks) : q.id = y => q.flag # "end" /\ (q.source = "device" => q.flag = "start")
               /\ \A q \in ToSet(hcclReports') : q.op.id # y
               /\ y \notin told
               /\ \A u \in MarkThreads : Ending(u) => marker[u].id # y
    <3>1. /\ Trace(y, "end") \notin ToSet(traces) /\ Trace(y, "instantaneous") \notin ToSet(traces)
          /\ \A q \in ToSet(marks) : q.id = y => q.flag # "end" /\ (q.source = "device" => q.flag = "start")
          /\ \A q \in ToSet(hcclReports) : q.op.id # y
          /\ y \notin told
          /\ \A u \in MarkThreads : Ending(u) => marker[u].id # y
      BY <2>1, <1>1 DEF MarksRest, OpenNotEnded
    <3>2. flag = "end" => y # x
      BY <3>1, <1>6, <1>12
    <3>3. QED
      BY <3>1, <3>2, <1>5, <1>13
  <2>2. QED
    BY <2>1, <1>4, <1>16, <1>17 DEF OpenNotEnded, Trace, Ending
<1>21. TracesOrdered'
  <2>1. \A e \in ToSet(traces') :
          /\ \A q \in ToSet(marks) : q.source = "device" /\ q.id = e.id => e.flag = "end" /\ q.flag = "start"
          /\ \A r \in ToSet(hcclReports') : r.op.id # e.id
    <3>1. \A e \in ToSet(traces') : e.id = x => flag = "start"
      BY <1>5, <1>8
    <3>2. QED
      BY <3>1, <1>1, <1>5, <1>13 DEF TracesOrdered
  <2>2. reader'.pc # "deliver"
    BY <1>4 DEF IdleReader
  <2>3. QED
    BY <2>1, <2>2, <1>4, <1>5 DEF TracesOrdered
<1>22. \A y : EndComing(y)' <=> EndComing(y)
  BY <1>5, <1>17 DEF EndComing, Trace
<1>23. DeviceClocks'
  <2>1. \A y \in DOMAIN deviceContexts : Trace(y, "start") \notin Unread'
    BY <1>1, <1>5 DEF DeviceClocks
  <2>2. \A q \in ToSet(marks) : (q.source = "device" /\ q.flag = "start" /\ EndComing(q.id)') => DeviceKeeps(q.id, q.base)
    BY <1>1, <1>22 DEF DeviceClocks
  <2>3. reader'.pc # "deliver"
    BY <1>4 DEF IdleReader
  <2>4. QED
    BY <2>1, <2>2, <2>3, <1>4 DEF DeviceClocks, DeviceKeeps, Trace
<1>24. HostClocks'
  BY <1>1, <1>4 DEF MarksRest, HostClocks, Fits, HostStart, Starting, Ending
<1>25. OperationsKept'
  <2>1. \A y : Trace(y, "start") \notin ToSet(traces') => Trace(y, "start") \notin ToSet(traces) \/ (y = x /\ flag = "start")
    BY <1>5, <1>6, <1>8 DEF Trace
  <2>2. \A y : Trace(y, "end") \in ToSet(traces) => Trace(y, "end") \in ToSet(traces') \/ (y = x /\ flag = "end")
    BY <1>5, <1>6, <1>8 DEF Trace
  <2>3. ASSUME NEW u \in HcclThreads, Wrapping(u)
        PROVE  /\ hccl[u].pc = "insert" => hccl[u].ok /\ hccl[u].id \notin innerMarkIds
               /\ hccl[u].pc # "insert" => hccl[u].ok = (hccl[u].id \in innerMarkIds)
               /\ hccl[u].pc # "end" =>
                     /\ hccl[u].id \notin DOMAIN markId2HcclOp'
                     /\ hccl[u].ok /\ Trace(hccl[u].id, "start") \notin ToSet(traces') => hccl[u].id \in early'
    BY <2>1, <2>3, <1>1, <1>9 DEF OperationsKept
  <2>4. ASSUME NEW k \in DOMAIN markId2HcclOp'
        PROVE  /\ markId2HcclOp'[k].id = k /\ markId2HcclOp'[k].start \in {NoStart, k}
               /\ (k \in innerMarkIds /\ markId2HcclOp'[k].start = NoStart /\ Trace(k, "start") \notin ToSet(traces')) => k \in early'
    <3>1. k \in DOMAIN markId2HcclOp
      BY <1>9
    <3>2. markId2HcclOp'[k].id = k /\ markId2HcclOp'[k].start \in {NoStart, k}
      BY <3>1, <1>10
    <3>3. CASE k = x /\ flag = "start"
      <4>1. x # NoStart
        BY <1>6 DEF MarkIds, NoStart
      <4>2. QED
        BY <4>1, <3>2, <3>3, <1>10
    <3>4. CASE ~(k = x /\ flag = "start")
      BY <3>1, <3>2, <3>4, <2>1, <1>1, <1>10, <1>11 DEF OperationsKept
    <3>5. QED
      BY <3>3, <3>4
  <2>5. told \subseteq innerMarkIds /\ \A y \in told : Trace(y, "end") \in ToSet(traces') \/ y \notin DOMAIN markId2HcclOp'
    BY <2>2, <1>1, <1>9 DEF OperationsKept
  <2>6. QED
    BY <2>3, <2>4, <2>5, <1>4 DEF OperationsKept, Wrapping, Trace
<1>26. ReaderTells'
  <2>1. reader'.pc # "deliver"
    BY <1>4 DEF IdleReader
  <2>2. \A e \in ToSet(traces') : e.flag = "instantaneous" => e.id \notin innerMarkIds
    BY <1>1, <1>5 DEF ReaderTells
  <2>3. \A q \in ToSet(marks) : q.source = "device" => IF q.flag = "start" THEN q.id \in early' ELSE q.id \notin told
    BY <1>1, <1>11 DEF ReaderTells
  <2>4. QED
    BY <2>1, <2>2, <2>3, <1>4 DEF ReaderTells
<1>27. RangesPaired' /\ OneClock' /\ DisabledSilent'
  BY <1>1, <1>4 DEF MarksRest, RangesPaired, OneClock, DisabledSilent
<1>28. HcclComplete'
  <2>1. told' \subseteq MarkIds
    BY <1>1, <1>4, MarkTypesAre
  <2>2. QED
    BY <2>1, <1>13, <1>25, NoneLeft
<1>29. QED
  BY <1>13, <1>14, <1>15, <1>18, <1>19, <1>20, <1>21, <1>23, <1>24, <1>25, <1>26, <1>27, <1>28, MarkParts DEF MarksRest


\* At first nothing is marked.
LEMMA MarksInit ==
    ASSUME HcclInit
    PROVE  MarksIInv
<1>1. /\ DomainsInit /\ markerOn = TRUE /\ marker = [t \in MarkThreads |-> IdleMarker] /\ gMarkId = 0
      /\ contexts = <<>> /\ hostBase = 0 /\ deviceBase = 0
      /\ traces = <<>> /\ deviceContexts = <<>> /\ reader = IdleReader
      /\ marks = <<>> /\ ranges = {} /\ failures = 0
      /\ hcclOn = TRUE /\ hccl = [t \in HcclThreads |-> IdleHccl] /\ innerMarkIds = {} /\ markId2HcclOp = <<>>
      /\ counts = [t \in HcclThreads |-> 0] /\ hcclReports = <<>> /\ early = {} /\ told = {}
  BY DEF HcclInit, MarkerInit
<1>2. /\ DOMAIN contexts = {} /\ DOMAIN deviceContexts = {} /\ DOMAIN markId2HcclOp = {} /\ DOMAIN marks = {} /\ DOMAIN hcclReports = {}
      /\ DOMAIN traces = {} /\ ToSet(traces) = {} /\ ToSet(marks) = {} /\ ToSet(hcclReports) = {}
  <2>1. DOMAIN <<>> = {} /\ ToSet(<<>>) = {}
    BY EmptySeq DEF ToSet
  <2>2. QED
    BY <2>1, <1>1
<1>3. \A t \in MarkThreads : /\ marker[t].pc = "idle" /\ marker[t].handle = 0 /\ ~marker[t].muted
                             /\ ~Starting(t) /\ ~Ending(t)
  BY <1>1 DEF IdleMarker, Starting, Ending
<1>4. \A t \in HcclThreads : hccl[t].pc = "idle" /\ ~Wrapping(t) /\ counts[t] = 0
  BY <1>1 DEF IdleHccl, Wrapping
<1>5. reader.pc = "idle"
  BY <1>1 DEF IdleReader
<1>6. /\ DomainsTypeOK /\ DOMAIN domains = {1} /\ Len(domains) = 1 /\ domains[1].enabled = TRUE /\ disabled = {}
  <2>1. PICK d : d = [name |-> DefaultName, destroyed |-> FALSE, enabled |-> TRUE]
    OBVIOUS
  <2>2. d \in [name: Names \cup {DefaultName}, destroyed: BOOLEAN, enabled: BOOLEAN] /\ d.enabled = TRUE
    BY <2>1
  <2>3. domains = <<d>> /\ disabled = {} /\ held = [n \in Names |-> 0]
    BY <2>1, <1>1 DEF DomainsInit, Attr
  <2>4. DOMAIN domains = {1} /\ Len(domains) = 1 /\ domains[1] = d
    BY <2>3
  <2>5. domains \in Seq([name: Names \cup {DefaultName}, destroyed: BOOLEAN, enabled: BOOLEAN])
    BY <2>2, <2>3
  <2>6. held \in [Names -> 0 .. Len(domains)]
    BY <2>3, <2>4
  <2>7. QED
    BY <2>2, <2>3, <2>4, <2>5, <2>6 DEF DomainsTypeOK
<1>7. MarkTypes
  <2>1. marker \in [MarkThreads -> [pc: {"idle", "name", "report", "record", "context"}, flag: Flags, asked: Asked,
                                   device: BOOLEAN, id: {0} \cup MarkIds, base: Bases, clock: Bases, handle: Nat, taken: BOOLEAN, muted: BOOLEAN]]
    BY <1>1 DEF IdleMarker, Flags, Asked, Bases
  <2>2. MarkerTypeOK
    BY <2>1, <1>1, <1>2, <1>6, EmptySeq, MarkerAssumption DEF MarkerTypeOK, IdleReader, Bases
  <2>3. hccl \in [HcclThreads -> [pc: {"idle", "insert", "record", "end"}, id: {0} \cup MarkIds, shape: Shapes \cup {"p2p"}, ok: BOOLEAN]]
    BY <1>1 DEF IdleHccl
  <2>4. HcclTypeOK
    BY <2>2, <2>3, <1>1, <1>2 DEF HcclTypeOK
  <2>5. \A f : f = <<>> => f = [x \in DOMAIN f |-> f[x]]
    OBVIOUS
  <2>6. hcclReports \in Seq(HcclRecords)
    BY <1>1, EmptySeq
  <2>7. deviceBase <= MaxSyncs
    BY <1>1, MarkerAssumption
  <2>8. QED
    BY <2>4, <2>5, <2>6, <2>7, <1>1, <1>3, <1>4, <1>6 DEF MarkTypes
<1>8. NamesTell
  <2>1. \A h \in DOMAIN domains : domains[h].enabled = (domains[h].name \notin disabled)
    BY <1>6
  <2>2. QED
    BY <2>1, <1>3 DEF NamesTell
<1>9. \A y : ~Open(y) /\ ~ClientOpen(y)
  BY <1>2, <1>3, <1>4 DEF Open, ClientOpen, HcclOpen
<1>10. IdsGivenOut /\ OneHolder /\ OpenNotEnded
  <2>1. IdsGivenOut
    BY <1>1, <1>2, <1>3, <1>4 DEF IdsGivenOut
  <2>2. OneHolder
    BY <1>3, <1>4, <1>9 DEF OneHolder
  <2>3. QED
    BY <2>1, <2>2, <1>9 DEF OpenNotEnded
<1>11. TracesOrdered /\ DeviceClocks /\ HostClocks
  <2>1. TracesOrdered
    BY <1>2, <1>5 DEF TracesOrdered
  <2>2. DeviceClocks
    BY <1>2, <1>5 DEF DeviceClocks
  <2>3. HostClocks
    BY <1>1, <1>2, <1>3 DEF HostClocks
  <2>4. QED
    BY <2>1, <2>2, <2>3
<1>12. OperationsKept /\ ReaderTells
  BY <1>1, <1>2, <1>4, <1>5 DEF OperationsKept, ReaderTells
<1>13. RangesPaired /\ OneClock /\ DisabledSilent /\ HcclOwn /\ HcclComplete
  BY <1>1, <1>2 DEF RangesPaired, OneClock, DisabledSilent, HcclOwn, HcclComplete
<1>14. QED
  BY <1>7, <1>8, <1>10, <1>11, <1>12, <1>13 DEF MarksIInv

\* A client's call, from its beginning.
LEMMA CallsKeep ==
    ASSUME MarksIInv, NEW t \in MarkThreads, MstxMark(t) \/ MstxRangeStart(t) \/ MstxRangeEnd(t), UNCHANGED hcclVars
    PROVE  MarksIInv'
<1>1. MarkTypes /\ ranges \subseteq MarkIds
  BY MarkParts, MarkTypesAre
<1>2. CASE MstxMark(t)
  BY <1>2, CallBeginsKeeps DEF MstxMark, Flags
<1>3. CASE MstxRangeStart(t)
  BY <1>3, CallBeginsKeeps DEF MstxRangeStart, Flags
<1>4. CASE MstxRangeEnd(t)
  <2>1. PICK asked \in Asked, id \in ranges : CallBegins(t, "end", asked, FALSE, id)
    BY <1>4 DEF MstxRangeEnd
  <2>2. id \in {0} \cup MarkIds /\ "end" \in Flags
    BY <1>1 DEF Flags
  <2>3. QED
    BY <2>1, <2>2, CallBeginsKeeps
<1>5. QED
  BY <1>2, <1>3, <1>4

LEMMA MarkStepsKeep ==
    ASSUME MarksIInv, NEW t \in MarkThreads, MarkSteps(t), UNCHANGED hcclVars
    PROVE  MarksIInv'
<1>1. CASE FindsName(t)
  BY <1>1, FindsNameKeeps
<1>2. CASE KeepsRange(t)
  BY <1>2, KeepsRangeKeeps
<1>3. CASE \E ok \in BOOLEAN : ReportsMark(t, ok)
  <2>1. CASE ReportsMark(t, TRUE)
    BY <2>1, ReportsMarkKeeps
  <2>2. CASE ReportsMark(t, FALSE)
    BY <2>2, ReportsMarkFails
  <2>3. QED
    BY <2>1, <2>2, <1>3
<1>4. CASE \E ok \in BOOLEAN : ReportsRangeEnd(t, ok)
  BY <1>4, ReportsRangeEndKeeps
<1>5. CASE \E ok \in BOOLEAN : RecordsMark(t, ok)
  BY <1>5, RecordsMarkKeeps
<1>6. QED
  BY <1>1, <1>2, <1>3, <1>4, <1>5 DEF MarkSteps

\* Every step keeps it.
LEMMA MarksStep ==
    ASSUME MaxMarks < OpKeys, MarksIInv, [MarksNext]_<<domainVars, markVars, hcclVars>>
    PROVE  MarksIInv'
<1>1. CASE UNCHANGED <<domainVars, markVars, hcclVars>>
  <2>1. MarkTypes /\ NamesTell /\ MarksRest
    BY MarkParts
  <2>2. MarksRest'
    BY <2>1, <1>1, RestKept DEF markVars, hcclVars, RestVars
  <2>3. NamesTell'
    BY <2>1, <1>1 DEF NamesTell, domainVars, markVars
  <2>4. MarkTypes'
    BY <2>1, <1>1 DEF MarkTypes, HcclTypeOK, MarkerTypeOK, DomainsTypeOK, domainVars, markVars, hcclVars
  <2>5. QED
    BY <2>2, <2>3, <2>4, MarkParts
<1>2. CASE SwitchesHccl
  BY <1>2, SwitchesHcclKeeps
<1>3. CASE \E t \in HcclThreads :
              \/ \E shape \in Shapes, ok \in BOOLEAN : InnerDeviceStartA(t, shape, ok)
              \/ InsertsInner(t) \/ RecordHcclOp(t) \/ \E ok \in BOOLEAN : InnerDeviceEndA(t, ok)
  <2>1. PICK t \in HcclThreads :
              \/ \E shape \in Shapes, ok \in BOOLEAN : InnerDeviceStartA(t, shape, ok)
              \/ InsertsInner(t) \/ RecordHcclOp(t) \/ \E ok \in BOOLEAN : InnerDeviceEndA(t, ok)
    BY <1>3
  <2>2. CASE \E shape \in Shapes, ok \in BOOLEAN : InnerDeviceStartA(t, shape, ok)
    BY <2>2, InnerDeviceStartKeeps
  <2>3. CASE InsertsInner(t)
    BY <2>3, InsertsInnerKeeps
  <2>4. CASE RecordHcclOp(t)
    BY <2>4, RecordHcclOpKeeps
  <2>5. CASE \E ok \in BOOLEAN : InnerDeviceEndA(t, ok)
    BY <2>5, InnerDeviceEndKeeps
  <2>6. QED
    BY <2>1, <2>2, <2>3, <2>4, <2>5
<1>4. CASE DeviceReadsAny
  BY <1>4, DeviceReadsAnyKeeps
<1>5. CASE RecordHcclMarker
  BY <1>5, RecordHcclMarkerKeeps
<1>6. CASE DomainsNext /\ UNCHANGED hcclVars
  <2>1. CASE ChangesDomains
    BY <2>1, <1>6, ChangesDomainsKeeps
  <2>2. ASSUME NEW t \in MarkThreads, MstxMark(t) \/ MarkSteps(t) PROVE MarksIInv'
    BY <2>2, <1>6, CallsKeep, MarkStepsKeep
  <2>3. QED
    BY <2>1, <2>2, <1>6 DEF DomainsNext
<1>7. CASE DeviceDelivers /\ UNCHANGED hcclVars
  BY <1>7, DeviceDeliversKeeps
<1>8. CASE (SwitchesMarker \/ InitHostTimeInfo \/ InitDeviceTimeInfo) /\ UNCHANGED hcclVars
  BY <1>8, ReadingsKeep
<1>9. CASE (\E t \in MarkThreads : MstxRangeStart(t) \/ MstxRangeEnd(t)) /\ UNCHANGED hcclVars
  BY <1>9, CallsKeep
<1>10. QED
  BY <1>1, <1>2, <1>3, <1>4, <1>5, <1>6, <1>7, <1>8, <1>9 DEF MarksNext, HcclMarksNext

\* Everything that the marks, the ranges and the operations rest on, as long as no more than 2^32 marks are made.
THEOREM MarksInductive == MaxMarks < OpKeys => (MarksSpec => []MarksIInv)
<1>1. SUFFICES ASSUME MaxMarks < OpKeys PROVE MarksSpec => []MarksIInv
  OBVIOUS
<1>2. HcclInit => MarksIInv
  BY MarksInit
<1>3. MarksIInv /\ [MarksNext]_<<domainVars, markVars, hcclVars>> => MarksIInv'
  BY <1>1, MarksStep
<1>4. QED
  BY <1>2, <1>3, PTL DEF MarksSpec

\* A range is ended once, after its start, with the reading of its start, and a disabled domain is silent.
THEOREM MarksCorrect == MaxMarks < OpKeys => (MarksSpec => []MarkerInv)
<1>1. SUFFICES ASSUME MaxMarks < OpKeys PROVE MarksSpec => []MarkerInv
  OBVIOUS
<1>2. MarksIInv => MarkerInv
  BY DEF MarksIInv, MarkerInv
<1>3. MarksSpec => []MarksIInv
  BY <1>1, MarksInductive
<1>4. QED
  BY <1>2, <1>3, PTL

\* An operation gets its own times, once, and a client sees none of its marks.
THEOREM HcclCorrect == MaxMarks < OpKeys => (MarksSpec => []HcclInv)
<1>1. SUFFICES ASSUME MaxMarks < OpKeys PROVE MarksSpec => []HcclInv
  OBVIOUS
<1>2. MarksIInv => HcclInv
  <2>1. SUFFICES ASSUME MarksIInv PROVE HcclInv
    OBVIOUS
  <2>2. InnerHidden
    <3>1. ASSUME NEW i \in DOMAIN marks, marks[i].source = "device", marks[i].id \notin early PROVE marks[i].id \notin told
      <4>1. marks[i] \in ToSet(marks)
        BY DEF ToSet
      <4>2. QED
        BY <4>1, <3>1, <2>1 DEF MarksIInv, ReaderTells
    <3>2. QED
      BY <3>1 DEF InnerHidden
  <2>3. QED
    BY <2>1, <2>2 DEF MarksIInv, MarkTypes, HcclInv
<1>3. MarksSpec => []MarksIInv
  BY <1>1, MarksInductive
<1>4. QED
  BY <1>2, <1>3, PTL
=============================================================================
