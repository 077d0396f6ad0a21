--------------------------- MODULE Clients_proofs ---------------------------
(***************************************************************************)
(* What TLAPS proves of the clients that are part of the repository.  Of   *)
(* MstxMonitor, for any number of threads, ranges and sources: a range     *)
(* that the user sees is made of its own two markers, and once both have   *)
(* been handed over it is seen and its entry given back.  Of PyAdapter,    *)
(* for any number of monitors, kinds and buffers: the buffers and the      *)
(* callbacks in use are alive, and the count is that of the monitors.      *)
(***************************************************************************)
EXTENDS PyAdapter, MstxMonitor, FiniteSetTheorems, TLAPS

(***************************************************************************)
(* The inductive invariant.  A marker has arrived when its thread is past  *)
(* the step that stores it; an entry is filled by what has arrived until a *)
(* thread that found it whole has called the user and pops it.             *)
(***************************************************************************)

RangeKeys == RangeIds \X Sources
Flag2 == {"start", "end"}
MarkerOf(k, f) == [id |-> k[1], source |-> k[2], flag |-> f]
WholeOf(k) == [start |-> MarkerOf(k, "start"), end |-> MarkerOf(k, "end")]

Arrived(m) == m \notin coming /\ \A t \in Callers : ~(caller[t].at = "store" /\ caller[t].marker = m)
BothArrived(k) == Arrived(MarkerOf(k, "start")) /\ Arrived(MarkerOf(k, "end"))

\* A thread in _append_data has a marker that no buffer and no other thread has;
\* an instant goes to the test of an entry that nobody fills.
Holding(t) == caller[t].at # "idle"
OwnMarker ==
    /\ \A t \in Callers :
          IF Holding(t)
          THEN caller[t].marker \in MarkerData \ coming
               /\ (caller[t].at # "test" => caller[t].marker.id \in RangeIds)
          ELSE caller[t] = Idle
    /\ \A t, u \in Callers : Holding(t) /\ Holding(u) /\ t # u => caller[t].marker # caller[u].marker

\* What an entry holds are the markers of its key, and they have arrived.
EntryHolds(k, e) ==
    /\ e.start # Unset => k \in RangeKeys /\ e.start = MarkerOf(k, "start") /\ Arrived(e.start)
    /\ e.end # Unset => k \in RangeKeys /\ e.end = MarkerOf(k, "end") /\ Arrived(e.end)
EntriesOwn == \A k \in Keys : EntryHolds(k, EntryOf(k))

\* A thread that goes on with a range has found both markers, and after the
\* user's callback the range is one that the user has seen.
AtRange ==
    \A t \in Callers :
        /\ caller[t].at \in {"assemble", "call", "pop"} => Key(t) \in RangeKeys /\ BothArrived(Key(t))
        /\ caller[t].at \in {"call", "pop"} => caller[t].range = WholeOf(Key(t))
        /\ caller[t].at = "pop" => WholeOf(Key(t)) \in reported

Seen ==
    /\ raised \subseteq reported
    /\ \A e \in reported : \E k \in RangeKeys : e = WholeOf(k) /\ BothArrived(k)

\* What has arrived and is not seen yet is in the entry ...
Kept ==
    \A k \in RangeKeys : WholeOf(k) \notin reported =>
        /\ Arrived(MarkerOf(k, "start")) => EntryOf(k).start # Unset
        /\ Arrived(MarkerOf(k, "end")) => EntryOf(k).end # Unset

\* ... and an entry is filled and emptied as a whole, by a thread that is there.
Attended(k) == \E t \in Callers : caller[t].at \in {"test", "assemble", "call", "pop"} /\ Key(t) = k
WholeOrEmpty ==
    \A k \in RangeKeys : BothArrived(k) =>
        /\ EntryOf(k) \in {WholeOf(k), EmptyEntry}
        /\ EntryOf(k) = WholeOf(k) /\ WholeOf(k) \notin raised => Attended(k)

MonitorIInv == MonitorTypeOK /\ OwnMarker /\ EntriesOwn /\ AtRange /\ Seen /\ Kept /\ WholeOrEmpty

----------------------------------------------------------------------------
(* Entries as the steps make them *)

LEMMA EmptyIsEntry == EmptyEntry \in Entries
BY DEF EmptyEntry, Entries

LEMMA EntryFacts ==
    ASSUME NEW e \in Entries, NEW m \in MarkerData
    PROVE  /\ m.flag = "start" => Stored(e, m) = [start |-> m, end |-> e.end]
           /\ m.flag = "end" => Stored(e, m) = [start |-> e.start, end |-> m]
<1>1. CASE m.flag = "start"
  <2>1. Stored(e, m) = [e EXCEPT !["start"] = m]
    BY <1>1 DEF Stored
  <2> QED BY <1>1, <2>1 DEF Entries
<1>2. CASE m.flag = "end"
  <2>1. Stored(e, m) = [e EXCEPT !["end"] = m]
    BY <1>2 DEF Stored
  <2> QED BY <1>2, <2>1 DEF Entries
<1> QED BY <1>1, <1>2

LEMMA MarkerFacts ==
    /\ \A m \in MarkerData : <<m.id, m.source>> \in Keys /\ m # Unset
    /\ \A m \in MarkerData : m.id \in RangeIds =>
          /\ m.flag \in Flag2 /\ m = MarkerOf(<<m.id, m.source>>, m.flag)
          /\ <<m.id, m.source>> \in RangeKeys
    /\ \A k \in RangeKeys, f \in Flag2 : /\ MarkerOf(k, f) \in MarkerData /\ MarkerOf(k, f).id \in RangeIds
                                         /\ MarkerOf(k, f).flag = f
                                         /\ <<MarkerOf(k, f).id, MarkerOf(k, f).source>> = k
    /\ RangeKeys \subseteq Keys
BY MonitorAssumption DEF MarkerData, MarkersOf, Keys, RangeKeys, Flag2, MarkerOf, Unset

LEMMA KeyFacts == 
    ASSUME MonitorTypeOK, OwnMarker, NEW t \in Callers, Holding(t)
    PROVE  Key(t) \in Keys /\ EntryOf(Key(t)) \in Entries /\ caller[t].marker \in MarkerData
<1>1. caller[t].marker \in MarkerData
  BY DEF OwnMarker
<1>2. Key(t) \in Keys
  BY <1>1, MarkerFacts DEF Key, UniqueId
<1>3. EntryOf(Key(t)) \in Entries
  BY EmptyIsEntry DEF MonitorTypeOK, EntryOf
<1> QED BY <1>1, <1>2, <1>3

(* What a step changes: one thread's place, and one entry *)

LEMMA EntryAfter ==
    ASSUME NEW k, NEW e, SetsEntry(k, e)
    PROVE  \A j : EntryOf(j)' = IF j = k THEN e ELSE EntryOf(j)
BY DEF SetsEntry, EntryOf

LEMMA EntryTypeAfter ==
    ASSUME MonitorTypeOK, NEW k \in Keys, NEW e \in Entries, SetsEntry(k, e)
    PROVE  DOMAIN dataDict' \subseteq Keys /\ \A j \in DOMAIN dataDict' : dataDict'[j] \in Entries
BY DEF SetsEntry, MonitorTypeOK

\* Where the thread t moves with the marker it has, or puts it down after its
\* store, nothing else has arrived.
LEMMA ArrivedStays ==
    ASSUME NEW t \in Callers, NEW v, MonitorTypeOK, UNCHANGED coming, caller[t].at # "store", v.at # "store",
           caller' = [caller EXCEPT ![t] = v]
    PROVE  \A m : Arrived(m)' <=> Arrived(m)
BY DEF Arrived, MonitorTypeOK

LEMMA OwnMarkerStays ==
    ASSUME MonitorTypeOK, OwnMarker, NEW t \in Callers, NEW v, UNCHANGED coming, Holding(t),
           caller' = [caller EXCEPT ![t] = v],
           v = Idle \/ (v.marker = caller[t].marker /\ v.at \in {"test", "assemble", "call", "pop"}),
           v.at \in {"assemble", "call", "pop"} => caller[t].marker.id \in RangeIds
    PROVE  OwnMarker'
<1>1. \A u \in Callers : caller'[u] = IF u = t THEN v ELSE caller[u]
  BY DEF MonitorTypeOK
<1>2. \A u \in Callers : Holding(u)' => Holding(u) /\ caller'[u].marker = caller[u].marker
  BY <1>1 DEF Holding, Idle
<1> QED BY <1>1, <1>2 DEF OwnMarker, Holding, Idle

----------------------------------------------------------------------------
(* Each step keeps the invariant *)

LEMMA InitKeeps == MonitorInit => MonitorIInv
<1> SUFFICES ASSUME MonitorInit PROVE MonitorIInv
  OBVIOUS
<1>1. MonitorTypeOK
  BY DEF MonitorInit, MonitorTypeOK, Idle, Entries, EmptyEntry
<1>2. OwnMarker /\ AtRange /\ Seen
  BY DEF MonitorInit, OwnMarker, AtRange, Seen, Holding, Idle
<1>3. \A k : EntryOf(k) = EmptyEntry
  BY DEF MonitorInit, EntryOf
<1>4. EntriesOwn
  BY <1>3 DEF EntriesOwn, EntryHolds, EmptyEntry
<1>5. \A k \in RangeKeys, f \in Flag2 : ~Arrived(MarkerOf(k, f))
  BY MarkerFacts DEF MonitorInit, Arrived
<1>6. Kept /\ WholeOrEmpty
  BY <1>5 DEF Kept, WholeOrEmpty, BothArrived, Flag2
<1> QED BY <1>1, <1>2, <1>4, <1>6 DEF MonitorIInv

LEMMA CallsMonitorKeeps ==
    ASSUME MonitorIInv, NEW t \in Callers, NEW m \in coming, CallsMonitor(t, m)
    PROVE  MonitorIInv'
<1> DEFINE v == [at |-> IF m.flag = "instant" THEN "test" ELSE "store", marker |-> m, range |-> EmptyEntry]
<1>1. /\ MonitorTypeOK /\ m \in MarkerData /\ caller[t] = Idle /\ coming' = coming \ {m}
      /\ caller' = [caller EXCEPT ![t] = v] /\ UNCHANGED <<dataDict, reported, raised>>
  BY DEF MonitorIInv, MonitorTypeOK, CallsMonitor
<1>2. \A u \in Callers : caller'[u] = IF u = t THEN v ELSE caller[u]
  BY <1>1 DEF MonitorTypeOK
<1>3. MonitorTypeOK'
  <2>1. v \in [at: {"idle", "store", "test", "assemble", "call", "pop"}, marker: MarkerData \cup {Unset}, range: Entries]
    BY <1>1, EmptyIsEntry
  <2>2. marked' \subseteq MarkerData
    BY <1>1 DEF CallsMonitor, MonitorTypeOK
  <2> QED BY <1>1, <2>1, <2>2 DEF MonitorTypeOK
<1>4. m.flag # "instant" => m.id \in RangeIds
  BY <1>1 DEF MarkerData, MarkersOf
<1>5. OwnMarker'
  BY <1>1, <1>2, <1>4 DEF MonitorIInv, OwnMarker, Holding, Idle
<1>6. /\ \A k \in RangeKeys, f \in Flag2 : Arrived(MarkerOf(k, f))' <=> Arrived(MarkerOf(k, f))
      /\ \A k \in RangeKeys : BothArrived(k)' <=> BothArrived(k)
  <2>1. ASSUME NEW k \in RangeKeys, NEW f \in Flag2
        PROVE  Arrived(MarkerOf(k, f))' <=> Arrived(MarkerOf(k, f))
    <3>1. CASE m.flag = "instant"
      <4>1. MarkerOf(k, f) # m
        BY <3>1, MarkerFacts DEF Flag2
      <4> QED BY <1>1, <1>2, <3>1, <4>1 DEF Arrived, Idle
    <3>2. CASE m.flag # "instant"
      BY <1>1, <1>2, <3>2 DEF Arrived, Idle
    <3> QED BY <3>1, <3>2
  <2> QED BY <2>1 DEF BothArrived, Flag2
<1>7. \A k : EntryOf(k)' = EntryOf(k)
  BY <1>1 DEF EntryOf
<1>8. EntriesOwn'
  BY <1>6, <1>7 DEF MonitorIInv, EntriesOwn, EntryHolds, Flag2
<1>9. \A u \in Callers : u # t => Key(u)' = Key(u)
  BY <1>2 DEF Key
<1>10. AtRange'
  BY <1>1, <1>2, <1>6, <1>9 DEF MonitorIInv, AtRange
<1>11. Seen' /\ Kept'
  BY <1>1, <1>6, <1>7 DEF MonitorIInv, Seen, Kept, Flag2
<1>12. \A k : Attended(k) => Attended(k)'
  BY <1>1, <1>2, <1>9 DEF Attended, Idle
<1>13. WholeOrEmpty'
  BY <1>1, <1>6, <1>7, <1>12 DEF MonitorIInv, WholeOrEmpty
<1> QED BY <1>3, <1>5, <1>8, <1>10, <1>11, <1>13 DEF MonitorIInv

LEMMA StoresMarkerKeeps ==
    ASSUME MonitorIInv, NEW t \in Callers, StoresMarker(t)
    PROVE  MonitorIInv'
<1> DEFINE m == caller[t].marker
           v == [caller[t] EXCEPT !.at = "test"]
           e == Stored(EntryOf(Key(t)), m)
<1>1. /\ MonitorTypeOK /\ OwnMarker /\ caller[t].at = "store" /\ Holding(t) /\ caller' = [caller EXCEPT ![t] = v]
      /\ SetsEntry(Key(t), e) /\ UNCHANGED <<coming, marked, reported, raised>>
  BY DEF MonitorIInv, StoresMarker, Holding
<1>2. /\ m \in MarkerData \ coming /\ m.id \in RangeIds /\ m.flag \in Flag2 /\ m = MarkerOf(Key(t), m.flag)
      /\ Key(t) \in RangeKeys /\ EntryOf(Key(t)) \in Entries
  BY <1>1, MarkerFacts, KeyFacts DEF OwnMarker, Key, UniqueId
<1>3. /\ m.flag = "start" => e = [start |-> m, end |-> EntryOf(Key(t)).end]
      /\ m.flag = "end" => e = [start |-> EntryOf(Key(t)).start, end |-> m]
      /\ e \in Entries
  BY <1>2, EntryFacts DEF Entries, Flag2
<1> HIDE DEF e
<1>4. \A u \in Callers : caller'[u] = IF u = t THEN v ELSE caller[u]
  BY <1>1 DEF MonitorTypeOK
<1>5. v.at = "test" /\ v.marker = m
  BY <1>1 DEF MonitorTypeOK
<1>6. MonitorTypeOK'
  <2>1. DOMAIN dataDict' \subseteq Keys /\ \A j \in DOMAIN dataDict' : dataDict'[j] \in Entries
    BY <1>1, <1>2, <1>3, MarkerFacts, EntryTypeAfter
  <2> QED BY <1>1, <2>1 DEF MonitorTypeOK
<1>7. OwnMarker'
  BY <1>1, <1>2, <1>5, OwnMarkerStays
<1>8. /\ \A u \in Callers : u # t /\ Holding(u) => caller[u].marker # m
      /\ \A u \in Callers : Key(u)' = Key(u)
  BY <1>1, <1>4, <1>5 DEF OwnMarker, Key
<1>9. ~Arrived(m) /\ \A x : Arrived(x)' <=> Arrived(x) \/ x = m
  <2>1. \A u \in Callers : ~(caller'[u].at = "store" /\ caller'[u].marker = m)
    BY <1>4, <1>5, <1>8 DEF Holding
  <2>2. ~Arrived(m) /\ \A x : x = m => Arrived(x)'
    BY <1>1, <1>2, <2>1 DEF Arrived
  <2>3. ASSUME NEW x, x # m PROVE Arrived(x)' <=> Arrived(x)
    BY <1>1, <1>4, <1>5, <2>3 DEF Arrived
  <2> QED BY <2>2, <2>3
<1>10. \A j : EntryOf(j)' = IF j = Key(t) THEN e ELSE EntryOf(j)
  BY <1>1, EntryAfter
<1>11. EntriesOwn'
  <2> SUFFICES ASSUME NEW k \in Keys PROVE EntryHolds(k, EntryOf(k))'
    BY DEF EntriesOwn
  <2>1. EntryHolds(k, EntryOf(k))
    BY DEF MonitorIInv, EntriesOwn
  <2>2. CASE k # Key(t)
    BY <1>9, <1>10, <2>1, <2>2 DEF EntryHolds
  <2>3. CASE k = Key(t) /\ m.flag = "start"
    <3>1. EntryOf(k)'.start = m /\ EntryOf(k)'.end = EntryOf(k).end
      BY <1>3, <1>10, <2>3
    <3>2. \A x : Arrived(x) => Arrived(x)'
      BY <1>9
    <3>3. (\A x : x = m => Arrived(x)') /\ m = MarkerOf(k, "start") /\ k \in RangeKeys
      BY <1>2, <1>9, <2>3
    <3> QED BY <2>1, <3>1, <3>2, <3>3 DEF EntryHolds, Arrived
  <2>4. CASE k = Key(t) /\ m.flag = "end"
    <3>1. EntryOf(k)'.end = m /\ EntryOf(k)'.start = EntryOf(k).start
      BY <1>3, <1>10, <2>4
    <3>2. \A x : Arrived(x) => Arrived(x)'
      BY <1>9
    <3>3. (\A x : x = m => Arrived(x)') /\ m = MarkerOf(k, "end") /\ k \in RangeKeys
      BY <1>2, <1>9, <2>4
    <3> QED BY <2>1, <3>1, <3>2, <3>3 DEF EntryHolds, Arrived
  <2> QED BY <1>2, <2>2, <2>3, <2>4 DEF Flag2
<1>12. \A k : BothArrived(k) => BothArrived(k)'
  BY <1>9 DEF BothArrived
<1>13. AtRange'
  BY <1>1, <1>4, <1>5, <1>8, <1>12 DEF MonitorIInv, AtRange
<1>14. Seen'
  BY <1>1, <1>12 DEF MonitorIInv, Seen
<1>15. \A k \in RangeKeys, f \in Flag2 : MarkerOf(k, f) = m <=> k = Key(t) /\ f = m.flag
  BY <1>2, MarkerFacts DEF Key, UniqueId
<1>16. \A k : MarkerOf(k, "start") # MarkerOf(k, "end")
  BY DEF MarkerOf
<1>17. Kept'
  <2> SUFFICES ASSUME NEW k \in RangeKeys, WholeOf(k) \notin reported
               PROVE  /\ Arrived(MarkerOf(k, "start"))' => EntryOf(k)'.start # Unset
                      /\ Arrived(MarkerOf(k, "end"))' => EntryOf(k)'.end # Unset
    BY <1>1 DEF Kept
  <2>1. /\ Arrived(MarkerOf(k, "start")) => EntryOf(k).start # Unset
        /\ Arrived(MarkerOf(k, "end")) => EntryOf(k).end # Unset
    BY DEF MonitorIInv, Kept
  <2>2. m # Unset
    BY <1>2, MarkerFacts
  <2>3. CASE k # Key(t)
    BY <1>9, <1>10, <1>15, <2>1, <2>3 DEF Flag2
  <2>4. CASE k = Key(t) /\ m.flag = "start"
    BY <1>3, <1>9, <1>10, <1>15, <1>16, <2>1, <2>2, <2>4 DEF Flag2
  <2>5. CASE k = Key(t) /\ m.flag = "end"
    BY <1>3, <1>9, <1>10, <1>15, <1>16, <2>1, <2>2, <2>5 DEF Flag2
  <2> QED BY <1>2, <2>3, <2>4, <2>5 DEF Flag2
<1>18. WholeOrEmpty'
  <2> SUFFICES ASSUME NEW k \in RangeKeys, BothArrived(k)'
               PROVE  /\ EntryOf(k)' \in {WholeOf(k), EmptyEntry}
                      /\ EntryOf(k)' = WholeOf(k) /\ WholeOf(k) \notin raised => Attended(k)'
    BY <1>1 DEF WholeOrEmpty
  <2>1. \A j : Attended(j) => Attended(j)'
    BY <1>1, <1>4, <1>5, <1>8 DEF Attended
  <2>2. CASE k # Key(t)
    <3>1. BothArrived(k)
      BY <1>9, <1>15, <2>2 DEF BothArrived, Flag2
    <3> QED BY <1>10, <2>1, <2>2, <3>1 DEF MonitorIInv, WholeOrEmpty
  <2>3. CASE k = Key(t)
    <3>1. WholeOf(k) \notin reported
      <4>1. ~BothArrived(k)
        BY <1>2, <1>9, <1>15, <2>3 DEF BothArrived, Flag2
      <4>2. \A j \in RangeKeys : WholeOf(j) = WholeOf(k) => j = k
        BY MarkerFacts DEF WholeOf, Flag2
      <4> QED BY <4>1, <4>2 DEF MonitorIInv, Seen
    <3>2. EntryOf(k)' = WholeOf(k)
      <4>1. EntryOf(k)'.start # Unset /\ EntryOf(k)'.end # Unset
        BY <1>1, <1>17, <3>1 DEF Kept, BothArrived
      <4>2. k \in Keys
        BY MarkerFacts
      <4>3. EntryOf(k)'.start = MarkerOf(k, "start") /\ EntryOf(k)'.end = MarkerOf(k, "end")
        BY <1>11, <4>1, <4>2 DEF EntriesOwn, EntryHolds
      <4> QED BY <1>3, <1>10, <2>3, <4>3 DEF WholeOf, Entries
    <3>3. Attended(k)'
      BY <1>4, <1>5, <1>8, <2>3 DEF Attended
    <3> QED BY <3>2, <3>3
  <2> QED BY <2>2, <2>3
<1> QED BY <1>6, <1>7, <1>11, <1>13, <1>14, <1>17, <1>18 DEF MonitorIInv

\* The steps of a thread that has stored its marker: what has arrived stays.
LEMMA TestsEntryKeeps ==
    ASSUME MonitorIInv, NEW t \in Callers, TestsEntry(t)
    PROVE  MonitorIInv'
<1> DEFINE v == IF IsWhole(EntryOf(Key(t))) THEN [caller[t] EXCEPT !.at = "assemble"] ELSE Idle
<1>1. /\ MonitorTypeOK /\ OwnMarker /\ caller[t].at = "test" /\ Holding(t) /\ caller' = [caller EXCEPT ![t] = v]
      /\ SetsEntry(Key(t), EntryOf(Key(t))) /\ UNCHANGED <<coming, marked, reported, raised>>
  BY DEF MonitorIInv, TestsEntry, Holding
<1>2. Key(t) \in Keys /\ EntryOf(Key(t)) \in Entries
  BY <1>1, KeyFacts
<1>3. \A j : EntryOf(j)' = EntryOf(j)
  BY <1>1, EntryAfter
<1>4. /\ \A u \in Callers : caller'[u] = IF u = t THEN v ELSE caller[u]
      /\ v = Idle \/ (v.at = "assemble" /\ v.marker = caller[t].marker)
      /\ v = Idle <=> ~IsWhole(EntryOf(Key(t)))
  BY <1>1 DEF MonitorTypeOK, Idle
<1>5. IsWhole(EntryOf(Key(t))) => Key(t) \in RangeKeys /\ BothArrived(Key(t)) /\ EntryOf(Key(t)) = WholeOf(Key(t))
  BY <1>2 DEF MonitorIInv, EntriesOwn, EntryHolds, IsWhole, BothArrived, WholeOf, Entries
<1>6. MonitorTypeOK'
  <2>1. DOMAIN dataDict' \subseteq Keys /\ \A j \in DOMAIN dataDict' : dataDict'[j] \in Entries
    BY <1>1, <1>2, EntryTypeAfter
  <2>2. v \in [at: {"idle", "store", "test", "assemble", "call", "pop"}, marker: MarkerData \cup {Unset}, range: Entries]
    BY <1>1, EmptyIsEntry DEF MonitorTypeOK, Idle
  <2> QED BY <1>1, <2>1, <2>2 DEF MonitorTypeOK
<1> HIDE DEF v
<1>7. OwnMarker'
  <2>1. v.at = "assemble" => caller[t].marker.id \in RangeIds
    BY <1>4, <1>5 DEF Key, UniqueId, RangeKeys, Idle
  <2> QED BY <1>1, <1>4, <2>1, OwnMarkerStays DEF Idle
<1>8. /\ \A x : Arrived(x)' <=> Arrived(x)
      /\ \A k : BothArrived(k)' <=> BothArrived(k)
  <2>1. \A x : Arrived(x)' <=> Arrived(x)
    BY <1>1, <1>4 DEF Arrived, Idle
  <2> QED BY <2>1 DEF BothArrived
<1>9. EntriesOwn' /\ Seen' /\ Kept'
  BY <1>1, <1>3, <1>8 DEF MonitorIInv, EntriesOwn, EntryHolds, Seen, Kept
<1>10. \A u \in Callers : caller'[u] # Idle => Key(u)' = Key(u)
  BY <1>4 DEF Key
<1>11. AtRange'
  BY <1>1, <1>4, <1>5, <1>8, <1>10 DEF MonitorIInv, AtRange, Idle
<1>12. WholeOrEmpty'
  <2> SUFFICES ASSUME NEW k \in RangeKeys, BothArrived(k), EntryOf(k) = WholeOf(k), Attended(k) PROVE Attended(k)'
    BY <1>1, <1>3, <1>8 DEF MonitorIInv, WholeOrEmpty
  <2>1. PICK u \in Callers : caller[u].at \in {"test", "assemble", "call", "pop"} /\ Key(u) = k
    BY DEF Attended
  <2>2. IsWhole(EntryOf(k))
    BY MarkerFacts DEF IsWhole, WholeOf, Flag2
  <2>3. caller'[u].at \in {"test", "assemble", "call", "pop"} /\ caller'[u] # Idle
    BY <1>4, <2>1, <2>2 DEF Idle
  <2> QED BY <1>10, <2>1, <2>3 DEF Attended
<1> QED BY <1>6, <1>7, <1>9, <1>11, <1>12 DEF MonitorIInv

LEMMA AssembleKeeps ==
    ASSUME MonitorIInv, NEW t \in Callers, AssembleStartEnd(t)
    PROVE  MonitorIInv'
<1> DEFINE e == EntryOf(Key(t))
           v == IF IsWhole(e) THEN [caller[t] EXCEPT !.at = "call", !.range = e] ELSE Idle
<1>1. /\ MonitorTypeOK /\ OwnMarker /\ caller[t].at = "assemble" /\ Holding(t) /\ caller' = [caller EXCEPT ![t] = v]
      /\ SetsEntry(Key(t), e) /\ UNCHANGED <<coming, marked, reported, raised>>
  BY DEF MonitorIInv, AssembleStartEnd, Holding
<1>2. Key(t) \in Keys /\ e \in Entries /\ Key(t) \in RangeKeys /\ BothArrived(Key(t))
  BY <1>1, KeyFacts DEF MonitorIInv, AtRange
<1>3. \A j : EntryOf(j)' = EntryOf(j)
  BY <1>1, EntryAfter
<1>4. /\ \A u \in Callers : caller'[u] = IF u = t THEN v ELSE caller[u]
      /\ v = Idle \/ (v.at = "call" /\ v.marker = caller[t].marker /\ v.range = EntryOf(Key(t)))
      /\ v = Idle <=> ~IsWhole(EntryOf(Key(t)))
  BY <1>1 DEF MonitorTypeOK, Idle
<1>5. IsWhole(EntryOf(Key(t))) => EntryOf(Key(t)) = WholeOf(Key(t))
  BY <1>2 DEF MonitorIInv, EntriesOwn, EntryHolds, IsWhole, WholeOf, Entries
<1>6. MonitorTypeOK'
  <2>1. DOMAIN dataDict' \subseteq Keys /\ \A j \in DOMAIN dataDict' : dataDict'[j] \in Entries
    BY <1>1, <1>2, EntryTypeAfter
  <2>2. v \in [at: {"idle", "store", "test", "assemble", "call", "pop"}, marker: MarkerData \cup {Unset}, range: Entries]
    BY <1>1, <1>2, EmptyIsEntry DEF MonitorTypeOK, Idle
  <2> QED BY <1>1, <2>1, <2>2 DEF MonitorTypeOK
<1> HIDE DEF v, e
<1>7. OwnMarker'
  <2>1. caller[t].marker.id \in RangeIds
    BY <1>2 DEF Key, UniqueId, RangeKeys
  <2> QED BY <1>1, <1>4, <2>1, OwnMarkerStays DEF Idle
<1>8. /\ \A x : Arrived(x)' <=> Arrived(x)
      /\ \A k : BothArrived(k)' <=> BothArrived(k)
  <2>1. \A x : Arrived(x)' <=> Arrived(x)
    BY <1>1, <1>4 DEF Arrived, Idle
  <2> QED BY <2>1 DEF BothArrived
<1>9. EntriesOwn' /\ Seen' /\ Kept'
  BY <1>1, <1>3, <1>8 DEF MonitorIInv, EntriesOwn, EntryHolds, Seen, Kept
<1>10. \A u \in Callers : caller'[u] # Idle => Key(u)' = Key(u)
  BY <1>4 DEF Key
<1>11. AtRange'
  BY <1>1, <1>2, <1>4, <1>5, <1>8, <1>10 DEF MonitorIInv, AtRange, Idle
<1>12. WholeOrEmpty'
  <2> SUFFICES ASSUME NEW k \in RangeKeys, BothArrived(k), EntryOf(k) = WholeOf(k), Attended(k) PROVE Attended(k)'
    BY <1>1, <1>3, <1>8 DEF MonitorIInv, WholeOrEmpty
  <2>1. PICK u \in Callers : caller[u].at \in {"test", "assemble", "call", "pop"} /\ Key(u) = k
    BY DEF Attended
  <2>2. IsWhole(EntryOf(k))
    BY MarkerFacts DEF IsWhole, WholeOf, Flag2
  <2>3. caller'[u].at \in {"test", "assemble", "call", "pop"} /\ caller'[u] # Idle
    BY <1>4, <2>1, <2>2 DEF Idle
  <2> QED BY <1>10, <2>1, <2>3 DEF Attended
<1> QED BY <1>6, <1>7, <1>9, <1>11, <1>12 DEF MonitorIInv

LEMMA CallsUserKeeps ==
    ASSUME MonitorIInv, NEW t \in Callers, CallsUser(t)
    PROVE  MonitorIInv'
<1> DEFINE k0 == Key(t)
<1>1. PICK v : /\ caller' = [caller EXCEPT ![t] = v] /\ UNCHANGED <<coming, dataDict, marked>>
               /\ reported' = reported \cup {caller[t].range}
               /\ \/ v = [caller[t] EXCEPT !.at = "pop"] /\ raised' = raised
                  \/ v = Idle /\ raised' = raised \cup {caller[t].range}
  BY DEF CallsUser
<1>2. /\ MonitorTypeOK /\ OwnMarker /\ caller[t].at = "call" /\ Holding(t)
      /\ caller[t].range = WholeOf(Key(t)) /\ Key(t) \in RangeKeys /\ BothArrived(Key(t))
  BY DEF MonitorIInv, AtRange, CallsUser, Holding
<1>3. /\ \A u \in Callers : caller'[u] = IF u = t THEN v ELSE caller[u]
      /\ v = Idle \/ (v.at = "pop" /\ v.marker = caller[t].marker /\ v.range = caller[t].range)
  BY <1>1, <1>2 DEF MonitorTypeOK, Idle
<1>4. MonitorTypeOK'
  <2>1. v \in [at: {"idle", "store", "test", "assemble", "call", "pop"}, marker: MarkerData \cup {Unset}, range: Entries]
    BY <1>1, <1>2, EmptyIsEntry DEF MonitorTypeOK, Idle
  <2>2. caller[t].range \in Entries
    BY <1>2 DEF MonitorTypeOK
  <2> QED BY <1>1, <1>2, <2>1, <2>2 DEF MonitorTypeOK
<1>5. OwnMarker'
  <2>1. caller[t].marker.id \in RangeIds
    BY <1>2 DEF Key, UniqueId, RangeKeys
  <2> QED BY <1>1, <1>2, <1>3, <2>1, OwnMarkerStays DEF Idle
<1>6. /\ \A x : Arrived(x)' <=> Arrived(x)
      /\ \A k : BothArrived(k)' <=> BothArrived(k)
  <2>1. \A x : Arrived(x)' <=> Arrived(x)
    BY <1>1, <1>2, <1>3 DEF Arrived, Idle
  <2> QED BY <2>1 DEF BothArrived
<1>7. \A j : EntryOf(j)' = EntryOf(j)
  BY <1>1 DEF EntryOf
<1>8. \A u \in Callers : caller'[u] # Idle => Key(u)' = Key(u)
  BY <1>3 DEF Key
<1>9. AtRange'
  BY <1>1, <1>2, <1>3, <1>6, <1>8 DEF MonitorIInv, AtRange, Idle
<1>10. EntriesOwn' /\ Kept'
  BY <1>1, <1>6, <1>7 DEF MonitorIInv, EntriesOwn, EntryHolds, Kept
<1>11. Seen'
  BY <1>1, <1>2, <1>6 DEF MonitorIInv, Seen
<1>12. WholeOrEmpty'
  <2> SUFFICES ASSUME NEW k \in RangeKeys, BothArrived(k), EntryOf(k) = WholeOf(k), WholeOf(k) \notin raised', Attended(k)
               PROVE  Attended(k)'
    BY <1>1, <1>6, <1>7 DEF MonitorIInv, WholeOrEmpty
  <2>1. PICK u \in Callers : caller[u].at \in {"test", "assemble", "call", "pop"} /\ Key(u) = k
    BY DEF Attended
  <2>2. u = t => v # Idle
    BY <1>1, <1>2, <2>1 DEF MonitorTypeOK, Idle
  <2>3. caller'[u].at \in {"test", "assemble", "call", "pop"} /\ caller'[u] # Idle
    BY <1>3, <2>1, <2>2 DEF Idle
  <2> QED BY <1>8, <2>1, <2>3 DEF Attended
<1> QED BY <1>4, <1>5, <1>9, <1>10, <1>11, <1>12 DEF MonitorIInv

LEMMA PopsEntryKeeps ==
    ASSUME MonitorIInv, NEW t \in Callers, PopsEntry(t)
    PROVE  MonitorIInv'
<1>1. /\ caller' = [caller EXCEPT ![t] = Idle] /\ UNCHANGED <<coming, marked, reported, raised>>
      /\ dataDict' = [k \in DOMAIN dataDict \ {Key(t)} |-> dataDict[k]]
  BY DEF PopsEntry
<1>2. /\ MonitorTypeOK /\ OwnMarker /\ caller[t].at = "pop" /\ Holding(t)
      /\ Key(t) \in RangeKeys /\ BothArrived(Key(t)) /\ WholeOf(Key(t)) \in reported
  BY DEF MonitorIInv, AtRange, PopsEntry, Holding
<1>3. \A u \in Callers : caller'[u] = IF u = t THEN Idle ELSE caller[u]
  BY <1>1, <1>2 DEF MonitorTypeOK
<1>4. MonitorTypeOK'
  <2>1. Idle \in [at: {"idle", "store", "test", "assemble", "call", "pop"}, marker: MarkerData \cup {Unset}, range: Entries]
    BY EmptyIsEntry DEF Idle
  <2> QED BY <1>1, <1>2, <2>1 DEF MonitorTypeOK
<1>5. OwnMarker'
  BY <1>1, <1>2, OwnMarkerStays DEF Idle
<1>6. /\ \A x : Arrived(x)' <=> Arrived(x)
      /\ \A k : BothArrived(k)' <=> BothArrived(k)
  <2>1. \A x : Arrived(x)' <=> Arrived(x)
    BY <1>1, <1>2, <1>3 DEF Arrived, Idle
  <2> QED BY <2>1 DEF BothArrived
<1>7. \A j : EntryOf(j)' = IF j = Key(t) THEN EmptyEntry ELSE EntryOf(j)
  BY <1>1 DEF EntryOf
<1>8. \A u \in Callers : u # t => Key(u)' = Key(u)
  BY <1>3 DEF Key
<1>9. AtRange'
  BY <1>1, <1>2, <1>3, <1>6, <1>8 DEF MonitorIInv, AtRange, Idle
<1>10. EntriesOwn'
  <2> SUFFICES ASSUME NEW k \in Keys PROVE EntryHolds(k, EntryOf(k))'
    BY DEF EntriesOwn
  <2>1. CASE k = Key(t)
    BY <1>7, <2>1 DEF EntryHolds, EmptyEntry
  <2>2. CASE k # Key(t)
    BY <1>6, <1>7, <2>2 DEF MonitorIInv, EntriesOwn, EntryHolds
  <2> QED BY <2>1, <2>2
<1>11. Seen' /\ Kept'
  BY <1>1, <1>2, <1>6, <1>7 DEF MonitorIInv, Seen, Kept
<1>12. WholeOrEmpty'
  <2>1. EmptyEntry # WholeOf(Key(t))
    BY <1>2, MarkerFacts DEF EmptyEntry, WholeOf, Flag2
  <2>2. ASSUME NEW k \in RangeKeys, k # Key(t), Attended(k) PROVE Attended(k)'
    BY <1>3, <1>8, <2>2 DEF Attended
  <2> QED BY <1>1, <1>6, <1>7, <2>1, <2>2 DEF MonitorIInv, WholeOrEmpty
<1> QED BY <1>4, <1>5, <1>9, <1>10, <1>11, <1>12 DEF MonitorIInv

----------------------------------------------------------------------------
(* The results *)

\* MonitorIInv holds along every behaviour.
THEOREM RangesInductive == MonitorSpec => []MonitorIInv
<1>1. ASSUME MonitorIInv, [MonitorNext]_monitorVars PROVE MonitorIInv'
  <2>1. ASSUME NEW t \in Callers, NEW m \in coming, CallsMonitor(t, m) PROVE MonitorIInv'
    BY <1>1, <2>1, CallsMonitorKeeps
  <2>2. ASSUME NEW t \in Callers,
               StoresMarker(t) \/ TestsEntry(t) \/ AssembleStartEnd(t) \/ CallsUser(t) \/ PopsEntry(t)
        PROVE  MonitorIInv'
    BY <1>1, <2>2, StoresMarkerKeeps, TestsEntryKeeps, AssembleKeeps, CallsUserKeeps, PopsEntryKeeps
  <2>3. CASE UNCHANGED monitorVars
    <3>1. UNCHANGED <<coming, caller, dataDict, marked, reported, raised>>
      BY <2>3 DEF monitorVars
    <3> QED BY <1>1, <3>1 DEF MonitorIInv, MonitorTypeOK, OwnMarker, Holding, EntriesOwn, EntryHolds, EntryOf, AtRange, Key,
                              Seen, Kept, WholeOrEmpty, Attended, BothArrived, Arrived
  <2> QED BY <1>1, <2>1, <2>2, <2>3 DEF MonitorNext
<1> QED BY <1>1, InitKeeps, PTL DEF MonitorSpec

LEMMA RangesFollow == MonitorIInv => RangesInv
<1> SUFFICES ASSUME MonitorIInv PROVE RangesInv
  OBVIOUS
<1>1. RangesMatch
  BY DEF MonitorIInv, Seen, RangesMatch, WholeOf, MarkerOf
<1>2. RangesReported
  <2> SUFFICES ASSUME coming = {}, \A t \in Callers : caller[t] = Idle, NEW id \in RangeIds, NEW s \in Sources
               PROVE  /\ \E e \in reported : e.start.id = id /\ e.start.source = s
                      /\ (\A e \in raised : <<e.start.id, e.start.source>> # <<id, s>>) => EntryOf(<<id, s>>) = EmptyEntry
    BY DEF RangesReported
  <2> DEFINE k == <<id, s>>
  <2>1. k \in RangeKeys /\ WholeOf(k).start.id = id /\ WholeOf(k).start.source = s
    BY DEF RangeKeys, WholeOf, MarkerOf
  <2>2. BothArrived(k) /\ ~Attended(k)
    BY DEF BothArrived, Arrived, Attended, Idle
  <2>3. EntryOf(k) \in {WholeOf(k), EmptyEntry} /\ (EntryOf(k) = WholeOf(k) => WholeOf(k) \in raised)
    BY <2>1, <2>2 DEF MonitorIInv, WholeOrEmpty
  <2> HIDE DEF k
  <2>4. WholeOf(k) \in reported
    <3> SUFFICES ASSUME WholeOf(k) \notin reported PROVE FALSE
      OBVIOUS
    <3>1. EntryOf(k).start # Unset
      BY <2>1, <2>2 DEF MonitorIInv, Kept, BothArrived
    <3>2. EntryOf(k) = WholeOf(k)
      BY <2>3, <3>1 DEF EmptyEntry
    <3> QED BY <2>3, <3>2 DEF MonitorIInv, Seen
  <2>5. \E e \in reported : e.start.id = id /\ e.start.source = s
    BY <2>1, <2>4
  <2>6. ASSUME \A e \in raised : <<e.start.id, e.start.source>> # <<id, s>> PROVE EntryOf(<<id, s>>) = EmptyEntry
    BY <2>1, <2>3, <2>6 DEF k
  <2> QED BY <2>5, <2>6
<1> QED BY <1>1, <1>2 DEF MonitorIInv, RangesInv

\* Whatever threads complete the buffers and wherever the interpreter switches between
\* them: a range the user sees is made of its own two markers, and when all markers are
\* handed over it has been seen and its entry given back; for any threads and ranges.
THEOREM RangesCorrect == MonitorSpec => []RangesInv
BY RangesInductive, RangesFollow, PTL

----------------------------------------------------------------------------
(***************************************************************************)
(* PyAdapter.  The inductive invariant joins three arguments: the count is *)
(* that of the monitors counted in; a callback's references are at least   *)
(* its slot and its runs; and, while calls that start and stop do not      *)
(* overlap, a session is emptied in the steps of the last stop, before the *)
(* pool is cleared.                                                        *)
(***************************************************************************)

PcPlaces == Starting \cup Stopping \cup {"out", "register", "registerMtx", "running", "flushMtx", "unregister", "unregisterMtx",
                                          "drain", "joinWorks", "last", "sizing"}
Frames == [taken: SUBSET Buffers, joins: SUBSET Buffers]
Pools == [alloced: SUBSET Buffers, free: SUBSET Buffers, size: 0 .. MaxBufferSize, bytes: BufferSizes \cup {0}]
Subscribers == [who: {"nobody", "adapter", "other"}, lock: Monitors \cup {Nobody}]
Libs == [kinds: SUBSET Kinds, cur: SUBSET Buffers, co: SUBSET Buffers, works: SUBSET Buffers, mgr: BOOLEAN,
         callbacks: BOOLEAN, passed: BOOLEAN]

Types ==
    /\ pc \in [Monitors -> PcPlaces] /\ frame \in [Monitors -> Frames]
    /\ gil \in Actors \cup {Nobody} /\ keeps \subseteq Monitors /\ mtx \in Monitors \cup {Nobody}
    /\ refCnt \in 0 .. UintValues - 1 /\ pool \in Pools /\ pool.free \subseteq pool.alloced /\ bufferSize \in BufferSizes
    /\ slot \in [Kinds -> Monitors \cup {Nobody}] /\ refs \in [Monitors -> Nat]
    /\ calling \in [Actors -> Monitors \cup {Nobody}] /\ subscriber \in Subscribers /\ lib \in Libs
    /\ starts \in 0 .. MaxStarts /\ failed \in Nat /\ requests \in Nat /\ resizes \in Nat
    /\ missized \in BOOLEAN /\ overlapped \in BOOLEAN /\ late \in BOOLEAN

CountedAt == {"subscribe", "clear", "callbacks", "register", "registerMtx", "running", "sizing", "lower"}
CountedNow == {m \in Monitors : pc[m] \in CountedAt}
Counting == IsFiniteSet(CountedNow) /\ refCnt = failed + Cardinality(CountedNow) /\ refCnt <= starts

\* A callback has a reference for its slot and for each completion that runs it.
CallbacksOf(c) == {a \in Actors : calling[a] = c}
InSlot(c) == IF slot[KindOf[c]] = c THEN 1 ELSE 0
References ==
    /\ \A k \in Kinds : slot[k] # Nobody => KindOf[slot[k]] = k
    /\ \A c \in Monitors : IsFiniteSet(CallbacksOf(c)) /\ refs[c] >= Cardinality(CallbacksOf(c)) + InSlot(c)

\* mtx_ belongs to the monitor that is in the library's flush, and only that one has
\* taken buffers from the library's queue.
InFlush(m) == pc[m] \in {"drain", "joinWorks", "last"}
Places ==
    \A m \in Monitors :
        /\ mtx = m <=> InFlush(m)
        /\ pc[m] \notin {"drain", "last"} => frame[m].taken = {}
        /\ m \in keeps => pc[m] \in {"registerMtx", "unregisterMtx", "sizing"} \/ InFlush(m)

Active(m) == pc[m] \notin {"out", "running", "sizing"}
OneActive == ~overlapped => \A m, n \in Monitors : Active(m) /\ Active(n) => m = n

\* Where calls do not overlap and no start has failed, a monitor that is past the
\* subscription has the adapter's session under it until it ends it itself.
AtAdapter == {"clear", "callbacks", "register", "registerMtx", "running", "sizing", "lower", "look", "unsubscribe"}
Subscribed ==
    ~overlapped =>
      /\ \A m \in Monitors : pc[m] \in {"subscribe", "clear", "callbacks"} => failed = 0
      /\ \A m \in Monitors : pc[m] \in {"unsubscribe", "join"} => refCnt = 0
      /\ failed = 0 => \A m \in Monitors : pc[m] \in AtAdapter => subscriber.who = "adapter"

\* The library has neither a kind nor a buffer of the adapter's.
Empty == lib.kinds = {} /\ lib.cur = {} /\ lib.co = {} /\ lib.works = {} /\ \A m \in Monitors : frame[m].taken = {}

\* When nobody is counted the flush of the last stop empties the library step by step;
\* from then on, until a start has registered its callback, it stays empty.
Unregistering(m) == pc[m] \in {"unregister", "unregisterMtx"} \/ (InFlush(m) /\ m \in keeps)
FlushedSoFar(m) ==
    /\ pc[m] = "flushMtx" \/ InFlush(m) => lib.kinds = {}
    /\ InFlush(m) => lib.co = {}
    /\ pc[m] = "joinWorks" => lib.works \subseteq frame[m].joins
    /\ pc[m] = "last" => lib.works = {} /\ lib.cur = {}
Quiet == ~overlapped /\ ~late
Emptied ==
    Quiet =>
      /\ \A m \in Monitors : pc[m] \in {"subscribe", "clear", "callbacks"} => Empty
      /\ refCnt = 0 /\ (\A m \in Monitors : ~Active(m)) => Empty
      /\ refCnt = 0 => \A m \in Monitors : (Unregistering(m) => Empty) /\ (m \notin keeps => FlushedSoFar(m))

\* A buffer that the library has is allocated, not free, and in one place.
Apart ==
    Quiet =>
      /\ lib.cur \cup lib.co \cup lib.works \subseteq pool.alloced \ pool.free
      /\ lib.cur \cap lib.co = {} /\ lib.cur \cap lib.works = {} /\ lib.co \cap lib.works = {}
      /\ \A m \in Monitors : /\ frame[m].taken \subseteq pool.alloced \ pool.free
                             /\ frame[m].taken \cap (lib.cur \cup lib.co \cup lib.works) = {}

AdapterIInv == Types /\ Counting /\ References /\ Places /\ OneActive /\ Subscribed /\ Emptied /\ Apart

----------------------------------------------------------------------------
(* What a step leaves as it is *)

LEMMA Distinct == /\ Nobody \notin Monitors /\ Nobody \notin Buffers /\ Monitors \cap Buffers = {}
                  /\ UintValues \in Nat \ {0} /\ MaxStarts \in Nat /\ MaxStarts < UintValues
BY AdapterAssumption

LEMMA PcMoves ==
    ASSUME Types, NEW m \in Monitors, NEW to, Goes(m, to)
    PROVE  \A n \in Monitors : pc'[n] = IF n = m THEN to ELSE pc[n]
BY DEF Types, Goes

LEMMA CountingStays ==
    ASSUME Types, Counting, starts' \in Nat, starts <= starts', UNCHANGED <<refCnt, failed>>,
           \A n \in Monitors : pc'[n] \in CountedAt <=> pc[n] \in CountedAt
    PROVE  Counting'
<1>1. CountedNow' = CountedNow
  BY DEF CountedNow
<1> QED BY <1>1 DEF Counting, Types

LEMMA CountedIn ==
    ASSUME Types, Counting, NEW m \in Monitors, pc[m] \notin CountedAt, UNCHANGED failed, starts' = starts + 1,
           refCnt' = refCnt + 1, \A n \in Monitors : pc'[n] \in CountedAt <=> (n = m \/ pc[n] \in CountedAt)
    PROVE  Counting'
<1>1. CountedNow' = CountedNow \cup {m} /\ m \notin CountedNow
  BY DEF CountedNow
<1>2. IsFiniteSet(CountedNow') /\ Cardinality(CountedNow') = Cardinality(CountedNow) + 1 /\ Cardinality(CountedNow) \in Nat
  BY <1>1, FS_AddElement, FS_CardinalityType DEF Counting
<1> QED BY <1>2 DEF Counting, Types

LEMMA CountedOut ==
    ASSUME Types, Counting, NEW m \in Monitors, pc[m] \in CountedAt, UNCHANGED starts,
           \A n \in Monitors : pc'[n] \in CountedAt <=> (n # m /\ pc[n] \in CountedAt)
    PROVE  /\ refCnt > 0
           /\ refCnt' = refCnt - 1 /\ failed' = failed => Counting'
           /\ refCnt' = refCnt /\ failed' = failed + 1 => Counting'
<1>1. CountedNow' = CountedNow \ {m} /\ m \in CountedNow
  BY DEF CountedNow
<1>2. IsFiniteSet(CountedNow') /\ Cardinality(CountedNow') = Cardinality(CountedNow) - 1
  BY <1>1, FS_RemoveElement DEF Counting
<1>3. Cardinality(CountedNow) \in Nat /\ Cardinality(CountedNow') \in Nat
  BY <1>2, FS_CardinalityType DEF Counting
<1> QED BY <1>2, <1>3 DEF Counting, Types

\* Nobody is counted exactly when the count is that of the failed starts.
LEMMA CountedZero ==
    ASSUME Types, Counting, refCnt = 0
    PROVE  failed = 0 /\ \A n \in Monitors : pc[n] \notin CountedAt
<1>1. Cardinality(CountedNow) \in Nat
  BY FS_CardinalityType DEF Counting
<1>2. failed = 0 /\ Cardinality(CountedNow) = 0
  BY <1>1 DEF Counting, Types
<1>3. CountedNow = {}
  BY <1>2, FS_EmptySet DEF Counting
<1> QED BY <1>2, <1>3 DEF CountedNow

LEMMA CountedSome ==
    ASSUME Types, Counting, refCnt # 0, failed = 0
    PROVE  \E n \in Monitors : pc[n] \in CountedAt
<1>1. Cardinality(CountedNow) # 0
  BY DEF Counting, Types
<1>2. CountedNow # {}
  BY <1>1, FS_EmptySet
<1> QED BY <1>2 DEF CountedNow

LEMMA ReferencesStay ==
    ASSUME References, UNCHANGED <<slot, refs, calling>>
    PROVE  References'
BY DEF References, CallbacksOf, InSlot

LEMMA TypedRecords ==
    ASSUME Types
    PROVE  /\ lib \in Libs /\ pool \in Pools /\ pool.free \subseteq pool.alloced /\ bufferSize \in BufferSizes
           /\ refCnt \in 0 .. UintValues - 1 /\ refCnt \in Nat /\ failed \in Nat /\ starts \in Nat /\ starts <= MaxStarts
BY AdapterAssumption DEF Types

LEMMA SmallModulo == ASSUME NEW a \in Nat, NEW b \in Nat, a < b PROVE a % b = a
OBVIOUS

LEMMA LibFields ==
    ASSUME NEW l \in Libs
    PROVE  /\ \A K \in SUBSET Kinds : [l EXCEPT !.kinds = K] \in Libs
           /\ \A C \in SUBSET Buffers : [l EXCEPT !.cur = C] \in Libs
           /\ [l EXCEPT !.mgr = TRUE] \in Libs /\ [l EXCEPT !.mgr = FALSE] \in Libs
           /\ [l EXCEPT !.callbacks = TRUE, !.mgr = TRUE] \in Libs
           /\ [l EXCEPT !.passed = TRUE] \in Libs
           /\ \A C, D \in SUBSET Buffers : [l EXCEPT !.passed = FALSE, !.cur = C, !.co = D] \in Libs
           /\ \A C, D \in SUBSET Buffers : [l EXCEPT !.works = C, !.co = D] \in Libs
           /\ \A C \in SUBSET Buffers : [l EXCEPT !.works = C] \in Libs
           /\ \A C \in SUBSET Buffers : [l EXCEPT !.co = C] \in Libs
           /\ \A K \in SUBSET Kinds, C \in SUBSET Buffers : [l EXCEPT !.kinds = K, !.co = C] \in Libs
BY DEF Libs

LEMMA PoolFields ==
    ASSUME NEW p \in Pools
    PROVE  /\ \A b \in Buffers : [p EXCEPT !.free = @ \ {b}] \in Pools /\ [p EXCEPT !.free = @ \cup {b}] \in Pools
                                 /\ [p EXCEPT !.alloced = @ \cup {b}] \in Pools
           /\ Cleared \in Pools
           /\ \A n \in BufferSizes : [Cleared EXCEPT !.size = MaxBufferSize \div n, !.bytes = n] \in Pools
<1>1. Cleared \in Pools
  BY AdapterAssumption DEF Cleared, Pools
<1>2. \A n \in BufferSizes : MaxBufferSize \div n \in 0 .. MaxBufferSize
  <2> SUFFICES ASSUME NEW n \in BufferSizes PROVE MaxBufferSize \div n \in 0 .. MaxBufferSize
    OBVIOUS
  <2>1. n \in Nat /\ n > 0 /\ MaxBufferSize \in Nat
    BY AdapterAssumption
  <2> QED BY <2>1
<1>3. \A n \in BufferSizes : [Cleared EXCEPT !.size = MaxBufferSize \div n, !.bytes = n] \in Pools
  BY <1>2 DEF Cleared, Pools
<1> QED BY <1>1, <1>3 DEF Pools

LEMMA StopLooksKeeps ==
    ASSUME AdapterIInv, NEW m \in Monitors, StopLooks(m)
    PROVE  AdapterIInv'
<1>1. /\ Types /\ Counting /\ References /\ Places /\ OneActive /\ Subscribed /\ Emptied /\ Apart
      /\ pc[m] = "look" /\ UNCHANGED <<gil, keeps, slot, refs, calling, bufferSize>>
      /\ UNCHANGED <<starts, requests, resizes, missized, failed, overlapped, late>>
      /\ UNCHANGED <<frame, mtx, refCnt, pool, subscriber, lib>>
      /\ pc' = [pc EXCEPT ![m] = (IF refCnt = 0 THEN "unsubscribe" ELSE "flushMtx")]
      /\ \A n \in Monitors : pc'[n] = IF n = m THEN (IF refCnt = 0 THEN "unsubscribe" ELSE "flushMtx") ELSE pc[n]
  BY PcMoves DEF AdapterIInv, Goes, StopLooks, GilAsIs, Ghosts
<1>2. Types'
  BY <1>1, AdapterAssumption DEF Types, PcPlaces, Goes, Starting, Stopping, StopLooks, GilAsIs, Ghosts
<1>3. Counting'
  BY <1>1, CountingStays DEF CountedAt, Types
<1>4. References'
  BY <1>1, ReferencesStay
<1>5. Places'
  BY <1>1 DEF Places, InFlush, Types, StopLooks
<1>6. OneActive'
  BY <1>1 DEF OneActive, Active
<1>7. Subscribed'
  BY <1>1 DEF Subscribed, AtAdapter, OneActive, Active
<1>8. Emptied'
  BY <1>1 DEF Emptied, Quiet, Empty, Active, Unregistering, FlushedSoFar, InFlush, Places, OneActive
<1>9. Apart'
  BY <1>1 DEF Apart, Quiet
<1> QED BY <1>2, <1>3, <1>4, <1>5, <1>6, <1>7, <1>8, <1>9 DEF AdapterIInv

LEMMA StopLowersKeeps ==
    ASSUME AdapterIInv, NEW m \in Monitors, StopLowers(m)
    PROVE  AdapterIInv'
<1>1. /\ Types /\ Counting /\ References /\ Places /\ OneActive /\ Subscribed /\ Emptied /\ Apart
      /\ pc[m] = "lower" /\ UNCHANGED <<gil, keeps, slot, refs, calling, bufferSize>>
      /\ UNCHANGED <<starts, requests, resizes, missized, failed, overlapped, late>>
      /\ UNCHANGED <<frame, mtx, pool, subscriber, lib>> /\ refCnt' = (refCnt - 1) % UintValues
      /\ pc' = [pc EXCEPT ![m] = "look"] /\ \A n \in Monitors : pc'[n] = IF n = m THEN "look" ELSE pc[n]
  BY PcMoves DEF AdapterIInv, Goes, StopLowers, GilAsIs, Ghosts
<1>2. Types'
  BY <1>1, AdapterAssumption DEF Types, PcPlaces, Goes, Starting, Stopping, StopLowers, GilAsIs, Ghosts
<1>3. Counting'
  <2>1. refCnt > 0 /\ (refCnt' = refCnt - 1 => Counting')
    BY <1>1, CountedOut DEF CountedAt
  <2>2. refCnt \in 0 .. UintValues - 1
    BY <1>1 DEF Types
  <2> QED BY <1>1, <2>1, <2>2, AdapterAssumption
<1>4. References'
  BY <1>1, ReferencesStay
<1>5. Places'
  BY <1>1 DEF Places, InFlush, Types, StopLowers
<1>6. OneActive'
  BY <1>1 DEF OneActive, Active
<1>7. Subscribed'
  BY <1>1 DEF Subscribed, AtAdapter, OneActive, Active
<1>8. Emptied'
  BY <1>1 DEF Emptied, Quiet, Empty, Active, Unregistering, FlushedSoFar, InFlush, Places, OneActive
<1>9. Apart'
  BY <1>1 DEF Apart, Quiet
<1> QED BY <1>2, <1>3, <1>4, <1>5, <1>6, <1>7, <1>8, <1>9 DEF AdapterIInv

LEMMA StartKeeps ==
    ASSUME AdapterIInv, NEW m \in Monitors, Start(m)
    PROVE  AdapterIInv'
<1>1. /\ Types /\ Counting /\ References /\ Places /\ OneActive /\ Subscribed /\ Emptied /\ Apart
      /\ pc[m] = "out" /\ UNCHANGED <<gil, keeps, slot, refs, calling, bufferSize>>
      /\ UNCHANGED <<requests, resizes, missized, failed, late>> /\ UNCHANGED <<frame, mtx, pool, subscriber, lib>>
      /\ starts' = starts + 1 /\ starts < MaxStarts /\ refCnt' = Counted(m) /\ overlapped' \in BOOLEAN
      /\ (~overlapped' => ~overlapped /\ \A n \in Monitors : pc[n] \in {"out", "running"})
      /\ pc' = [pc EXCEPT ![m] = (IF refCnt = 0 THEN "subscribe" ELSE "register")]
      /\ \A n \in Monitors : pc'[n] = IF n = m THEN (IF refCnt = 0 THEN "subscribe" ELSE "register") ELSE pc[n]
  BY PcMoves DEF AdapterIInv, Goes, Start, GilAsIs, Types, Busy
<1>2. Types'
  <2>1. refCnt' = refCnt + 1 /\ refCnt + 1 \in 0 .. UintValues - 1
    BY <1>1, AdapterAssumption, SmallModulo, TypedRecords DEF Counted, Counting
  <2>2. starts' \in 0 .. MaxStarts
    BY <1>1, AdapterAssumption, TypedRecords
  <2> QED BY <1>1, <2>1, <2>2, AdapterAssumption DEF Types, PcPlaces, Starting, Stopping
<1>3. Counting'
  <2>1. refCnt' = refCnt + 1
    BY <1>1, AdapterAssumption, SmallModulo, TypedRecords DEF Counted, Counting
  <2> QED BY <1>1, <2>1, CountedIn DEF CountedAt
<1>4. References'
  BY <1>1, ReferencesStay
<1>5. Places'
  BY <1>1 DEF Places, InFlush, Types, Start
<1>6. OneActive'
  BY <1>1 DEF OneActive, Active
<1>7. Subscribed'
  <2>1. refCnt # 0 /\ failed = 0 => \E n \in Monitors : pc[n] \in CountedAt
    BY <1>1, CountedSome
  <2>2. refCnt = 0 => failed = 0
    BY <1>1, CountedZero
  <2> QED BY <1>1, <2>1, <2>2 DEF Subscribed, AtAdapter, CountedAt, OneActive, Active
<1>8. Emptied'
  BY <1>1 DEF Emptied, Quiet, Empty, Active, Unregistering, FlushedSoFar, InFlush, Places, OneActive
<1>9. Apart'
  BY <1>1 DEF Apart, Quiet
<1> QED BY <1>2, <1>3, <1>4, <1>5, <1>6, <1>7, <1>8, <1>9 DEF AdapterIInv

LEMMA SubscribesKeeps ==
    ASSUME AdapterIInv, NEW m \in Monitors, Subscribes(m)
    PROVE  AdapterIInv'
<1>1. /\ Types /\ Counting /\ References /\ Places /\ OneActive /\ Subscribed /\ Emptied /\ Apart
      /\ pc[m] = "subscribe" /\ UNCHANGED <<gil, keeps, slot, refs, calling, bufferSize>>
      /\ UNCHANGED <<starts, requests, resizes, missized, overlapped, late>> /\ UNCHANGED <<frame, mtx, refCnt, pool>>
      /\ (subscriber.who = "nobody" => subscriber' = [subscriber EXCEPT !.who = "adapter"]
                                       /\ lib' = [lib EXCEPT !.mgr = TRUE] /\ failed' = failed)
      /\ (subscriber.who # "nobody" => failed' = failed + 1 /\ UNCHANGED <<subscriber, lib>>)
      /\ pc' = [pc EXCEPT ![m] = (IF subscriber.who = "nobody" THEN "clear" ELSE "out")]
      /\ \A n \in Monitors : pc'[n] = IF n = m
            THEN (IF subscriber.who = "nobody" THEN "clear" ELSE "out") ELSE pc[n]
  BY PcMoves DEF AdapterIInv, Goes, Subscribes, GilAsIs
<1>2. Types'
  <2>1. lib' \in Libs
    BY <1>1, LibFields, TypedRecords
  <2>2. subscriber' \in Subscribers
    BY <1>1 DEF Types, Subscribers
  <2>3. failed' \in Nat
    BY <1>1, TypedRecords
  <2> QED BY <1>1, <2>1, <2>2, <2>3, AdapterAssumption DEF Types, PcPlaces, Starting, Stopping
<1>3. Counting'
  <2>1. CASE subscriber.who = "nobody"
    BY <1>1, <2>1, CountingStays DEF CountedAt, Types
  <2>2. CASE subscriber.who # "nobody"
    BY <1>1, <2>2, CountedOut DEF CountedAt
  <2> QED BY <2>1, <2>2
<1>4. References'
  BY <1>1, ReferencesStay
<1>5. Places'
  BY <1>1 DEF Places, InFlush, Types, Subscribes
<1>6. OneActive'
  BY <1>1 DEF OneActive, Active
<1>7. Subscribed'
  <2>1. subscriber.who = "nobody" => subscriber'.who = "adapter"
    BY <1>1 DEF Types, Subscribers
  <2> QED BY <1>1, <2>1 DEF Subscribed, AtAdapter, OneActive, Active, Types
<1>8. Emptied'
  <2>1. lib'.kinds = lib.kinds /\ lib'.cur = lib.cur /\ lib'.co = lib.co /\ lib'.works = lib.works
    BY <1>1 DEF Types, Libs
  <2> QED BY <1>1, <2>1, CountedZero DEF Emptied, Quiet, Empty, Active, Unregistering, FlushedSoFar, InFlush, Places, OneActive
<1>9. Apart'
  <2>1. lib'.kinds = lib.kinds /\ lib'.cur = lib.cur /\ lib'.co = lib.co /\ lib'.works = lib.works
    BY <1>1 DEF Types, Libs
  <2> QED BY <1>1, <2>1 DEF Apart, Quiet
<1> QED BY <1>2, <1>3, <1>4, <1>5, <1>6, <1>7, <1>8, <1>9 DEF AdapterIInv

LEMMA ClearsAndSizesKeeps ==
    ASSUME AdapterIInv, NEW m \in Monitors, ClearsAndSizes(m)
    PROVE  AdapterIInv'
<1>1. /\ Types /\ Counting /\ References /\ Places /\ OneActive /\ Subscribed /\ Emptied /\ Apart
      /\ pc[m] = "clear" /\ UNCHANGED <<gil, keeps, slot, refs, calling, bufferSize>>
      /\ UNCHANGED <<starts, requests, resizes, missized, failed, overlapped, late>>
      /\ UNCHANGED <<frame, mtx, refCnt, subscriber, lib>>
      /\ pool' = [Cleared EXCEPT !.size = MaxBufferSize \div bufferSize, !.bytes = bufferSize]
      /\ pc' = [pc EXCEPT ![m] = "callbacks"] /\ \A n \in Monitors : pc'[n] = IF n = m THEN "callbacks" ELSE pc[n]
  BY PcMoves DEF AdapterIInv, Goes, ClearsAndSizes, GilAsIs, Ghosts
<1>2. Types'
  <2>1. pool' \in Pools /\ pool'.free \subseteq pool'.alloced
    BY <1>1, PoolFields, TypedRecords DEF Cleared
  <2> QED BY <1>1, <2>1, AdapterAssumption DEF Types, PcPlaces, Starting, Stopping
<1>3. Counting'
  BY <1>1, CountingStays DEF CountedAt, Types
<1>4. References'
  BY <1>1, ReferencesStay
<1>5. Places'
  BY <1>1 DEF Places, InFlush, Types, ClearsAndSizes
<1>6. OneActive'
  BY <1>1 DEF OneActive, Active
<1>7. Subscribed'
  BY <1>1 DEF Subscribed, AtAdapter, OneActive, Active
<1>8. Emptied'
  BY <1>1 DEF Emptied, Quiet, Empty, Active, Unregistering, FlushedSoFar, InFlush, Places, OneActive
<1>9. Apart'
  <2>1. Quiet' => Empty
    BY <1>1 DEF Emptied, Quiet
  <2> QED BY <1>1, <2>1 DEF Apart, Empty
<1> QED BY <1>2, <1>3, <1>4, <1>5, <1>6, <1>7, <1>8, <1>9 DEF AdapterIInv

LEMMA RegistersCallbacksKeeps ==
    ASSUME AdapterIInv, NEW m \in Monitors, RegistersCallbacks(m)
    PROVE  AdapterIInv'
<1>1. /\ Types /\ Counting /\ References /\ Places /\ OneActive /\ Subscribed /\ Emptied /\ Apart
      /\ pc[m] = "callbacks" /\ UNCHANGED <<gil, keeps, slot, refs, calling, bufferSize>>
      /\ UNCHANGED <<starts, requests, resizes, missized, failed, overlapped, late>>
      /\ UNCHANGED <<frame, mtx, refCnt, pool, subscriber>> /\ lib' = [lib EXCEPT !.callbacks = TRUE, !.mgr = TRUE]
      /\ pc' = [pc EXCEPT ![m] = "register"] /\ \A n \in Monitors : pc'[n] = IF n = m THEN "register" ELSE pc[n]
  BY PcMoves DEF AdapterIInv, Goes, RegistersCallbacks, GilAsIs, Ghosts
<1>2. Types'
  <2>1. lib' \in Libs
    BY <1>1, LibFields, TypedRecords
  <2> QED BY <1>1, <2>1, AdapterAssumption DEF Types, PcPlaces, Starting, Stopping
<1>3. Counting'
  BY <1>1, CountingStays DEF CountedAt, Types
<1>4. References'
  BY <1>1, ReferencesStay
<1>5. Places'
  BY <1>1 DEF Places, InFlush, Types, RegistersCallbacks
<1>6. OneActive'
  BY <1>1 DEF OneActive, Active
<1>7. Subscribed'
  BY <1>1 DEF Subscribed, AtAdapter, OneActive, Active
<1>8. Emptied'
  BY <1>1 DEF Emptied, Quiet, Empty, Active, Unregistering, FlushedSoFar, InFlush, Places, OneActive
<1>9. Apart'
  BY <1>1 DEF Apart, Quiet
<1> QED BY <1>2, <1>3, <1>4, <1>5, <1>6, <1>7, <1>8, <1>9 DEF AdapterIInv

LEMMA StopTestsKeeps ==
    ASSUME AdapterIInv, NEW m \in Monitors, StopTests(m)
    PROVE  AdapterIInv'
<1>1. /\ Types /\ Counting /\ References /\ Places /\ OneActive /\ Subscribed /\ Emptied /\ Apart
      /\ pc[m] = "running" /\ UNCHANGED <<gil, keeps, slot, refs, calling, bufferSize>>
      /\ UNCHANGED <<starts, requests, resizes, missized, failed, late>>
      /\ UNCHANGED <<frame, mtx, refCnt, pool, subscriber, lib>> /\ overlapped' \in BOOLEAN
      /\ (~overlapped' => ~overlapped /\ \A n \in Monitors : pc[n] \in {"out", "running"})
      /\ pc' = [pc EXCEPT ![m] = (IF refCnt >= 1 THEN "lower" ELSE "look")]
      /\ \A n \in Monitors : pc'[n] = IF n = m THEN (IF refCnt >= 1 THEN "lower" ELSE "look") ELSE pc[n]
  BY PcMoves DEF AdapterIInv, Goes, StopTests, GilAsIs, Types, Busy
<1>2. Types'
  BY <1>1, AdapterAssumption DEF Types, PcPlaces, Goes, Starting, Stopping, StopTests, GilAsIs, Types, Busy
<1>3. Counting'
  <2>1. refCnt >= 1
    BY <1>1, CountedZero DEF CountedAt, Types
  <2> QED BY <1>1, <2>1, CountingStays DEF CountedAt, Types
<1>4. References'
  BY <1>1, ReferencesStay
<1>5. Places'
  BY <1>1 DEF Places, InFlush, Types, StopTests
<1>6. OneActive'
  BY <1>1 DEF OneActive, Active
<1>7. Subscribed'
  BY <1>1 DEF Subscribed, AtAdapter, OneActive, Active
<1>8. Emptied'
  BY <1>1 DEF Emptied, Quiet, Empty, Active, Unregistering, FlushedSoFar, InFlush, Places, OneActive
<1>9. Apart'
  BY <1>1 DEF Apart, Quiet
<1> QED BY <1>2, <1>3, <1>4, <1>5, <1>6, <1>7, <1>8, <1>9 DEF AdapterIInv

LEMMA UnsubscribesKeeps ==
    ASSUME AdapterIInv, NEW m \in Monitors, Unsubscribes(m)
    PROVE  AdapterIInv'
<1>1. /\ Types /\ Counting /\ References /\ Places /\ OneActive /\ Subscribed /\ Emptied /\ Apart
      /\ pc[m] = "unsubscribe" /\ UNCHANGED <<gil, keeps, slot, refs, calling, bufferSize>>
      /\ UNCHANGED <<starts, requests, resizes, missized, failed, overlapped, late>>
      /\ UNCHANGED <<frame, mtx, refCnt, pool>>
      /\ (subscriber.who = "adapter" => subscriber' = [who |-> "nobody", lock |-> m] /\ lib' = [lib EXCEPT !.mgr = FALSE])
      /\ (subscriber.who # "adapter" => UNCHANGED <<subscriber, lib>>)
      /\ pc' = [pc EXCEPT ![m] = (IF subscriber.who = "nobody" THEN "flushMtx" ELSE IF subscriber.who = "other" THEN "out" ELSE "join")]
      /\ \A n \in Monitors : pc'[n] = IF n = m
            THEN (IF subscriber.who = "nobody" THEN "flushMtx" ELSE IF subscriber.who = "other" THEN "out" ELSE "join")
            ELSE pc[n]
  BY PcMoves DEF AdapterIInv, Goes, Unsubscribes, GilAsIs, Ghosts, Types, Subscribers
<1>2. Types'
  <2>1. lib' \in Libs
    BY <1>1, LibFields, TypedRecords
  <2>2. subscriber' \in Subscribers
    BY <1>1 DEF Types, Subscribers
  <2> QED BY <1>1, <2>1, <2>2, AdapterAssumption DEF Types, PcPlaces, Starting, Stopping
<1>3. Counting'
  BY <1>1, CountingStays DEF CountedAt, Types
<1>4. References'
  BY <1>1, ReferencesStay
<1>5. Places'
  BY <1>1 DEF Places, InFlush, Types, Unsubscribes
<1>6. OneActive'
  BY <1>1 DEF OneActive, Active
<1>7. Subscribed'
  <2>1. refCnt = 0 => \A n \in Monitors : pc[n] \notin CountedAt
    BY <1>1, CountedZero
  <2> QED BY <1>1, <2>1 DEF Subscribed, AtAdapter, CountedAt, OneActive, Active
<1>8. Emptied'
  <2>1. lib'.kinds = lib.kinds /\ lib'.cur = lib.cur /\ lib'.co = lib.co /\ lib'.works = lib.works
    BY <1>1 DEF Types, Libs
  <2>2. Quiet' => refCnt = 0 /\ subscriber.who = "adapter"
    BY <1>1, CountedZero DEF Subscribed, AtAdapter, Quiet
  <2> QED BY <1>1, <2>1, <2>2 DEF Emptied, Quiet, Empty, Active, Unregistering, FlushedSoFar, InFlush, Places, OneActive
<1>9. Apart'
  <2>1. lib'.cur = lib.cur /\ lib'.co = lib.co /\ lib'.works = lib.works
    BY <1>1 DEF Types, Libs
  <2> QED BY <1>1, <2>1 DEF Apart, Quiet
<1> QED BY <1>2, <1>3, <1>4, <1>5, <1>6, <1>7, <1>8, <1>9 DEF AdapterIInv

LEMMA UnsubscribeJoinsKeeps ==
    ASSUME AdapterIInv, NEW m \in Monitors, UnsubscribeJoins(m)
    PROVE  AdapterIInv'
<1>1. /\ Types /\ Counting /\ References /\ Places /\ OneActive /\ Subscribed /\ Emptied /\ Apart
      /\ pc[m] = "join" /\ UNCHANGED <<gil, keeps, slot, refs, calling, bufferSize>>
      /\ UNCHANGED <<starts, requests, resizes, missized, failed, overlapped, late>>
      /\ UNCHANGED <<frame, mtx, refCnt, pool>> /\ subscriber' = [subscriber EXCEPT !.lock = Nobody]
      /\ lib' = [lib EXCEPT !.kinds = {}]
      /\ pc' = [pc EXCEPT ![m] = "flushMtx"] /\ \A n \in Monitors : pc'[n] = IF n = m THEN "flushMtx" ELSE pc[n]
  BY PcMoves DEF AdapterIInv, Goes, UnsubscribeJoins, GilAsIs, Ghosts
<1>2. Types'
  <2>1. lib' \in Libs
    BY <1>1, LibFields, TypedRecords
  <2>2. subscriber' \in Subscribers
    BY <1>1 DEF Types, Subscribers
  <2> QED BY <1>1, <2>1, <2>2, AdapterAssumption DEF Types, PcPlaces, Starting, Stopping
<1>3. Counting'
  BY <1>1, CountingStays DEF CountedAt, Types
<1>4. References'
  BY <1>1, ReferencesStay
<1>5. Places'
  BY <1>1 DEF Places, InFlush, Types, UnsubscribeJoins
<1>6. OneActive'
  BY <1>1 DEF OneActive, Active
<1>7. Subscribed'
  <2>1. subscriber'.who = subscriber.who
    BY <1>1 DEF Types, Subscribers
  <2> QED BY <1>1, <2>1 DEF Subscribed, AtAdapter, OneActive, Active
<1>8. Emptied'
  <2>1. lib'.kinds = {} /\ lib'.cur = lib.cur /\ lib'.co = lib.co /\ lib'.works = lib.works
    BY <1>1 DEF Types, Libs
  <2> QED BY <1>1, <2>1 DEF Emptied, Quiet, Empty, Active, Unregistering, FlushedSoFar, InFlush, Places, OneActive
<1>9. Apart'
  <2>1. lib'.cur = lib.cur /\ lib'.co = lib.co /\ lib'.works = lib.works
    BY <1>1 DEF Types, Libs
  <2> QED BY <1>1, <2>1 DEF Apart, Quiet
<1> QED BY <1>2, <1>3, <1>4, <1>5, <1>6, <1>7, <1>8, <1>9 DEF AdapterIInv

LEMMA EntersRegisterKeeps ==
    ASSUME AdapterIInv, NEW m \in Monitors, EntersRegister(m)
    PROVE  AdapterIInv'
<1>1. /\ Types /\ Counting /\ References /\ Places /\ OneActive /\ Subscribed /\ Emptied /\ Apart
      /\ pc[m] = "register" /\ gil' = m /\ keeps' = keeps \cup {m}
      /\ UNCHANGED <<starts, requests, resizes, missized, failed, overlapped, late>>
      /\ UNCHANGED <<frame, mtx, refCnt, pool, subscriber, lib>> /\ UNCHANGED <<bufferSize, slot, refs, calling>>
      /\ pc' = [pc EXCEPT ![m] = "registerMtx"] /\ \A n \in Monitors : pc'[n] = IF n = m THEN "registerMtx" ELSE pc[n]
  BY PcMoves DEF AdapterIInv, Goes, EntersRegister, Enters, Ghosts
<1>2. Types'
  BY <1>1 DEF Types, PcPlaces, Starting, Stopping, Actors
<1>3. Counting'
  BY <1>1, CountingStays DEF CountedAt, Types
<1>4. References'
  BY <1>1, ReferencesStay
<1>5. Places'
  BY <1>1 DEF Places, InFlush, Types, EntersRegister
<1>6. OneActive'
  BY <1>1 DEF OneActive, Active
<1>7. Subscribed'
  BY <1>1 DEF Subscribed, AtAdapter, OneActive, Active
<1>8. Emptied'
  BY <1>1 DEF Emptied, Quiet, Empty, Active, Unregistering, FlushedSoFar, InFlush, Places, OneActive
<1>9. Apart'
  BY <1>1 DEF Apart, Quiet
<1> QED BY <1>2, <1>3, <1>4, <1>5, <1>6, <1>7, <1>8, <1>9 DEF AdapterIInv

LEMMA EntersUnregisterKeeps ==
    ASSUME AdapterIInv, NEW m \in Monitors, EntersUnregister(m)
    PROVE  AdapterIInv'
<1>1. /\ Types /\ Counting /\ References /\ Places /\ OneActive /\ Subscribed /\ Emptied /\ Apart
      /\ pc[m] = "unregister" /\ gil' = m /\ keeps' = keeps \cup {m}
      /\ UNCHANGED <<starts, requests, resizes, missized, failed, overlapped, late>>
      /\ UNCHANGED <<frame, mtx, refCnt, pool, subscriber, lib>> /\ UNCHANGED <<bufferSize, slot, refs, calling>>
      /\ pc' = [pc EXCEPT ![m] = "unregisterMtx"] /\ \A n \in Monitors : pc'[n] = IF n = m THEN "unregisterMtx" ELSE pc[n]
  BY PcMoves DEF AdapterIInv, Goes, EntersUnregister, Enters, Ghosts
<1>2. Types'
  BY <1>1 DEF Types, PcPlaces, Starting, Stopping, Actors
<1>3. Counting'
  BY <1>1, CountingStays DEF CountedAt, Types
<1>4. References'
  BY <1>1, ReferencesStay
<1>5. Places'
  BY <1>1 DEF Places, InFlush, Types, EntersUnregister
<1>6. OneActive'
  BY <1>1 DEF OneActive, Active
<1>7. Subscribed'
  BY <1>1 DEF Subscribed, AtAdapter, OneActive, Active
<1>8. Emptied'
  BY <1>1 DEF Emptied, Quiet, Empty, Active, Unregistering, FlushedSoFar, InFlush, Places, OneActive
<1>9. Apart'
  BY <1>1 DEF Apart, Quiet
<1> QED BY <1>2, <1>3, <1>4, <1>5, <1>6, <1>7, <1>8, <1>9 DEF AdapterIInv

LEMMA EntersSetBufferSizeKeeps ==
    ASSUME AdapterIInv, NEW m \in Monitors, EntersSetBufferSize(m)
    PROVE  AdapterIInv'
<1>1. /\ Types /\ Counting /\ References /\ Places /\ OneActive /\ Subscribed /\ Emptied /\ Apart
      /\ pc[m] = "running" /\ gil' = m /\ keeps' = keeps \cup {m}
      /\ UNCHANGED <<starts, requests, resizes, missized, failed, overlapped, late>>
      /\ UNCHANGED <<frame, mtx, refCnt, pool, subscriber, lib>> /\ UNCHANGED <<bufferSize, slot, refs, calling>>
      /\ pc' = [pc EXCEPT ![m] = "sizing"] /\ \A n \in Monitors : pc'[n] = IF n = m THEN "sizing" ELSE pc[n]
  BY PcMoves DEF AdapterIInv, Goes, EntersSetBufferSize, Enters, Ghosts
<1>2. Types'
  BY <1>1 DEF Types, PcPlaces, Starting, Stopping, Actors
<1>3. Counting'
  BY <1>1, CountingStays DEF CountedAt, Types
<1>4. References'
  BY <1>1, ReferencesStay
<1>5. Places'
  BY <1>1 DEF Places, InFlush, Types, EntersSetBufferSize
<1>6. OneActive'
  BY <1>1 DEF OneActive, Active
<1>7. Subscribed'
  BY <1>1 DEF Subscribed, AtAdapter, OneActive, Active
<1>8. Emptied'
  BY <1>1 DEF Emptied, Quiet, Empty, Active, Unregistering, FlushedSoFar, InFlush, Places, OneActive
<1>9. Apart'
  BY <1>1 DEF Apart, Quiet
<1> QED BY <1>2, <1>3, <1>4, <1>5, <1>6, <1>7, <1>8, <1>9 DEF AdapterIInv

LEMMA SetBufferSizeKeeps ==
    ASSUME AdapterIInv, NEW m \in Monitors, SetBufferSize(m)
    PROVE  AdapterIInv'
<1>1. /\ Types /\ Counting /\ References /\ Places /\ OneActive /\ Subscribed /\ Emptied /\ Apart
      /\ pc[m] = "sizing" /\ gil' = Nobody /\ keeps' = keeps \ {m}
      /\ UNCHANGED <<starts, requests, missized, failed, overlapped, late>>
      /\ UNCHANGED <<frame, mtx, refCnt, pool, subscriber, lib>> /\ resizes' = resizes + 1 /\ bufferSize' \in BufferSizes
      /\ UNCHANGED <<slot, refs, calling>>
      /\ pc' = [pc EXCEPT ![m] = "running"] /\ \A n \in Monitors : pc'[n] = IF n = m THEN "running" ELSE pc[n]
  BY PcMoves DEF AdapterIInv, Goes, SetBufferSize, Ghosts
<1>2. Types'
  BY <1>1 DEF Types, PcPlaces, Starting, Stopping, Actors
<1>3. Counting'
  BY <1>1, CountingStays DEF CountedAt, Types
<1>4. References'
  BY <1>1, ReferencesStay
<1>5. Places'
  BY <1>1 DEF Places, InFlush, Types, SetBufferSize
<1>6. OneActive'
  BY <1>1 DEF OneActive, Active
<1>7. Subscribed'
  BY <1>1 DEF Subscribed, AtAdapter, OneActive, Active
<1>8. Emptied'
  BY <1>1 DEF Emptied, Quiet, Empty, Active, Unregistering, FlushedSoFar, InFlush, Places, OneActive
<1>9. Apart'
  BY <1>1 DEF Apart, Quiet
<1> QED BY <1>2, <1>3, <1>4, <1>5, <1>6, <1>7, <1>8, <1>9 DEF AdapterIInv

LEMMA RegisterCallbackKeeps ==
    ASSUME AdapterIInv, NEW m \in Monitors, RegisterCallback(m)
    PROVE  AdapterIInv'
<1>1. /\ Types /\ Counting /\ References /\ Places /\ OneActive /\ Subscribed /\ Emptied /\ Apart
      /\ pc[m] = "registerMtx" /\ gil' = Nobody /\ keeps' = keeps \ {m}
      /\ UNCHANGED <<starts, requests, resizes, missized, failed, overlapped, late>>
      /\ UNCHANGED <<frame, mtx, refCnt, pool, subscriber>> /\ slot' = [slot EXCEPT ![KindOf[m]] = m]
      /\ refs' = [refs EXCEPT ![m] = @ + 1] /\ lib' = [lib EXCEPT !.kinds = @ \cup {KindOf[m]}] /\ mtx = Nobody
      /\ UNCHANGED <<bufferSize, calling>>
      /\ pc' = [pc EXCEPT ![m] = "running"] /\ \A n \in Monitors : pc'[n] = IF n = m THEN "running" ELSE pc[n]
  BY PcMoves DEF AdapterIInv, Goes, RegisterCallback, Ghosts
<1>2. Types'
  <2>1. lib' \in Libs
    <3>1. KindOf[m] \in Kinds
      BY DEF Kinds
    <3>2. lib \in Libs /\ lib.kinds \in SUBSET Kinds /\ {} \in SUBSET Buffers
      BY <1>1, TypedRecords DEF Libs
    <3> QED BY <1>1, <3>1, <3>2, LibFields
  <2>2. slot' \in [Kinds -> Monitors \cup {Nobody}] /\ refs' \in [Monitors -> Nat]
    BY <1>1 DEF Types, Kinds
  <2> QED BY <1>1, <2>1, <2>2, AdapterAssumption DEF Types, PcPlaces, Starting, Stopping
<1>3. Counting'
  BY <1>1, CountingStays DEF CountedAt, Types
<1>4. References'
  <2>1. slot \in [Kinds -> Monitors \cup {Nobody}] /\ refs \in [Monitors -> Nat] /\ KindOf[m] \in Kinds
    BY <1>1 DEF Types, Kinds
  <2>2. \A k \in Kinds : slot'[k] # Nobody => KindOf[slot'[k]] = k
    BY <1>1, <2>1 DEF References
  <2>3. ASSUME NEW c \in Monitors
        PROVE  IsFiniteSet(CallbacksOf(c))' /\ refs'[c] >= Cardinality(CallbacksOf(c))' + InSlot(c)'
    <3>1. CallbacksOf(c)' = CallbacksOf(c) /\ IsFiniteSet(CallbacksOf(c))
      BY <1>1 DEF CallbacksOf, References
    <3>2. Cardinality(CallbacksOf(c)) \in Nat
      BY <3>1, FS_CardinalityType
    <3>3. refs[c] >= Cardinality(CallbacksOf(c)) + InSlot(c) /\ KindOf[c] \in Kinds
      BY DEF References, Kinds, AdapterIInv
    <3>4. CASE c = m
      <4>1. refs'[c] = refs[c] + 1 /\ InSlot(c)' = 1 /\ InSlot(c) \in {0, 1}
        BY <1>1, <2>1, <3>4 DEF InSlot
      <4> QED BY <2>1, <3>1, <3>2, <3>3, <4>1
    <3>5. CASE c # m
      <4>1. refs'[c] = refs[c] /\ InSlot(c)' <= InSlot(c) /\ InSlot(c) \in {0, 1} /\ InSlot(c)' \in {0, 1}
        BY <1>1, <2>1, <3>3, <3>5 DEF InSlot
      <4> QED BY <2>1, <3>1, <3>2, <3>3, <4>1
    <3> QED BY <3>4, <3>5
  <2> QED BY <2>2, <2>3 DEF References
<1>5. Places'
  BY <1>1 DEF Places, InFlush, Types, RegisterCallback
<1>6. OneActive'
  BY <1>1 DEF OneActive, Active
<1>7. Subscribed'
  BY <1>1 DEF Subscribed, AtAdapter, OneActive, Active
<1>8. Emptied'
  <2>1. lib'.cur = lib.cur /\ lib'.co = lib.co /\ lib'.works = lib.works
    BY <1>1 DEF Types, Libs
  <2>2. refCnt # 0
    BY <1>1, CountedZero DEF CountedAt
  <2> QED BY <1>1, <2>1, <2>2 DEF Emptied, Quiet, Empty, Active, Unregistering, FlushedSoFar, InFlush, Places, OneActive
<1>9. Apart'
  <2>1. lib'.cur = lib.cur /\ lib'.co = lib.co /\ lib'.works = lib.works
    BY <1>1 DEF Types, Libs
  <2> QED BY <1>1, <2>1 DEF Apart, Quiet
<1> QED BY <1>2, <1>3, <1>4, <1>5, <1>6, <1>7, <1>8, <1>9 DEF AdapterIInv

LEMMA UnregisterCallbackKeeps ==
    ASSUME AdapterIInv, NEW m \in Monitors, UnregisterCallback(m)
    PROVE  AdapterIInv'
<1>1. /\ Types /\ Counting /\ References /\ Places /\ OneActive /\ Subscribed /\ Emptied /\ Apart
      /\ pc[m] = "unregisterMtx" /\ UNCHANGED <<gil, keeps, slot, refs, calling, bufferSize>>
      /\ UNCHANGED <<starts, requests, resizes, missized, failed, overlapped, late>>
      /\ UNCHANGED <<refCnt, pool, subscriber>> /\ mtx = Nobody /\ mtx' = m
      /\ lib' = [lib EXCEPT !.kinds = @ \ {KindOf[m]}, !.co = {}]
      /\ frame' = [frame EXCEPT ![m].taken = lib.co]
      /\ pc' = [pc EXCEPT ![m] = "drain"] /\ \A n \in Monitors : pc'[n] = IF n = m THEN "drain" ELSE pc[n]
  BY PcMoves DEF AdapterIInv, Goes, UnregisterCallback, GilAsIs, Ghosts
<1>2. Types'
  <2>1. lib' \in Libs
    <3>1. KindOf[m] \in Kinds
      BY DEF Kinds
    <3>2. lib \in Libs /\ lib.kinds \in SUBSET Kinds /\ {} \in SUBSET Buffers
      BY <1>1, TypedRecords DEF Libs
    <3> QED BY <1>1, <3>1, <3>2, LibFields
  <2>2. frame' \in [Monitors -> Frames]
    BY <1>1 DEF Types, Frames, Libs
  <2> QED BY <1>1, <2>1, <2>2, AdapterAssumption DEF Types, PcPlaces, Starting, Stopping
<1>3. Counting'
  BY <1>1, CountingStays DEF CountedAt, Types
<1>4. References'
  BY <1>1, ReferencesStay
<1>5. Places'
  <2>1. lib'.kinds \subseteq lib.kinds /\ lib'.cur = lib.cur /\ lib'.co = {} /\ lib'.works = lib.works
    BY <1>1 DEF Types, Libs
  <2>2. \A n \in Monitors : frame'[n].taken = (IF n = m THEN lib.co ELSE frame[n].taken) /\ frame'[n].joins = frame[n].joins
    BY <1>1 DEF Types, Frames
  <2>3. frame[m].taken = {} /\ m \in Monitors
    BY <1>1 DEF Places
  <2> QED BY <1>1, <2>2, <2>3, AdapterAssumption DEF Places, InFlush
<1>6. OneActive'
  BY <1>1 DEF OneActive, Active
<1>7. Subscribed'
  BY <1>1 DEF Subscribed, AtAdapter, OneActive, Active
<1>8. Emptied'
  <2>1. lib'.kinds \subseteq lib.kinds /\ lib'.cur = lib.cur /\ lib'.co = {} /\ lib'.works = lib.works
    BY <1>1 DEF Types, Libs
  <2>2. \A n \in Monitors : frame'[n].taken = (IF n = m THEN lib.co ELSE frame[n].taken) /\ frame'[n].joins = frame[n].joins
    BY <1>1 DEF Types, Frames
  <2>3. frame[m].taken = {} /\ m \in Monitors
    BY <1>1 DEF Places
  <2> QED BY <1>1, <2>1, <2>2, <2>3 DEF Emptied, Quiet, Empty, Active, Unregistering, FlushedSoFar, InFlush, Places, OneActive
<1>9. Apart'
  <2>1. lib'.kinds \subseteq lib.kinds /\ lib'.cur = lib.cur /\ lib'.co = {} /\ lib'.works = lib.works
    BY <1>1 DEF Types, Libs
  <2>2. \A n \in Monitors : frame'[n].taken = (IF n = m THEN lib.co ELSE frame[n].taken) /\ frame'[n].joins = frame[n].joins
    BY <1>1 DEF Types, Frames
  <2>3. frame[m].taken = {} /\ m \in Monitors
    BY <1>1 DEF Places
  <2> QED BY <1>1, <2>1, <2>2, <2>3 DEF Apart, Quiet
<1> QED BY <1>2, <1>3, <1>4, <1>5, <1>6, <1>7, <1>8, <1>9 DEF AdapterIInv

LEMMA FlushAllKeeps ==
    ASSUME AdapterIInv, NEW m \in Monitors, FlushAll(m)
    PROVE  AdapterIInv'
<1>1. /\ Types /\ Counting /\ References /\ Places /\ OneActive /\ Subscribed /\ Emptied /\ Apart
      /\ pc[m] = "flushMtx" /\ UNCHANGED <<gil, keeps, slot, refs, calling, bufferSize>>
      /\ UNCHANGED <<starts, requests, resizes, missized, failed, overlapped, late>>
      /\ UNCHANGED <<refCnt, pool, subscriber>> /\ mtx = Nobody /\ mtx' = m /\ lib' = [lib EXCEPT !.co = {}]
      /\ frame' = [frame EXCEPT ![m].taken = lib.co]
      /\ pc' = [pc EXCEPT ![m] = "drain"] /\ \A n \in Monitors : pc'[n] = IF n = m THEN "drain" ELSE pc[n]
  BY PcMoves DEF AdapterIInv, Goes, FlushAll, GilAsIs, Ghosts
<1>2. Types'
  <2>1. lib' \in Libs
    <3>1. KindOf[m] \in Kinds
      BY DEF Kinds
    <3>2. lib \in Libs /\ lib.kinds \in SUBSET Kinds /\ {} \in SUBSET Buffers
      BY <1>1, TypedRecords DEF Libs
    <3> QED BY <1>1, <3>1, <3>2, LibFields
  <2>2. frame' \in [Monitors -> Frames]
    BY <1>1 DEF Types, Frames, Libs
  <2> QED BY <1>1, <2>1, <2>2, AdapterAssumption DEF Types, PcPlaces, Starting, Stopping
<1>3. Counting'
  BY <1>1, CountingStays DEF CountedAt, Types
<1>4. References'
  BY <1>1, ReferencesStay
<1>5. Places'
  <2>1. lib'.kinds \subseteq lib.kinds /\ lib'.cur = lib.cur /\ lib'.co = {} /\ lib'.works = lib.works
    BY <1>1 DEF Types, Libs
  <2>2. \A n \in Monitors : frame'[n].taken = (IF n = m THEN lib.co ELSE frame[n].taken) /\ frame'[n].joins = frame[n].joins
    BY <1>1 DEF Types, Frames
  <2>3. frame[m].taken = {} /\ m \in Monitors
    BY <1>1 DEF Places
  <2> QED BY <1>1, <2>2, <2>3, AdapterAssumption DEF Places, InFlush
<1>6. OneActive'
  BY <1>1 DEF OneActive, Active
<1>7. Subscribed'
  BY <1>1 DEF Subscribed, AtAdapter, OneActive, Active
<1>8. Emptied'
  <2>1. lib'.kinds \subseteq lib.kinds /\ lib'.cur = lib.cur /\ lib'.co = {} /\ lib'.works = lib.works
    BY <1>1 DEF Types, Libs
  <2>2. \A n \in Monitors : frame'[n].taken = (IF n = m THEN lib.co ELSE frame[n].taken) /\ frame'[n].joins = frame[n].joins
    BY <1>1 DEF Types, Frames
  <2>3. frame[m].taken = {} /\ m \in Monitors
    BY <1>1 DEF Places
  <2> QED BY <1>1, <2>1, <2>2, <2>3 DEF Emptied, Quiet, Empty, Active, Unregistering, FlushedSoFar, InFlush, Places, OneActive
<1>9. Apart'
  <2>1. lib'.kinds \subseteq lib.kinds /\ lib'.cur = lib.cur /\ lib'.co = {} /\ lib'.works = lib.works
    BY <1>1 DEF Types, Libs
  <2>2. \A n \in Monitors : frame'[n].taken = (IF n = m THEN lib.co ELSE frame[n].taken) /\ frame'[n].joins = frame[n].joins
    BY <1>1 DEF Types, Frames
  <2>3. frame[m].taken = {} /\ m \in Monitors
    BY <1>1 DEF Places
  <2> QED BY <1>1, <2>1, <2>2, <2>3 DEF Apart, Quiet
<1> QED BY <1>2, <1>3, <1>4, <1>5, <1>6, <1>7, <1>8, <1>9 DEF AdapterIInv

LEMMA DrainedKeeps ==
    ASSUME AdapterIInv, NEW m \in Monitors, Drained(m)
    PROVE  AdapterIInv'
<1>1. /\ Types /\ Counting /\ References /\ Places /\ OneActive /\ Subscribed /\ Emptied /\ Apart
      /\ pc[m] = "drain" /\ UNCHANGED <<gil, keeps, slot, refs, calling, bufferSize>>
      /\ UNCHANGED <<starts, requests, resizes, missized, failed, overlapped, late>>
      /\ UNCHANGED <<mtx, refCnt, pool, subscriber, lib>> /\ frame[m].taken = {}
      /\ frame' = [frame EXCEPT ![m].joins = lib.works]
      /\ pc' = [pc EXCEPT ![m] = "joinWorks"] /\ \A n \in Monitors : pc'[n] = IF n = m THEN "joinWorks" ELSE pc[n]
  BY PcMoves DEF AdapterIInv, Goes, Drained, GilAsIs, Ghosts
<1>2. Types'
  <2>1. frame' \in [Monitors -> Frames]
    BY <1>1 DEF Types, Frames, Libs
  <2> QED BY <1>1, <2>1, AdapterAssumption DEF Types, PcPlaces, Starting, Stopping
<1>3. Counting'
  BY <1>1, CountingStays DEF CountedAt, Types
<1>4. References'
  BY <1>1, ReferencesStay
<1>5. Places'
  <2>1. \A n \in Monitors : frame'[n].taken = frame[n].taken
    BY <1>1 DEF Types, Frames
  <2> QED BY <1>1, <2>1 DEF Places, InFlush
<1>6. OneActive'
  BY <1>1 DEF OneActive, Active
<1>7. Subscribed'
  BY <1>1 DEF Subscribed, AtAdapter, OneActive, Active
<1>8. Emptied'
  <2>1. \A n \in Monitors : frame'[n].taken = frame[n].taken /\ frame'[n].joins = (IF n = m THEN lib.works ELSE frame[n].joins)
    BY <1>1 DEF Types, Frames
  <2> QED BY <1>1, <2>1 DEF Emptied, Quiet, Empty, Active, Unregistering, FlushedSoFar, InFlush, Places, OneActive
<1>9. Apart'
  <2>1. \A n \in Monitors : frame'[n].taken = frame[n].taken
    BY <1>1 DEF Types, Frames
  <2> QED BY <1>1, <2>1 DEF Apart, Quiet
<1> QED BY <1>2, <1>3, <1>4, <1>5, <1>6, <1>7, <1>8, <1>9 DEF AdapterIInv

LEMMA JoinsWorksKeeps ==
    ASSUME AdapterIInv, NEW m \in Monitors, JoinsWorks(m)
    PROVE  AdapterIInv'
<1>1. /\ Types /\ Counting /\ References /\ Places /\ OneActive /\ Subscribed /\ Emptied /\ Apart
      /\ pc[m] = "joinWorks" /\ UNCHANGED <<gil, keeps, slot, refs, calling, bufferSize>>
      /\ UNCHANGED <<starts, requests, resizes, missized, failed, overlapped, late>>
      /\ UNCHANGED <<mtx, refCnt, pool, subscriber>> /\ frame[m].joins \cap lib.works = {}
      /\ frame' = [frame EXCEPT ![m] = [taken |-> lib.cur, joins |-> {}]] /\ lib' = [lib EXCEPT !.cur = {}]
      /\ pc' = [pc EXCEPT ![m] = "last"] /\ \A n \in Monitors : pc'[n] = IF n = m THEN "last" ELSE pc[n]
  BY PcMoves DEF AdapterIInv, Goes, JoinsWorks, GilAsIs, Ghosts
<1>2. Types'
  <2>1. lib' \in Libs
    BY <1>1, LibFields, TypedRecords
  <2>2. frame' \in [Monitors -> Frames]
    BY <1>1 DEF Types, Frames, Libs
  <2> QED BY <1>1, <2>1, <2>2, AdapterAssumption DEF Types, PcPlaces, Starting, Stopping
<1>3. Counting'
  BY <1>1, CountingStays DEF CountedAt, Types
<1>4. References'
  BY <1>1, ReferencesStay
<1>5. Places'
  <2>1. lib'.kinds = lib.kinds /\ lib'.cur = {} /\ lib'.co = lib.co /\ lib'.works = lib.works
    BY <1>1 DEF Types, Libs
  <2>2. \A n \in Monitors : frame'[n].taken = IF n = m THEN lib.cur ELSE frame[n].taken
    BY <1>1 DEF Types, Frames
  <2>3. \A n \in Monitors : n # m => frame'[n].joins = frame[n].joins
    BY <1>1 DEF Types, Frames
  <2>4. frame[m].taken = {}
    BY <1>1 DEF Places
  <2> QED BY <1>1, <2>2 DEF Places, InFlush
<1>6. OneActive'
  BY <1>1 DEF OneActive, Active
<1>7. Subscribed'
  BY <1>1 DEF Subscribed, AtAdapter, OneActive, Active
<1>8. Emptied'
  <2>1. lib'.kinds = lib.kinds /\ lib'.cur = {} /\ lib'.co = lib.co /\ lib'.works = lib.works
    BY <1>1 DEF Types, Libs
  <2>2. \A n \in Monitors : frame'[n].taken = IF n = m THEN lib.cur ELSE frame[n].taken
    BY <1>1 DEF Types, Frames
  <2>3. \A n \in Monitors : n # m => frame'[n].joins = frame[n].joins
    BY <1>1 DEF Types, Frames
  <2>4. frame[m].taken = {}
    BY <1>1 DEF Places
  <2> QED BY <1>1, <2>1, <2>2, <2>3, <2>4 DEF Emptied, Quiet, Empty, Active, Unregistering, FlushedSoFar, InFlush, Places, OneActive
<1>9. Apart'
  <2>1. lib'.kinds = lib.kinds /\ lib'.cur = {} /\ lib'.co = lib.co /\ lib'.works = lib.works
    BY <1>1 DEF Types, Libs
  <2>2. \A n \in Monitors : frame'[n].taken = IF n = m THEN lib.cur ELSE frame[n].taken
    BY <1>1 DEF Types, Frames
  <2>3. \A n \in Monitors : n # m => frame'[n].joins = frame[n].joins
    BY <1>1 DEF Types, Frames
  <2>4. frame[m].taken = {}
    BY <1>1 DEF Places
  <2> QED BY <1>1, <2>1, <2>2, <2>4 DEF Apart, Quiet
<1> QED BY <1>2, <1>3, <1>4, <1>5, <1>6, <1>7, <1>8, <1>9 DEF AdapterIInv

LEMMA FlushEndsKeeps ==
    ASSUME AdapterIInv, NEW m \in Monitors, FlushEnds(m)
    PROVE  AdapterIInv'
<1>1. /\ Types /\ Counting /\ References /\ Places /\ OneActive /\ Subscribed /\ Emptied /\ Apart
      /\ pc[m] = "last" /\ UNCHANGED <<gil, keeps, slot, refs, calling, bufferSize>>
      /\ UNCHANGED <<starts, requests, resizes, missized, failed, overlapped, late>>
      /\ UNCHANGED <<frame, refCnt, subscriber, lib>> /\ m \notin keeps /\ frame[m].taken = {} /\ mtx' = Nobody
      /\ pool' = (IF Clears(m) THEN Cleared ELSE pool)
      /\ pc' = [pc EXCEPT ![m] = "unregister"] /\ \A n \in Monitors : pc'[n] = IF n = m THEN "unregister" ELSE pc[n]
  BY PcMoves DEF AdapterIInv, Goes, FlushEnds, GilAsIs, Ghosts
<1>2. Types'
  <2>1. pool' \in Pools /\ pool'.free \subseteq pool'.alloced
    BY <1>1, PoolFields, TypedRecords DEF Cleared
  <2> QED BY <1>1, <2>1, AdapterAssumption DEF Types, PcPlaces, Starting, Stopping
<1>3. Counting'
  BY <1>1, CountingStays DEF CountedAt, Types
<1>4. References'
  BY <1>1, ReferencesStay
<1>5. Places'
  BY <1>1, AdapterAssumption DEF Places, InFlush
<1>6. OneActive'
  BY <1>1 DEF OneActive, Active
<1>7. Subscribed'
  BY <1>1 DEF Subscribed, AtAdapter, OneActive, Active
<1>8. Emptied'
  <2>1. \A n \in Monitors : frame[n].taken = {}
    BY <1>1, AdapterAssumption DEF Places, InFlush
  <2> QED BY <1>1, <2>1 DEF Emptied, Quiet, Empty, Active, Unregistering, FlushedSoFar, InFlush, Places, OneActive
<1>9. Apart'
  <2>1. \A n \in Monitors : frame[n].taken = {}
    BY <1>1, AdapterAssumption DEF Places, InFlush
  <2>2. CASE refCnt = 0
    <3>1. Quiet => lib.cur = {} /\ lib.co = {} /\ lib.works = {}
      BY <1>1, <2>2 DEF Emptied, FlushedSoFar, InFlush
    <3> QED BY <1>1, <2>1, <3>1 DEF Apart, Quiet
  <2>3. CASE refCnt # 0
    BY <1>1, <2>3 DEF Apart, Quiet, Clears
  <2> QED BY <2>2, <2>3
<1> QED BY <1>2, <1>3, <1>4, <1>5, <1>6, <1>7, <1>8, <1>9 DEF AdapterIInv

LEMMA UnregisterEndsKeeps ==
    ASSUME AdapterIInv, NEW m \in Monitors, UnregisterEnds(m)
    PROVE  AdapterIInv'
<1>1. /\ Types /\ Counting /\ References /\ Places /\ OneActive /\ Subscribed /\ Emptied /\ Apart
      /\ pc[m] = "last" /\ gil' = Nobody /\ keeps' = keeps \ {m}
      /\ UNCHANGED <<starts, requests, resizes, missized, failed, overlapped, late>>
      /\ UNCHANGED <<frame, refCnt, pool, subscriber, lib>> /\ m \in keeps /\ frame[m].taken = {} /\ mtx' = Nobody
      /\ UNCHANGED <<calling, bufferSize>> /\ slot' = [slot EXCEPT ![KindOf[m]] = Nobody]
      /\ refs' = (IF slot[KindOf[m]] = Nobody THEN refs ELSE [refs EXCEPT ![slot[KindOf[m]]] = @ - 1])
      /\ pc' = [pc EXCEPT ![m] = "out"] /\ \A n \in Monitors : pc'[n] = IF n = m THEN "out" ELSE pc[n]
  BY PcMoves DEF AdapterIInv, Goes, UnregisterEnds, Ghosts
<1>2. Types'
  <2>1. slot' \in [Kinds -> Monitors \cup {Nobody}]
    BY <1>1 DEF Types, Kinds
  <2>2. refs' \in [Monitors -> Nat]
    <3>1. slot[KindOf[m]] \in Monitors \cup {Nobody} /\ KindOf[m] \in Kinds /\ refs \in [Monitors -> Nat]
      BY <1>1 DEF Types, Kinds
    <3>2. ASSUME slot[KindOf[m]] # Nobody PROVE refs[slot[KindOf[m]]] > 0
      <4> DEFINE c == slot[KindOf[m]]
      <4>1. c \in Monitors /\ KindOf[c] = KindOf[m]
        BY <1>1, <3>1, <3>2 DEF References
      <4>2. IsFiniteSet(CallbacksOf(c)) /\ refs[c] >= Cardinality(CallbacksOf(c)) + InSlot(c) /\ refs[c] \in Nat
        BY <1>1, <3>1, <4>1 DEF References
      <4>3. Cardinality(CallbacksOf(c)) \in Nat /\ InSlot(c) = 1
        BY <4>1, <4>2, FS_CardinalityType DEF InSlot
      <4> QED BY <4>2, <4>3
    <3> QED BY <1>1, <3>1, <3>2
  <2> QED BY <1>1, <2>1, <2>2, AdapterAssumption DEF Types, PcPlaces, Starting, Stopping
<1>3. Counting'
  BY <1>1, CountingStays DEF CountedAt, Types
<1>4. References'
  <2>1. slot \in [Kinds -> Monitors \cup {Nobody}] /\ refs \in [Monitors -> Nat] /\ KindOf[m] \in Kinds
    BY <1>1 DEF Types, Kinds
  <2>2. \A k \in Kinds : slot'[k] # Nobody => KindOf[slot'[k]] = k
    BY <1>1, <2>1 DEF References
  <2>3. ASSUME NEW c \in Monitors
        PROVE  IsFiniteSet(CallbacksOf(c))' /\ refs'[c] >= Cardinality(CallbacksOf(c))' + InSlot(c)'
    <3>1. CallbacksOf(c)' = CallbacksOf(c) /\ IsFiniteSet(CallbacksOf(c))
      BY <1>1 DEF CallbacksOf, References
    <3>2. Cardinality(CallbacksOf(c)) \in Nat
      BY <3>1, FS_CardinalityType
    <3>3. refs[c] >= Cardinality(CallbacksOf(c)) + InSlot(c) /\ KindOf[c] \in Kinds
      BY <1>1 DEF References, Kinds
    <3>4. CASE slot[KindOf[m]] = c
      <4>1. KindOf[c] = KindOf[m] /\ c # Nobody
        BY <1>1, <2>1, <3>4, AdapterAssumption DEF References
      <4>2. refs'[c] = refs[c] - 1 /\ InSlot(c)' = 0 /\ InSlot(c) = 1
        BY <1>1, <2>1, <3>4, <4>1 DEF InSlot
      <4> QED BY <2>1, <3>1, <3>2, <3>3, <4>2
    <3>5. CASE slot[KindOf[m]] # c
      <4>1. refs'[c] = refs[c]
        BY <1>1, <2>1, <3>5
      <4>2. InSlot(c)' <= InSlot(c) /\ InSlot(c) \in {0, 1} /\ InSlot(c)' \in {0, 1}
        BY <1>1, <2>1, <3>3, <3>5, AdapterAssumption DEF InSlot
      <4> QED BY <2>1, <3>1, <3>2, <3>3, <4>1, <4>2
    <3> QED BY <3>4, <3>5
  <2> QED BY <2>2, <2>3 DEF References
<1>5. Places'
  BY <1>1, AdapterAssumption DEF Places, InFlush
<1>6. OneActive'
  BY <1>1 DEF OneActive, Active
<1>7. Subscribed'
  BY <1>1 DEF Subscribed, AtAdapter, OneActive, Active
<1>8. Emptied'
  <2>1. \A n \in Monitors : frame[n].taken = {}
    BY <1>1, AdapterAssumption DEF Places, InFlush
  <2> QED BY <1>1, <2>1 DEF Emptied, Quiet, Empty, Active, Unregistering, FlushedSoFar, InFlush, Places, OneActive
<1>9. Apart'
  BY <1>1 DEF Apart, Quiet
<1> QED BY <1>2, <1>3, <1>4, <1>5, <1>6, <1>7, <1>8, <1>9 DEF AdapterIInv

----------------------------------------------------------------------------
(* Completions *)

\* A callback that runs has a reference.
LEMMA RunsReferenced ==
    ASSUME Types, References, NEW a \in Actors, calling[a] # Nobody
    PROVE  calling[a] \in Monitors /\ refs[calling[a]] > 0
<1> DEFINE c == calling[a]
<1>1. c \in Monitors /\ refs[c] \in Nat
  BY DEF Types
<1>2. IsFiniteSet(CallbacksOf(c)) /\ refs[c] >= Cardinality(CallbacksOf(c)) + InSlot(c)
  BY <1>1 DEF References
<1>3. Cardinality(CallbacksOf(c)) \in Nat /\ CallbacksOf(c) # {}
  BY <1>2, FS_CardinalityType DEF CallbacksOf
<1>4. Cardinality(CallbacksOf(c)) # 0
  BY <1>2, <1>3, FS_EmptySet
<1>5. InSlot(c) \in {0, 1}
  BY DEF InSlot
<1> QED BY <1>1, <1>2, <1>3, <1>4, <1>5

LEMMA CallsBackKeeps ==
    ASSUME AdapterIInv, NEW a \in Actors, NEW b \in Buffers, CallsBack(a, b)
    PROVE  AdapterIInv'
<1>1. /\ Types /\ Counting /\ References /\ Places /\ OneActive /\ Subscribed /\ Emptied /\ Apart
      /\ calling[a] = Nobody /\ gil' = Nobody
      /\ UNCHANGED <<pc, frame, keeps, mtx, refCnt, bufferSize, pool, slot, subscriber, lib>>
      /\ UNCHANGED <<starts, requests, resizes, missized, failed, overlapped, late>>
  BY DEF AdapterIInv, CallsBack, Ghosts
<1>2. PICK k \in Kinds : slot[k] # Nobody /\ calling' = [calling EXCEPT ![a] = slot[k]] /\ refs' = [refs EXCEPT ![slot[k]] = @ + 1]
  BY DEF CallsBack, TakesReference
<1> DEFINE c == slot[k]
<1>3. c \in Monitors /\ refs \in [Monitors -> Nat] /\ calling \in [Actors -> Monitors \cup {Nobody}]
  BY <1>1, <1>2 DEF Types
<1>4. Types'
  <2>1. refs' \in [Monitors -> Nat]
    BY <1>2, <1>3
  <2>2. calling' \in [Actors -> Monitors \cup {Nobody}]
    BY <1>2, <1>3
  <2> QED BY <1>1, <2>1, <2>2 DEF Types
<1>5. References'
  <2>1. \A d \in Monitors : CallbacksOf(d)' = IF d = c THEN CallbacksOf(d) \cup {a} ELSE CallbacksOf(d)
    BY <1>1, <1>2, <1>3, Distinct DEF CallbacksOf
  <2>2. a \notin CallbacksOf(c)
    BY <1>1, <1>3, Distinct DEF CallbacksOf
  <2>3. ASSUME NEW d \in Monitors
        PROVE  IsFiniteSet(CallbacksOf(d)') /\ refs'[d] >= Cardinality(CallbacksOf(d)') + InSlot(d)'
    <3>1. InSlot(d)' = InSlot(d) /\ InSlot(d) \in {0, 1}
      BY <1>1 DEF InSlot
    <3>2. IsFiniteSet(CallbacksOf(d)) /\ refs[d] >= Cardinality(CallbacksOf(d)) + InSlot(d) /\ refs[d] \in Nat
      BY <1>1, <1>3 DEF References
    <3>3. Cardinality(CallbacksOf(d)) \in Nat
      BY <3>2, FS_CardinalityType
    <3>4. CASE d = c
      <4>1. refs'[d] = refs[d] + 1
        BY <1>2, <1>3, <3>4
      <4>2. IsFiniteSet(CallbacksOf(d)') /\ Cardinality(CallbacksOf(d)') = Cardinality(CallbacksOf(d)) + 1
        BY <2>1, <2>2, <3>2, <3>4, FS_AddElement
      <4> QED BY <3>1, <3>2, <3>3, <4>1, <4>2
    <3>5. CASE d # c
      BY <1>2, <1>3, <2>1, <3>1, <3>2, <3>5
    <3> QED BY <3>4, <3>5
  <2> QED BY <1>1, <2>3 DEF References
<1>6. Counting' /\ Places' /\ OneActive' /\ Subscribed'
  BY <1>1 DEF Counting, CountedNow, Places, InFlush, OneActive, Active, Subscribed
<1>7. Emptied' /\ Apart'
  BY <1>1 DEF Emptied, Quiet, Empty, Active, Unregistering, FlushedSoFar, InFlush, Apart
<1> QED BY <1>4, <1>5, <1>6, <1>7 DEF AdapterIInv

LEMMA CompletionEndsKeeps ==
    ASSUME AdapterIInv, NEW a \in Actors, NEW b \in Buffers, CompletionEnds(a, b)
    PROVE  AdapterIInv'
<1>1. /\ Types /\ Counting /\ References /\ Places /\ OneActive /\ Subscribed /\ Emptied /\ Apart
      /\ gil' \in {a, Nobody} /\ calling' = [calling EXCEPT ![a] = Nobody]
      /\ refs' = (IF calling[a] = Nobody THEN refs ELSE [refs EXCEPT ![calling[a]] = @ - 1])
      /\ pool' = (IF b \in pool.alloced THEN [pool EXCEPT !.free = @ \cup {b}] ELSE pool)
      /\ UNCHANGED <<pc, keeps, mtx, refCnt, bufferSize, slot, subscriber>>
      /\ UNCHANGED <<starts, requests, resizes, missized, failed, overlapped, late>>
  BY DEF AdapterIInv, CompletionEnds, Recycled, Ghosts
<1>2. \/ a \in Monitors /\ b \in frame[a].taken /\ frame' = [frame EXCEPT ![a].taken = @ \ {b}] /\ lib' = lib
      \/ a \notin Monitors /\ b \in lib.works /\ lib' = [lib EXCEPT !.works = @ \ {b}] /\ frame' = frame
  BY DEF CompletionEnds, MayComplete
<1>3. /\ lib'.kinds = lib.kinds /\ lib'.cur = lib.cur /\ lib'.co = lib.co
      /\ lib'.works = IF a \in Monitors THEN lib.works ELSE lib.works \ {b}
  BY <1>1, <1>2 DEF Types, Libs
<1>4. /\ \A n \in Monitors : frame'[n].joins = frame[n].joins
      /\ \A n \in Monitors : frame'[n].taken = IF n = a THEN frame[n].taken \ {b} ELSE frame[n].taken
  <2>1. CASE a \in Monitors
    <3>1. frame \in [Monitors -> Frames] /\ frame' = [frame EXCEPT ![a].taken = @ \ {b}]
      BY <1>1, <1>2, <2>1 DEF Types
    <3>2. \A n \in Monitors : frame'[n] = IF n = a THEN [frame[n] EXCEPT !.taken = @ \ {b}] ELSE frame[n]
      BY <2>1, <3>1
    <3>3. \A n \in Monitors : frame[n] \in Frames
      BY <3>1
    <3> QED BY <3>2, <3>3 DEF Frames
  <2>2. CASE a \notin Monitors
    BY <1>2, <2>2
  <2> QED BY <2>1, <2>2
<1>5. calling \in [Actors -> Monitors \cup {Nobody}] /\ refs \in [Monitors -> Nat]
  BY <1>1 DEF Types
<1>6. ASSUME calling[a] # Nobody
      PROVE  calling[a] \in Monitors /\ refs[calling[a]] > 0
  BY <1>1, <1>6, RunsReferenced
<1>7. Types'
  <2>1. refs' \in [Monitors -> Nat]
    BY <1>1, <1>5, <1>6
  <2>2. calling' \in [Actors -> Monitors \cup {Nobody}]
    BY <1>1, <1>5
  <2>3. pool' \in Pools /\ pool'.free \subseteq pool'.alloced
    BY <1>1, PoolFields, TypedRecords DEF Pools
  <2>4. lib' \in Libs
    <3>1. lib \in Libs /\ lib.works \ {b} \in SUBSET Buffers
      BY <1>1 DEF Types, Libs
    <3> QED BY <1>2, <3>1, LibFields
  <2>5. frame' \in [Monitors -> Frames]
    <3>1. frame \in [Monitors -> Frames]
      BY <1>1 DEF Types
    <3> QED BY <1>2, <3>1 DEF Frames
  <2> QED BY <1>1, <2>1, <2>2, <2>3, <2>4, <2>5 DEF Types
<1>8. References'
  <2>1. \A d \in Monitors : CallbacksOf(d)' = IF d = calling[a] THEN CallbacksOf(d) \ {a} ELSE CallbacksOf(d)
    BY <1>1, <1>5, Distinct DEF CallbacksOf
  <2>2. ASSUME NEW d \in Monitors
        PROVE  IsFiniteSet(CallbacksOf(d)') /\ refs'[d] >= Cardinality(CallbacksOf(d)') + InSlot(d)'
    <3>1. InSlot(d)' = InSlot(d) /\ InSlot(d) \in {0, 1}
      BY <1>1 DEF InSlot
    <3>2. IsFiniteSet(CallbacksOf(d)) /\ refs[d] >= Cardinality(CallbacksOf(d)) + InSlot(d) /\ refs[d] \in Nat
      BY <1>1, <1>5 DEF References
    <3>3. Cardinality(CallbacksOf(d)) \in Nat
      BY <3>2, FS_CardinalityType
    <3>4. CASE d = calling[a]
      <4>1. a \in CallbacksOf(d) /\ d # Nobody
        BY <3>4, Distinct DEF CallbacksOf
      <4>2. refs'[d] = refs[d] - 1
        BY <1>1, <1>5, <3>4, <4>1
      <4>3. IsFiniteSet(CallbacksOf(d)') /\ Cardinality(CallbacksOf(d)') = Cardinality(CallbacksOf(d)) - 1
        BY <2>1, <3>2, <3>4, <4>1, FS_RemoveElement
      <4> QED BY <3>1, <3>2, <3>3, <4>2, <4>3
    <3>5. CASE d # calling[a]
      <4>1. refs'[d] = refs[d]
        BY <1>1, <1>5, <3>5
      <4> QED BY <2>1, <3>1, <3>2, <3>5, <4>1
    <3> QED BY <3>4, <3>5
  <2> QED BY <1>1, <2>2 DEF References
<1>9. Counting' /\ OneActive' /\ Subscribed'
  BY <1>1 DEF Counting, CountedNow, OneActive, Active, Subscribed
<1>10. Places'
  BY <1>1, <1>4 DEF Places, InFlush
<1>11. Emptied'
  BY <1>1, <1>3, <1>4 DEF Emptied, Quiet, Empty, Active, Unregistering, FlushedSoFar, InFlush
<1>12. Apart'
  <2>1. pool'.alloced = pool.alloced /\ pool'.free \subseteq pool.free \cup {b}
    BY <1>1 DEF Types, Pools
  <2>2. \A n \in Monitors : a \in Monitors /\ n # a => frame[n].taken = {}
    BY <1>1, <1>2, Distinct DEF Places, InFlush
  <2>3. Quiet' <=> Quiet
    BY <1>1 DEF Quiet
  <2>4. ASSUME Quiet
        PROVE  lib'.cur \cup lib'.co \cup lib'.works \subseteq pool.alloced \ (pool.free \cup {b})
    BY <1>1, <1>2, <1>3, <2>4 DEF Apart
  <2>5. ASSUME Quiet, NEW n \in Monitors
        PROVE  frame'[n].taken \subseteq pool.alloced \ (pool.free \cup {b})
    BY <1>1, <1>2, <1>4, <2>2, <2>5 DEF Apart
  <2>6. ASSUME Quiet
        PROVE  /\ lib'.cur \cap lib'.co = {} /\ lib'.cur \cap lib'.works = {} /\ lib'.co \cap lib'.works = {}
               /\ \A n \in Monitors : frame'[n].taken \cap (lib'.cur \cup lib'.co \cup lib'.works) = {}
    BY <1>1, <1>3, <1>4, <2>6 DEF Apart
  <2> QED BY <2>1, <2>3, <2>4, <2>5, <2>6 DEF Apart
<1> QED BY <1>7, <1>8, <1>9, <1>10, <1>11, <1>12 DEF AdapterIInv

----------------------------------------------------------------------------
(* The other client and the threads that record *)

LEMMA OtherKeeps ==
    ASSUME AdapterIInv, OtherSubscribes \/ OtherLeaves
    PROVE  AdapterIInv'
<1>1. /\ Types /\ Counting /\ References /\ Places /\ OneActive /\ Subscribed /\ Emptied /\ Apart
      /\ UNCHANGED <<gil, keeps, slot, refs, calling, bufferSize, pc, frame, mtx, refCnt, pool, lib>>
      /\ UNCHANGED <<requests, resizes, missized, failed, overlapped, late>>
      /\ subscriber.who # "adapter" /\ \E w \in {"nobody", "other"} : subscriber' = [subscriber EXCEPT !.who = w]
      /\ starts' = starts \/ (starts < MaxStarts /\ starts' = starts + 1)
  BY DEF AdapterIInv, OtherSubscribes, OtherLeaves, GilAsIs, Ghosts
<1>2. Types'
  <2>1. subscriber' \in Subscribers
    BY <1>1 DEF Types, Subscribers
  <2>2. starts' \in 0 .. MaxStarts
    BY <1>1, Distinct DEF Types
  <2> QED BY <1>1, <2>1, <2>2 DEF Types
<1>3. Counting'
  <2>1. starts' \in Nat /\ starts <= starts'
    BY <1>1, Distinct DEF Types
  <2> QED BY <1>1, <2>1, CountingStays
<1>4. References' /\ Places' /\ OneActive'
  BY <1>1 DEF References, CallbacksOf, InSlot, Places, InFlush, OneActive, Active
<1>5. Subscribed'
  BY <1>1 DEF Subscribed
<1>6. Emptied' /\ Apart'
  BY <1>1 DEF Emptied, Quiet, Empty, Active, Unregistering, FlushedSoFar, InFlush, Apart
<1> QED BY <1>2, <1>3, <1>4, <1>5, <1>6 DEF AdapterIInv

LEMMA PassesSwitchKeeps ==
    ASSUME AdapterIInv, PassesSwitch
    PROVE  AdapterIInv'
<1>1. /\ Types /\ Counting /\ References /\ Places /\ OneActive /\ Subscribed /\ Emptied /\ Apart
      /\ UNCHANGED <<gil, keeps, slot, refs, calling, bufferSize, pc, frame, mtx, refCnt, pool, subscriber>>
      /\ UNCHANGED <<starts, requests, resizes, missized, failed, overlapped, late>>
      /\ lib' = [lib EXCEPT !.passed = TRUE]
  BY DEF AdapterIInv, PassesSwitch, GilAsIs, Ghosts
<1>2. lib'.kinds = lib.kinds /\ lib'.cur = lib.cur /\ lib'.co = lib.co /\ lib'.works = lib.works
  BY <1>1 DEF Types, Libs
<1>3. Types'
  <2>1. lib' \in Libs
    BY <1>1, LibFields, TypedRecords
  <2> QED BY <1>1, <2>1 DEF Types
<1>4. Counting' /\ References' /\ Places' /\ OneActive' /\ Subscribed'
  BY <1>1 DEF Counting, CountedNow, References, CallbacksOf, InSlot, Places, InFlush, OneActive, Active, Subscribed
<1>5. Emptied' /\ Apart'
  BY <1>1, <1>2 DEF Emptied, Quiet, Empty, Active, Unregistering, FlushedSoFar, InFlush, Apart
<1> QED BY <1>3, <1>4, <1>5 DEF AdapterIInv

\* A buffer handed out was free, or is new to the pool.
LEMMA GotBuffer ==
    ASSUME Types, NEW b \in Buffers, GetBuffer(b)
    PROVE  /\ pool' \in Pools /\ pool'.free \subseteq pool'.alloced
           /\ pool.alloced \ pool.free \subseteq pool'.alloced \ pool'.free
           /\ b \in pool'.alloced \ pool'.free /\ b \notin pool.alloced \ pool.free
<1>1. pool \in Pools /\ pool.free \subseteq pool.alloced
  BY DEF Types
<1>2. CASE b \in pool.free /\ pool' = [pool EXCEPT !.free = @ \ {b}]
  <2>1. pool'.alloced = pool.alloced /\ pool'.free = pool.free \ {b} /\ pool' \in Pools
    BY <1>1, <1>2, PoolFields DEF Pools
  <2> QED BY <1>1, <1>2, <2>1
<1>3. CASE pool.free = {} /\ b \notin pool.alloced /\ pool' = [pool EXCEPT !.alloced = @ \cup {b}]
  <2>1. pool'.alloced = pool.alloced \cup {b} /\ pool'.free = {} /\ pool' \in Pools
    BY <1>1, <1>3, PoolFields DEF Pools
  <2> QED BY <1>1, <1>3, <2>1
<1> QED BY <1>2, <1>3 DEF GetBuffer

LEMMA RecordsKeeps ==
    ASSUME AdapterIInv, Records
    PROVE  AdapterIInv'
<1> DEFINE rest == [lib EXCEPT !.passed = FALSE, !.cur = {}, !.co = @ \cup lib.cur]
<1>1. /\ Types /\ Counting /\ References /\ Places /\ OneActive /\ Subscribed /\ Emptied /\ Apart
      /\ UNCHANGED <<gil, keeps, slot, refs, calling, bufferSize, pc, frame, mtx, refCnt, subscriber>>
      /\ UNCHANGED <<starts, resizes, failed, overlapped>>
      /\ requests' = requests + 1 /\ late' = (late \/ lib.kinds = {})
  BY DEF AdapterIInv, Records, GilAsIs
<1>2. \/ lib' = rest /\ UNCHANGED <<pool, missized>>
      \/ \E b \in Buffers : GetBuffer(b) /\ lib' = [rest EXCEPT !.cur = {b}] /\ missized' = (missized \/ SizeTold # pool.bytes)
  BY DEF Records
<1>3. lib \in Libs /\ lib.cur \in SUBSET Buffers /\ lib.co \in SUBSET Buffers
  BY <1>1 DEF Types, Libs
<1>4. /\ rest \in Libs /\ rest.kinds = lib.kinds /\ rest.cur = {} /\ rest.co = lib.co \cup lib.cur /\ rest.works = lib.works
      /\ \A b \in Buffers : LET l == [rest EXCEPT !.cur = {b}] IN
            l \in Libs /\ l.kinds = lib.kinds /\ l.cur = {b} /\ l.co = lib.co \cup lib.cur /\ l.works = lib.works
  <2>1. rest \in Libs
    BY <1>3, LibFields
  <2>2. \A b \in Buffers : [rest EXCEPT !.cur = {b}] \in Libs
    BY <2>1, LibFields
  <2> QED BY <1>3, <2>1, <2>2 DEF Libs
<1> HIDE DEF rest
<1>5. lib'.kinds = lib.kinds /\ lib'.co = lib.co \cup lib.cur /\ lib'.works = lib.works /\ lib' \in Libs
  BY <1>2, <1>4
<1>6. Types'
  <2>1. pool' \in Pools /\ pool'.free \subseteq pool'.alloced
    BY <1>1, <1>2, GotBuffer, TypedRecords
  <2>2. missized' \in BOOLEAN
    BY <1>1, <1>2 DEF Types
  <2>3. late' \in BOOLEAN
    BY <1>1 DEF Types
  <2> QED BY <1>1, <1>5, <2>1, <2>2, <2>3 DEF Types
<1>7. Counting' /\ References' /\ Places' /\ OneActive' /\ Subscribed'
  BY <1>1 DEF Counting, CountedNow, References, CallbacksOf, InSlot, Places, InFlush, OneActive, Active, Subscribed
<1>8. Quiet' => Quiet /\ lib.kinds # {}
  BY <1>1 DEF Quiet
<1>9. Emptied'
  BY <1>1, <1>5, <1>8 DEF Emptied, Empty, Active, Unregistering, FlushedSoFar, InFlush
<1>10. Apart'
  <2>1. SUFFICES ASSUME Quiet
                 PROVE  /\ lib'.cur \cup lib'.co \cup lib'.works \subseteq pool'.alloced \ pool'.free
                        /\ lib'.cur \cap lib'.co = {} /\ lib'.cur \cap lib'.works = {} /\ lib'.co \cap lib'.works = {}
                        /\ \A m \in Monitors : /\ frame[m].taken \subseteq pool'.alloced \ pool'.free
                                               /\ frame[m].taken \cap (lib'.cur \cup lib'.co \cup lib'.works) = {}
    BY <1>1, <1>8 DEF Apart
  <2>2. /\ lib.cur \cup lib.co \cup lib.works \subseteq pool.alloced \ pool.free
        /\ lib.cur \cap lib.co = {} /\ lib.cur \cap lib.works = {} /\ lib.co \cap lib.works = {}
        /\ \A m \in Monitors : /\ frame[m].taken \subseteq pool.alloced \ pool.free
                               /\ frame[m].taken \cap (lib.cur \cup lib.co \cup lib.works) = {}
    BY <1>1, <2>1 DEF Apart
  <2>3. CASE lib' = rest /\ pool' = pool
    BY <1>4, <1>5, <2>2, <2>3
  <2>4. ASSUME NEW b \in Buffers, GetBuffer(b), lib' = [rest EXCEPT !.cur = {b}]
        PROVE  /\ pool.alloced \ pool.free \subseteq pool'.alloced \ pool'.free
               /\ b \in pool'.alloced \ pool'.free /\ b \notin pool.alloced \ pool.free /\ lib'.cur = {b}
    BY <1>1, <1>4, <2>4, GotBuffer
  <2>5. CASE \E b \in Buffers : GetBuffer(b) /\ lib' = [rest EXCEPT !.cur = {b}]
    BY <1>5, <2>2, <2>4, <2>5
  <2> QED BY <1>2, <2>3, <2>5
<1> QED BY <1>6, <1>7, <1>9, <1>10 DEF AdapterIInv

LEMMA StartsWorksKeeps ==
    ASSUME AdapterIInv, StartsWorks
    PROVE  AdapterIInv'
<1>1. /\ Types /\ Counting /\ References /\ Places /\ OneActive /\ Subscribed /\ Emptied /\ Apart
      /\ UNCHANGED <<gil, keeps, slot, refs, calling, bufferSize, pc, frame, mtx, refCnt, pool, subscriber>>
      /\ UNCHANGED <<starts, requests, resizes, missized, failed, overlapped, late>>
      /\ lib.co # {} /\ lib' = [lib EXCEPT !.works = @ \cup lib.co, !.co = {}]
  BY DEF AdapterIInv, StartsWorks, GilAsIs, Ghosts
<1>2. lib'.kinds = lib.kinds /\ lib'.cur = lib.cur /\ lib'.co = {} /\ lib'.works = lib.works \cup lib.co
  BY <1>1 DEF Types, Libs
<1>3. Types'
  <2>1. lib \in Libs /\ lib.works \cup lib.co \in SUBSET Buffers /\ {} \in SUBSET Buffers
    BY <1>1 DEF Types, Libs
  <2>2. lib' \in Libs
    BY <1>1, <2>1, LibFields
  <2> QED BY <1>1, <2>2 DEF Types
<1>4. Counting' /\ References' /\ Places' /\ OneActive' /\ Subscribed'
  BY <1>1 DEF Counting, CountedNow, References, CallbacksOf, InSlot, Places, InFlush, OneActive, Active, Subscribed
<1>5. Emptied'
  BY <1>1, <1>2 DEF Emptied, Quiet, Empty, Active, Unregistering, FlushedSoFar, InFlush
<1>6. Apart'
  BY <1>1, <1>2 DEF Apart, Quiet
<1> QED BY <1>3, <1>4, <1>5, <1>6 DEF AdapterIInv

----------------------------------------------------------------------------
LEMMA AdapterInitKeeps == AdapterInit => AdapterIInv
<1> SUFFICES ASSUME AdapterInit PROVE AdapterIInv
  OBVIOUS
<1>1. Types
  <2>1. frame \in [Monitors -> Frames]
    BY DEF AdapterInit, Frames, NoFrame
  <2>2. pool \in Pools /\ pool.free \subseteq pool.alloced
    BY AdapterAssumption DEF AdapterInit, Pools
  <2>3. subscriber \in Subscribers /\ lib \in Libs
    BY DEF AdapterInit, Subscribers, Libs
  <2>4. pc \in [Monitors -> PcPlaces]
    BY DEF AdapterInit, PcPlaces
  <2>5. refCnt \in 0 .. UintValues - 1 /\ starts \in 0 .. MaxStarts /\ bufferSize \in BufferSizes
    BY AdapterAssumption DEF AdapterInit
  <2> QED BY <2>1, <2>2, <2>3, <2>4, <2>5 DEF AdapterInit, Types
<1>2. Counting
  <2>1. CountedNow = {}
    BY DEF AdapterInit, CountedNow, CountedAt
  <2> QED BY <2>1, FS_EmptySet DEF Counting, AdapterInit
<1>3. References
  <2>1. \A c \in Monitors : CallbacksOf(c) = {} /\ InSlot(c) = 0 /\ refs[c] = 0
    BY Distinct DEF AdapterInit, CallbacksOf, InSlot, Kinds
  <2> QED BY <2>1, FS_EmptySet DEF References, AdapterInit
<1>4. Places /\ OneActive /\ Subscribed
  BY Distinct DEF AdapterInit, NoFrame, Places, InFlush, OneActive, Active, Subscribed, AtAdapter
<1>5. Emptied /\ Apart
  BY DEF AdapterInit, NoFrame, Emptied, Empty, Active, Unregistering, FlushedSoFar, InFlush, Apart
<1> QED BY <1>1, <1>2, <1>3, <1>4, <1>5 DEF AdapterIInv

LEMMA AdapterStutters ==
    ASSUME AdapterIInv, UNCHANGED adapterVars
    PROVE  AdapterIInv'
<1>1. /\ UNCHANGED <<pc, frame, gil, keeps, mtx, refCnt, pool, bufferSize, slot, refs, calling, subscriber, lib>>
      /\ UNCHANGED <<starts, requests, resizes, missized, failed, overlapped, late>>
  BY DEF adapterVars
<1>2. Types' /\ Counting' /\ References' /\ Places'
  BY <1>1 DEF AdapterIInv, Types, Counting, CountedNow, References, CallbacksOf, InSlot, Places, InFlush
<1>3. OneActive' /\ Subscribed'
  BY <1>1 DEF AdapterIInv, OneActive, Active, Subscribed
<1>4. Emptied' /\ Apart'
  BY <1>1 DEF AdapterIInv, Emptied, Quiet, Empty, Active, Unregistering, FlushedSoFar, InFlush, Apart
<1> QED BY <1>2, <1>3, <1>4 DEF AdapterIInv

\* However calls, completions, records and another client's sessions interleave, the
\* three arguments hold of every state.
THEOREM AdapterInductive == AdapterSpec => []AdapterIInv
<1>1. AdapterInit => AdapterIInv
  BY AdapterInitKeeps
<1>2. AdapterIInv /\ [AdapterNext]_adapterVars => AdapterIInv'
  <2> SUFFICES ASSUME AdapterIInv, [AdapterNext]_adapterVars PROVE AdapterIInv'
    OBVIOUS
  <2>1. ASSUME NEW m \in Monitors, Start(m) \/ StopTests(m) \/ EntersSetBufferSize(m)
        PROVE  AdapterIInv'
    BY <2>1, StartKeeps, StopTestsKeeps, EntersSetBufferSizeKeeps
  <2>2. ASSUME NEW m \in Monitors, StartStopSteps(m)
        PROVE  AdapterIInv'
    BY <2>2, SubscribesKeeps, ClearsAndSizesKeeps, RegistersCallbacksKeeps, StopLowersKeeps, StopLooksKeeps, UnsubscribesKeeps,
       UnsubscribeJoinsKeeps DEF StartStopSteps
  <2>3. ASSUME NEW m \in Monitors, KeepingSteps(m)
        PROVE  AdapterIInv'
    BY <2>3, SetBufferSizeKeeps, EntersRegisterKeeps, EntersUnregisterKeeps, RegisterCallbackKeeps, UnregisterCallbackKeeps,
       UnregisterEndsKeeps DEF KeepingSteps
  <2>4. ASSUME NEW m \in Monitors, FlushSteps(m)
        PROVE  AdapterIInv'
    BY <2>4, FlushAllKeeps, DrainedKeeps, JoinsWorksKeeps, FlushEndsKeeps DEF FlushSteps
  <2>5. ASSUME NEW a \in Actors, CompletionSteps(a)
        PROVE  AdapterIInv'
    BY <2>5, CallsBackKeeps, CompletionEndsKeeps DEF CompletionSteps
  <2>6. ASSUME OtherSubscribes \/ OtherLeaves \/ PassesSwitch \/ Records \/ StartsWorks
        PROVE  AdapterIInv'
    BY <2>6, OtherKeeps, PassesSwitchKeeps, RecordsKeeps, StartsWorksKeeps
  <2>7. CASE AdapterNext
    BY <2>1, <2>2, <2>3, <2>4, <2>5, <2>6, <2>7 DEF AdapterNext
  <2> QED BY <2>7, AdapterStutters
<1> QED BY <1>1, <1>2, PTL DEF AdapterSpec

LEMMA AdapterFollows == AdapterIInv => AdapterInv
<1> SUFFICES ASSUME AdapterIInv PROVE AdapterInv
  OBVIOUS
<1>1. Types /\ Counting /\ References /\ Apart
  BY DEF AdapterIInv
<1>2. PyTypeOK
  BY <1>1 DEF Types, PyTypeOK, PcPlaces, Frames, Pools, Subscribers, Libs
<1>3. BuffersLive
  <2>1. SUFFICES ASSUME ~overlapped, ~late
                 PROVE  Held \subseteq pool.alloced /\ Held \cap pool.free = {}
    BY <1>1 DEF BuffersLive, Types
  <2>2. ASSUME NEW b \in Held
        PROVE  b \in pool.alloced \ pool.free
    BY <1>1, <2>1, <2>2 DEF Held, Apart, Quiet
  <2> QED BY <2>2
<1>4. CallbackAlive
  BY <1>1, RunsReferenced DEF CallbackAlive
<1>5. CountsMonitors
  <2>1. CountedAt = (Starting \ {"start"}) \cup {"register", "registerMtx", "running", "sizing", "lower"}
    BY DEF CountedAt, Starting
  <2> QED BY <1>1, <2>1 DEF CountsMonitors, Counting, CountedNow
<1> QED BY <1>2, <1>3, <1>4, <1>5 DEF AdapterInv

\* What the library has of the adapter is alive, a callback that runs is referenced,
\* and the adapter's count is that of its monitors, for any number of monitors, kinds,
\* buffers and sizes, and at any width of the count that the starts do not exceed.
THEOREM AdapterCorrect == AdapterSpec => []AdapterInv
BY AdapterInductive, AdapterFollows, PTL
=============================================================================
