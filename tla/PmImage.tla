------------------------------- MODULE PmImage -------------------------------
(***************************************************************************)
(* The data of one PM sampling session: its configuration and queue        *)
(* (pm_sampling_object.cpp), the plan GetCounterDataSize makes of them     *)
(* (mspti_pm_sampling_api.cpp), the layout of the counter data image       *)
(* (pm_sampling_contract.h) and the decoder that fills and reads it        *)
(* (pm_sampling_decoder.cpp), with ticks of the collector in between.      *)
(*                                                                         *)
(* The client's calls follow one another, as the API asks of the calls on  *)
(* one session; PmSampling has the threads. Sizes are bytes modulo Word;   *)
(* an image is the fields its bytes hold and alloc, the bytes it was given.*)
(***************************************************************************)
EXTENDS PmSource

CONSTANTS Device,
          Configs,       \* arguments of SetConfig
          ImageArgs,     \* <<metric ids, maxSamples>> of GetCounterDataSize
          ImageMaxSize, QueueMaxBytes, DefaultQueueSamples, EntriesLimit,
          HccsLinkNum,   \* kHccsLinkNum
          Word,          \* sizes wrap at Word
          Faults,        \* "none", "noMemory" or the group whose call fails
          MaxTicks       \* bound on the ticks

ASSUME ImageAssumption ==
  /\ ImageMaxSize < Word /\ LinkNum \in Nat /\ HccsLinkNum \in Nat /\ MaxTicks \in Nat
  /\ \A c \in Configs : {"ids", "bytes", "keep", "wellFormed"} = DOMAIN c

VARIABLES state, config, queue, overflowed, \* the session object
          plan, image,                      \* imageInfo_, the client's memory
          batch, decoding,                  \* samples DecodeData has drained
          tick, parser, ticks, now          \* the tick in flight, parsers_

sessionVars == <<state, config, queue, overflowed>>
imageVars == <<plan, image, batch, decoding>>
tickVars == <<tick, parser, ticks, now>>
vars == <<apiVars, sessionVars, imageVars, tickVars>>

NoConfig == [ids |-> <<>>, bytes |-> 0, keep |-> "oldest", wellFormed |-> TRUE]
NoPlan == [ids |-> <<>>, maxEntries |-> 0, maxSamples |-> 0, imageSize |-> 0]
NoImage == [magic |-> FALSE, alloc |-> 0, ids |-> <<>>, maxEntries |-> 0, maxSamples |-> 0, samples |-> <<>>]
NoTick == [going |-> FALSE, needs |-> {}]
NoParser == [made |-> FALSE, ids |-> <<>>, hasPrev |-> FALSE, prevNs |-> 0]

-----------------------------------------------------------------------------
(* Layout and limits *)

Align16(n) == ((n + 15) \div 16) * 16
SampleAreaOffset(n) == 32 + Align16(4 * n)
SampleStride(entries) == 24 + entries * 16
CalcImageSize(n, entries, samples) == (SampleAreaOffset(n) + samples * SampleStride(entries)) % Word

ValidateImageParams_NoBudget(n, entries, samples) ==
  /\ n \in 1..Cardinality(MetricIds) /\ entries \in 1..EntriesLimit
  /\ samples > 0 /\ CalcImageSize(n, entries, samples) <= ImageMaxSize
\* The budget is checked by division, before anything is multiplied
ValidateImageParams(n, entries, samples) ==
  /\ n \in 1..Cardinality(MetricIds) /\ entries \in 1..EntriesLimit
  /\ samples > 0 /\ samples <= (ImageMaxSize - SampleAreaOffset(n)) \div SampleStride(entries)
SizeValid(n, entries, samples) == ValidateImageParams(n, entries, samples) /\ entries >= n

Count(m) == IF m \in HccsBw THEN HccsLinkNum ELSE 1
WorstEntriesOf(ids) == FoldLeft(LAMBDA n, m : n + Count(m), 0, ids)
SampleBytesOf(ids) == SampleStride(WorstEntriesOf(ids))
MaxQueueSamples == IF config.bytes = 0 THEN DefaultQueueSamples ELSE config.bytes \div SampleBytesOf(config.ids) + 1

Distinct(ids) == Cardinality(ToSet(ids)) = Len(ids)
\* CheckMetrics: the planned set is the configured one, in any order
CheckMetrics(ids, maxEntries) ==
  /\ config.ids # <<>>
  /\ ToSet(ids) \subseteq MetricIds /\ Distinct(ids)
  /\ Len(ids) = Len(config.ids) /\ maxEntries >= WorstEntriesOf(config.ids)
  /\ ToSet(config.ids) \subseteq ToSet(ids)
\* GetPlan: there is a plan, and its size is the one its fields give
GetPlan ==
  /\ plan # NoPlan /\ Len(plan.ids) <= Cardinality(MetricIds)
  /\ SizeValid(Len(plan.ids), plan.maxEntries, plan.maxSamples)
  /\ plan.imageSize = CalcImageSize(Len(plan.ids), plan.maxEntries, plan.maxSamples)

-----------------------------------------------------------------------------
(* The decoder's checks of an image of the given size *)

ValidateImage(size) ==
  /\ size >= 32 /\ image.magic
  /\ SizeValid(Len(image.ids), image.maxEntries, image.maxSamples)
  /\ Len(image.samples) <= image.maxSamples
  /\ CalcImageSize(Len(image.ids), image.maxEntries, image.maxSamples) = size
  /\ ToSet(image.ids) \subseteq MetricIds /\ Distinct(image.ids)
CheckPlan_SizeOnly == GetPlan /\ ValidateImage(plan.imageSize)
CheckPlan ==
  /\ GetPlan /\ ValidateImage(plan.imageSize)
  /\ image.ids = plan.ids /\ image.maxEntries = plan.maxEntries /\ image.maxSamples = plan.maxSamples
FindSample(i) ==
  /\ i \in 1..Len(image.samples)
  /\ LET s == image.samples[i]
     IN /\ Len(s.entries) <= image.maxEntries /\ s.startNs <= s.endNs
        /\ \A e \in ToSet(s.entries) : e.metricId \in ToSet(image.ids)

\* The queries; without an image they ask the queue
GetCounterDataInfo(direct) ==
  IF direct THEN [total |-> Len(queue), populated |-> Len(queue)]
  ELSE [total |-> image.maxSamples, populated |-> Len(image.samples)]
GetSampleInfo(direct, i) ==
  LET s == IF direct THEN queue[i] ELSE image.samples[i] IN [start |-> s.startNs, end |-> s.endNs]
GetSampleEntries(direct, i) == IF direct THEN queue[i].entries ELSE image.samples[i].entries
GetCounterAvailability(ids) == [i \in DOMAIN ids |-> IsAvailable(ids[i], Chip)]
GetMetricProperties(m) == [info |-> MetricInfo(m), available |-> IsAvailable(m, Chip)]

\* WriteSamples checks the whole batch before the first byte, and each write
\* against the end of the image
WriteFits ==
  /\ CheckPlan /\ Len(batch) <= image.maxSamples
  /\ \A s \in ToSet(batch) : /\ Len(s.entries) <= image.maxEntries /\ s.startNs <= s.endNs
                             /\ \A e \in ToSet(s.entries) : e.metricId \in ToSet(image.ids)
  /\ SampleAreaOffset(Len(image.ids)) + Len(batch) * SampleStride(image.maxEntries) <= plan.imageSize

-----------------------------------------------------------------------------
Init ==
  /\ ApiInit
  /\ state = "Created" /\ config = NoConfig /\ queue = <<>> /\ overflowed = FALSE
  /\ plan = NoPlan /\ image = NoImage /\ batch = <<>> /\ decoding = FALSE
  /\ tick = NoTick /\ parser = NoParser /\ ticks = 0 /\ now = 0

\* SetConfig's arguments: the interval and the modes are in range, the queue
\* has room for a sample, every metric is one the chip offers
ConfigValid(c) ==
  /\ c.ids # <<>> /\ c.wellFormed /\ c.bytes <= QueueMaxBytes
  /\ c.bytes # 0 => c.bytes >= SampleBytesOf(c.ids)
  /\ \A m \in ToSet(c.ids) : IsAvailable(m, Chip)

QueueAfter_Kept == queue
\* Samples of the old layout go when a stopped session is configured again
QueueAfter == IF state = "Stopped" THEN <<>> ELSE queue

SetConfig(c) ==
  /\ ~decoding /\ state \in {"Created", "Configured", "Stopped"} /\ ConfigValid(c)
  /\ config' = c /\ queue' = QueueAfter /\ state' = "Configured"
  /\ UNCHANGED <<apiVars, overflowed, imageVars, tickVars>>

\* The session runs with a new parser, or is rolled back to Stopped
Start(ok) ==
  /\ ~decoding /\ state \in {"Configured", "Stopped"} /\ LoadDcmi(ok)
  /\ state' = IF ok THEN "Running" ELSE "Stopped"
  /\ parser' = IF ok THEN [NoParser EXCEPT !.made = TRUE, !.ids = config.ids] ELSE parser
  /\ UNCHANGED <<config, queue, overflowed, imageVars, tick, ticks, now>>

Stop ==
  /\ ~decoding /\ state = "Running" /\ state' = "Stopped" /\ parser' = NoParser
  /\ UNCHANGED <<apiVars, config, queue, overflowed, imageVars, tick, ticks, now>>

\* The metrics given, or the configured ones when none are
GetCounterDataSize(arg) ==
  LET ids == IF arg[1] = <<>> THEN config.ids ELSE arg[1]
      worst == WorstEntriesOf(config.ids)
  IN /\ ~decoding /\ CheckMetrics(ids, worst) /\ SizeValid(Len(ids), worst, arg[2])
     /\ plan' = [ids |-> ids, maxEntries |-> worst, maxSamples |-> arg[2],
                 imageSize |-> CalcImageSize(Len(ids), worst, arg[2])]
     /\ UNCHANGED <<apiVars, sessionVars, image, batch, decoding, tickVars>>

\* The client allocates what the plan asks for, or initialises what it has
ImageInitialize(fresh) ==
  /\ ~decoding /\ GetPlan /\ CheckMetrics(plan.ids, plan.maxEntries)
  /\ (IF fresh THEN plan.imageSize ELSE image.alloc) = plan.imageSize
  /\ image' = [magic |-> TRUE, alloc |-> plan.imageSize, ids |-> plan.ids,
               maxEntries |-> plan.maxEntries, maxSamples |-> plan.maxSamples, samples |-> <<>>]
  /\ UNCHANGED <<apiVars, sessionVars, plan, batch, decoding, tickVars>>

\* DecodeData drains as many samples as the image holds ...
DecodeDrains ==
  /\ ~decoding /\ state \in {"Running", "Stopped"}
  /\ image.alloc = plan.imageSize /\ CheckPlan /\ CheckMetrics(plan.ids, plan.maxEntries)
  /\ LET n == IF Len(queue) < plan.maxSamples THEN Len(queue) ELSE plan.maxSamples
     IN batch' = SubSeq(queue, 1, n) /\ queue' = SubSeq(queue, n + 1, Len(queue))
  /\ decoding' = TRUE
  /\ UNCHANGED <<apiVars, state, config, overflowed, plan, image, tickVars>>

\* ... and writes them over the old ones, then takes the overflow flag along;
\* a batch that did not fit would be gone
DecodeWrites ==
  /\ decoding /\ batch' = <<>> /\ decoding' = FALSE
  /\ image' = IF WriteFits THEN [image EXCEPT !.samples = batch] ELSE image
  /\ overflowed' = IF WriteFits THEN FALSE ELSE overflowed
  /\ UNCHANGED <<apiVars, state, config, queue, plan, tickVars>>

-----------------------------------------------------------------------------
(* The collector's ticks *)

TickBegins ==
  /\ ~tick.going /\ ticks < MaxTicks /\ state = "Running" /\ ResolveDevice(Device) # <<>>
  /\ tick' = [going |-> TRUE, needs |-> NeedsOf(ToSet(config.ids))] /\ ticks' = ticks + 1
  /\ UNCHANGED <<apiVars, sessionVars, imageVars, parser, now>>

\* EnqueueSample
Enqueue(s) ==
  IF state # "Running" THEN UNCHANGED <<queue, overflowed>>
  ELSE LET full == Len(queue) >= MaxQueueSamples
       IN /\ overflowed' = (overflowed \/ full)
          /\ queue' = CASE ~full -> Append(queue, s)
                        [] full /\ config.keep = "oldest" -> queue
                        [] full /\ config.keep = "latest" -> Append(Tail(queue), s)

\* The parser needs a first sample to begin a window with; a clock that went
\* back begins anew
OpensWindow_Always(ts) == parser.hasPrev
OpensWindow(ts) == parser.hasPrev /\ ts >= parser.prevNs

OnDcmiSample(cur, ts, clean) ==
  IF ~parser.made THEN UNCHANGED <<parser, queue, overflowed>>
  ELSE /\ parser' = [parser EXCEPT !.hasPrev = TRUE, !.prevNs = ts]
       /\ LET entries == WindowEntries(parser.ids, cur)
          IN IF OpensWindow(ts) /\ entries # <<>>
             THEN Enqueue([startNs |-> parser.prevNs, endNs |-> ts, entries |-> entries, clean |-> clean])
             ELSE UNCHANGED <<queue, overflowed>>

TickEnds ==
  /\ tick.going /\ tick' = NoTick
  /\ \E fault \in Faults, ts \in {now - 1, now + 1} \cap Nat :
       /\ now' = ts
       /\ OnDcmiSample(CollectDevice(Device, tick.needs, {fault}, fault = "noMemory"), ts, fault = "none")
  /\ UNCHANGED <<apiVars, state, config, imageVars, ticks>>

Next ==
  \/ \E c \in Configs : SetConfig(c)
  \/ \E ok \in BOOLEAN : Start(ok)
  \/ Stop
  \/ \E arg \in ImageArgs : GetCounterDataSize(arg)
  \/ \E fresh \in BOOLEAN : ImageInitialize(fresh)
  \/ DecodeDrains \/ DecodeWrites
  \/ TickBegins \/ TickEnds

Spec == Init /\ [][Next]_vars

-----------------------------------------------------------------------------
Samples == ToSet(queue) \cup ToSet(batch) \cup ToSet(image.samples)

\* The types; windows never end before they begin (pm_sampling_parser.cpp:43)
TypeOK ==
  /\ state \in {"Created", "Configured", "Running", "Stopped"} /\ config \in Configs \cup {NoConfig}
  /\ overflowed \in BOOLEAN /\ decoding \in BOOLEAN /\ gen \in 1..2
  /\ plan.imageSize \in 0..(Word - 1) /\ image.alloc \in 0..(Word - 1)
  /\ tick.needs \subseteq DOMAIN Group
  /\ \A s \in Samples : s.startNs <= s.endNs /\ \A e \in ToSet(s.entries) : e.metricId \in MetricIds

\* What DecodeData has taken out of the queue always fits the image: it checks
\* plan, image and configuration first, and can put nothing back
\* (mspti_pm_sampling_api.cpp:386)
DecodeFits == decoding => WriteFits

\* The size of a plan is the one its samples take, within the budget: the
\* sizes the caller may ask for never wrap (pm_sampling_contract.h:181)
PlanExact ==
  plan # NoPlan =>
    /\ plan.imageSize = SampleAreaOffset(Len(plan.ids)) + plan.maxSamples * SampleStride(plan.maxEntries)
    /\ plan.imageSize <= ImageMaxSize

\* An image a query accepts has the bytes its header speaks of, and its
\* samples hold every metric of the session's plan and no other; queries are
\* given no size and go by the plan (mspti_pm_sampling_api.cpp:144)
ImageMatchesPlan ==
  CheckPlan =>
    /\ image.alloc = plan.imageSize
    /\ \A i \in DOMAIN image.samples :
         FindSample(i) /\ {e.metricId : e \in ToSet(GetSampleEntries(FALSE, i))} = ToSet(plan.ids)

\* A metric the chip offers is measured: when no DCMI call failed, no entry of
\* a window is a 0 put in for a group nobody asked for or no symbol serves
\* (the tables at pm_sampling_metric_table.cpp:56, pm_sampling_manager.cpp:228,
\* dcmi_api.cpp:88 and pm_sampling_parser.cpp:60 agree)
EntriesMeasured == \A s \in Samples : s.clean => \A e \in ToSet(s.entries) : e.value

\* SetConfig refuses a metric that is given twice (mspti_pm_sampling.h:487)
ConfigDistinct == Distinct(config.ids)

(* What a session plans, writes and reads back fits and agrees: the plan is  *)
(* exact, a decode fits the image, a query reads the image of its own plan   *)
(* and each entry of a metric is measured.                                   *)
ImageInv == TypeOK /\ DecodeFits /\ PlanExact /\ ImageMatchesPlan /\ EntriesMeasured
=============================================================================
