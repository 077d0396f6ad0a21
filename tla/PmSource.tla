------------------------------ MODULE PmSource ------------------------------
(***************************************************************************)
(* Where the values of the PM sampling metrics come from: the metric table *)
(* and the chips that offer a metric (pm_sampling_metric_table.cpp), the   *)
(* DCMI library with its two generations of symbols and the devices it     *)
(* lists (dcmi_api.cpp), one device's share of a tick (dcmi_collector.cpp) *)
(* and the entries the parser makes of it (pm_sampling_parser.cpp).        *)
(*                                                                         *)
(* A value is TRUE when DCMI measured it and FALSE when it is the 0 put in *)
(* its place; a bandwidth type is named by the metric it feeds.            *)
(***************************************************************************)
EXTENDS Naturals, Sequences, FiniteSets, SequencesExt

CONSTANTS Chip,          \* the machine's chip
          SymbolsV1, SymbolsV2, \* groups whose DCMI symbol the library has
          CardSizes,     \* results of dcmi_get_device_id_in_card, 0: failed
          DeviceLists,   \* results of dcmiv2_get_device_list
          LinkNum        \* DCMI_HCCS_MAX_LINK_NUM

VARIABLES handle, inited, gen, devices  \* DcmiApi
apiVars == <<handle, inited, gen, devices>>

-----------------------------------------------------------------------------
(* kMetricTable: the metrics, in groups of one unit *)

Utilization == {"NPU_UTIL", "AICORE_UTIL", "AIVECTOR_UTIL", "AICUBE_UTIL"}
Memory == {"HBM_BW_UTIL", "HBM_MEM_UTIL"}
HccsBw == {"HCCS_TX_BW", "HCCS_RX_BW"}
PcieBw == {"PCIE_TX_BW", "PCIE_RX_BW"}
RoceBw == {"ROCE_TX_BW", "ROCE_RX_BW"}
Network == HccsBw \cup PcieBw \cup RoceBw
MetricIds == Utilization \cup Memory \cup Network \cup {"POWER", "TEMPERATURE", "AICORE_FREQ"}

InvalidMetricInfo == [group |-> "MEMORY", dataType |-> "RATIO"]
MetricInfo(m) ==
  CASE m \in Utilization -> [group |-> "UTILIZATION", dataType |-> "PERCENT"]
    [] m \in Memory -> [group |-> "MEMORY", dataType |-> "PERCENT"]
    [] m \in Network -> [group |-> "NETWORK", dataType |-> "THROUGHPUT"]
    [] m = "POWER" -> [group |-> "POWER", dataType |-> "POWER"]
    [] m = "TEMPERATURE" -> [group |-> "THERMAL", dataType |-> "TEMPERATURE"]
    [] m = "AICORE_FREQ" -> [group |-> "FREQUENCY", dataType |-> "FREQUENCY"]
    [] OTHER -> InvalidMetricInfo

ChipMetricExclusions(chip) == IF chip = "CHIP_V6" THEN HccsBw \cup RoceBw ELSE {}
IsAvailable_EveryChip(m, chip) == m \in MetricIds
IsAvailable(m, chip) ==
  m \in MetricIds /\ chip \in {"CHIP_910B", "CHIP_310B", "CHIP_V6"} /\ m \notin ChipMetricExclusions(chip)

-----------------------------------------------------------------------------
(* DcmiApi *)

ApiInit == handle = FALSE /\ inited = FALSE /\ gen = 1 /\ devices = <<>>

\* dlopen over the candidate paths; a handle once found is kept
OpenLibrary == handle' \in {TRUE, handle}

\* One flat list of devices: as dcmiv2_get_device_list gives them, or card by
\* card, leaving out the cards that do not answer
TopologyV2(list) == [i \in DOMAIN list |-> [deviceId |-> list[i], card |-> 0, chip |-> 0, isV2 |-> TRUE]]
TopologyV1(cards) ==
  LET answering == SelectSeq([c \in DOMAIN cards |-> [card |-> c, size |-> cards[c]]], LAMBDA c : c.size > 0)
      chipsOf(c) == [k \in 1..c.size |-> [card |-> c.card, chip |-> k - 1]]
      flat == FlattenSeq([i \in DOMAIN answering |-> chipsOf(answering[i])])
  IN [i \in DOMAIN flat |-> [deviceId |-> i - 1, card |-> flat[i].card, chip |-> flat[i].chip, isV2 |-> FALSE]]

\* The generation follows the chip, with no fallback. A list is replaced only
\* when the library has answered; it is left in place when it is empty.
InitSucceeds ==
  \/ /\ Chip = "CHIP_V6" /\ {"init", "list"} \subseteq SymbolsV2
     /\ \E list \in DeviceLists \ {<<>>} : devices' = TopologyV2(list)
     /\ gen' = 2
  \/ /\ Chip \in {"CHIP_910B", "CHIP_310B"} /\ {"init", "list"} \subseteq SymbolsV1
     /\ \E cards \in CardSizes : devices' = TopologyV1(cards)
     /\ devices' # <<>> /\ UNCHANGED gen
InitFails ==
  /\ UNCHANGED gen
  /\ \/ UNCHANGED devices
     \/ Chip # "CHIP_V6" /\ devices' = <<>> \* no card answered

\* DcmiApi::Init, returns ok
LoadDcmi(ok) ==
  IF inited THEN ok /\ UNCHANGED apiVars
  ELSE /\ OpenLibrary
       /\ IF ok THEN handle' /\ InitSucceeds ELSE InitFails
       /\ inited' = ok

\* ResolveDevice and the accessors, which answer for the groups whose symbol
\* is there; RDMA has no second generation
ResolveDevice(d) == SelectSeq(devices, LAMBDA dev : dev.deviceId = d)
HasSymbol(group) == IF gen = 2 THEN group \in SymbolsV2 \ {"roceBw"} ELSE group \in SymbolsV1
Answers(d, group) == ResolveDevice(d) # <<>> /\ HasSymbol(group)

-----------------------------------------------------------------------------
(* One device's share of a tick *)

\* DcmiCollectNeeds: the groups the sampled metrics ask for
Group == [power |-> {"POWER"}, temperature |-> {"TEMPERATURE"}, utilization |-> Utilization,
          frequency |-> {"AICORE_FREQ"}, hbm |-> Memory, hccsBw |-> HccsBw, pcieBw |-> PcieBw, roceBw |-> RoceBw]
NeedsOf_Plain(ids) == {g \in DOMAIN Group : Group[g] \cap ids # {} /\ Group[g] \cap RoceBw = {}}
NeedsOf(ids) == {g \in DOMAIN Group : Group[g] \cap ids # {}}

Links == [i \in 1..(2 * LinkNum) |-> [type |-> IF i % 2 = 1 THEN "HCCS_TX_BW" ELSE "HCCS_RX_BW", instance |-> (i - 1) \div 2]]
Pair(tx, rx) == <<[type |-> tx, instance |-> 0], [type |-> rx, instance |-> 0]>>

\* Collected on request, when the accessor answers and the call does not fail.
\* The three bandwidth calls run side by side into samples of their own, and
\* are joined in one order whether their threads could be started or not.
Collected(d, needs, failing) == {g \in needs \ failing : Answers(d, g)}
RunBandwidth(got) ==
  (IF "hccsBw" \in got THEN Links ELSE <<>>)
    \o (IF "pcieBw" \in got THEN Pair("PCIE_TX_BW", "PCIE_RX_BW") ELSE <<>>)
    \o (IF "roceBw" \in got THEN Pair("ROCE_TX_BW", "ROCE_RX_BW") ELSE <<>>)
CollectDevice(d, needs, failing, noMemory) ==
  LET got == Collected(d, needs, failing)
  IN [plain |-> UNION {Group[g] : g \in got \cap {"power", "temperature", "utilization", "frequency", "hbm"}}
                  \ (IF noMemory THEN {"HBM_MEM_UTIL"} ELSE {}),
      bandwidths |-> RunBandwidth(got)]

-----------------------------------------------------------------------------
(* EmitWindow *)

Entry(m, instance, value) == [metricId |-> m, instanceId |-> instance, value |-> value]
Points(m, cur) ==
  LET all == SelectSeq(cur.bandwidths, LAMBDA p : p.type = m)
  IN IF m \in HccsBw \/ all = <<>> THEN all ELSE <<Head(all)>>
EntriesOf(m, cur) ==
  IF m \in Network /\ Points(m, cur) # <<>>
  THEN [i \in DOMAIN Points(m, cur) |-> Entry(m, Points(m, cur)[i].instance, TRUE)]
  ELSE <<Entry(m, 0, m \in cur.plain)>>
WindowEntries(ids, cur) == FlattenSeq([i \in DOMAIN ids |-> EntriesOf(ids[i], cur)])
=============================================================================
