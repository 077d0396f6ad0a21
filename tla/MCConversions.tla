--------------------------- MODULE MCConversions ---------------------------
(***************************************************************************)
(* What the device's data becomes, each part under its own loads.          *)
(* Sampling images: a session over the three chips, with two               *)
(* configurations of one layout size, one with per-link entries, one that  *)
(* names a metric twice and one with every metric a chip may or may not    *)
(* have; sizes are scaled down so that the image budget, the queue's limit *)
(* and the wrap are all reached.                                           *)
(* Records: "keys" names tasks in every form, "walks" has longer blocks.   *)
(* Clocks: "conv" converts at every distance, "moved" beside a             *)
(* registration, "api" the two times of an API call.                       *)
(***************************************************************************)
EXTENDS PmImage, Records, ClockSync

All == {"init", "list"} \cup DOMAIN Group
NoHccs == All \ {"hccsBw", "roceBw"}
OneConfig(ids, bytes, keep) == [ids |-> ids, bytes |-> bytes, keep |-> keep, wellFormed |-> TRUE]
SomeConfigs ==
  {OneConfig(<<"NPU_UTIL">>, 0, "oldest"), OneConfig(<<"ROCE_RX_BW">>, 40, "latest"),
   OneConfig(<<"HBM_MEM_UTIL", "HCCS_TX_BW">>, 0, "latest"), OneConfig(<<"NPU_UTIL", "NPU_UTIL">>, 0, "oldest")}
\* 129 samples of one entry take the bytes of one, modulo 1024
SomeImageArgs == {<<ids, n>> : ids \in {<<>>, <<"HCCS_TX_BW", "HBM_MEM_UTIL">>}, n \in {0, 1, 2, 129}}
Cards == {<<0, 1>>, <<0, 0>>}
Lists == {<<>>, <<1, 0>>}

\* ids that only their high bits tell apart, and a stream of more than 11 bits
SomeTasks == {[stream |-> 5, task |-> 3], [stream |-> 5, task |-> \h2003], [stream |-> \h0805, task |-> \h8003]}
OneTask == {[stream |-> 5, task |-> 3]}
Ahead == [system |-> 0, callback |-> 5]

VARIABLE load
V1 == INSTANCE PmImage WITH Chip <- "CHIP_910B"
V2 == INSTANCE PmImage WITH Chip <- "CHIP_V6"
Other == INSTANCE PmImage WITH Chip <- "CHIP_MAX"

Keys == INSTANCE Records WITH MaxRecords <- 1
Walks == INSTANCE Records WITH RecordDevices <- {0}, Tasks <- OneTask, MaxLaunches <- 1

Once == INSTANCE ClockSync WITH MaxRegistrations <- 0
Moved == INSTANCE ClockSync WITH MaxNow <- 1
Brief == INSTANCE ClockSync WITH MaxNow <- 1, MaxRegistrations <- 0

LoadInit ==
    /\ Init /\ RecordsInit /\ ClockInit
    /\ load \in {"CHIP_910B", "CHIP_V6", "CHIP_MAX", "keys", "walks", "conv", "moved", "api"}
    /\ load # "walks" => channel = "STARS_SOC_LOG"
    /\ load \notin {"keys", "walks"} => chip = "910B" /\ numbering
    /\ load \notin {"conv", "moved", "api"} => freq.host = ERR_FREQ

LoadNext ==
    /\ UNCHANGED load
    /\ \/ /\ UNCHANGED <<recordVars, clockVars>>
          /\ \/ load = "CHIP_910B" /\ V1!Next
             \/ load = "CHIP_V6" /\ V2!Next
             \/ load = "CHIP_MAX" /\ Other!Next
       \/ /\ UNCHANGED <<vars, clockVars>>
          /\ \/ load = "keys" /\ Keys!RecordsNext
             \/ load = "walks" /\ Walks!RecordsNext
       \/ /\ UNCHANGED <<vars, recordVars>>
          /\ \/ load = "conv" /\ Once!CalibrationNext
             \/ load = "moved" /\ Moved!CalibrationNext
             \/ load = "api" /\ (Brief!CalibrationNext \/ Brief!RecordNext)

LoadSpec == LoadInit /\ [][LoadNext]_<<load, vars, recordVars, clockVars>>
=============================================================================
