------------------------------ MODULE HostGate ------------------------------
(***************************************************************************)
(* One kind's way through ActivityManager::Register and UnRegisterLocked,  *)
(* for the two kinds whose parser counts what it still waits for: the gate *)
(* that refuses new host reports, the flushes repeated until the count is  *)
(* zero, the switch, and the parser's Clear.  The parsers that extend this *)
(* module say what Clear and StopTask do.                                  *)
(***************************************************************************)
EXTENDS Integers

CONSTANTS
    FLUSH_RETRY_MAX_COUNT,   \* flushes before UnRegister gives up
    MaxSessions              \* a bound: sessions of the kind

ASSUME GateAssumption == FLUSH_RETRY_MAX_COUNT \in Nat /\ MaxSessions \in Nat

VARIABLE
    gate   \* activity_switch_[kind], unregistering_[kind] and the thread that holds session_mutex_

GatePCs == {"off", "on", "retry", "drain", "stop", "switch", "clear", "reopen"}

GateTypeOK ==
    gate \in [switch: BOOLEAN, unregistering: BOOLEAN, pc: GatePCs,
              retry: 0 .. FLUSH_RETRY_MAX_COUNT, zero: BOOLEAN, session: 0 .. MaxSessions]

GateInit ==
    gate = [switch |-> FALSE, unregistering |-> FALSE, pc |-> "off",
            retry |-> 0, zero |-> FALSE, session |-> 0]

At(pc) == gate.pc = pc
Goto(pc) == gate' = [gate EXCEPT !.pc = pc]

IsActivityKindEnable == gate.switch

(* IsHostReportAllowed reads the two flags one after the other; a reporting  *)
(* thread takes a step for each.                                             *)
RefusesReport == gate.unregistering

Register ==
    /\ At("off") /\ gate.session < MaxSessions
    /\ gate' = [gate EXCEPT !.switch = TRUE, !.unregistering = FALSE, !.pc = "on",
                            !.session = @ + 1, !.zero = FALSE]

(* UnRegister closes the gate before anything else; without a device there   *)
(* is nothing to flush.                                                      *)
ClosesGate_Forgotten(flag) == FALSE
ClosesGate(flag) == flag

UnRegister(devices) ==
    /\ At("on")
    /\ gate' = [gate EXCEPT !.unregistering = ClosesGate(TRUE), !.retry = 0,
                            !.pc = IF devices THEN "retry" ELSE "stop"]

(* RetryFlushUntilDrained: one reading of the count, and the flush and the   *)
(* handing over of what it brought when it is not zero.  The records those   *)
(* bring are the device's own steps.                                         *)
RetryReads(pending, quiet) ==
    /\ At("retry")
    /\ IF pending = 0 \/ gate.retry = FLUSH_RETRY_MAX_COUNT
       THEN gate' = [gate EXCEPT !.pc = "drain", !.zero = pending = 0 /\ quiet]
       ELSE gate' = [gate EXCEPT !.retry = @ + 1]

DrainEnds == At("drain") /\ Goto("stop")
StopsAnalysis == At("stop") /\ Goto("switch")
SwitchesOff == At("switch") /\ gate' = [gate EXCEPT !.switch = FALSE, !.pc = "clear"]
ClearsParser == At("clear") /\ Goto("reopen")
ReopensGate ==
    /\ At("reopen")
    /\ gate' = [gate EXCEPT !.unregistering = FALSE, !.pc = "off"]
=============================================================================
