------------------------------- MODULE MCPool -------------------------------
(***************************************************************************)
(* The pool of channel readers, a flush, the tasks of the AICPU channels   *)
(* and the lock-free queue, each under its own load; and under "rounds"    *)
(* the thread that repeats the calibrations.                               *)
(***************************************************************************)
EXTENDS ChannelPool, AicpuTask, DrvFlush, MpscQueue, ClockSync

Ahead == [system |-> 0, callback |-> 5]

VARIABLE load
loadVars == <<load, poolVars, aicpuVars, flushVars, mpscVars, clockVars>>

LoadInit ==
    /\ load \in {"pool", "aicpu", "flush", "mpsc", "rounds"}
    /\ PoolInit /\ AicpuInit /\ FlushInit /\ MpscInit /\ ClockInit
    /\ load # "aicpu" => offered = {}

RoundsNext ==
    \/ MakesManager \/ SetTimestampCallback("callback") \/ SetDevice \/ SyncNext
    \/ \E t \in Calibrators : ReadsCounter(t) \/ ReadsBefore(t) \/ ReadsAfter(t) \/ Stores(t)

LoadNext ==
    /\ UNCHANGED load
    /\ \/ load = "pool" /\ PoolNext /\ UNCHANGED <<aicpuVars, flushVars, mpscVars, clockVars>>
       \/ load = "aicpu" /\ AicpuNext /\ UNCHANGED <<poolVars, flushVars, mpscVars, clockVars>>
       \/ load = "flush" /\ FlushNext /\ UNCHANGED <<poolVars, aicpuVars, mpscVars, clockVars>>
       \/ load = "mpsc" /\ MpscNext /\ UNCHANGED <<poolVars, aicpuVars, flushVars, clockVars>>
       \/ /\ load = "rounds" /\ RoundsNext
          /\ UNCHANGED <<poolVars, aicpuVars, flushVars, mpscVars>>

LoadSpec ==
    /\ LoadInit /\ [][LoadNext]_loadVars
    /\ PoolFairness /\ AicpuFairness /\ MpscFairness /\ ClockFairness

(* Data in a channel is read and the pool ends; AICPU tasks start and end;   *)
(* the clocks come to agree and a session ends; what is pushed is popped.     *)
DeviceServes == PoolServes /\ AicpuServes /\ ClockSettles /\ MpscDelivers
=============================================================================
