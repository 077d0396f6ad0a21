------------------------------ MODULE DrvFlush ------------------------------
(***************************************************************************)
(* ChannelReader::FlushDrvBuff against the worker that reads the channel.  *)
(* The driver says how many bytes a flush has put out; the caller waits    *)
(* until as many have been read, or 20 ms.  The manager's lock lets one    *)
(* caller in at a time, and flushMutex_ is held from the question to the   *)
(* wait and around every read.                                             *)
(***************************************************************************)
EXTENDS Integers

CONSTANTS
    UintValues,    \* 2^32: the values of an unsigned int
    MaxBytes,      \* a bound: bytes in the driver at a time
    MaxFlushes     \* a bound: calls of FlushDrvBuff

ASSUME FlushAssumption == UintValues \in Nat /\ MaxBytes \in Nat /\ UintValues > MaxBytes /\ MaxFlushes \in Nat

VARIABLES
    bytes,         \* bytes that can be read
    needWait,      \* needWait_
    flushBufSize,  \* flushBufSize_
    flushCurSize,  \* flushCurSize_
    flusher,       \* the caller
    owed,          \* of the bytes put out by the last flush, those not yet read
    excused,       \* a read has failed since, or an earlier flush was given up
    flushes        \* calls so far

flushVars == <<bytes, needWait, flushBufSize, flushCurSize, flusher, owed, excused, flushes>>

Uint == 0 .. UintValues - 1

FlushTypeOK ==
    /\ bytes \in 0 .. MaxBytes /\ owed \in 0 .. bytes
    /\ needWait \in BOOLEAN /\ flushBufSize \in Uint /\ flushCurSize \in Uint
    /\ flusher \in {"idle", "waits"} /\ excused \in BOOLEAN /\ flushes \in 0 .. MaxFlushes

FlushInit ==
    /\ bytes = 0 /\ needWait = FALSE /\ flushBufSize = 0 /\ flushCurSize = 0
    /\ flusher = "idle" /\ owed = 0 /\ excused = FALSE /\ flushes = 0

DriverWrites ==
    /\ bytes < MaxBytes /\ bytes' = bytes + 1
    /\ UNCHANGED <<needWait, flushBufSize, flushCurSize, flusher, owed, excused, flushes>>

(* HalProfDataFlush, which may fail or put nothing out, and then the wait.   *)
FlushDrvBuff ==
    /\ flusher = "idle" /\ flushes < MaxFlushes /\ flushes' = flushes + 1
    /\ \/ UNCHANGED <<needWait, flushBufSize, flusher, owed, excused>>
       \/ /\ bytes > 0
          /\ needWait' = TRUE /\ flushBufSize' = bytes /\ flusher' = "waits"
          /\ owed' = bytes /\ excused' = needWait
    /\ UNCHANGED <<bytes, flushCurSize>>

(* The wait ends because it was answered, or after 20 ms, and then leaves    *)
(* the three fields as they are.                                             *)
WaitEnds ==
    /\ flusher = "waits" /\ flusher' = "idle"
    /\ UNCHANGED <<bytes, needWait, flushBufSize, flushCurSize, owed, excused, flushes>>

(* CheckIfSendFlush, after a read of so many bytes, or a failed one.         *)
CurSizeAfterAnswer_Kept(n) == flushCurSize + n
CurSizeAfterAnswer(n) == 0
IsAnswered(n) == flushCurSize > (UintValues - 1 - n) % UintValues \/ flushBufSize <= (flushCurSize + n) % UintValues \/ n = 0

CheckIfSendFlush(n) ==
    IF ~needWait THEN UNCHANGED <<needWait, flushBufSize, flushCurSize>>
    ELSE IF IsAnswered(n)
    THEN needWait' = FALSE /\ flushBufSize' = 0 /\ flushCurSize' = CurSizeAfterAnswer(n) % UintValues
    ELSE flushCurSize' = (flushCurSize + n) % UintValues /\ UNCHANGED <<needWait, flushBufSize>>

ProfChannelRead ==
    /\ \/ \E n \in 1 .. bytes :
             /\ bytes' = bytes - n /\ owed' = IF n < owed THEN owed - n ELSE 0
             /\ CheckIfSendFlush(n) /\ UNCHANGED excused
       \/ bytes = 0 /\ CheckIfSendFlush(0) /\ UNCHANGED <<bytes, owed, excused>>
       \/ CheckIfSendFlush(-1) /\ excused' = (excused \/ needWait) /\ UNCHANGED <<bytes, owed>>
    /\ UNCHANGED <<flusher, flushes>>

FlushNext == DriverWrites \/ FlushDrvBuff \/ WaitEnds \/ ProfChannelRead
FlushSpec == FlushInit /\ [][FlushNext]_flushVars

(* A caller is answered when all that its flush put out has been read, and   *)
(* not before, though reads of other sizes come first and more is written    *)
(* meanwhile; unless a read failed, or an earlier wait was given up.         *)
FlushComplete == flusher = "waits" /\ ~needWait => owed = 0 \/ excused

(* The flush and its types.                                                  *)
FlushInv == FlushTypeOK /\ FlushComplete
=============================================================================
