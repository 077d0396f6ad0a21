----------------------------- MODULE ClockSync -----------------------------
(***************************************************************************)
(* ContextManager's calibrations: a pair of readings, of a counter and of  *)
(* the host's clock, from which every counter value is converted.  The     *)
(* clock is the client's callback, if one is registered.  The client, the  *)
(* program's other threads and the thread that repeats the calibrations    *)
(* while a session runs read first and store after, with no lock between.  *)
(* The driver is asked for the frequency and the device's counter each     *)
(* time; what it fails to give is stored as a 0 or a default.              *)
(***************************************************************************)
EXTENDS Integers, FiniteSets

CONSTANTS
    Clocks,             \* the system's clock and the callbacks a client registers
    SystemClock,        \* clock_gettime(CLOCK_REALTIME)
    Offset,             \* what a clock is ahead of the counters' start, in ns
    HostFreqs,          \* what the host's counter may run at, or ERR_FREQ if it is not used
    DeviceFreqs,        \* and the device's
    DefaultFreqs,       \* what GetDevFreq may give in its place
    MSTONS,             \* the ns in the unit that a frequency counts by
    MaxNow,             \* a bound: time
    MaxRegistrations,   \* a bound: registrations of a callback
    MaxClockFaults      \* a bound: calibrations for which the driver fails

ERR_FREQ == 0
ASSUME ClockAssumption ==
    /\ SystemClock \in Clocks /\ Offset \in [Clocks -> Nat]
    /\ HostFreqs \subseteq Nat /\ DeviceFreqs \subseteq Nat \ {ERR_FREQ}
    /\ DefaultFreqs \subseteq Nat /\ MSTONS \in Nat \ {0}
    /\ MaxNow \in Nat /\ MaxRegistrations \in Nat /\ MaxClockFaults \in Nat

VARIABLES
    clockNow,                \* time in ns
    freq,               \* what the two counters run at
    timestampCallback,  \* timestampCallback_
    info,               \* hostTimeInfo_, and devTimeInfo_ of one device
    calibrating,        \* a thread inside InitHostTimeInfo or InitDeviceTimeInfo
    sync,               \* t_ and isQuit_: whether there is a thread, and where Run is
    client,             \* where the thread is that subscribes, registers and unsubscribes
    first,              \* hostTimeInfoInitFlag_, and whether DevTaskManager exists
    opened,             \* whether the device is in devices_
    api,                \* an API call's record: its times, and whether it has both
    registrations,      \* registrations so far
    late,               \* whether a calibration older than the registration was stored after it
    clockFaults         \* calibrations so far for which the driver failed

clockVars == <<clockNow, freq, timestampCallback, info, calibrating, sync, client, first, opened, api,
               registrations, late, clockFaults>>

Sides == {"host", "device"}
Calibrators == {"client", "sync", "app"}
NoInfo == [startRealTime |-> 0, freq |-> ERR_FREQ, startSysCnt |-> 0, startMonotonicRawNs |-> 0,
           clocks |-> {}, span |-> 0, asOf |-> 0, sound |-> FALSE]
NotCalibrating == [pc |-> "idle", side |-> "host", made |-> NoInfo]
NoApi == [pc |-> "none", start |-> 0, end |-> 0, moved |-> FALSE]

(* IsHostFreqEnabled asks the driver once; without a frequency the host's    *)
(* counter is the monotonic clock.                                           *)
IsHostFreqEnabled == freq["host"] # ERR_FREQ
Counter(side, time) == IF freq[side] = ERR_FREQ THEN time ELSE (time * freq[side]) \div MSTONS
ClockReads(clock) == clockNow + Offset[clock]

(* The quotient and the remainder of the language are towards zero.          *)
Quotient(a, b) == IF a >= 0 THEN a \div b ELSE -((-a) \div b)
Remainder(a, b) == a - b * Quotient(a, b)

(* One faulty variant subtracts the counts as they are, without a sign.      *)
ConvertSysCntToRealTime_Unsigned(count, i) ==
    LET delta == (count - i.startSysCnt) % \h100000
    IN (delta \div i.freq) * MSTONS + ((delta % i.freq) * MSTONS) \div i.freq + i.startRealTime
ConvertSysCntToRealTime(count, i) ==
    LET delta == count - i.startSysCnt
    IN Quotient(delta, i.freq) * MSTONS + Quotient(Remainder(delta, i.freq) * MSTONS, i.freq) + i.startRealTime

ConvertMonotonicCounterToRealTime(count, i) == (count - i.startMonotonicRawNs) + i.startRealTime

ConvertCounterToRealTime(count, i) ==
    IF i.freq = ERR_FREQ THEN ConvertMonotonicCounterToRealTime(count, i) ELSE ConvertSysCntToRealTime(count, i)

(* GetHostRealTime and GetDeviceRealTime leave the count if there is no info. *)
RealTime(side, count) ==
    IF info[side] = NoInfo THEN count ELSE ConvertCounterToRealTime(count, info[side])

ClockInit ==
    /\ clockNow = 0 /\ timestampCallback = SystemClock
    /\ \E h \in HostFreqs, d \in DeviceFreqs : freq = [host |-> h, device |-> d]
    /\ info = [side \in Sides |-> NoInfo] /\ calibrating = [t \in Calibrators |-> NotCalibrating]
    /\ sync = [pc |-> "none", isQuit |-> FALSE] /\ client = "idle"
    /\ first = [once |-> FALSE, manager |-> FALSE] /\ opened = FALSE
    /\ api = NoApi /\ registrations = 0 /\ late = FALSE /\ clockFaults = 0

Tick ==
    /\ clockNow < MaxNow /\ clockNow' = clockNow + 1
    /\ UNCHANGED <<freq, timestampCallback, info, calibrating, sync, client, first, opened, api, registrations, late, clockFaults>>

----------------------------------------------------------------------------
(* InitHostTimeInfo reads the counter and then the clock twice;              *)
(* InitDeviceTimeInfo reads the clock, the counter and the clock again.  The *)
(* real time that goes with the count is the mean.                           *)

Reading(side, asOf) ==
    [pc |-> IF side = "host" THEN "counter" ELSE "before", side |-> side,
     made |-> [NoInfo EXCEPT !.span = clockNow, !.asOf = asOf]]
Calibrates(t, side) ==
    calibrating[t].pc = "idle" /\ calibrating' = [calibrating EXCEPT ![t] = Reading(side, registrations)]

Observes(t, pc, next, made) ==
    /\ calibrating[t].pc = pc
    /\ calibrating' = [calibrating EXCEPT ![t].pc = next, ![t].made = made]
    /\ UNCHANGED <<clockNow, freq, timestampCallback, info, sync, client, first, opened, api, registrations, late>>

ClockAdded(made) ==
    [made EXCEPT !.startRealTime = @ + ClockReads(timestampCallback), !.clocks = @ \cup {timestampCallback}]

(* GetHostFreq, GetDevFreq and GetDevStartSysCnt answer what the counter is, *)
(* or what stands for a failure of the driver.                               *)
FreqReadings(side) ==
    CASE side = "device" -> {freq["device"]} \cup DefaultFreqs
      [] side = "host" /\ IsHostFreqEnabled -> {freq["host"], ERR_FREQ}
      [] OTHER -> {ERR_FREQ}
CountReadings(side) == {Counter(side, clockNow)} \cup (IF side = "device" THEN {0} ELSE {})

(* The frequency, which stays what it is, is read along with the counter.    *)
CounterAdded(side, made, f, count) ==
    LET monotonic == side = "host" /\ ~IsHostFreqEnabled
    IN [made EXCEPT !.freq = f,
                    !.startSysCnt = IF monotonic THEN 0 ELSE count,
                    !.startMonotonicRawNs = IF monotonic THEN count ELSE 0,
                    !.sound = (f = freq[side] /\ count = Counter(side, clockNow))]
ReadsCounter(t) ==
    LET side == calibrating[t].side
    IN \E f \in FreqReadings(side), count \in CountReadings(side) :
          LET made == CounterAdded(side, calibrating[t].made, f, count)
          IN /\ Observes(t, "counter", IF side = "host" THEN "before" ELSE "after", made)
             /\ made.sound \/ clockFaults < MaxClockFaults
             /\ clockFaults' = IF made.sound THEN clockFaults ELSE clockFaults + 1
ReadsBefore(t) ==
    /\ Observes(t, "before", IF calibrating[t].side = "host" THEN "after" ELSE "counter",
                ClockAdded(calibrating[t].made))
    /\ UNCHANGED clockFaults
ReadsAfter(t) ==
    /\ Observes(t, "after", "store", ClockAdded(calibrating[t].made))
    /\ UNCHANGED clockFaults

Mean(sum) == sum \div 2

(* Under hostTimeMtx_ or devTimeMtx_.  Run goes on from the device to the    *)
(* host and then waits; a call of the client's returns.                      *)
Stores(t) ==
    LET side == calibrating[t].side
        made == calibrating[t].made
    IN /\ calibrating[t].pc = "store"
       /\ info' = [info EXCEPT ![side] = [made EXCEPT !.startRealTime = Mean(@), !.span = clockNow - @]]
       /\ late' = IF side = "host" THEN made.asOf < registrations ELSE late
       /\ api' = IF side = "host" /\ api.pc = "end" THEN [api EXCEPT !.moved = TRUE] ELSE api
       /\ calibrating' = [calibrating EXCEPT ![t] =
                             IF t = "sync" /\ side = "device" THEN Reading("host", registrations) ELSE NotCalibrating]
       /\ sync' = IF t = "sync" /\ side = "host" THEN [sync EXCEPT !.pc = "wait"] ELSE sync
       /\ client' = IF t = "client" THEN "idle" ELSE client
    /\ UNCHANGED <<clockNow, freq, timestampCallback, first, opened, registrations, clockFaults>>

----------------------------------------------------------------------------
(* Who calibrates *)

(* SetTimestampCallback                                                      *)
SetTimestampCallback(clock) ==
    /\ client = "idle" /\ registrations < MaxRegistrations
    /\ timestampCallback' = clock /\ registrations' = registrations + 1
    /\ client' = "calibrates"
    /\ calibrating' = [calibrating EXCEPT !["client"] = Reading("host", registrations + 1)]
    /\ UNCHANGED <<clockNow, freq, info, sync, first, opened, api, late, clockFaults>>

(* The first call of GetHostTimeStampNs, by any thread of the program.       *)
GetHostTimeStampNs ==
    /\ ~first.once /\ first' = [first EXCEPT !.once = TRUE]
    /\ Calibrates("app", "host")
    /\ UNCHANGED <<clockNow, freq, timestampCallback, info, sync, client, opened, api, registrations, late, clockFaults>>

(* The first session makes the DevTaskManager, whose constructor calibrates. *)
MakesManager ==
    /\ client = "idle" /\ ~first.manager /\ first' = [first EXCEPT !.manager = TRUE]
    /\ Calibrates("client", "host") /\ client' = "calibrates"
    /\ UNCHANGED <<clockNow, freq, timestampCallback, info, sync, opened, api, registrations, late, clockFaults>>

(* SetDevice enters the device and its tasks' start calibrates.              *)
SetDevice ==
    /\ ~opened /\ opened' = TRUE /\ Calibrates("app", "device")
    /\ UNCHANGED <<clockNow, freq, timestampCallback, info, sync, client, first, api, registrations, late, clockFaults>>

ResetDevice ==
    /\ opened /\ calibrating["app"].pc = "idle" /\ opened' = FALSE
    /\ UNCHANGED <<clockNow, freq, timestampCallback, info, calibrating, sync, client, first, api, registrations, late, clockFaults>>

(* Run: a round begins when the wait times out, and cv_mutex_ is held to its *)
(* end.                                                                      *)
RunRound ==
    /\ sync.pc = "wait" /\ ~sync.isQuit
    /\ sync' = [sync EXCEPT !.pc = "round"]
    /\ Calibrates("sync", IF opened THEN "device" ELSE "host")
    /\ UNCHANGED <<clockNow, freq, timestampCallback, info, client, first, opened, api, registrations, late, clockFaults>>

RunEnds ==
    /\ sync.pc = "wait" /\ sync.isQuit /\ sync' = [sync EXCEPT !.pc = "ended"]
    /\ UNCHANGED <<clockNow, freq, timestampCallback, info, calibrating, client, first, opened, api, registrations, late, clockFaults>>

QuitCleared_Forgotten == sync.isQuit
QuitCleared == FALSE

StartSyncTime ==
    /\ client = "idle" /\ first.manager /\ sync.pc = "none"
    /\ sync' = [pc |-> "wait", isQuit |-> QuitCleared]
    /\ UNCHANGED <<clockNow, freq, timestampCallback, info, calibrating, client, first, opened, api, registrations, late, clockFaults>>

(* StopSyncTime takes cv_mutex_, which Run holds but while it waits, and     *)
(* then joins it.                                                            *)
StopSyncTime ==
    /\ client = "idle" /\ sync.pc # "none" /\ client' = "stops"
    /\ UNCHANGED <<clockNow, freq, timestampCallback, info, calibrating, sync, first, opened, api, registrations, late, clockFaults>>

SetsQuit ==
    /\ client = "stops" /\ sync.pc # "round"
    /\ client' = "joins" /\ sync' = [sync EXCEPT !.isQuit = TRUE]
    /\ UNCHANGED <<clockNow, freq, timestampCallback, info, calibrating, first, opened, api, registrations, late, clockFaults>>

JoinsSync ==
    /\ client = "joins" /\ sync.pc = "ended"
    /\ client' = "idle" /\ sync' = [sync EXCEPT !.pc = "none"]
    /\ UNCHANGED <<clockNow, freq, timestampCallback, info, calibrating, first, opened, api, registrations, late, clockFaults>>

----------------------------------------------------------------------------
(* CannApiParser::ReportApi converts the two times of a call one after the   *)
(* other, each by the info it finds.                                         *)

ReportApi(beginTime, endTime) ==
    /\ api.pc # "end"
    /\ api' = [pc |-> "end", start |-> RealTime("host", Counter("host", beginTime)),
               end |-> Counter("host", endTime), moved |-> FALSE]
    /\ UNCHANGED <<clockNow, freq, timestampCallback, info, calibrating, sync, client, first, opened, registrations, late, clockFaults>>

ReportApiEnds ==
    /\ api.pc = "end"
    /\ api' = [api EXCEPT !.pc = "done", !.end = RealTime("host", @)]
    /\ UNCHANGED <<clockNow, freq, timestampCallback, info, calibrating, sync, client, first, opened, registrations, late, clockFaults>>

CalibrationNext ==
    \/ Tick \/ GetHostTimeStampNs \/ MakesManager \/ SetDevice \/ ResetDevice
    \/ \E clock \in Clocks \ {SystemClock} : SetTimestampCallback(clock)
    \/ \E t \in Calibrators : ReadsCounter(t) \/ ReadsBefore(t) \/ ReadsAfter(t) \/ Stores(t)
RecordNext ==
    \/ \E endTime \in 0 .. clockNow : \E beginTime \in 0 .. endTime : ReportApi(beginTime, endTime)
    \/ ReportApiEnds
SyncNext == RunRound \/ RunEnds \/ StartSyncTime \/ StopSyncTime \/ SetsQuit \/ JoinsSync
ClockNext == CalibrationNext \/ RecordNext \/ SyncNext

(* Run's wait has an end and its thread is scheduled; so are the calls that  *)
(* are under way.  Nothing is promised of time or of new calls.              *)
ClockFairness ==
    /\ \A t \in Calibrators : WF_clockVars(ReadsCounter(t) \/ ReadsBefore(t) \/ ReadsAfter(t) \/ Stores(t))
    /\ WF_clockVars(RunRound \/ RunEnds) /\ SF_clockVars(SetsQuit) /\ WF_clockVars(JoinsSync)

ClockSpec == ClockInit /\ [][ClockNext]_clockVars /\ ClockFairness
----------------------------------------------------------------------------
(* Properties *)

ClockTypeOK ==
    /\ clockNow \in 0 .. MaxNow /\ timestampCallback \in Clocks
    /\ \A side \in Sides : info[side].clocks \subseteq Clocks /\ info[side].span \in 0 .. MaxNow
    /\ sync.pc \in {"none", "wait", "round", "ended"}
    /\ client \in {"idle", "calibrates", "stops", "joins"} /\ api.pc \in {"none", "end", "done"}

(* One count is what the counter adds to the error of a conversion.          *)
Grain(side) == IF freq[side] = ERR_FREQ THEN 1 ELSE 1 + Quotient(MSTONS, freq[side]) + 1
Distance(a, b) == IF a > b THEN a - b ELSE b - a

(* A count converted by readings of one clock, for which the driver answered, *)
(* is what that clock read when the counter had it, but for the time that the *)
(* readings took and for the counter's grain, whether the count is older or   *)
(* younger than they.                                                         *)
Accurate ==
    \A side \in Sides, time \in 0 .. clockNow, clock \in Clocks :
        info[side].clocks = {clock} /\ info[side].sound =>
            Distance(RealTime(side, Counter(side, time)), time + Offset[clock]) <= info[side].span + Grain(side)

(* Conversions by one info keep the order of counts, also if the driver did  *)
(* not give its frequency or its count: what ended after it began still does, *)
(* as both times of a device's task are converted by one.                    *)
OrderKept ==
    \A side \in Sides, late2 \in 0 .. clockNow : \A early \in 0 .. late2 :
        RealTime(side, Counter(side, early)) <= RealTime(side, Counter(side, late2))

(* An API call's record ends after it starts, unless a new info was stored   *)
(* between the conversions of its two times.                                 *)
ApiInOrder == api.pc = "done" /\ ~api.moved => api.start <= api.end

(* When a registration has returned, host times are by the registered        *)
(* callback, unless a calibration that had begun before it was stored later. *)
RegistrationHolds ==
    client # "calibrates" /\ registrations > 0 /\ ~late => info["host"].clocks = {timestampCallback}

ClockInv == ClockTypeOK /\ Accurate /\ OrderKept /\ ApiInOrder /\ RegistrationHolds

(* While a session goes on, every time comes to be by the callback that is   *)
(* registered, whatever older calibration was stored last, and by what the   *)
(* counter is, whatever the driver failed to give before; and the session's  *)
(* end does not wait for ever.                                               *)
SessionRuns == sync.pc # "none" /\ client \in {"idle", "calibrates"}
ClocksAgree ==
    /\ info["host"].clocks = {timestampCallback} /\ info["host"].sound
    /\ opened => info["device"].clocks = {timestampCallback} /\ info["device"].sound
ClockSettles ==
    /\ <>[]SessionRuns => []<>ClocksAgree
    /\ client \in {"stops", "joins"} ~> client = "idle"

(* The development guide, 4.3.5: a registration calibrates the host's time   *)
(* by the callback it brings.                                                *)
RegistrationCalibrates ==
    client = "idle" /\ registrations > 0 => info["host"].clocks = {timestampCallback}

(* The same section: all times are on one axis.                              *)
OneAxis ==
    client = "idle" /\ opened /\ info["device"] # NoInfo /\ info["host"] # NoInfo
        => info["host"].clocks = info["device"].clocks

(* mspti_activity.h: a record's end is not before its start.                 *)
ApiEndsAfter == api.pc = "done" => api.start <= api.end
=============================================================================
