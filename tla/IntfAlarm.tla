----------------------------- MODULE IntfAlarm -----------------------------
(***************************************************************************)
(* The life of one interface's polldata (device.h) under the poll callback *)
(* (data.cpp): process_intdata turns two readings of the broadcast counter *)
(* into a rate, calculate_datamav keeps the moving average of the last     *)
(* mavsize rates, and check_alarm raises, clears and re-raises the alarm   *)
(* and queues a notification.                                              *)
(*                                                                         *)
(* A rate is a multiple of 1/Scale, so that every quotient the code forms  *)
(* with doubles is exact here; rounding is not modelled.  The counter has  *)
(* Modulus values instead of 2^64, and maxdelta is MaxDelta.               *)
(***************************************************************************)
EXTENDS Integers, SequencesExt

CONSTANTS
    MavSize,        \* mavsize, one hour of polls
    BcMax, MavMax, MavLow,      \* the poller section's limits
    RecoverPct,     \* recover-ratio, in percent
    Modulus,        \* cmax + 1
    MaxDelta,       \* maxdelta
    Traffic,        \* broadcasts between two polls
    Gaps,           \* seconds between two polls
    Restarts,       \* whether the device's uptime can start again between two polls
    Scale           \* rates are integers in units of 1/Scale

ASSUME AlarmAssumption ==
    /\ {MavSize, Modulus, Scale} \subseteq Nat \ {0}
    /\ {BcMax, MavMax, MavLow, RecoverPct, MaxDelta} \subseteq Nat
    /\ MavLow <= MavMax /\ MavMax <= BcMax
    /\ Traffic \subseteq Nat /\ \A t \in Traffic : t < Modulus
    /\ Gaps \subseteq Nat \ {0}
    /\ \A n \in 1..MavSize, g \in Gaps : Scale % (n * g) = 0

VARIABLES
    data,           \* the interface's polldata
    devcounter,     \* the counter in the device
    notices,        \* history: notifications queued since the alarm was last off
    last            \* history: what the last poll made of the traffic

vars == <<data, devcounter, notices, last>>

Alarms == {"none", "bcmax", "mavmax", "spike"}
CMax   == Modulus - 1

\* C++ quotients with a divisor of either sign.
Quotient(n, dt) == IF dt > 0 THEN n \div dt ELSE -(n \div (-dt))

Sum(s) ==
    LET upto[i \in 0..Len(s)] == IF i = 0 THEN 0 ELSE upto[i - 1] + s[i]
    IN  upto[Len(s)]

NoSample == [kind |-> "none", delta |-> 0, dt |-> 1, traffic |-> 0, cleared |-> FALSE]

TypeOK ==
    /\ data.alarm \in Alarms
    /\ data.counter \in 0..CMax
    /\ data.lastmav \in Int /\ data.prevmav \in Int
    /\ data.mav_vals \in Seq(Int) /\ Len(data.mav_vals) <= MavSize
    /\ devcounter \in 0..CMax
    /\ notices \in Nat
    /\ last.kind \in {"none", "first", "skipped", "rate"}

\* polldata::reset(), and a freshly added interface.
Reset == [alarm |-> "none", counter |-> 0, lastmav |-> 0, prevmav |-> 0, mav_vals |-> <<>>]

Init ==
    /\ data = Reset
    /\ devcounter \in 0..CMax
    /\ notices = 0
    /\ last = NoSample

-----------------------------------------------------------------------------
(* calculate_datamav, after the new rate was pushed to the front.          *)

FullNever(d) == FALSE                                        \* mutant
FullEarly(d) == MavSize <= Len(d.mav_vals)                   \* mutant
Full(d) == MavSize < Len(d.mav_vals)

CalculateDatamav(d) ==
    LET front == Head(d.mav_vals)
        back  == Last(d.mav_vals)
        size  == Len(d.mav_vals)
        base  == [d EXCEPT !.prevmav = IF d.alarm = "none" THEN d.lastmav ELSE d.prevmav]
    IN  IF Full(d)
        THEN [base EXCEPT !.lastmav = d.lastmav - back \div MavSize + front \div MavSize,
                          !.mav_vals = Front(d.mav_vals)]
        ELSE [base EXCEPT !.lastmav = Sum(d.mav_vals) \div size]

-----------------------------------------------------------------------------
(* check_alarm.                                                            *)

ClearedButMavmax(d) ==                                       \* mutant
    LET delta == Head(d.mav_vals)
    IN  \/ d.alarm = "bcmax" /\ delta < BcMax * Scale
        \/ d.alarm = "spike" /\ 100 * delta < d.prevmav * RecoverPct
Cleared(d) ==
    LET delta == Head(d.mav_vals)
    IN  \/ d.alarm = "bcmax"  /\ delta < BcMax * Scale
        \/ d.alarm = "mavmax" /\ d.lastmav < MavMax * Scale
        \/ d.alarm = "spike"  /\ 100 * delta < d.prevmav * RecoverPct

\* What is left of the data when the alarm is cleared.
Forget(d) == [d EXCEPT !.alarm = "none", !.lastmav = Head(d.mav_vals), !.prevmav = 0,
                       !.mav_vals = <<>>]

\* "prevmav * ratio < lastmav - prevmav" with ratio = 0.8 - 0.7 * size / mavsize.
Spike(d) == /\ d.prevmav # 0
            /\ MavLow * Scale < d.lastmav
            /\ d.prevmav * (8 * MavSize - 7 * Len(d.mav_vals))
                    < 10 * MavSize * (d.lastmav - d.prevmav)

\* front is mav_vals.front(): the newest rate.  After Forget the deque is empty and
\* reading its front is undefined; the deque of the library keeps the node, so the
\* value read is the one just forgotten.
AlarmOf(d, front) == CASE BcMax * Scale < front       -> "bcmax"
                       [] MavMax * Scale < d.lastmav  -> "mavmax"
                       [] Spike(d)                    -> "spike"
                       [] OTHER                       -> "none"

\* [data, queued]: queued when the alarm goes from none to raised without having
\* been cleared on the way (check_reset).
CheckAlarmRenotify(d) ==                                     \* mutant
    LET e == IF Cleared(d) THEN Forget(d) ELSE d
        raised == AlarmOf(e, Head(d.mav_vals))
    IN  IF d.alarm # "none" /\ ~Cleared(d)
        THEN [data |-> d, queued |-> FALSE]
        ELSE [data |-> [e EXCEPT !.alarm = raised], queued |-> raised # "none"]
CheckAlarmClearOnly(d) ==                                    \* mutant
    IF d.alarm # "none"
    THEN [data |-> IF Cleared(d) THEN Forget(d) ELSE d, queued |-> FALSE]
    ELSE LET raised == AlarmOf(d, Head(d.mav_vals))
         IN  [data |-> [d EXCEPT !.alarm = raised], queued |-> raised # "none"]
CheckAlarm(d) ==
    LET front == Head(d.mav_vals)
    IN  IF d.alarm = "none"
        THEN [data |-> [d EXCEPT !.alarm = AlarmOf(d, front)],
              queued |-> AlarmOf(d, front) # "none"]
        ELSE IF Cleared(d)
        THEN [data |-> [Forget(d) EXCEPT !.alarm = AlarmOf(Forget(d), front)],
              queued |-> FALSE]
        ELSE [data |-> d, queued |-> FALSE]

-----------------------------------------------------------------------------
(* process_intdata for this interface, and what can happen to the device.  *)

\* The counter as read, with broadcasts since the last poll and a counter that
\* was cleared in between or not.
NewCounter(traffic, cleared) ==
    (IF cleared THEN traffic ELSE devcounter + traffic) % Modulus

WrapLost(c) == c - data.counter                              \* mutant
Wrapped(c) == (CMax - data.counter) + c

\* The rate of a counter c read dt seconds after the last.
DeltaOf(c, dt) ==
    Quotient((IF c < data.counter THEN Wrapped(c) ELSE c - data.counter) * Scale, dt)

\* The sentinel 0 is "no reading yet"; a fall that would mean an absurd rate is a
\* counter that was reset.
FirstReading == data.counter = 0
CounterReset(c, dt) == c < data.counter /\ DeltaOf(c, dt) > MaxDelta * Scale

Record(c, kind, delta, dt, traffic, cleared) ==
    /\ devcounter' = c
    /\ last' = [kind |-> kind, delta |-> delta, dt |-> dt, traffic |-> traffic,
                cleared |-> cleared]

SkipReading(c, dt, traffic, cleared) ==
    /\ FirstReading \/ CounterReset(c, dt)
    /\ data' = [data EXCEPT !.counter = c]
    /\ Record(c, IF FirstReading THEN "first" ELSE "skipped", 0, dt, traffic, cleared)
    /\ UNCHANGED notices

TakeReading(c, dt, traffic, cleared) ==
    /\ ~FirstReading /\ ~CounterReset(c, dt)
    /\ LET delta  == DeltaOf(c, dt)
           pushed == [data EXCEPT !.mav_vals = <<delta>> \o @, !.counter = c]
           result == CheckAlarm(CalculateDatamav(pushed))
       IN  /\ data' = result.data
           /\ notices' = IF result.data.alarm = "none" THEN 0
                         ELSE notices + IF result.queued THEN 1 ELSE 0
           /\ Record(c, "rate", delta, dt, traffic, cleared)

\* timedelta is negative when the device's uptime has started again.
TimeDeltas == Gaps \cup IF Restarts THEN {-g : g \in Gaps} ELSE {}

Poll ==
    \E traffic \in Traffic, cleared \in BOOLEAN, dt \in TimeDeltas :
        LET c == NewCounter(traffic, cleared)
        IN  SkipReading(c, dt, traffic, cleared) \/ TakeReading(c, dt, traffic, cleared)

\* device::reset() when the worker returns the device after an outage.
ReturnDevice ==
    /\ data' = Reset
    /\ notices' = 0
    /\ last' = NoSample
    /\ UNCHANGED devcounter

Next == Poll \/ ReturnDevice

Spec == Init /\ [][Next]_vars

\* The main loop polls for ever.
FairSpec == Spec /\ WF_vars(Poll)

-----------------------------------------------------------------------------
(* Properties.                                                             *)

\* The average kept by adding the newest and subtracting the oldest share is the
\* mean of the rates it is said to cover.
MavIsMean ==
    data.mav_vals # <<>> => data.lastmav * Len(data.mav_vals) = Sum(data.mav_vals)

\* While an alarm is up, through every change of its type, exactly one
\* notification was queued; none is queued for an alarm that is off.
OneNoticePerAlarm == notices = IF data.alarm = "none" THEN 0 ELSE 1

\* A poll never leaves a rate above bcmax, or an average above mavmax, without
\* an alarm, also when it has just cleared another one.
HighRateIsAlarmed ==
    last.kind = "rate" /\ (last.delta > BcMax * Scale \/ data.lastmav > MavMax * Scale)
        => data.alarm # "none"

\* A rate that was taken is the traffic of the interval, less one where the
\* counter wrapped; a cleared counter passes for a wrap only below maxdelta.
RateIsTraffic ==
    last.kind = "rate" =>
        LET measured == last.delta * last.dt
        IN  IF last.cleared
            THEN last.delta <= MaxDelta * Scale \/ measured <= last.traffic * Scale
            ELSE measured \in {last.traffic * Scale, (last.traffic - 1) * Scale}

\* An alarm does not outlive the traffic that caused it, as long as the counter
\* does not stand at the sentinel 0.
AlarmClears ==
    <>[](last.kind = "rate" /\ last.delta = 0 /\ data.counter # 0)
        => <>[](data.alarm = "none")

\* process_intdata says of a counter that was reset that it is skipped: no
\* negative rate enters the average.  Does not hold with Restarts: README, section 5.
ResetsAreSkipped == \A i \in DOMAIN data.mav_vals : data.mav_vals[i] >= 0

=============================================================================
