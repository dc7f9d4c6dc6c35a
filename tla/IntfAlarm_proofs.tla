--------------------------- MODULE IntfAlarm_proofs ---------------------------
(***************************************************************************)
(* Proofs about module IntfAlarm, for any length of the average, any       *)
(* limits, traffic and gaps, with and without restarts of the device: one  *)
(* notification per alarm, no high rate without an alarm, rates that are   *)
(* the traffic, and an average that is the mean of the rates it covers.    *)
(***************************************************************************)
EXTENDS IntfAlarm, SequenceTheorems, WellFoundedInduction, TLAPS

\* What the averages are is left to AverageInv, below.
Polldata(d) ==
    /\ DOMAIN d = {"alarm", "counter", "lastmav", "prevmav", "mav_vals"}
    /\ d.alarm \in Alarms
    /\ d.mav_vals \in Seq(Int)

ReadingInv ==
    /\ Polldata(data) /\ data.counter \in 0..CMax
    /\ data.counter \in {0, devcounter}
    /\ devcounter \in 0..CMax

AlarmInv == ReadingInv /\ OneNoticePerAlarm /\ HighRateIsAlarmed /\ RateIsTraffic

-----------------------------------------------------------------------------
LEMMA MultipleGrows ==
    ASSUME NEW a \in Int, NEW b \in Int, NEW g \in Nat, a >= b + 1
    PROVE  a * g >= b * g + g
<1>1. PICK e \in Nat : a = b + 1 + e
  <2>1. a - b - 1 \in Nat /\ a = b + 1 + (a - b - 1)
    OBVIOUS
  <2>2. QED  BY <2>1
<1>2. a * g = b * g + g + e * g
  BY <1>1
<1>3. e * g >= 0
  BY <1>1
<1>4. QED  BY <1>2, <1>3

LEMMA ExactQuotient ==
    ASSUME NEW m \in Int, NEW g \in Nat \ {0}
    PROVE  (m * g) \div g = m
<1> DEFINE n == m * g
           d == n \div g
<1>1. n \in Int
  OBVIOUS
<1> HIDE DEF n
<1>2. d \in Int /\ n >= d * g /\ n < d * g + g
  BY <1>1
<1> HIDE DEF d
<1>3. ~(m >= d + 1)
  BY <1>1, <1>2, MultipleGrows DEF n
<1>4. ~(d >= m + 1)
  BY <1>1, <1>2, MultipleGrows DEF n
<1>5. m = d
  BY <1>2, <1>3, <1>4
<1>6. QED  BY <1>5 DEF d, n

\* Scale makes every rate exact.
LEMMA ScaledQuotient ==
    ASSUME NEW k \in Int, NEW dt \in TimeDeltas
    PROVE  Quotient(k * Scale, dt) * dt = k * Scale
<1>1. PICK g \in Gaps : dt \in {g, -g}
  BY DEF TimeDeltas
<1>2. g \in Nat \ {0} /\ Scale \in Nat \ {0} /\ Scale % g = 0
  <2>1. 1 \in 1..MavSize /\ g \in Nat /\ 1 * g = g
    BY AlarmAssumption
  <2>2. QED  BY <2>1, AlarmAssumption
<1>3. PICK q \in Int : Scale = q * g
  <2>1. Scale \div g \in Int /\ Scale = (Scale \div g) * g
    BY <1>2
  <2>2. QED  BY <2>1
<1>4. k * Scale = (k * q) * g
  BY <1>2, <1>3
<1>5. k * q \in Int
  BY <1>3
<1>6. (k * Scale) \div g = k * q
  BY <1>2, <1>4, <1>5, ExactQuotient
<1>7. CASE dt = g
  BY <1>2, <1>4, <1>5, <1>6, <1>7 DEF Quotient
<1>8. CASE dt = -g
  <2>1. -dt = g /\ ~(dt > 0)
    BY <1>2, <1>8
  <2>2. Quotient(k * Scale, dt) = -(k * q)
    BY <1>6, <2>1 DEF Quotient
  <2>3. -(k * q) * (-g) = (k * q) * g
    BY <1>2, <1>5
  <2>4. QED  BY <1>4, <1>8, <2>2, <2>3
<1>9. QED  BY <1>1, <1>7, <1>8

\* A quotient of two readings is an integer, whichever way time has gone.
LEMMA QuotientIsInt ==
    ASSUME NEW n \in Int, NEW dt \in TimeDeltas
    PROVE  Quotient(n, dt) \in Int
<1>1. dt \in Int /\ dt # 0
  BY AlarmAssumption DEF TimeDeltas
<1>2. QED  BY <1>1 DEF Quotient

LEMMA DeltaIsInt ==
    ASSUME ReadingInv, NEW c \in 0..CMax, NEW dt \in TimeDeltas
    PROVE  DeltaOf(c, dt) \in Int
<1> DEFINE n == (IF c < data.counter THEN Wrapped(c) ELSE c - data.counter) * Scale
<1>1. n \in Int
  BY AlarmAssumption DEF ReadingInv, Wrapped, CMax
<1> HIDE DEF n
<1>2. Quotient(n, dt) \in Int
  BY <1>1, QuotientIsInt
<1>3. QED  BY <1>2 DEF DeltaOf, n

LEMMA CounterStaysInRange ==
    ASSUME ReadingInv, NEW traffic \in Traffic, NEW cleared \in BOOLEAN
    PROVE  NewCounter(traffic, cleared) \in 0..CMax
BY AlarmAssumption DEF ReadingInv, NewCounter, CMax

\* The broadcasts that a reading counts: all of them, one less after a wrap, and
\* fewer where the counter was cleared and did not seem to wrap.
LEMMA CountedTraffic ==
    ASSUME ReadingInv, ~FirstReading, NEW traffic \in Traffic, NEW cleared \in BOOLEAN,
           NEW c, c = NewCounter(traffic, cleared)
    PROVE  LET k == IF c < data.counter THEN Wrapped(c) ELSE c - data.counter IN
           /\ k \in Int
           /\ ~cleared => k \in {traffic, traffic - 1}
           /\ cleared /\ ~(c < data.counter) => k <= traffic
<1>1. /\ traffic \in Nat /\ traffic < Modulus /\ Modulus \in Nat \ {0}
      /\ data.counter = devcounter /\ devcounter \in 0..(Modulus - 1)
  BY AlarmAssumption DEF ReadingInv, FirstReading, CMax
<1>2. CASE cleared
  BY <1>1, <1>2 DEF NewCounter, Wrapped, CMax
<1>3. CASE ~cleared /\ devcounter + traffic < Modulus
  BY <1>1, <1>3 DEF NewCounter, Wrapped, CMax
<1>4. CASE ~cleared /\ devcounter + traffic >= Modulus
  <2>1. c = devcounter + traffic - Modulus
    BY <1>1, <1>4 DEF NewCounter
  <2>2. QED  BY <1>1, <1>4, <2>1 DEF Wrapped, CMax
<1>5. QED  BY <1>1, <1>2, <1>3, <1>4

LEMMA TakenRateIsTraffic ==
    ASSUME ReadingInv, NEW traffic \in Traffic, NEW cleared \in BOOLEAN, NEW dt \in TimeDeltas,
           NEW c, c = NewCounter(traffic, cleared),
           ~FirstReading, ~CounterReset(c, dt)
    PROVE  IF cleared
           THEN DeltaOf(c, dt) <= MaxDelta * Scale \/ DeltaOf(c, dt) * dt <= traffic * Scale
           ELSE DeltaOf(c, dt) * dt \in {traffic * Scale, (traffic - 1) * Scale}
<1> DEFINE k == IF c < data.counter THEN Wrapped(c) ELSE c - data.counter
<1>1. /\ k \in Int
      /\ ~cleared => k \in {traffic, traffic - 1}
      /\ cleared /\ ~(c < data.counter) => k <= traffic
  BY CountedTraffic
<1>2. DeltaOf(c, dt) = Quotient(k * Scale, dt)
  BY DEF DeltaOf
<1>3. c \in 0..CMax /\ DeltaOf(c, dt) \in Int
  BY CounterStaysInRange, DeltaIsInt
<1> HIDE DEF k
<1>4. DeltaOf(c, dt) * dt = k * Scale
  BY <1>1, <1>2, ScaledQuotient
<1>5. Scale \in Nat /\ MaxDelta * Scale \in Nat /\ traffic \in Nat
  BY AlarmAssumption
<1>6. CASE ~cleared
  BY <1>1, <1>4, <1>6
<1>7. CASE cleared /\ c < data.counter
  <2>1. ~(DeltaOf(c, dt) > MaxDelta * Scale)
    BY <1>7 DEF CounterReset
  <2>2. DeltaOf(c, dt) <= MaxDelta * Scale
    BY <1>3, <1>5, <2>1
  <2>3. QED  BY <1>7, <2>2
<1>8. CASE cleared /\ ~(c < data.counter)
  <2>1. k <= traffic
    BY <1>1, <1>8
  <2>2. k * Scale <= traffic * Scale
    <3>1. CASE k = traffic
      BY <3>1, <1>5
    <3>2. CASE traffic >= k + 1
      BY <3>2, <1>1, <1>5, MultipleGrows
    <3>3. QED  BY <2>1, <3>1, <3>2, <1>1, <1>5
  <2>3. QED  BY <1>4, <1>8, <2>2
<1>9. QED  BY <1>6, <1>7, <1>8

\* The average is computed without touching the alarm; the newest rate stays in front.
LEMMA AverageKeepsFront ==
    ASSUME NEW d, Polldata(d), NEW delta \in Int, NEW s \in Seq(Int),
           d.mav_vals = <<delta>> \o s
    PROVE  /\ Polldata(CalculateDatamav(d))
           /\ CalculateDatamav(d).alarm = d.alarm
           /\ CalculateDatamav(d).counter = d.counter
           /\ CalculateDatamav(d).mav_vals # <<>>
           /\ Head(CalculateDatamav(d).mav_vals) = delta
<1> DEFINE v == d.mav_vals
<1>1. /\ v \in Seq(Int) /\ Len(v) = 1 + Len(s) /\ v[1] = delta
      /\ Len(s) \in Nat /\ v # <<>> /\ Head(v) = delta
  BY DEF Polldata
<1>2. CASE Full(d)
  <2>1. Len(v) >= 2
    BY <1>1, <1>2, AlarmAssumption DEF Full
  <2>2. \A i \in 1..(Len(v) - 1) : v[i] \in Int
    BY <1>1
  <2>3. Front(v) \in Seq(Int) /\ Len(Front(v)) = Len(v) - 1
    BY <1>1, <2>1, <2>2, SubSeqProperties DEF Front
  <2>4. Front(v)[1] = delta
    BY <1>1, <2>1, <2>2, SubSeqProperties DEF Front
  <2>5. Front(v) # <<>> /\ Head(Front(v)) = delta
    BY <2>1, <2>3, <2>4
  <2>6. QED  BY <1>1, <1>2, <2>3, <2>5 DEF CalculateDatamav, Polldata
<1>3. CASE ~Full(d)
  BY <1>1, <1>3 DEF CalculateDatamav, Polldata
<1>4. QED  BY <1>2, <1>3

\* What check_alarm does to an alarm: it is queued when it is new and not when it
\* was up before, and none is left off while the newest rate or the average is high.
LEMMA CheckAlarmNotifies ==
    ASSUME NEW d, Polldata(d), d.mav_vals # <<>>
    PROVE  LET r == CheckAlarm(d) IN
           /\ Polldata(r.data) /\ r.data.counter = d.counter
           /\ d.alarm = "none" => (r.queued <=> r.data.alarm # "none")
           /\ d.alarm # "none" => ~r.queued
           /\ r.data.alarm = "none" =>
                 /\ ~(BcMax * Scale < Head(d.mav_vals))
                 /\ ~(MavMax * Scale < r.data.lastmav)
<1> DEFINE front == Head(d.mav_vals)
<1>1. \A e : /\ AlarmOf(e, front) \in Alarms
             /\ AlarmOf(e, front) = "none" =>
                    ~(BcMax * Scale < front) /\ ~(MavMax * Scale < e.lastmav)
  BY DEF AlarmOf, Alarms
<1> HIDE DEF front
<1>2. CASE d.alarm = "none"
  BY <1>1, <1>2 DEF CheckAlarm, Polldata, front
<1>3. CASE d.alarm # "none" /\ Cleared(d)
  <2>1. /\ Polldata(Forget(d)) /\ Forget(d).counter = d.counter
    BY DEF Forget, Polldata, Alarms
  <2> DEFINE f == Forget(d)
             a == AlarmOf(f, front)
             g == [f EXCEPT !.alarm = a]
  <2>2. CheckAlarm(d).data = g /\ CheckAlarm(d).queued = FALSE
    BY <1>3 DEF CheckAlarm, front
  <2>3. /\ a \in Alarms
        /\ a = "none" => ~(BcMax * Scale < front) /\ ~(MavMax * Scale < f.lastmav)
    BY <1>1
  <2> HIDE DEF f, a
  <2>4. Polldata(g) /\ g.alarm = a /\ g.counter = f.counter /\ g.lastmav = f.lastmav
    BY <2>1, <2>3 DEF f, Polldata
  <2> HIDE DEF g
  <2>5. QED  BY <1>3, <2>1, <2>2, <2>3, <2>4 DEF f, front
<1>4. CASE d.alarm # "none" /\ ~Cleared(d)
  BY <1>4 DEF CheckAlarm
<1>5. QED  BY <1>2, <1>3, <1>4

-----------------------------------------------------------------------------
LEMMA InitAlarm == Init => AlarmInv
BY AlarmAssumption
   DEF Init, AlarmInv, ReadingInv, Polldata, Reset, Alarms, CMax, NoSample,
       OneNoticePerAlarm, HighRateIsAlarmed, RateIsTraffic

LEMMA NextAlarm == AlarmInv /\ [Next]_vars => AlarmInv'
<1> SUFFICES ASSUME AlarmInv, [Next]_vars PROVE AlarmInv'
  OBVIOUS
<1>1. CASE Poll
  <2>1. PICK traffic \in Traffic, cleared \in BOOLEAN, dt \in TimeDeltas :
            LET c == NewCounter(traffic, cleared)
            IN  SkipReading(c, dt, traffic, cleared) \/ TakeReading(c, dt, traffic, cleared)
    BY <1>1 DEF Poll
  <2> DEFINE c == NewCounter(traffic, cleared)
  <2>2. c \in 0..CMax
    BY CounterStaysInRange DEF AlarmInv
  <2> HIDE DEF c
  <2>3. CASE SkipReading(c, dt, traffic, cleared)
    BY <2>2, <2>3 DEF SkipReading, Record, AlarmInv, ReadingInv, Polldata,
       OneNoticePerAlarm, HighRateIsAlarmed, RateIsTraffic
  <2>4. CASE TakeReading(c, dt, traffic, cleared)
    <3> DEFINE delta  == DeltaOf(c, dt)
               pushed == [data EXCEPT !.mav_vals = <<delta>> \o @, !.counter = c]
               mean   == CalculateDatamav(pushed)
               result == CheckAlarm(mean)
    <3>1. delta \in Int
      BY <2>2, DeltaIsInt DEF AlarmInv
    <3>2. /\ data' = result.data
          /\ notices' = IF result.data.alarm = "none" THEN 0
                        ELSE notices + IF result.queued THEN 1 ELSE 0
          /\ devcounter' = c
          /\ last' = [kind |-> "rate", delta |-> delta, dt |-> dt, traffic |-> traffic,
                      cleared |-> cleared]
      BY <2>4 DEF TakeReading, Record
    <3> HIDE DEF delta
    <3>3. /\ Polldata(pushed) /\ pushed.alarm = data.alarm /\ pushed.counter = c
          /\ data.mav_vals \in Seq(Int) /\ pushed.mav_vals = <<delta>> \o data.mav_vals
      BY <3>1 DEF AlarmInv, ReadingInv, Polldata
    <3> HIDE DEF pushed
    <3>4. /\ Polldata(mean) /\ mean.alarm = data.alarm /\ mean.counter = c
          /\ mean.mav_vals # <<>> /\ Head(mean.mav_vals) = delta
      BY <3>1, <3>3, AverageKeepsFront
    <3> HIDE DEF mean
    <3>5. /\ Polldata(result.data) /\ result.data.counter = c
          /\ mean.alarm = "none" => (result.queued <=> result.data.alarm # "none")
          /\ mean.alarm # "none" => ~result.queued
          /\ result.data.alarm = "none" =>
                /\ ~(BcMax * Scale < delta)
                /\ ~(MavMax * Scale < result.data.lastmav)
      BY <3>4, CheckAlarmNotifies
    <3> HIDE DEF result
    <3>6. ReadingInv'
      BY <2>2, <3>2, <3>5 DEF ReadingInv, Polldata
    <3>7. OneNoticePerAlarm'
      BY <3>2, <3>4, <3>5 DEF AlarmInv, OneNoticePerAlarm
    <3>8. HighRateIsAlarmed'
      BY <3>2, <3>5 DEF HighRateIsAlarmed
    <3>9. RateIsTraffic'
      <4>1. ReadingInv /\ ~FirstReading /\ ~CounterReset(c, dt) /\ c = NewCounter(traffic, cleared)
        BY <2>4 DEF TakeReading, AlarmInv, c
      <4>2. IF cleared
            THEN delta <= MaxDelta * Scale \/ delta * dt <= traffic * Scale
            ELSE delta * dt \in {traffic * Scale, (traffic - 1) * Scale}
        BY <4>1, TakenRateIsTraffic DEF delta
      <4>3. QED  BY <3>2, <4>2 DEF RateIsTraffic
    <3>10. QED  BY <3>6, <3>7, <3>8, <3>9 DEF AlarmInv
  <2>5. QED  BY <2>1, <2>3, <2>4 DEF c
<1>2. CASE ReturnDevice
  BY <1>2, AlarmAssumption
     DEF ReturnDevice, AlarmInv, ReadingInv, Polldata, Reset, NoSample, Alarms, CMax,
         OneNoticePerAlarm, HighRateIsAlarmed, RateIsTraffic
<1>3. CASE UNCHANGED vars
  BY <1>3 DEF vars, AlarmInv, ReadingInv, Polldata, OneNoticePerAlarm, HighRateIsAlarmed,
                     RateIsTraffic
<1>4. QED  BY <1>1, <1>2, <1>3 DEF Next

\* The inductive invariant of one interface's readings, rates and alarm.
THEOREM AlarmInvariant == Spec => []AlarmInv
<1>1. QED  BY InitAlarm, NextAlarm, PTL DEF Spec

\* check_alarm queues exactly one notification for an alarm, through every change
\* of its type, and none for an alarm that is off.
THEOREM OneNotice == Spec => []OneNoticePerAlarm
<1>1. AlarmInv => OneNoticePerAlarm
  BY DEF AlarmInv
<1>2. QED  BY <1>1, AlarmInvariant, PTL

\* A poll never leaves a rate above bcmax or an average above mavmax without an
\* alarm, also when it has just cleared another one.
THEOREM HighRateAlarmed == Spec => []HighRateIsAlarmed
<1>1. AlarmInv => HighRateIsAlarmed
  BY DEF AlarmInv
<1>2. QED  BY <1>1, AlarmInvariant, PTL

\* A rate that enters the average is the traffic of its interval, less one where
\* the counter wrapped; a cleared counter passes for a wrap only below maxdelta.
THEOREM RateTrue == Spec => []RateIsTraffic
<1>1. AlarmInv => RateIsTraffic
  BY DEF AlarmInv
<1>2. QED  BY <1>1, AlarmInvariant, PTL

-----------------------------------------------------------------------------
(* Sums of rates: what happens to them when the average moves on.           *)

\* The least number of a set takes the place of induction.
LEMMA LeastNumber ==
    ASSUME NEW S \in SUBSET Nat, S # {}
    PROVE  \E x \in S : \A y \in S : x <= y
<1> DEFINE R == OpToRel(<, Nat)
<1>1. R = {p \in Nat \X Nat : p[1] < p[2]}
  BY DEF OpToRel
<1>2. IsWellFoundedOn(R, Nat)
  BY NatLessThanWellFounded, Zenon
<1> HIDE DEF R
<1>3. PICK x \in S : \A y \in S : ~ (<<y, x>> \in R)
  BY <1>2, WFMin
<1>4. \A y \in S : <<y, x>> \in R <=> y < x
  BY <1>1
<1>5. \A y \in S : ~ (y < x)
  BY <1>3, <1>4
<1>6. QED  BY <1>5

\* The sums of the first rates, one by one.
PartialSums(s, f, n) ==
    /\ f \in [0..n -> Int] /\ f[0] = 0
    /\ \A i \in 1..n : f[i] = f[i - 1] + s[i]

LEMMA PartialSumsExist ==
    ASSUME NEW s \in Seq(Int)
    PROVE  \E f : PartialSums(s, f, Len(s))
<1> DEFINE B == {n \in Nat : n <= Len(s) /\ ~ \E f : PartialSums(s, f, n)}
<1>0. Len(s) \in Nat /\ \A i \in 1..Len(s) : s[i] \in Int
  OBVIOUS
<1>1. SUFFICES ASSUME B # {} PROVE FALSE
  BY <1>0
<1>2. PICK n \in B : \A m \in B : n <= m
  BY <1>1, LeastNumber
<1>3. PartialSums(s, [i \in 0..0 |-> 0], 0)
  BY DEF PartialSums
<1>4. n \in Nat /\ n # 0 /\ n <= Len(s)
  BY <1>2, <1>3
<1>5. PICK f : PartialSums(s, f, n - 1)
  <2>1. n - 1 \in Nat /\ n - 1 <= Len(s) /\ ~(n <= n - 1)
    BY <1>0, <1>4
  <2>2. n - 1 \notin B
    BY <1>2, <2>1
  <2>3. QED  BY <2>1, <2>2
<1> DEFINE g == [i \in 0..n |-> IF i = n THEN f[n - 1] + s[n] ELSE f[i]]
<1>6. PartialSums(s, g, n)
  <2>1. /\ f \in [0..(n - 1) -> Int] /\ f[0] = 0
        /\ \A i \in 1..(n - 1) : f[i] = f[i - 1] + s[i]
    BY <1>5 DEF PartialSums
  <2>2. n - 1 \in 0..(n - 1) /\ f[n - 1] \in Int /\ s[n] \in Int
    BY <1>0, <1>4, <2>1
  <2>3. g \in [0..n -> Int] /\ g[0] = 0
    BY <1>4, <2>1, <2>2
  <2>4. ASSUME NEW i \in 1..n PROVE g[i] = g[i - 1] + s[i]
    <3>1. i - 1 \in 0..(n - 1) /\ g[i - 1] = f[i - 1]
      BY <1>4
    <3>2. CASE i = n
      BY <1>4, <3>1, <3>2
    <3>3. CASE i # n
      <4>1. i \in 1..(n - 1) /\ g[i] = f[i]
        BY <1>4, <3>3
      <4>2. QED  BY <2>1, <3>1, <4>1
    <3>4. QED  BY <3>2, <3>3
  <2> HIDE DEF g
  <2>5. QED  BY <2>3, <2>4 DEF PartialSums
<1>7. QED  BY <1>2, <1>6

\* The sum of the rates is the last of the partial sums.
LEMMA SumIs ==
    ASSUME NEW s \in Seq(Int), NEW f, PartialSums(s, f, Len(s))
    PROVE  Sum(s) = f[Len(s)] /\ Sum(s) \in Int
<1> DEFINE Next1(h) == [i \in 0..Len(s) |-> IF i = 0 THEN 0 ELSE h[i - 1] + s[i]]
           u == CHOOSE h : h = Next1(h)
<1>0. Len(s) \in Nat /\ \A i \in 1..Len(s) : s[i] \in Int
  OBVIOUS
<1>1. Sum(s) = u[Len(s)]
  BY DEF Sum
<1>2. f = Next1(f)
  <2>1. f = [i \in 0..Len(s) |-> f[i]]
    BY DEF PartialSums
  <2>2. \A i \in 0..Len(s) : f[i] = IF i = 0 THEN 0 ELSE f[i - 1] + s[i]
    BY <1>0 DEF PartialSums
  <2>3. QED  BY <2>1, <2>2
<1>3. u = Next1(u)
  <2> HIDE DEF Next1
  <2>1. QED  BY <1>2
<1> HIDE DEF u
<1>4. u[0] = 0 /\ (\A i \in 1..Len(s) : u[i] = u[i - 1] + s[i]) /\ DOMAIN u = 0..Len(s)
      /\ u = [i \in 0..Len(s) |-> u[i]]
  <2>1. DOMAIN u = 0..Len(s)
    BY <1>3
  <2>2. \A i \in 0..Len(s) : u[i] = IF i = 0 THEN 0 ELSE u[i - 1] + s[i]
    BY <1>3
  <2>3. u = [i \in 0..Len(s) |-> u[i]]
    BY <1>3
  <2>4. QED  BY <1>0, <2>1, <2>2, <2>3
<1> DEFINE B == {n \in Nat : n <= Len(s) /\ u[n] # f[n]}
<1>5. B = {}
  <2>1. SUFFICES ASSUME B # {} PROVE FALSE
    OBVIOUS
  <2>2. PICK n \in B : \A m \in B : n <= m
    BY <2>1, LeastNumber
  <2>3. n \in 1..Len(s)
    BY <1>0, <1>4, <2>2 DEF PartialSums
  <2>4. u[n - 1] = f[n - 1]
    <3>1. n - 1 \in Nat /\ n - 1 <= Len(s) /\ ~(n <= n - 1)
      BY <1>0, <2>3
    <3>2. n - 1 \notin B
      BY <2>2, <3>1
    <3>3. QED  BY <3>1, <3>2
  <2>5. u[n] = f[n]
    BY <1>4, <2>3, <2>4 DEF PartialSums
  <2>6. QED  BY <2>2, <2>5
<1>6. u[Len(s)] = f[Len(s)] /\ f[Len(s)] \in Int
  BY <1>0, <1>5 DEF PartialSums
<1>7. QED  BY <1>1, <1>6

\* What a rate in front adds to the sum.
LEMMA SumOfPushed ==
    ASSUME NEW x \in Int, NEW s \in Seq(Int)
    PROVE  Sum(<<x>> \o s) = x + Sum(s)
<1> DEFINE v == <<x>> \o s
<1>1. PICK f : PartialSums(s, f, Len(s))
  BY PartialSumsExist
<1>2. /\ Len(s) \in Nat /\ v \in Seq(Int) /\ Len(v) = Len(s) + 1
      /\ v[1] = x /\ \A i \in 2..Len(v) : v[i] = s[i - 1]
  OBVIOUS
<1>3. /\ f \in [0..Len(s) -> Int] /\ f[0] = 0
      /\ \A i \in 1..Len(s) : f[i] = f[i - 1] + s[i]
  BY <1>1 DEF PartialSums
<1> HIDE DEF v
<1> DEFINE g == [i \in 0..Len(v) |-> IF i = 0 THEN 0 ELSE x + f[i - 1]]
<1>4. g \in [0..Len(v) -> Int] /\ g[0] = 0 /\ g[Len(v)] = x + f[Len(s)]
  <2>1. \A i \in 0..Len(v) : i # 0 => i - 1 \in 0..Len(s)
    BY <1>2
  <2>2. ASSUME NEW i \in 0..Len(v) PROVE (IF i = 0 THEN 0 ELSE x + f[i - 1]) \in Int
    <3>1. CASE i = 0
      BY <3>1
    <3>2. CASE i # 0
      <4>1. f[i - 1] \in Int
        BY <1>3, <2>1, <3>2
      <4>2. QED  BY <3>2, <4>1
    <3>3. QED  BY <3>1, <3>2
  <2>3. 0 \in 0..Len(v) /\ Len(v) \in 0..Len(v) /\ Len(v) # 0 /\ Len(v) - 1 = Len(s)
    BY <1>2
  <2>4. QED  BY <2>2, <2>3
<1>5. ASSUME NEW i \in 1..Len(v) PROVE g[i] = g[i - 1] + v[i]
  <2>1. i \in 0..Len(v) /\ i - 1 \in 0..Len(v) /\ i # 0 /\ g[i] = x + f[i - 1]
    BY <1>2
  <2>2. CASE i = 1
    <3>1. f[0] = 0 /\ g[1] = x + f[0]
      BY <1>3, <2>1, <2>2
    <3>2. QED  BY <1>2, <1>4, <2>2, <3>1
  <2>3. CASE i # 1
    <3>1. i - 1 \in 1..Len(s) /\ g[i - 1] = x + f[i - 1 - 1]
      BY <1>2, <2>1, <2>3
    <3>2. f[i - 1] = f[i - 1 - 1] + s[i - 1] /\ v[i] = s[i - 1]
      <4> HIDE DEF g
      <4>1. Len(v) \in Nat /\ i \in 2..Len(v)
        BY <1>2, <2>3
      <4>2. v[i] = s[i - 1]
        BY <1>2, <4>1
      <4>3. f[i - 1] = f[i - 1 - 1] + s[i - 1]
        BY <1>3, <3>1
      <4>4. QED  BY <4>2, <4>3
    <3>3. f[i - 1 - 1] \in Int /\ s[i - 1] \in Int
      <4>1. i - 1 - 1 \in 0..Len(s)
        BY <1>2, <3>1
      <4>2. f[i - 1 - 1] \in Int
        BY <1>3, <4>1
      <4>3. s[i - 1] \in Int
        BY <3>1
      <4>4. QED  BY <4>2, <4>3
    <3>4. QED  BY <2>1, <3>1, <3>2, <3>3
  <2>4. QED  BY <2>2, <2>3
<1>6. PartialSums(v, g, Len(v))
  <2> HIDE DEF g
  <2>1. QED  BY <1>4, <1>5 DEF PartialSums
<1>7. Sum(v) = x + f[Len(s)]
  <2> HIDE DEF g
  <2>1. QED  BY <1>2, <1>4, <1>6, SumIs
<1>8. Sum(s) = f[Len(s)]
  BY <1>1, SumIs
<1>9. QED  BY <1>7, <1>8 DEF v

LEMMA FrontIs ==
    ASSUME NEW s \in Seq(Int), s # <<>>
    PROVE  /\ Front(s) \in Seq(Int) /\ Len(Front(s)) = Len(s) - 1
           /\ \A i \in 1..(Len(s) - 1) : Front(s)[i] = s[i]
           /\ Last(s) = s[Len(s)] /\ Last(s) \in Int
<1>1. Len(s) \in Nat \ {0} /\ \A i \in 1..(Len(s) - 1) : s[i] \in Int
  OBVIOUS
<1>2. Front(s) = SubSeq(s, 1, Len(s) - 1)
  BY DEF Front
<1>3. 1 \in Int /\ Len(s) - 1 \in Int
  BY <1>1
<1>4. /\ SubSeq(s, 1, Len(s) - 1) \in Seq(Int)
      /\ Len(SubSeq(s, 1, Len(s) - 1)) = IF 1 <= Len(s) - 1 THEN (Len(s) - 1) - 1 + 1 ELSE 0
      /\ \A i \in 1..((Len(s) - 1) - 1 + 1) : SubSeq(s, 1, Len(s) - 1)[i] = s[1 + i - 1]
  BY <1>1, <1>3, SubSeqProperties
<1>5. ASSUME NEW i \in 1..(Len(s) - 1) PROVE Front(s)[i] = s[i]
  <2>1. i \in 1..((Len(s) - 1) - 1 + 1) /\ 1 + i - 1 = i
    BY <1>1
  <2>2. QED  BY <1>2, <1>4, <2>1
<1>6. Len(Front(s)) = Len(s) - 1
  <2>1. \A k \in Nat \ {0} : (IF 1 <= k - 1 THEN (k - 1) - 1 + 1 ELSE 0) = k - 1
    OBVIOUS
  <2>2. QED  BY <1>1, <1>2, <1>4, <2>1
<1>7. Last(s) = s[Len(s)] /\ s[Len(s)] \in Int
  <2>1. Len(s) \in 1..Len(s)
    BY <1>1
  <2>2. s[Len(s)] \in Int
    BY <2>1
  <2>3. QED  BY <2>2 DEF Last
<1>8. QED  BY <1>2, <1>4, <1>5, <1>6, <1>7

\* What dropping the oldest rate takes from it.
LEMMA SumOfFront ==
    ASSUME NEW s \in Seq(Int), s # <<>>
    PROVE  Sum(Front(s)) = Sum(s) - Last(s)
<1> DEFINE n == Len(s) - 1
           w == Front(s)
<1>1. PICK f : PartialSums(s, f, Len(s))
  BY PartialSumsExist
<1>2. Len(s) \in Nat /\ n \in Nat /\ Len(s) \in 1..Len(s) /\ \A i \in 1..Len(s) : s[i] \in Int
  OBVIOUS
<1>3. w \in Seq(Int) /\ Len(w) = n /\ \A i \in 1..n : w[i] = s[i]
  BY FrontIs
<1>4. /\ f \in [0..Len(s) -> Int] /\ f[0] = 0
      /\ \A i \in 1..Len(s) : f[i] = f[i - 1] + s[i]
  BY <1>1 DEF PartialSums
<1> DEFINE g == [i \in 0..n |-> f[i]]
<1>5. PartialSums(w, g, n)
  <2>1. ASSUME NEW i \in 0..n PROVE f[i] \in Int
    <3>1. i \in 0..Len(s)
      BY <1>2
    <3>2. QED  BY <1>4, <3>1
  <2>2. g \in [0..n -> Int] /\ g[0] = 0
    BY <1>2, <1>4, <2>1
  <2>3. ASSUME NEW i \in 1..n PROVE g[i] = g[i - 1] + w[i]
    <3>1. i \in 1..Len(s) /\ i \in 0..n /\ i - 1 \in 0..n
      BY <1>2
    <3>2. f[i] = f[i - 1] + s[i] /\ w[i] = s[i]
      BY <1>3, <1>4, <3>1
    <3>3. QED  BY <3>1, <3>2
  <2> HIDE DEF g, n, w
  <2>4. QED  BY <2>2, <2>3 DEF PartialSums
<1>6. Sum(w) = f[n]
  <2>1. g[n] = f[n]
    BY <1>2
  <2> HIDE DEF g, w
  <2>2. QED  BY <1>3, <1>5, <2>1, SumIs
<1>7. Sum(s) = f[Len(s)] /\ f[Len(s)] = f[n] + s[Len(s)]
  BY <1>1, <1>2, <1>4, SumIs
<1>8. f[n] \in Int /\ s[Len(s)] \in Int /\ Last(s) = s[Len(s)]
  BY <1>2, <1>4 DEF Last
<1>9. QED  BY <1>6, <1>7, <1>8

\* A sum of multiples is a multiple.
LEMMA SumOfMultiples ==
    ASSUME NEW s \in Seq(Int), NEW n \in Nat,
           \A i \in 1..Len(s) : \E m \in Int : s[i] = m * n
    PROVE  \E m \in Int : Sum(s) = m * n
<1>1. PICK f : PartialSums(s, f, Len(s))
  BY PartialSumsExist
<1>2. Len(s) \in Nat
  OBVIOUS
<1>3. /\ f \in [0..Len(s) -> Int] /\ f[0] = 0
      /\ \A i \in 1..Len(s) : f[i] = f[i - 1] + s[i]
  BY <1>1 DEF PartialSums
<1> DEFINE B == {k \in Nat : k <= Len(s) /\ ~ \E m \in Int : f[k] = m * n}
<1>4. B = {}
  <2>1. SUFFICES ASSUME B # {} PROVE FALSE
    OBVIOUS
  <2>2. PICK k \in B : \A j \in B : k <= j
    BY <2>1, LeastNumber
  <2>3. k # 0
    <3>1. f[0] = 0 * n /\ 0 \in Int
      BY <1>3
    <3>2. \E m \in Int : f[0] = m * n
      BY <3>1
    <3>3. 0 \notin B
      BY <3>2
    <3>4. QED  BY <2>2, <3>3
  <2>4. k \in 1..Len(s) /\ k - 1 \in Nat /\ k - 1 <= Len(s) /\ ~(k <= k - 1)
    BY <1>2, <2>2, <2>3
  <2>5. PICK p \in Int : f[k - 1] = p * n
    <3>1. k - 1 \notin B
      BY <2>2, <2>4
    <3>2. QED  BY <2>4, <3>1
  <2>6. PICK q \in Int : s[k] = q * n
    BY <2>4
  <2>7. f[k] = (p + q) * n
    <3>1. f[k] = p * n + q * n
      BY <1>3, <2>4, <2>5, <2>6
    <3>2. QED  BY <3>1
  <2>8. p + q \in Int
    OBVIOUS
  <2>9. QED  BY <2>2, <2>7, <2>8
<1>5. Sum(s) = f[Len(s)]
  BY <1>1, SumIs
<1>6. Len(s) \notin B
  BY <1>4
<1>7. \E m \in Int : f[Len(s)] = m * n
  BY <1>2, <1>6
<1>8. QED  BY <1>5, <1>7

\* Scale makes every rate a multiple of every length the average can have.
Fine(v) == v \in Int /\ \A n \in 1..MavSize : \E m \in Int : v = m * n

LEMMA DeltaIsFine ==
    ASSUME NEW k \in Int, NEW dt \in TimeDeltas
    PROVE  Fine(Quotient(k * Scale, dt))
<1>1. PICK g \in Gaps : dt \in {g, -g}
  BY DEF TimeDeltas
<1>2. g \in Nat \ {0} /\ Scale \in Nat \ {0} /\ MavSize \in Nat \ {0}
  BY AlarmAssumption
<1>3. ASSUME NEW n \in 1..MavSize
      PROVE  \E m \in Int : Quotient(k * Scale, dt) = m * n
  <2> DEFINE d == n * g
             q == Scale \div d
  <2>1. n \in Nat \ {0} /\ d \in Nat \ {0} /\ Scale % d = 0
    <3>1. n \in Nat \ {0} /\ n * g \in Nat \ {0}
      BY <1>2
    <3>2. \A h \in Gaps : Scale % (n * h) = 0
      BY AlarmAssumption, Zenon
    <3>3. QED  BY <3>1, <3>2
  <2>2. q \in Int /\ Scale = q * (n * g)
    <3> HIDE DEF d
    <3>1. q \in Int /\ Scale = q * d
      BY <1>2, <2>1
    <3>2. QED  BY <3>1 DEF d
  <2> HIDE DEF q, d
  <2>3. k * q * n \in Int /\ k * Scale = (k * q * n) * g
    <3>1. q * (n * g) = (q * n) * g /\ k * ((q * n) * g) = (k * q * n) * g
      BY <1>2, <2>1, <2>2
    <3>2. QED  BY <2>1, <2>2, <3>1
  <2>4. (k * Scale) \div g = k * q * n
    BY <1>2, <2>3, ExactQuotient
  <2>5. CASE dt = g
    <3>1. Quotient(k * Scale, dt) = (k * q) * n
      BY <1>2, <2>4, <2>5 DEF Quotient
    <3>2. k * q \in Int
      BY <2>2
    <3>3. QED  BY <3>1, <3>2
  <2>6. CASE dt = -g
    <3>1. -dt = g /\ ~(dt > 0)
      BY <1>2, <2>6
    <3>2. Quotient(k * Scale, dt) = -(k * q * n)
      BY <2>4, <3>1 DEF Quotient
    <3>3. -(k * q * n) = (-(k * q)) * n /\ -(k * q) \in Int
      BY <2>1, <2>2
    <3>4. QED  BY <3>2, <3>3
  <2>7. QED  BY <1>1, <2>5, <2>6
<1>4. k * Scale \in Int
  BY <1>2
<1>5. QED  BY <1>3, <1>4, QuotientIsInt DEF Fine

\* The newest rate for the oldest.
LEMMA SumOfExchanged ==
    ASSUME NEW s \in Seq(Int), s # <<>>, NEW x \in Int, NEW v, v = <<x>> \o s
    PROVE  /\ Front(v) \in Seq(Int) /\ Len(Front(v)) = Len(s)
           /\ \A i \in 1..Len(s) : Front(v)[i] = v[i]
           /\ Last(v) = s[Len(s)]
           /\ Sum(Front(v)) = x + Sum(s) - s[Len(s)]
<1>1. /\ v \in Seq(Int) /\ v # <<>> /\ Len(v) = Len(s) + 1 /\ Len(s) \in Nat \ {0}
      /\ v[Len(s) + 1] = s[Len(s)]
  OBVIOUS
<1>2. /\ Front(v) \in Seq(Int) /\ Len(Front(v)) = Len(v) - 1
      /\ \A i \in 1..(Len(v) - 1) : Front(v)[i] = v[i]
      /\ Last(v) = v[Len(v)]
  BY <1>1, FrontIs
<1>3. Len(v) - 1 = Len(s) /\ Last(v) = s[Len(s)]
  BY <1>1, <1>2
<1>4. Sum(v) = x + Sum(s)
  BY SumOfPushed
<1>5. Sum(Front(v)) = Sum(v) - Last(v)
  BY <1>1, SumOfFront
<1>6. Sum(s) \in Int /\ s[Len(s)] \in Int
  <2>1. \E f : PartialSums(s, f, Len(s))
    BY PartialSumsExist
  <2>2. Len(s) \in 1..Len(s)
    BY <1>1
  <2>3. s[Len(s)] \in Int
    BY <2>2
  <2>4. QED  BY <2>1, <2>3, SumIs
<1>7. ASSUME NEW a, NEW b, a = x + Sum(s), b = a - s[Len(s)]
      PROVE  b = x + Sum(s) - s[Len(s)]
  BY <1>6, <1>7
<1>8. Sum(Front(v)) = x + Sum(s) - s[Len(s)]
  BY <1>3, <1>4, <1>5, <1>7, Zenon
<1>9. QED  BY <1>2, <1>3, <1>8

-----------------------------------------------------------------------------
(* The average.                                                            *)

LEMMA TakenRateIsFine ==
    ASSUME ReadingInv, NEW c \in 0..CMax, NEW dt \in TimeDeltas
    PROVE  Fine(DeltaOf(c, dt))
<1> DEFINE k == IF c < data.counter THEN Wrapped(c) ELSE c - data.counter
<1>1. k \in Int
  BY AlarmAssumption DEF ReadingInv, Wrapped, CMax
<1>2. DeltaOf(c, dt) = Quotient(k * Scale, dt)
  BY DEF DeltaOf
<1> HIDE DEF k
<1>3. QED  BY <1>1, <1>2, DeltaIsFine

\* The kept average is the mean of the rates it covers, every rate being a multiple
\* of any number of rates it can be divided by.
Average(d) ==
    /\ d.lastmav \in Int /\ d.prevmav \in Int
    /\ d.mav_vals \in Seq(Int) /\ Len(d.mav_vals) <= MavSize
    /\ \A i \in 1..Len(d.mav_vals) : Fine(d.mav_vals[i])
    /\ d.mav_vals # <<>> => d.lastmav * Len(d.mav_vals) = Sum(d.mav_vals)

AverageInv ==
    /\ Average(data)
    /\ last.kind \in {"none", "first", "skipped", "rate"}

\* The sum of up to mavsize rates is divided exactly.
LEMMA MeanIsExact ==
    ASSUME NEW v \in Seq(Int), Len(v) \in 1..MavSize, \A i \in 1..Len(v) : Fine(v[i])
    PROVE  /\ Sum(v) \div Len(v) \in Int
           /\ (Sum(v) \div Len(v)) * Len(v) = Sum(v)
<1>1. Len(v) \in Nat \ {0}
  BY AlarmAssumption
<1>2. \A i \in 1..Len(v) : \E m \in Int : v[i] = m * Len(v)
  BY DEF Fine
<1>3. PICK m \in Int : Sum(v) = m * Len(v)
  BY <1>1, <1>2, SumOfMultiples
<1>4. Sum(v) \div Len(v) = m
  BY <1>1, <1>3, ExactQuotient
<1>5. QED  BY <1>3, <1>4

\* calculate_datamav, whether it sums the rates or exchanges the oldest for the newest.
LEMMA MeanOfPushed ==
    ASSUME NEW d, Polldata(d), Average(d), NEW delta, Fine(delta), NEW c,
           NEW e, e = [d EXCEPT !.mav_vals = <<delta>> \o @, !.counter = c]
    PROVE  Average(CalculateDatamav(e))
<1> DEFINE s == d.mav_vals
           v == e.mav_vals
           n == Len(s)
           r == CalculateDatamav(e)
<1>1. /\ s \in Seq(Int) /\ delta \in Int /\ n \in Nat /\ n <= MavSize
      /\ \A i \in 1..n : Fine(s[i])
  BY DEF Average, Fine
<1>2. /\ e.lastmav = d.lastmav /\ e.prevmav = d.prevmav /\ v = <<delta>> \o s
      /\ DOMAIN e = {"alarm", "counter", "lastmav", "prevmav", "mav_vals"}
  BY DEF Polldata
<1>3. /\ v \in Seq(Int) /\ Len(v) = n + 1 /\ v # <<>> /\ Head(v) = delta
      /\ v[1] = delta /\ \A i \in 2..(n + 1) : v[i] = s[i - 1]
  BY <1>1, <1>2
<1>4. MavSize \in Nat \ {0} /\ d.lastmav \in Int /\ d.prevmav \in Int
  BY AlarmAssumption DEF Average
<1>5. \A i \in 1..Len(v) : Fine(v[i])
  <2> TAKE i \in 1..Len(v)
  <2>1. CASE i = 1
    BY <1>3, <2>1
  <2>2. CASE i # 1
    <3>1. i \in 2..(n + 1) /\ i - 1 \in 1..n
      BY <1>1, <1>3, <2>2
    <3>2. QED  BY <1>1, <1>3, <3>1
  <2>3. QED  BY <2>1, <2>2
<1>6. r.prevmav \in Int
  BY <1>2, <1>4 DEF CalculateDatamav
<1>7. CASE Full(e)
  <2>1. n = MavSize /\ s # <<>> /\ n \in 1..n
    BY <1>1, <1>3, <1>4, <1>7 DEF Full
  <2>2. /\ r.mav_vals = Front(v)
        /\ r.lastmav = d.lastmav - Last(v) \div MavSize + delta \div MavSize
    BY <1>2, <1>3, <1>7 DEF CalculateDatamav
  <2>3. /\ Front(v) \in Seq(Int) /\ Len(Front(v)) = n
        /\ \A i \in 1..n : Front(v)[i] = v[i]
        /\ Last(v) = s[n]
        /\ Sum(Front(v)) = delta + Sum(s) - s[n]
    <3>1. s \in Seq(Int) /\ s # <<>> /\ delta \in Int /\ v = <<delta>> \o s /\ n = Len(s)
      BY <1>1, <1>2, <2>1
    <3> HIDE DEF s, v, n
    <3>2. QED  BY <3>1, SumOfExchanged
  <2>4. \A i \in 1..n : Fine(Front(v)[i])
    <3> TAKE i \in 1..n
    <3>1. i \in 1..Len(v)
      BY <1>1, <1>3
    <3>2. QED  BY <1>5, <2>3, <3>1
  <2>5. PICK p \in Int : delta = p * MavSize
    <3>1. MavSize \in 1..MavSize
      BY <1>4
    <3>2. QED  BY <3>1 DEF Fine
  <2>6. PICK q \in Int : s[n] = q * MavSize
    <3>1. MavSize \in 1..MavSize /\ Fine(s[n])
      BY <1>1, <1>4, <2>1
    <3>2. QED  BY <3>1 DEF Fine
  <2>7. delta \div MavSize = p /\ s[n] \div MavSize = q
    BY <1>4, <2>5, <2>6, ExactQuotient
  <2>8. r.lastmav = d.lastmav - q + p
    BY <2>2, <2>3, <2>7
  <2>9. d.lastmav * MavSize = Sum(s)
    BY <2>1 DEF Average
  <2>10. r.lastmav \in Int /\ r.lastmav * n = Sum(Front(v))
    <3>1. (d.lastmav - q + p) * MavSize = d.lastmav * MavSize - q * MavSize + p * MavSize
      BY <1>4
    <3>2. d.lastmav - q + p \in Int
      BY <1>4
    <3>3. Sum(s) \in Int
      BY <1>4, <2>9
    <3>4. \A x, y, z \in Int : x - y + z = z + x - y
      OBVIOUS
    <3>5. q * MavSize \in Int /\ p * MavSize \in Int
      BY <1>4
    <3>6. Sum(s) - q * MavSize + p * MavSize = p * MavSize + Sum(s) - q * MavSize
      BY <3>3, <3>4, <3>5
    <3>7. QED  BY <2>1, <2>3, <2>5, <2>6, <2>8, <2>9, <3>1, <3>2, <3>6
  <2> HIDE DEF r, v, n, s
  <2>11. Average(r)
    BY <1>1, <1>4, <1>6, <2>1, <2>2, <2>3, <2>4, <2>10 DEF Average
  <2>12. QED  BY <2>11 DEF r, v
<1>8. CASE ~Full(e)
  <2>1. Len(v) \in 1..MavSize
    BY <1>1, <1>3, <1>4, <1>8 DEF Full
  <2>2. r.mav_vals = v /\ r.lastmav = Sum(v) \div Len(v)
    BY <1>2, <1>8 DEF CalculateDatamav
  <2> HIDE DEF r, v
  <2>3. r.lastmav \in Int /\ r.lastmav * Len(v) = Sum(v)
    BY <1>3, <1>5, <2>1, <2>2, MeanIsExact
  <2>4. Len(v) <= MavSize /\ v \in Seq(Int)
    BY <1>3, <1>4, <2>1
  <2>5. Average(r)
    BY <1>5, <1>6, <2>2, <2>3, <2>4 DEF Average
  <2>6. QED  BY <2>5 DEF r
<1>9. QED  BY <1>7, <1>8

\* check_alarm leaves the average alone or, clearing an alarm, starts another.
LEMMA CheckAlarmKeepsMean ==
    ASSUME NEW d, Polldata(d), Average(d), d.mav_vals # <<>>
    PROVE  Average(CheckAlarm(d).data)
<1>1. ASSUME NEW f, Polldata(f), Average(f), NEW a
      PROVE  Average([f EXCEPT !.alarm = a])
  BY <1>1 DEF Polldata, Average
<1>2. Head(d.mav_vals) \in Int
  BY DEF Polldata
<1>3. Polldata(Forget(d))
  BY DEF Polldata, Forget, Alarms
<1>4. Average(Forget(d))
  <2>1. /\ Forget(d).lastmav \in Int /\ Forget(d).prevmav = 0
        /\ Forget(d).mav_vals = <<>>
    BY <1>2 DEF Polldata, Forget
  <2>2. Len(<<>>) = 0 /\ 0 <= MavSize
    BY AlarmAssumption
  <2>3. QED  BY <2>1, <2>2 DEF Average
<1>5. CASE d.alarm = "none"
  BY <1>1, <1>5 DEF CheckAlarm
<1>6. CASE d.alarm # "none" /\ Cleared(d)
  <2> DEFINE f == Forget(d)
             a == AlarmOf(f, Head(d.mav_vals))
  <2>1. CheckAlarm(d).data = [f EXCEPT !.alarm = a]
    BY <1>6 DEF CheckAlarm
  <2>2. Polldata(f) /\ Average(f)
    BY <1>3, <1>4
  <2> HIDE DEF f, a
  <2>3. QED  BY <1>1, <2>1, <2>2
<1>7. CASE d.alarm # "none" /\ ~Cleared(d)
  BY <1>7 DEF CheckAlarm
<1>8. QED  BY <1>5, <1>6, <1>7

-----------------------------------------------------------------------------
LEMMA FreshAverage == Average(Reset)
<1>1. Len(<<>>) = 0 /\ 0 <= MavSize
  BY AlarmAssumption
<1>2. QED  BY <1>1 DEF Average, Reset

LEMMA InitAverage == Init => AverageInv
BY FreshAverage DEF Init, AverageInv, NoSample

LEMMA NextAverage == AlarmInv /\ AverageInv /\ [Next]_vars => AverageInv'
<1> SUFFICES ASSUME AlarmInv, AverageInv, [Next]_vars PROVE AverageInv'
  OBVIOUS
<1>1. SUFFICES Average(data') /\ last'.kind \in {"none", "first", "skipped", "rate"}
  BY DEF AverageInv, Average
<1>2. Polldata(data) /\ Average(data)
  BY DEF AlarmInv, ReadingInv, AverageInv
<1>3. CASE Poll
  <2>1. PICK traffic \in Traffic, cleared \in BOOLEAN, dt \in TimeDeltas :
            LET c == NewCounter(traffic, cleared)
            IN  SkipReading(c, dt, traffic, cleared) \/ TakeReading(c, dt, traffic, cleared)
    BY <1>3 DEF Poll
  <2> DEFINE c == NewCounter(traffic, cleared)
  <2>2. c \in 0..CMax
    BY CounterStaysInRange DEF AlarmInv
  <2> HIDE DEF c
  <2>3. CASE SkipReading(c, dt, traffic, cleared)
    <3>1. data' = [data EXCEPT !.counter = c]
      BY <2>3 DEF SkipReading
    <3>2. Average([data EXCEPT !.counter = c])
      BY <1>2 DEF Polldata, Average
    <3>3. last'.kind \in {"first", "skipped"}
      BY <2>3 DEF SkipReading, Record
    <3>4. QED  BY <3>1, <3>2, <3>3
  <2>4. CASE TakeReading(c, dt, traffic, cleared)
    <3> DEFINE delta  == DeltaOf(c, dt)
               pushed == [data EXCEPT !.mav_vals = <<delta>> \o @, !.counter = c]
               mean   == CalculateDatamav(pushed)
    <3>1. delta \in Int /\ Fine(delta)
      BY <2>2, DeltaIsInt, TakenRateIsFine DEF AlarmInv
    <3>2. data' = CheckAlarm(mean).data /\ last'.kind = "rate"
      BY <2>4 DEF TakeReading, Record
    <3> HIDE DEF delta
    <3>3. /\ Polldata(pushed) /\ data.mav_vals \in Seq(Int)
          /\ pushed.mav_vals = <<delta>> \o data.mav_vals
      BY <1>2, <3>1 DEF Polldata
    <3>4. Average(mean)
      BY <1>2, <3>1, MeanOfPushed
    <3> HIDE DEF pushed
    <3>5. Polldata(mean) /\ mean.mav_vals # <<>>
      BY <3>1, <3>3, AverageKeepsFront
    <3> HIDE DEF mean
    <3>6. QED  BY <3>2, <3>4, <3>5, CheckAlarmKeepsMean
  <2>5. QED  BY <2>1, <2>3, <2>4 DEF c
<1>4. CASE ReturnDevice
  BY <1>4, FreshAverage DEF ReturnDevice, NoSample
<1>5. CASE UNCHANGED vars
  BY <1>5 DEF vars, AverageInv
<1>6. QED  BY <1>3, <1>4, <1>5 DEF Next

THEOREM AverageInvariant == Spec => []AverageInv
<1>1. QED  BY InitAverage, NextAverage, AlarmInvariant, PTL DEF Spec

\* Every variable keeps its type; the average never covers more than mavsize rates.
THEOREM AlarmTypeCorrect == Spec => []TypeOK
<1>1. AlarmInv /\ AverageInv => TypeOK
  BY DEF AlarmInv, ReadingInv, Polldata, OneNoticePerAlarm, AverageInv, Average, TypeOK
<1>2. QED  BY <1>1, AlarmInvariant, AverageInvariant, PTL

\* The average that calculate_datamav keeps by adding the newest share and taking
\* away the oldest is the mean of the rates it is said to cover.
THEOREM MeanTrue == Spec => []MavIsMean
<1>1. AverageInv => MavIsMean
  BY DEF AverageInv, Average, MavIsMean
<1>2. QED  BY <1>1, AverageInvariant, PTL
==============================================================================
