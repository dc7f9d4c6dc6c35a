-------------------------- MODULE Interfaces_proofs --------------------------
(***************************************************************************)
(* Proofs about module Interfaces, for any finite set of interfaces and    *)
(* any number of polls: the type invariant, that files go missing only by  *)
(* way of an overlap, and that no rate is too high.                        *)
(***************************************************************************)
EXTENDS Interfaces, TLAPS

WellFormed(d) == d \in Records /\ d.marked \subseteq d.ints

\* A time base t is no later than the readings c of the interfaces in S.
Fits(t, S, c) == t = Retry \/ \A k \in S : c[k] = 0 \/ t <= c[k]

\* The time base of each map fits its own readings, and that of the copy fits the
\* readings the main thread has made since, which are the ones it will get.
BaseInv ==
    /\ Fits(map.ticks, map.ints, map.counter)
    /\ Fits(copy.ticks, copy.ints, copy.counter)
    /\ upc # "idle" => Fits(copy.ticks, map.ints, map.counter)
    /\ map.ticks = Retry \/ map.ticks <= now
    /\ copy.ticks = Retry \/ copy.ticks <= now

\* Between updates there is no copy.
CopyInv == upc = "idle" => copy.ints = {}

InterfacesInv == TypeOK /\ BaseInv /\ CopyInv /\ FilesUnlessOverlap /\ RateNeverTooHigh

-----------------------------------------------------------------------------
(* The operators that make one device record of another.                   *)

LEMMA AbsentWellFormed ==
    /\ WellFormed(Absent) /\ WellFormed(Fresh)
    /\ Absent.ints = {} /\ Absent.ticks = 0 /\ Fresh.ints = {} /\ Fresh.ticks = 0
<1>1. [k \in Intfs |-> 0] \in [Intfs -> 0..MaxPolls]
  BY InterfacesAssumption
<1>2. Absent \in Records /\ Absent.marked = {} /\ Absent.ints = {} /\ Absent.ticks = 0
  BY <1>1, InterfacesAssumption DEF Absent, Records, Retry
<1>3. Fresh \in Records /\ Fresh.marked = {} /\ Fresh.ints = {} /\ Fresh.ticks = 0
  BY <1>2 DEF Fresh, Records
<1>4. QED
  BY <1>2, <1>3 DEF WellFormed

LEMMA InitialisedWellFormed ==
    ASSUME NEW d, WellFormed(d), NEW e \in Initialised(d) \cup {Unreached(d)}
    PROVE  /\ WellFormed(e)
           /\ e.ints \subseteq d.ints /\ e.ticks = d.ticks /\ e.counter = d.counter
BY DEF WellFormed, Records, Initialised, Unreached

LEMMA MarkedWellFormed ==
    ASSUME NEW d, WellFormed(d)
    PROVE  /\ WellFormed(AllMarked(d)) /\ WellFormed(WithoutMarked(d)) /\ WellFormed(Unreached(d))
           /\ AllMarked(d).ints = d.ints /\ AllMarked(d).ticks = d.ticks
           /\ AllMarked(d).counter = d.counter
           /\ Unreached(d).ints = d.ints /\ Unreached(d).ticks = d.ticks
           /\ Unreached(d).counter = d.counter
           /\ WithoutMarked(d).ints = d.ints \ d.marked /\ WithoutMarked(d).ticks = d.ticks
           /\ WithoutMarked(d).counter = d.counter
BY DEF WellFormed, Records, AllMarked, Unreached, WithoutMarked

LEMMA ActiveWellFormed ==
    ASSUME NEW d, WellFormed(d), NEW active \in SUBSET Intfs
    PROVE  /\ WellFormed(WithActive(d, active))
           /\ WithActive(d, active).ints = d.ints \cup active
           /\ WithActive(d, active).ticks = d.ticks
           /\ \A t : Fits(t, d.ints, d.counter)
                    => Fits(t, WithActive(d, active).ints, WithActive(d, active).counter)
<1>1. WithActive(d, active).ints = d.ints \cup active
  BY DEF WellFormed, Records, WithActive
<1>2. WithActive(d, active).ticks = d.ticks
  BY DEF WellFormed, Records, WithActive
<1>3. WithActive(d, active).counter
        = [k \in Intfs |-> IF k \in active \ d.ints THEN 0 ELSE d.counter[k]]
  BY DEF WellFormed, Records, WithActive
<1>4. WellFormed(WithActive(d, active))
  <2>1. [k \in Intfs |-> IF k \in active \ d.ints THEN 0 ELSE d.counter[k]]
            \in [Intfs -> 0..MaxPolls]
    BY InterfacesAssumption DEF WellFormed, Records
  <2>2. QED
    BY <2>1 DEF WellFormed, Records, WithActive
<1>5. ASSUME NEW t, Fits(t, d.ints, d.counter)
      PROVE  Fits(t, WithActive(d, active).ints, WithActive(d, active).counter)
  <2>1. d.ints \subseteq Intfs
    BY DEF WellFormed, Records
  <2>2. QED
    BY <1>1, <1>3, <1>5, <2>1 DEF Fits
<1>6. QED
  BY <1>1, <1>2, <1>4, <1>5

-----------------------------------------------------------------------------
(* The invariant.                                                          *)

LEMMA InitInterfaces == Init => InterfacesInv
<1> SUFFICES ASSUME Init PROVE InterfacesInv
  OBVIOUS
<1>1. TypeOK
  <2>1. map \in Records /\ copy \in Records
        /\ map.marked \subseteq map.ints /\ copy.marked \subseteq copy.ints
    BY AbsentWellFormed DEF Init, WellFormed
  <2>2. 0 \in 0..MaxPolls
    BY InterfacesAssumption
  <2>3. QED
    BY <2>1, <2>2 DEF Init, TypeOK
<1>2. BaseInv /\ CopyInv
  BY AbsentWellFormed, InterfacesAssumption DEF Init, BaseInv, CopyInv, Fits
<1>3. FilesUnlessOverlap /\ RateNeverTooHigh
  BY AbsentWellFormed DEF Init, FilesUnlessOverlap, RateNeverTooHigh
<1>4. QED
  BY <1>1, <1>2, <1>3 DEF InterfacesInv

\* The steps that change one record by one of the operators above, or none.
LEMMA RecordSteps ==
    ASSUME InterfacesInv,
           \/ StartUpdate \/ Report \/ UpdaterInit \/ UpdaterInts
           \/ Take \/ TryAgain \/ WorkerInit \/ WorkerMark \/ WorkerInts \/ BackOff
    PROVE  InterfacesInv'
<1> USE DEF InterfacesInv, TypeOK, BaseInv, CopyInv, FilesUnlessOverlap, RateNeverTooHigh,
            history, threads
<1>0. /\ WellFormed(map) /\ WellFormed(copy)
      /\ \A t, S, T, c : Fits(t, S, c) /\ T \subseteq S => Fits(t, T, c)
  BY DEF WellFormed, Fits
<1>1. CASE StartUpdate
  BY <1>1 DEF StartUpdate
<1>2. CASE Report
  <2>1. PICK e \in {Fresh, [copy EXCEPT !.delmark = FALSE], [copy EXCEPT !.delmark = TRUE]} :
            copy' = e
    BY <1>2 DEF Report
  <2>2. WellFormed(e) /\ (e = Fresh \/ (e.ints = copy.ints /\ e.ticks = copy.ticks
                                            /\ e.counter = copy.counter))
    BY <1>0, AbsentWellFormed DEF WellFormed, Records
  <2>3. Fits(0, map.ints, map.counter) /\ Fits(Fresh.ticks, Fresh.ints, Fresh.counter)
    BY <1>0, AbsentWellFormed, InterfacesAssumption DEF Fits, WellFormed, Records
  <2>4. QED
    BY <1>2, <2>1, <2>2, <2>3, AbsentWellFormed, InterfacesAssumption, SMTT(30) DEF Report, WellFormed
<1>3. CASE UpdaterInit
  <2>1. /\ WellFormed(copy') /\ copy'.ints \subseteq copy.ints
        /\ copy'.ticks = copy.ticks /\ copy'.counter = copy.counter
    BY <1>0, <1>3, InitialisedWellFormed DEF UpdaterInit
  <2>2. QED
    BY <1>0, <1>3, <2>1 DEF UpdaterInit, WellFormed
<1>4. CASE UpdaterInts
  <2>1. CASE copy' = AllMarked(Unreached(copy)) /\ UNCHANGED files
    <3>1. /\ WellFormed(copy') /\ copy'.ints = copy.ints
          /\ copy'.ticks = copy.ticks /\ copy'.counter = copy.counter
      BY <1>0, <2>1, MarkedWellFormed
    <3>2. QED
      BY <1>4, <2>1, <3>1 DEF UpdaterInts, WellFormed
  <2>2. ASSUME NEW active \in SUBSET Intfs,
               copy' = WithActive(AllMarked(copy), active), files' = WithFiles(copy, active)
        PROVE  InterfacesInv'
    <3>1. /\ WellFormed(copy') /\ copy'.ints = copy.ints \cup active
          /\ copy'.ticks = copy.ticks
          /\ Fits(copy'.ticks, copy'.ints, copy'.counter)
      <4>1. /\ WellFormed(AllMarked(copy)) /\ AllMarked(copy).ints = copy.ints
            /\ AllMarked(copy).ticks = copy.ticks /\ AllMarked(copy).counter = copy.counter
        BY <1>0, MarkedWellFormed
      <4>2. QED
        BY <4>1, <2>2, ActiveWellFormed
    <3>2. files' \subseteq Intfs /\ files \subseteq files'
          /\ (copy.ints \subseteq files => copy'.ints \subseteq files')
      BY <2>2, <3>1 DEF WithFiles
    <3>3. QED
      BY <1>4, <3>1, <3>2 DEF UpdaterInts, WellFormed
  <2>3. QED
    BY <1>4, <2>1, <2>2 DEF UpdaterInts
<1>5. CASE Take
  <2>1. /\ WellFormed(map') /\ map'.ints = map.ints /\ map'.ticks = 0
        /\ map'.counter = map.counter
    BY <1>0, <1>5, InterfacesAssumption DEF Take, WellFormed, Records, Retry
  <2>2. Fits(0, map.ints, map.counter)
    BY <1>0, InterfacesAssumption DEF Fits, WellFormed, Records
  <2>3. QED
    BY <1>5, <2>1, <2>2, InterfacesAssumption DEF Take, WellFormed
<1>6. CASE TryAgain
  BY <1>6 DEF TryAgain
<1>7. CASE WorkerInit
  <2>1. /\ WellFormed(map') /\ map'.ints \subseteq map.ints
        /\ map'.ticks = map.ticks /\ map'.counter = map.counter
    BY <1>0, <1>7, InitialisedWellFormed DEF WorkerInit
  <2>2. QED
    BY <1>0, <1>7, <2>1 DEF WorkerInit, WellFormed
<1>8. CASE WorkerMark
  <2>1. /\ WellFormed(map') /\ map'.ints = map.ints
        /\ map'.ticks = map.ticks /\ map'.counter = map.counter
    <3>1. /\ WellFormed(Unreached(map)) /\ Unreached(map).ints = map.ints
          /\ Unreached(map).ticks = map.ticks /\ Unreached(map).counter = map.counter
      BY <1>0, MarkedWellFormed
    <3>2. CASE map' = AllMarked(map)
      BY <1>0, <3>2, MarkedWellFormed
    <3>3. CASE map' = AllMarked(Unreached(map))
      BY <3>1, <3>3, MarkedWellFormed
    <3>4. QED
      BY <1>8, <3>2, <3>3 DEF WorkerMark
  <2>2. QED
    BY <1>8, <2>1 DEF WorkerMark, WellFormed
<1>9. CASE WorkerInts
  <2>1. PICK active \in SUBSET Intfs :
            map' = WithActive(map, active) /\ files' = WithFiles(map, active)
    BY <1>9 DEF WorkerInts
  <2>2. /\ WellFormed(map') /\ map'.ints = map.ints \cup active
        /\ map'.ticks = map.ticks
        /\ Fits(map'.ticks, map'.ints, map'.counter)
        /\ upc # "idle" => Fits(copy.ticks, map'.ints, map'.counter)
    BY <1>0, <2>1, ActiveWellFormed
  <2>3. files' \subseteq Intfs /\ files \subseteq files'
        /\ (map.ints \subseteq files => map'.ints \subseteq files')
    BY <2>1, <2>2 DEF WithFiles
  <2>4. QED
    BY <1>9, <2>2, <2>3 DEF WorkerInts, WellFormed
<1>10. CASE BackOff
  <2>1. /\ WellFormed(map') /\ map'.ints = map.ints /\ map'.ticks = Retry
        /\ map'.counter = map.counter
    BY <1>0, <1>10, InterfacesAssumption DEF BackOff, WellFormed, Records, Retry
  <2>2. QED
    BY <1>10, <2>1 DEF BackOff, WellFormed, Fits
<1>11. QED
  BY <1>1, <1>2, <1>3, <1>4, <1>5, <1>6, <1>7, <1>8, <1>9, <1>10

LEMMA PollAnsweredStep == InterfacesInv /\ PollAnswered => InterfacesInv'
<1> SUFFICES ASSUME InterfacesInv, PollAnswered PROVE InterfacesInv'
  OBVIOUS
<1> USE InterfacesAssumption DEF InterfacesInv
<1>1. /\ map \in Records /\ map.marked \subseteq map.ints /\ now \in 0..MaxPolls
      /\ now < MaxPolls /\ now' = now + 1 /\ now' \in 0..MaxPolls
  BY DEF TypeOK, PollAnswered, Polled
<1>2. map'.counter = [k \in Intfs |-> IF k \in map.ints THEN now' ELSE 0]
  BY <1>1 DEF PollAnswered, Records
<1>3. /\ map'.ints = map.ints /\ map'.ticks = now' /\ map'.marked = map.marked
  BY <1>1 DEF PollAnswered, Records
<1>4. map' \in Records
  <2>1. [k \in Intfs |-> IF k \in map.ints THEN now' ELSE 0] \in [Intfs -> 0..MaxPolls]
    BY <1>1
  <2>2. now' \in 0..Retry
    BY <1>1 DEF Retry
  <2>3. QED
    BY <1>1, <2>1, <2>2 DEF PollAnswered, Records
<1>5. base' \subseteq (0..Retry) \X (0..MaxPolls)
  BY <1>1 DEF PollAnswered, Rated, Records
<1>6. TypeOK'
  BY <1>1, <1>3, <1>4, <1>5 DEF TypeOK, PollAnswered, threads
<1>7. RateNeverTooHigh'
  <2>1. \A k \in Rated : map.ticks = Retry \/ map.ticks <= map.counter[k]
    BY DEF Rated, BaseInv, Fits
  <2>2. QED
    BY <2>1 DEF RateNeverTooHigh, PollAnswered
<1>8. BaseInv'
  <2>1. copy.ticks = Retry \/ copy.ticks <= now'
    BY <1>1 DEF BaseInv, TypeOK, Records, Retry
  <2>2. \A k \in map.ints : map'.counter[k] = now'
    BY <1>1, <1>2 DEF Records
  <2>3. Fits(copy.ticks, map'.ints, map'.counter) /\ Fits(now', map'.ints, map'.counter)
    BY <1>1, <1>3, <2>1, <2>2 DEF Fits
  <2>4. QED
    BY <1>1, <1>3, <2>1, <2>3 DEF BaseInv, PollAnswered, threads
<1>9. CopyInv' /\ FilesUnlessOverlap'
  BY <1>3 DEF CopyInv, FilesUnlessOverlap, PollAnswered, threads
<1>10. QED
  BY <1>6, <1>7, <1>8, <1>9

LEMMA PollFailedStep == InterfacesInv /\ PollFailed => InterfacesInv'
<1> SUFFICES ASSUME InterfacesInv, PollFailed PROVE InterfacesInv'
  OBVIOUS
<1> USE InterfacesAssumption DEF InterfacesInv, history
<1>1. /\ WellFormed(map) /\ WellFormed(copy)
      /\ now \in 0..MaxPolls /\ now' = now + 1 /\ now' \in 0..MaxPolls
  BY DEF TypeOK, PollFailed, Polled, WellFormed
<1>2. /\ WellFormed(map') /\ map'.ints = map.ints
      /\ map'.ticks = map.ticks /\ map'.counter = map.counter
  BY <1>1, MarkedWellFormed DEF PollFailed, TypeChanged, WellFormed, Records
<1>3. /\ map.ticks = Retry \/ map.ticks <= now'
      /\ copy.ticks = Retry \/ copy.ticks <= now'
  BY <1>1 DEF BaseInv, WellFormed, Records, Retry
<1>4. TypeOK'
  BY <1>1, <1>2 DEF TypeOK, PollFailed, WellFormed
<1>5. BaseInv'
  BY <1>2, <1>3 DEF BaseInv, PollFailed
<1>6. QED
  BY <1>2, <1>4, <1>5 DEF PollFailed, CopyInv, FilesUnlessOverlap, RateNeverTooHigh

\* What the swap puts in the map: the copy's device with the readings of the map's.
LEMMA CarriedWellFormed ==
    ASSUME TypeOK, BaseInv, upc # "idle"
    PROVE  LET d == [copy EXCEPT !.counter = Carried]
           IN  /\ WellFormed(d) /\ d.ints = copy.ints /\ d.marked = copy.marked
               /\ d.ticks = copy.ticks
               /\ Fits(d.ticks, d.ints, d.counter)
<1> DEFINE d == [copy EXCEPT !.counter = Carried]
<1>1. Carried \in [Intfs -> 0..MaxPolls]
  BY DEF Carried, TypeOK, Records
<1>2. /\ d \in Records /\ d.ints = copy.ints /\ d.marked = copy.marked
      /\ d.ticks = copy.ticks /\ d.counter = Carried
  BY <1>1 DEF TypeOK, Records
<1>3. Fits(copy.ticks, copy.ints, Carried)
  BY DEF BaseInv, Fits, Carried, TypeOK, Records
<1>4. QED
  BY <1>2, <1>3 DEF WellFormed, TypeOK

LEMMA SwapStep == InterfacesInv /\ Swap => InterfacesInv'
<1> SUFFICES ASSUME InterfacesInv, Swap PROVE InterfacesInv'
  OBVIOUS
<1> USE InterfacesAssumption DEF InterfacesInv
<1> DEFINE d    == [copy EXCEPT !.counter = Carried]
           gone == IF copy.delmark THEN copy.ints ELSE copy.marked
<1>1. /\ WellFormed(map) /\ WellFormed(d) /\ d.ints = copy.ints /\ d.marked = copy.marked
      /\ d.ticks = copy.ticks /\ Fits(d.ticks, d.ints, d.counter)
  BY CarriedWellFormed DEF Swap, TypeOK, WellFormed
<1>2. /\ WellFormed(map')
      /\ Fits(map'.ticks, map'.ints, map'.counter)
      /\ map'.ticks = Retry \/ map'.ticks <= now
      /\ overlap \/ map'.ints \subseteq files'
      /\ files' \subseteq Intfs
  <2>1. CASE map' = Absent /\ files' = files \ gone
    BY <2>1, AbsentWellFormed DEF Fits, TypeOK
  <2>2. CASE map' = WithoutMarked(d) /\ gone = copy.marked /\ files' = files \ gone
    <3>1. /\ WellFormed(map') /\ map'.ints = copy.ints \ copy.marked
          /\ map'.ticks = copy.ticks /\ map'.counter = d.counter
      BY <1>1, <2>2, MarkedWellFormed, ZenonT(30)
    <3>2. Fits(map'.ticks, map'.ints, map'.counter)
      BY <1>1, <3>1 DEF Fits
    <3>3. QED
      BY <2>2, <3>1, <3>2 DEF BaseInv, FilesUnlessOverlap, TypeOK
  <2>3. CASE UNCHANGED <<map, files>>
    BY <1>1, <2>3 DEF BaseInv, FilesUnlessOverlap, TypeOK
  <2>4. QED
    BY <2>1, <2>2, <2>3 DEF Swap
<1>3. /\ copy' = Absent /\ upc' = "idle" /\ UNCHANGED <<wpc, now, base, overlap>>
      /\ owner' \in {"none", "poller", "queue"} /\ exit' \in {"no", "rrd"}
  BY DEF Swap, history, Running
<1>4. WellFormed(copy') /\ copy'.ints = {} /\ copy'.ticks = 0
  BY <1>3, AbsentWellFormed
<1>5. TypeOK'
  BY <1>2, <1>3, <1>4 DEF TypeOK, WellFormed
<1>6. BaseInv'
  BY <1>2, <1>3, <1>4 DEF BaseInv, Fits, TypeOK
<1>7. QED
  BY <1>2, <1>3, <1>4, <1>5, <1>6 DEF CopyInv, FilesUnlessOverlap, RateNeverTooHigh

LEMMA ReturnDeviceStep == InterfacesInv /\ ReturnDevice => InterfacesInv'
<1> SUFFICES ASSUME InterfacesInv, ReturnDevice PROVE InterfacesInv'
  OBVIOUS
<1> USE InterfacesAssumption DEF InterfacesInv
<1>1. CASE ~Removable(map.marked)
  BY <1>1 DEF ReturnDevice, TypeOK, BaseInv, CopyInv, FilesUnlessOverlap, RateNeverTooHigh
<1>2. CASE Removable(map.marked)
  <2> DEFINE d == WithoutMarked(map)
  <2>1. WellFormed(map) /\ WellFormed(d) /\ d.ints = map.ints \ map.marked
    BY MarkedWellFormed DEF TypeOK, WellFormed
  <2>2. Absent.counter = [k \in Intfs |-> 0] /\ Absent.counter \in [Intfs -> 0..MaxPolls]
    BY DEF Absent
  <2>3. map' = [d EXCEPT !.ticks = 0, !.counter = Absent.counter]
    BY <1>2 DEF ReturnDevice
  <2>4. /\ WellFormed(map') /\ map'.ints = map.ints \ map.marked /\ map'.ticks = 0
        /\ map'.counter = [k \in Intfs |-> 0]
    <3>1. 0 \in 0..Retry
      BY DEF Retry
    <3>2. d \in Records /\ d.marked \subseteq d.ints
      BY <2>1 DEF WellFormed
    <3>3. /\ map'.ints = d.ints /\ map'.marked = d.marked /\ map'.ticks = 0
          /\ map'.counter = Absent.counter /\ map' \in Records
      BY <2>2, <2>3, <3>1, <3>2 DEF Records
    <3>4. QED
      BY <2>1, <2>2, <3>2, <3>3 DEF WellFormed
  <2>5. \A t : Fits(t, map'.ints, map'.counter)
    BY <2>1, <2>4 DEF Fits, WellFormed, Records
  <2>6. /\ files' = files \ map.marked /\ UNCHANGED <<copy, upc, now, base, exit>>
        /\ owner' = "poller" /\ wpc' = "idle"
        /\ overlap' = (overlap \/ (map.marked # {} /\ upc # "idle"))
    BY <1>2 DEF ReturnDevice
  <2>7. overlap' \in BOOLEAN
    BY <2>6, Zenon DEF TypeOK
  <2>8. TypeOK'
    BY <2>4, <2>6, <2>7 DEF TypeOK, WellFormed
  <2>9. BaseInv'
    <3>1. map'.ticks = 0 /\ now \in Nat /\ now' = now /\ copy' = copy /\ upc' = upc
      BY <2>4, <2>6 DEF TypeOK
    <3>2. map'.ticks <= now'
      BY <3>1
    <3>3. Fits(map'.ticks, map'.ints, map'.counter) /\ Fits(copy.ticks, map'.ints, map'.counter)
      BY <2>5
    <3>4. Fits(copy'.ticks, copy'.ints, copy'.counter) /\ (copy'.ticks = Retry \/ copy'.ticks <= now')
      BY <3>1 DEF BaseInv
    <3>5. QED  BY <3>1, <3>2, <3>3, <3>4 DEF BaseInv
  <2>10. FilesUnlessOverlap'
    BY <2>4, <2>6 DEF FilesUnlessOverlap, CopyInv
  <2>11. QED
    BY <2>6, <2>8, <2>9, <2>10 DEF CopyInv, RateNeverTooHigh
<1>3. QED
  BY <1>1, <1>2

LEMMA RestartStep == InterfacesInv /\ Restart => InterfacesInv'
<1> SUFFICES ASSUME InterfacesInv, Restart PROVE InterfacesInv'
  OBVIOUS
<1>1. WellFormed(map') /\ map'.ints = {} /\ map'.ticks = 0 /\ copy' = map'
  BY AbsentWellFormed DEF Restart
<1>2. TypeOK'
  <2>1. 0 \in 0..MaxPolls
    BY InterfacesAssumption
  <2>2. QED
    BY <1>1, <2>1 DEF Restart, TypeOK, WellFormed, InterfacesInv
<1>3. BaseInv'
  BY <1>1 DEF Restart, BaseInv, Fits
<1>4. QED
  BY <1>1, <1>2, <1>3 DEF Restart, InterfacesInv, CopyInv, FilesUnlessOverlap, RateNeverTooHigh

LEMMA NextInterfaces == InterfacesInv /\ [Next]_vars => InterfacesInv'
<1> SUFFICES ASSUME InterfacesInv, [Next]_vars PROVE InterfacesInv'
  OBVIOUS
<1>1. CASE UNCHANGED vars
  BY <1>1 DEF vars, threads, history, InterfacesInv, TypeOK, BaseInv, CopyInv,
              FilesUnlessOverlap, RateNeverTooHigh
<1>2. QED
  BY <1>1, RecordSteps, PollAnsweredStep, PollFailedStep, SwapStep, ReturnDeviceStep,
     RestartStep DEF Next, Main, Updater, Worker

-----------------------------------------------------------------------------
(* The theorems.                                                           *)

\* The conjunction that every step preserves.
THEOREM InterfacesInvariant == Spec => []InterfacesInv
BY InitInterfaces, NextInterfaces, PTL DEF Spec

\* The maps and the threads keep their types.
THEOREM InterfacesTypeCorrect == Spec => []TypeOK
<1>1. InterfacesInv => TypeOK
  BY DEF InterfacesInv
<1>2. QED
  BY <1>1, InterfacesInvariant, PTL

\* update_ints, transfer_data and return_dev keep every interface's file, through
\* additions, removals, swaps, changes of type and restarts, unless the worker
\* removes one while an update is under way.
THEOREM FilesKept == Spec => []FilesUnlessOverlap
<1>1. InterfacesInv => FilesUnlessOverlap
  BY DEF InterfacesInv
<1>2. QED
  BY <1>1, InterfacesInvariant, PTL

\* However polls, outages and swaps interleave, a rate's time base is no later than
\* the reading it is compared with, unless it is the time of a retry.
THEOREM NoRateTooHigh == Spec => []RateNeverTooHigh
<1>1. InterfacesInv => RateNeverTooHigh
  BY DEF InterfacesInv
<1>2. QED
  BY <1>1, InterfacesInvariant, PTL

=============================================================================
