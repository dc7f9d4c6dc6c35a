---------------------------- MODULE Loopd_proofs ----------------------------
(***************************************************************************)
(* Proofs about module Loopd, for any finite set of devices and any        *)
(* bounds: the type invariant, AlarmJobsDrained, LivePointersResolve and   *)
(* NoDeviceLost.  None of the last three is inductive; what they need is   *)
(* gathered in HandoffInv below, a conjunction of parts, each with a lemma *)
(* of its own for the step.                                                *)
(***************************************************************************)
EXTENDS Loopd, FiniteSetTheorems, TLAPS

\* The type invariant, with the job in hand where the worker has one.
Typed ==
    /\ TypeOK
    /\ wpc \in {"recheck", "judge"} => cur \in Ptr
    /\ wpc = "judge" => cur[2] = "live"

\* Who holds worker_datalock, and how far a shutdown has got.
SyncInv ==
    /\ datalock = "worker" <=> wpc \in {"top", "alarms", "state", "devices"}
    /\ ~running => mpc \in {"join", "swap"}
    /\ wpc = "exited" => ~running
    /\ mpc \in {"stop", "join"} => wpc # "none"
    /\ mpc = "swap" => wpc \in {"none", "exited"}

\* The worker looks at running only with alarm_data drained, and keeps the lock
\* from there to its exit; before the first worker nothing is polled.  The main
\* thread's own queues are empty from add_jobs to the next poll.
DrainInv ==
    /\ mpc \in {"poll", "wake"} => NothingQueued
    /\ wpc \in {"state", "exited"} => alarm_data = <<>>
    /\ wpc = "none" => /\ poller = {} /\ alarm_queue = {} /\ action_queue = {}
                       /\ alarm_data = <<>> /\ return_data = {}

\* Live pointers lead into the map.
ResolveInv ==
    /\ LivePointersResolve
    /\ \A d \in Devices : todo[d] > 0 => polldevs[d] > 0
    /\ wpc = "judge" => /\ Present(cur[1])
                        /\ polldevs[cur[1]] > 0
    /\ wpc \notin {"pass", "judge"} => todo = EmptyBag

\* An enabled device is accounted for without looking at polldevs, from which
\* Prune drops it.
OwnedElsewhere(d) ==
    \/ d \in poller
    \/ Live(d) \in action_queue
    \/ action_data[d] > 0
    \/ Live(d) \in return_data
    \/ todo[d] > 0
    \/ wpc = "judge" /\ cur = Live(d)

TrackInv ==
    /\ NoDeviceLost
    /\ \A d \in Devices : state[d] = "enabled" => OwnedElsewhere(d)
    /\ ~data_updated => Targets(return_data) = {}
    /\ wpc \in {"none", "exited"} => polldevs = EmptyBag

HandoffInv == Typed /\ SyncInv /\ DrainInv /\ ResolveInv /\ TrackInv
-----------------------------------------------------------------------------
\* alarm_queue is finite, so its orders are sequences of its elements.
LEMMA OrdersAreSequences ==
    ASSUME NEW S \in SUBSET Ptr, NEW s \in Orders(S)
    PROVE  s \in Seq(Ptr)
<1>1. IsFiniteSet({"live", "freed"})
  <2>1. IsFiniteSet({"live"})
    BY FS_Singleton
  <2>2. IsFiniteSet({"live"} \cup {"freed"})
    BY <2>1, FS_AddElement
  <2>3. {"live", "freed"} = {"live"} \cup {"freed"}
    OBVIOUS
  <2>4. QED
    BY <2>2, <2>3
<1>2. IsFiniteSet(Ptr)
  BY <1>1, FS_Product, LoopdAssumption DEF Ptr
<1>3. IsFiniteSet(S)
  BY <1>2, FS_Subset
<1>4. Cardinality(S) \in Nat
  BY <1>3, FS_CardinalityType
<1>5. s \in [1..Cardinality(S) -> S]
  BY DEF Orders
<1>6. QED
  BY <1>4, <1>5

LEMMA InitTyped == Init => Typed
<1> SUFFICES ASSUME Init PROVE Typed
  OBVIOUS
<1>1. alarm_data \in Seq(Ptr) /\ cur \in Ptr \cup {NoJob}
  BY DEF Init
<1>2. action_data \in Bag /\ polldevs \in Bag /\ todo \in Bag
  BY DEF Init, Bag, EmptyBag
<1>3. QED
  BY <1>1, <1>2 DEF Init, Typed, TypeOK, HostStates

LEMMA NextTyped == Typed /\ [Next]_vars => Typed'
<1> SUFFICES ASSUME Typed, [Next]_vars PROVE Typed'
  OBVIOUS
<1> USE DEF Typed, TypeOK
<1> USE DEF mapvars, mainvars, datavars, syncvars, retvars, workvars
<1>1. CASE Poll
  <2>1. PICK out \in [poller -> Outcomes] :
          /\ alarm' = [d \in Devices |->
                IF d \in {e \in poller : out[e] \in {"quiet", "high"}}
                THEN out[d] = "high" ELSE alarm[d]]
          /\ state' = [d \in Devices |->
                IF d \in poller \ {e \in poller : out[e] \in {"quiet", "high"}}
                THEN IF out[d] = "changed" THEN "init" ELSE "unreachable"
                ELSE state[d]]
          /\ alarm_queue' = alarm_queue \cup
                {Live(d) : d \in {e \in poller : out[e] = "high" /\ ~alarm[e]}}
          /\ action_queue' = action_queue \cup
                {Live(d) : d \in poller \ {e \in poller : out[e] \in {"quiet", "high"}}}
    BY <1>1 DEF Poll
  <2>2. alarm' \in [Devices -> BOOLEAN]
    BY <2>1
  <2>3. state' \in [Devices -> HostStates]
    BY <2>1 DEF HostStates
  <2>4. alarm_queue' \subseteq Ptr /\ action_queue' \subseteq Ptr
    BY <2>1 DEF Ptr, Live
  <2>5. QED
    BY <1>1, <2>2, <2>3, <2>4 DEF Poll
<1>2. CASE SwapCheck
  <2>1. update_started' \in BOOLEAN
    BY <1>2, Zenon DEF SwapCheck
  <2>2. QED
    BY <1>2, <2>1 DEF SwapCheck
<1>3. CASE StopWorker
  <2>1. sleeping' \in BOOLEAN /\ running' \in BOOLEAN
    BY <1>3, Zenon DEF StopWorker, WakeUp
  <2>2. QED
    BY <1>3, <2>1 DEF StopWorker, WakeUp
<1>4. CASE Join
  BY <1>4 DEF Join
<1>5. CASE Swap
  BY <1>5 DEF Swap, HostStates, Bag, EmptyBag, NoJob, Ptr, Freed, Pollable
<1>6. CASE StartUpdate
  BY <1>6 DEF StartUpdate
<1>7. CASE NoUpdate
  BY <1>7 DEF NoUpdate
<1>8. CASE TakeBack
  <2>1. data_updated' \in BOOLEAN
    BY <1>8, Zenon DEF TakeBack
  <2>2. poller' \subseteq Devices /\ return_data' \subseteq Ptr
    BY <1>8 DEF TakeBack, Targets
  <2>3. QED
    BY <1>8, <2>1, <2>2 DEF TakeBack
<1>9. CASE NoJobs
  BY <1>9 DEF NoJobs
<1>10. CASE AddJobs
  <2>1. alarm_data' \in Seq(Ptr)
    <3>1. CASE alarm_data' = alarm_data
      BY <3>1
    <3>2. CASE \E s \in Orders(alarm_queue) : alarm_data' = alarm_data \o s
      BY <3>2, OrdersAreSequences, SMTT(30)
    <3>3. QED
      BY <1>10, <3>1, <3>2 DEF AddJobs
  <2>2. action_data' \in Bag
    <3>1. CASE action_data' = action_data
      BY <3>1
    <3>2. CASE action_data' = [d \in Devices |->
                    action_data[d] + IF Live(d) \in action_queue THEN 1 ELSE 0]
      BY <3>2 DEF Bag
    <3>3. QED
      BY <1>10, <3>1, <3>2 DEF AddJobs
  <2>3. QED
    BY <1>10, <2>1, <2>2 DEF AddJobs
<1>11. CASE WakeWorker
  <2>1. sleeping' \in BOOLEAN
    BY <1>11, Zenon DEF WakeWorker, WakeUp
  <2>2. QED
    BY <1>11, <2>1 DEF WakeWorker, WakeUp
<1>12. CASE FinishUpdate
  <2>1. updating' \in BOOLEAN
    BY <1>12, Zenon DEF FinishUpdate
  <2>2. QED
    BY <1>12, <2>1 DEF FinishUpdate
<1>13. CASE Lock
  BY <1>13 DEF Lock
<1>14. CASE Top
  BY <1>14 DEF Top
<1>15. CASE Sleep
  BY <1>15 DEF Sleep
<1>16. CASE Awake
  BY <1>16 DEF Awake
<1>17. CASE Relock
  BY <1>17 DEF Relock
<1>18. CASE PopAlarm
  <2>1. Len(alarm_data) \in Nat /\ Len(alarm_data) > 0
    BY <1>18 DEF PopAlarm
  <2>2. cur' \in Ptr
    BY <1>18, <2>1 DEF PopAlarm
  <2>3. alarm_data' \in Seq(Ptr)
    BY <1>18, <2>1 DEF PopAlarm
  <2>4. QED
    BY <1>18, <2>2, <2>3 DEF PopAlarm
<1>19. CASE AlarmsDone
  BY <1>19 DEF AlarmsDone
<1>20. CASE Recheck
  BY <1>20 DEF Recheck, NoJob, Ptr
<1>21. CASE CheckRunning
  BY <1>21 DEF CheckRunning, Bag, EmptyBag
<1>22. CASE TakeDevices
  BY <1>22 DEF TakeDevices, Bag, EmptyBag
<1>23. ASSUME NEW d \in Devices, TryDevice(d) PROVE Typed'
  <2>1. state' \in [Devices -> HostStates]
    BY <1>23 DEF TryDevice, HostStates
  <2>2. todo' \in Bag
    BY <1>23 DEF TryDevice, Due, Bag
  <2>3. cur' \in Ptr /\ cur'[2] = "live"
    BY <1>23 DEF TryDevice, Ptr, Live
  <2>4. QED
    BY <1>23, <2>1, <2>2, <2>3 DEF TryDevice
<1>24. CASE JudgeDevice
  <2>1. cur \in Ptr
    BY <1>24 DEF JudgeDevice
  <2>2. alarm' \in [Devices -> BOOLEAN]
    BY <1>24 DEF JudgeDevice
  <2>3. data_updated' \in BOOLEAN
    BY <1>24, Zenon DEF JudgeDevice
  <2>4. return_data' \subseteq Ptr
    BY <1>24, <2>1 DEF JudgeDevice
  <2>5. QED
    BY <1>24, <2>2, <2>3, <2>4 DEF JudgeDevice
<1>25. CASE Prune
  BY <1>25 DEF Prune, Bag
<1>26. CASE Fatal
  BY <1>26 DEF Fatal
<1>27. CASE UNCHANGED vars
  BY <1>27 DEF vars
<1>28. QED
  BY <1>1, <1>2, <1>3, <1>4, <1>5, <1>6, <1>7, <1>8, <1>9, <1>10, <1>11, <1>12, <1>13,
     <1>14, <1>15, <1>16, <1>17, <1>18, <1>19, <1>20, <1>21, <1>22, <1>23, <1>24, <1>25,
     <1>26, <1>27 DEF Next, Main, Worker

-----------------------------------------------------------------------------
(* The lock and the shutdown.                                              *)

LEMMA NextSync == Typed /\ SyncInv /\ [Next]_vars => SyncInv'
<1> SUFFICES ASSUME Typed, SyncInv, [Next]_vars PROVE SyncInv'
  OBVIOUS
<1> USE DEF SyncInv, mapvars, mainvars, datavars, syncvars, retvars, workvars
<1>1. CASE Main
  <2>1. CASE Poll \/ SwapCheck \/ StopWorker \/ Join
    BY <2>1 DEF Poll, SwapCheck, StopWorker, Join
  <2>2. CASE Swap \/ StartUpdate \/ NoUpdate
    BY <2>2 DEF Swap, StartUpdate, NoUpdate
  <2>3. CASE TakeBack \/ NoJobs \/ AddJobs \/ WakeWorker
    BY <2>3 DEF TakeBack, NoJobs, AddJobs, WakeWorker
  <2>4. QED
    BY <1>1, <2>1, <2>2, <2>3 DEF Main
<1>2. CASE Worker
  <2>1. CASE Lock \/ Top \/ Sleep \/ Awake \/ Relock
    BY <2>1 DEF Lock, Top, Sleep, Awake, Relock
  <2>2. CASE PopAlarm \/ AlarmsDone \/ Recheck \/ CheckRunning
    BY <2>2 DEF PopAlarm, AlarmsDone, Recheck, CheckRunning
  <2>3. CASE TakeDevices \/ (\E d \in Devices : TryDevice(d)) \/ JudgeDevice \/ Prune
    BY <2>3 DEF TakeDevices, TryDevice, JudgeDevice, Prune
  <2>4. QED
    BY <1>2, <2>1, <2>2, <2>3 DEF Worker
<1>3. CASE FinishUpdate \/ Fatal \/ UNCHANGED vars
  BY <1>3 DEF FinishUpdate, Fatal, vars
<1>4. QED
  BY <1>1, <1>2, <1>3 DEF Next

(* The alarm queue.  Only AddJobs lengthens alarm_data: it needs the lock, *)
(* which the worker holds in "state", and a main thread that is not waiting*)
(* for the worker, which it is once the worker has exited.                 *)

LEMMA NextDrain == Typed /\ SyncInv /\ DrainInv /\ [Next]_vars => DrainInv'
<1> SUFFICES ASSUME Typed, SyncInv, DrainInv, [Next]_vars PROVE DrainInv'
  OBVIOUS
<1> USE DEF SyncInv, DrainInv, NothingQueued, mapvars, mainvars, datavars, syncvars, retvars, workvars
<1>1. CASE Main
  <2>1. CASE Poll
    <3>1. wpc = "none" => alarm_queue' = {} /\ action_queue' = {}
      BY <2>1 DEF Poll
    <3>2. QED
      BY <2>1, <3>1 DEF Poll
  <2>2. CASE SwapCheck \/ StopWorker \/ Join
    BY <2>2 DEF SwapCheck, StopWorker, Join
  <2>3. CASE Swap \/ StartUpdate \/ NoUpdate
    BY <2>3 DEF Swap, StartUpdate, NoUpdate
  <2>4. CASE TakeBack
    BY <2>4 DEF TakeBack, Targets
  <2>5. CASE AddJobs
    <3>1. wpc # "none"
      BY <2>5 DEF AddJobs, NothingQueued
    <3>2. wpc \notin {"state", "exited"}
      BY <2>5 DEF AddJobs
    <3>3. QED
      BY <2>5, <3>1, <3>2 DEF AddJobs
  <2>6. CASE NoJobs \/ WakeWorker
    BY <2>6 DEF NoJobs, WakeWorker
  <2>7. QED
    BY <1>1, <2>1, <2>2, <2>3, <2>4, <2>5, <2>6 DEF Main
<1>2. CASE Worker
  <2>1. CASE Lock \/ Top \/ Sleep \/ Awake \/ Relock
    BY <2>1 DEF Lock, Top, Sleep, Awake, Relock
  <2>2. CASE PopAlarm \/ AlarmsDone \/ Recheck \/ CheckRunning
    BY <2>2 DEF PopAlarm, AlarmsDone, AlarmsDrained, Recheck, CheckRunning
  <2>3. CASE TakeDevices \/ (\E d \in Devices : TryDevice(d)) \/ JudgeDevice \/ Prune
    BY <2>3 DEF TakeDevices, TryDevice, JudgeDevice, Prune
  <2>4. QED
    BY <1>2, <2>1, <2>2, <2>3 DEF Worker
<1>3. CASE FinishUpdate \/ Fatal \/ UNCHANGED vars
  BY <1>3 DEF FinishUpdate, Fatal, vars
<1>4. QED
  BY <1>1, <1>2, <1>3 DEF Next

-----------------------------------------------------------------------------
(* Live pointers.  Devices leave the map in Swap only, which frees every   *)
(* pointer it does not rebuild; alarm_data is empty then.                  *)

\* A device that is freed is no longer a live target.
LEMMA FreedIsNotLive ==
    ASSUME NEW Q, NEW d \in Devices
    PROVE  Live(d) \notin {Freed(p) : p \in Q}
BY DEF Live, Freed

LEMMA NextResolve ==
    Typed /\ SyncInv /\ DrainInv /\ ResolveInv /\ [Next]_vars => ResolveInv'
<1> SUFFICES ASSUME Typed, SyncInv, DrainInv, ResolveInv, [Next]_vars PROVE ResolveInv'
  OBVIOUS
<1> USE DEF mapvars, mainvars, datavars, syncvars, retvars, workvars
<1>1. CASE Poll
  <2>1. \A d \in Devices : Present(d) => Present(d)'
    BY <1>1 DEF Poll, Present
  <2>2. \A d \in Devices : Live(d) \in alarm_queue' \/ Live(d) \in action_queue'
                => Tracked(d) \/ Live(d) \in alarm_queue
    BY <1>1 DEF Poll, Live, Tracked
  <2>3. LivePointersResolve'
    BY <1>1, <2>1, <2>2 DEF Poll, ResolveInv, LivePointersResolve, Tracked
  <2>4. wpc = "judge" => cur[1] \in Devices
    BY DEF Typed, Ptr
  <2>5. QED
    BY <1>1, <2>1, <2>3, <2>4 DEF Poll, ResolveInv
<1>2. CASE SwapCheck \/ StopWorker \/ Join \/ StartUpdate \/ NoUpdate \/ NoJobs \/ WakeWorker
  BY <1>2 DEF SwapCheck, StopWorker, Join, StartUpdate, NoUpdate, NoJobs, WakeWorker,
              ResolveInv, LivePointersResolve, Tracked, Present
<1>3. CASE Swap
  <2>1. alarm_data' = <<>>
    BY <1>3 DEF Swap, SyncInv, DrainInv
  <2>2. \A d \in Devices : d \in poller' \/ action_data'[d] > 0 => Present(d)'
    BY <1>3 DEF Swap, Pollable, NeedsWork, Present
  <2>3. \A d \in Devices : polldevs'[d] = 0 /\ todo' = EmptyBag
    BY <1>3 DEF Swap, EmptyBag
  <2>4. \A d \in Devices : /\ Live(d) \notin alarm_queue'
                           /\ Live(d) \notin action_queue'
                           /\ Live(d) \notin return_data'
    BY <1>3, FreedIsNotLive DEF Swap
  <2>5. LivePointersResolve'
    BY <2>1, <2>2, <2>3, <2>4 DEF LivePointersResolve, Tracked
  <2>6. QED
    BY <1>3, <2>3, <2>5 DEF Swap, ResolveInv, EmptyBag
<1>4. CASE TakeBack
  <2>1. \A d \in Devices : Tracked(d)' => Tracked(d)
    BY <1>4 DEF TakeBack, Tracked, Targets
  <2>2. QED
    BY <1>4, <2>1 DEF TakeBack, ResolveInv, LivePointersResolve, Present
<1>5. CASE AddJobs
  <2>1. CASE exit' = "dangling"
    BY <1>5, <2>1 DEF AddJobs, Running, ResolveInv, LivePointersResolve, Tracked, Present
  <2>2. CASE \E s \in Orders(alarm_queue) : alarm_data' = alarm_data \o s
    <3>1. PICK s \in Orders(alarm_queue) : alarm_data' = alarm_data \o s
      BY <2>2
    <3>2. s \in Seq(Ptr) /\ \A i \in DOMAIN s : s[i] \in alarm_queue
      BY OrdersAreSequences DEF Orders, Typed, TypeOK
    <3>3. \A d \in Devices : (\E i \in DOMAIN alarm_data' : alarm_data'[i] = Live(d))
                => (\E i \in DOMAIN alarm_data : alarm_data[i] = Live(d))
                        \/ Live(d) \in alarm_queue
      BY <3>1, <3>2 DEF Typed, TypeOK
    <3>4. \A d \in Devices : Tracked(d)' => Tracked(d)
      BY <1>5 DEF AddJobs, Tracked, Typed, TypeOK, Bag
    <3>5. \A d \in Devices : Live(d) \in alarm_queue' => Live(d) \in alarm_queue
      BY <1>5 DEF AddJobs
    <3>6. LivePointersResolve'
      BY <1>5, <3>3, <3>4, <3>5 DEF AddJobs, ResolveInv, LivePointersResolve, Present
    <3>7. QED
      BY <1>5, <3>6 DEF AddJobs, ResolveInv, Present
  <2>3. QED
    BY <1>5, <2>1, <2>2 DEF AddJobs
<1>6. CASE FinishUpdate \/ Fatal \/ UNCHANGED vars
  BY <1>6 DEF FinishUpdate, Fatal, vars, ResolveInv, LivePointersResolve, Tracked, Present
<1>7. CASE Lock \/ Top \/ Sleep \/ Awake \/ Relock \/ AlarmsDone
  BY <1>7 DEF Lock, Top, Sleep, Awake, Relock, AlarmsDone,
              ResolveInv, LivePointersResolve, Tracked, Present
<1>8. CASE PopAlarm
  <2>1. \A d \in Devices : (\E i \in DOMAIN alarm_data' : alarm_data'[i] = Live(d))
                => \E i \in DOMAIN alarm_data : alarm_data[i] = Live(d)
    BY <1>8 DEF PopAlarm, Typed, TypeOK
  <2>2. QED
    BY <1>8, <2>1 DEF PopAlarm, ResolveInv, LivePointersResolve, Tracked, Present
<1>9. CASE Recheck
  BY <1>9 DEF Recheck, ResolveInv, LivePointersResolve, Tracked, Present
<1>10. CASE CheckRunning
  BY <1>10 DEF CheckRunning, ResolveInv, LivePointersResolve, Tracked, Present, EmptyBag
<1>11. CASE TakeDevices
  <2>1. \A d \in Devices : Tracked(d)' => Tracked(d)
    BY <1>11 DEF TakeDevices, Tracked, Typed, TypeOK, Bag, EmptyBag
  <2>2. \A d \in Devices : todo'[d] > 0 => polldevs'[d] > 0
    BY <1>11 DEF TakeDevices
  <2>3. QED
    BY <1>11, <2>1, <2>2 DEF TakeDevices, ResolveInv, LivePointersResolve, Present
<1>12. ASSUME NEW d \in Devices, TryDevice(d) PROVE ResolveInv'
  <2>1. polldevs[d] > 0 /\ Present(d)
    BY <1>12 DEF TryDevice, Due, ResolveInv, LivePointersResolve, Tracked
  <2>2. \A e \in Devices : Present(e) => Present(e)'
    BY <1>12, <2>1 DEF TryDevice, Present, Typed, TypeOK
  <2>3. cur'[1] = d
    BY <1>12 DEF TryDevice, Live
  <2>4. \A e \in Devices : todo'[e] > 0 => polldevs'[e] > 0
    BY <1>12 DEF TryDevice, ResolveInv, Typed, TypeOK, Bag
  <2>5. QED
    BY <1>12, <2>1, <2>2, <2>3, <2>4 DEF TryDevice, ResolveInv, LivePointersResolve, Tracked
<1>13. CASE JudgeDevice
  <2>1. cur = Live(cur[1]) /\ cur[1] \in Devices
    BY <1>13 DEF JudgeDevice, Typed, Ptr, Live
  <2>2. \A d \in Devices : Live(d) \in return_data' => Live(d) \in return_data \/ d = cur[1]
    BY <1>13, <2>1 DEF JudgeDevice, Live
  <2>3. QED
    BY <1>13, <2>1, <2>2
       DEF JudgeDevice, ResolveInv, LivePointersResolve, Tracked, Present
<1>14. CASE Prune
  BY <1>14 DEF Prune, ResolveInv, LivePointersResolve, Tracked, Present, EmptyBag,
               Typed, TypeOK
<1>15. QED
  BY <1>1, <1>2, <1>3, <1>4, <1>5, <1>6, <1>7, <1>8, <1>9, <1>10, <1>11, <1>12, <1>13,
     <1>14 DEF Next, Main, Worker

-----------------------------------------------------------------------------
(* No device is lost.  The delicate step is Prune, which drops enabled     *)
(* devices from polldevs: OwnedElsewhere says they have another owner.     *)

\* Whoever owns a device elsewhere tracks it.
LEMMA OwnedIsTracked ==
    ASSUME Typed, ResolveInv, NEW d \in Devices, OwnedElsewhere(d)
    PROVE  Tracked(d)
<1>1. wpc = "judge" /\ cur = Live(d) => polldevs[d] > 0
  BY DEF ResolveInv, Live
<1>2. QED
  BY <1>1 DEF OwnedElsewhere, Tracked, ResolveInv

LEMMA NextTrack ==
    Typed /\ SyncInv /\ DrainInv /\ ResolveInv /\ TrackInv /\ [Next]_vars => TrackInv'
<1> SUFFICES ASSUME Typed, SyncInv, DrainInv, ResolveInv, TrackInv, [Next]_vars
             PROVE  TrackInv'
  OBVIOUS
<1> USE DEF mapvars, mainvars, datavars, syncvars, retvars, workvars
<1> DEFINE Same == UNCHANGED <<state, poller, action_queue, action_data, polldevs, todo,
                               data_updated, return_data>>
\* Steps that touch neither devices nor their owners.
<1>0. ASSUME Same,
             wpc = "judge" => wpc' = "judge" /\ cur' = cur,
             wpc = "exited" => wpc' = "exited",
             wpc' \in {"none", "exited"} => wpc \in {"none", "exited"}
      PROVE  TrackInv'
  BY <1>0 DEF TrackInv, NoDeviceLost, Tracked, OwnedElsewhere, Present, Targets
<1>1. CASE Poll
  <2>1. \A d \in Devices : Tracked(d) => Tracked(d)'
    BY <1>1 DEF Poll, Tracked
  <2>2. \A d \in Devices : OwnedElsewhere(d) => OwnedElsewhere(d)'
    BY <1>1 DEF Poll, OwnedElsewhere
  <2>3. \A d \in Devices : /\ Present(d)' => Present(d) \/ d \in poller
                           /\ state'[d] = "enabled" => state[d] = "enabled"
    BY <1>1 DEF Poll, Present
  <2>4. \A d \in Devices : d \in poller => Tracked(d)
    BY DEF Tracked
  <2>5. QED
    BY <1>1, <2>1, <2>2, <2>3, <2>4 DEF Poll, TrackInv, NoDeviceLost, Targets
<1>2. CASE SwapCheck \/ StopWorker \/ Join \/ StartUpdate \/ NoUpdate \/ NoJobs \/ WakeWorker
  <2>1. Same /\ UNCHANGED <<wpc, cur>>
    BY <1>2 DEF SwapCheck, StopWorker, Join, StartUpdate, NoUpdate, NoJobs, WakeWorker
  <2>2. QED
    BY <1>0, <2>1
<1>3. CASE Swap
  <2>1. \A d \in Devices : Present(d)' => d \in poller' \/ action_data'[d] > 0
    BY <1>3 DEF Swap, Present, Pollable, NeedsWork
  <2>2. Targets(return_data)' = {}
    BY <1>3, FreedIsNotLive DEF Swap, Targets
  <2>3. wpc' = "start"
    BY <1>3 DEF Swap
  <2>4. \A d \in Devices : state'[d] = "enabled" => d \in poller'
    BY <1>3 DEF Swap, Pollable
  <2>5. QED
    BY <2>1, <2>2, <2>3, <2>4 DEF TrackInv, NoDeviceLost, Tracked, OwnedElsewhere
<1>4. CASE TakeBack
  <2>1. \A d \in Devices : Live(d) \in return_data => Live(d) \in return_data' \/ d \in poller'
    BY <1>4 DEF TakeBack, Targets
  <2>2. \A d \in Devices : /\ Tracked(d) => Tracked(d)'
                           /\ OwnedElsewhere(d) => OwnedElsewhere(d)'
    BY <1>4, <2>1 DEF TakeBack, Tracked, OwnedElsewhere
  <2>3. ~data_updated' => Targets(return_data') = {}
    BY <1>4 DEF TakeBack, TrackInv, Targets
  <2>4. QED
    BY <1>4, <2>2, <2>3 DEF TakeBack, TrackInv, NoDeviceLost, Present, Targets
<1>5. CASE AddJobs
  <2>1. CASE exit' = "dangling"
    <3>1. Same /\ UNCHANGED <<wpc, cur>>
      BY <1>5, <2>1 DEF AddJobs, Running
    <3>2. QED
      BY <1>0, <3>1
  <2>2. CASE exit' # "dangling"
    <3>1. \A d \in Devices : Live(d) \in action_queue => action_data'[d] > 0
      BY <1>5, <2>2 DEF AddJobs, Typed, TypeOK, Bag
    <3>2. \A d \in Devices : action_data[d] > 0 => action_data'[d] > 0
      BY <1>5, <2>2 DEF AddJobs, Typed, TypeOK, Bag
    <3>3. \A d \in Devices : d \in poller => d \in poller' \/ Live(d) \in action_queue
      BY <1>5, <2>2 DEF AddJobs, Targets
    <3>4. \A d \in Devices : /\ Tracked(d) => Tracked(d)'
                             /\ OwnedElsewhere(d) => OwnedElsewhere(d)'
      BY <1>5, <3>1, <3>2, <3>3 DEF AddJobs, Tracked, OwnedElsewhere
    <3>5. QED
      BY <1>5, <3>4 DEF AddJobs, TrackInv, NoDeviceLost, Present, Targets
  <2>3. QED
    BY <2>1, <2>2
<1>6. CASE FinishUpdate \/ Fatal \/ UNCHANGED vars
  <2>1. Same /\ UNCHANGED <<wpc, cur>>
    BY <1>6 DEF FinishUpdate, Fatal, vars
  <2>2. QED
    BY <1>0, <2>1
<1>7. CASE Lock \/ Top \/ Sleep \/ Awake \/ Relock \/ PopAlarm \/ AlarmsDone \/ Recheck
  <2>1. Same /\ wpc \notin {"judge", "exited"} /\ wpc' \notin {"none", "exited"}
    BY <1>7 DEF Lock, Top, Sleep, Awake, Relock, PopAlarm, AlarmsDone, Recheck
  <2>2. QED
    BY <1>0, <2>1
<1>8. CASE CheckRunning
  <2>1. \A d \in Devices : OwnedElsewhere(d) => OwnedElsewhere(d)'
    BY <1>8 DEF CheckRunning, OwnedElsewhere
  <2>2. QED
    BY <1>8, <2>1 DEF CheckRunning, TrackInv, NoDeviceLost, Tracked, Present, Targets
<1>9. CASE TakeDevices
  <2>1. \A d \in Devices : action_data[d] > 0 => todo'[d] > 0
    BY <1>9 DEF TakeDevices, Typed, TypeOK, Bag
  <2>2. \A d \in Devices : action_data[d] > 0 \/ polldevs[d] > 0 => polldevs'[d] > 0
    BY <1>9 DEF TakeDevices, Typed, TypeOK, Bag
  <2>3. \A d \in Devices : todo[d] = 0
    BY <1>9 DEF TakeDevices, ResolveInv, EmptyBag
  <2>4. \A d \in Devices : /\ Tracked(d) => Tracked(d)'
                           /\ OwnedElsewhere(d) => OwnedElsewhere(d)'
    BY <1>9, <2>1, <2>2, <2>3 DEF TakeDevices, Tracked, OwnedElsewhere
  <2>5. QED
    BY <1>9, <2>4 DEF TakeDevices, TrackInv, NoDeviceLost, Present, Targets
<1>10. ASSUME NEW d \in Devices, TryDevice(d) PROVE TrackInv'
  <2>1. polldevs'[d] > 0 /\ polldevs' = polldevs
    BY <1>10 DEF TryDevice, Due, ResolveInv
  <2>2. \A e \in Devices : e # d => state'[e] = state[e] /\ todo'[e] = todo[e]
    BY <1>10 DEF TryDevice, Typed, TypeOK, Bag
  <2>3. \A e \in Devices : Tracked(e) => Tracked(e)'
    BY <1>10 DEF TryDevice, Tracked
  <2>4. Tracked(d)'
    BY <2>1 DEF Tracked
  <2>5. OwnedElsewhere(d)'
    BY <1>10 DEF TryDevice, OwnedElsewhere
  <2>6. \A e \in Devices : e # d /\ OwnedElsewhere(e) => OwnedElsewhere(e)'
    BY <1>10, <2>2 DEF TryDevice, OwnedElsewhere
  <2>7. QED
    BY <1>10, <2>2, <2>3, <2>4, <2>5, <2>6
       DEF TryDevice, TrackInv, NoDeviceLost, Present, Targets
<1>11. CASE JudgeDevice
  <2>1. \A d \in Devices : Tracked(d) => Tracked(d)'
    BY <1>11 DEF JudgeDevice, Tracked
  <2>2. \A d \in Devices : state[d] = "enabled" /\ OwnedElsewhere(d) => OwnedElsewhere(d)'
    BY <1>11 DEF JudgeDevice, OwnedElsewhere, Live
  <2>3. QED
    BY <1>11, <2>1, <2>2 DEF JudgeDevice, TrackInv, NoDeviceLost, Present, Targets
<1>12. CASE Prune
  <2>1. \A d \in Devices : OwnedElsewhere(d) => d \in poller \/ Live(d) \in action_queue
                                \/ action_data[d] > 0 \/ Live(d) \in return_data
    BY <1>12 DEF Prune, OwnedElsewhere, EmptyBag
  <2>2. \A d \in Devices : OwnedElsewhere(d) => OwnedElsewhere(d)' /\ Tracked(d)'
    BY <1>12, <2>1 DEF Prune, OwnedElsewhere, Tracked
  <2>3. \A d \in Devices : Tracked(d) /\ state[d] # "enabled" => Tracked(d)'
    BY <1>12 DEF Prune, Tracked
  <2>4. QED
    BY <1>12, <2>2, <2>3 DEF Prune, TrackInv, NoDeviceLost, Present, Targets
<1>13. QED
  BY <1>1, <1>2, <1>3, <1>4, <1>5, <1>6, <1>7, <1>8, <1>9, <1>10, <1>11, <1>12
     DEF Next, Main, Worker

-----------------------------------------------------------------------------
(* The theorems.                                                           *)

LEMMA InitHandoff == Init => HandoffInv
<1> SUFFICES ASSUME Init PROVE HandoffInv
  OBVIOUS
<1>1. Typed
  BY InitTyped
<1>2. SyncInv /\ DrainInv
  BY DEF Init, SyncInv, DrainInv, NothingQueued
<1>3. \A d \in Devices : ~Present(d) /\ ~Tracked(d)
  BY DEF Init, Present, Tracked, EmptyBag
<1>4. ResolveInv
  BY <1>3 DEF Init, ResolveInv, LivePointersResolve, EmptyBag
<1>5. TrackInv
  BY <1>3 DEF Init, TrackInv, NoDeviceLost, Targets, Present
<1>6. QED
  BY <1>1, <1>2, <1>4, <1>5 DEF HandoffInv

\* HandoffInv holds in every reachable state.
THEOREM HandoffInvariant == Spec => []HandoffInv
<1>1. HandoffInv /\ [Next]_vars => HandoffInv'
  BY NextTyped, NextSync, NextDrain, NextResolve, NextTrack DEF HandoffInv
<1>2. QED
  BY InitHandoff, <1>1, PTL DEF Spec

\* Every variable keeps its type, however the three threads interleave.
THEOREM TypeCorrect == Spec => []TypeOK
<1>1. HandoffInv => TypeOK
  BY DEF HandoffInv, Typed
<1>2. QED
  BY HandoffInvariant, <1>1, PTL

\* The worker leaves no alarm that it was given: it looks at running only after
\* process_alarms found alarm_data empty, and keeps worker_datalock in between
\* (worker.cpp, workloop); and it was given those of all earlier turns.  Of the turn
\* that swaps nothing is said.
THEOREM WorkerDrainsAlarms == Spec => []AlarmJobsDrained
<1>1. HandoffInv => AlarmJobsDrained
  BY DEF HandoffInv, SyncInv, DrainInv, AlarmJobsDrained
<1>2. QED
  BY HandoffInvariant, <1>1, PTL

\* No job or poller task that counts as live names a device that is not in the
\* map: prepare_data rebuilds or frees them all.
THEOREM PointersResolve == Spec => []LivePointersResolve
<1>1. HandoffInv => LivePointersResolve
  BY DEF HandoffInv, ResolveInv
<1>2. QED
  BY HandoffInvariant, <1>1, PTL

\* Every device of the map stays with some thread, even where the worker's
\* remove_if races with a poll of a device it has just returned.
THEOREM DevicesKeepAnOwner == Spec => []NoDeviceLost
<1>1. HandoffInv => NoDeviceLost
  BY DEF HandoffInv, TrackInv
<1>2. QED
  BY HandoffInvariant, <1>1, PTL
=============================================================================
