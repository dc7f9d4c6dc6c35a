-------------------------------- MODULE Loopd --------------------------------
(***************************************************************************)
(* The three threads of the loopd daemon and everything they hand to each  *)
(* other: the main thread (mainloop: poll, swap in updated data, start an  *)
(* update, take devices back, hand jobs over), the worker thread           *)
(* (workloop: recheck alarms, retry devices, sleep) and the detached       *)
(* updater thread (update_devices).                                        *)
(*                                                                         *)
(* A job is a pointer into the device map.  prepare_data swaps the map and *)
(* frees the old one, so a pointer is a pair <<device, "live"|"freed">>;   *)
(* dereferencing a freed one is undefined behaviour and the model stops    *)
(* there (exit = "dangling").  A device stands for one polled interface as *)
(* well, whose alarm is raised or not: what the alarm is made of is the    *)
(* subject of module IntfAlarm.                                            *)
(*                                                                         *)
(* A critical section whose lock is released before any other lock is      *)
(* taken is one action (statelock, updatelock, and worker_datalock on the  *)
(* main thread's side); worker_datalock is a variable because the worker   *)
(* keeps it across several steps and across statelock.  device_datalock is *)
(* taken by the main thread only, so it excludes nobody and has no variable*)
(***************************************************************************)
EXTENDS Naturals, Sequences, FiniteSets

LOCAL INSTANCE FiniteSetsExt

CONSTANTS
    Devices,      \* the hosts Zabbix may report
    MaxAlarms,    \* bound: alarms queued for the worker at one time
    MaxJobs       \* bound: entries of the worker's device lists

ASSUME LoopdAssumption ==
    /\ IsFiniteSet(Devices)
    /\ MaxAlarms \in Nat
    /\ MaxJobs \in Nat

VARIABLES
    \* the device map and the copy the updater works on
    state,          \* hoststate of each device of the map, "absent" if not in it
    alarm,          \* polldata::alarm # none, of each device of the map
    newdata,        \* hoststate of each device of *newdata
    update_started, updating,
    \* the main thread
    mpc,
    poller,         \* devices with a task in the mux_poller
    alarm_queue, action_queue,
    \* worker_datalock and what it guards
    datalock, alarm_data, action_data,
    \* statelock and what it guards
    sleeping, running,
    \* updatelock and what it guards
    data_updated, return_data,
    \* the worker thread
    wpc,
    polldevs,       \* how often each device is in the worker's list
    todo,           \* what is left of the current pass over polldevs
    cur,            \* the job in hand
    \* the process
    exit

mapvars  == <<state, alarm, newdata, update_started, updating>>
mainvars == <<mpc, poller, alarm_queue, action_queue>>
datavars == <<datalock, alarm_data, action_data>>
syncvars == <<sleeping, running>>
retvars  == <<data_updated, return_data>>
workvars == <<wpc, polldevs, todo, cur>>
vars == <<mapvars, mainvars, datavars, syncvars, retvars, workvars, exit>>

-----------------------------------------------------------------------------
HostStates == {"absent", "init", "enabled", "unreachable"}
Ptr        == Devices \X {"live", "freed"}
NoJob      == <<>>
Bag        == [Devices -> Nat]
EmptyBag   == [d \in Devices |-> 0]

Live(d)    == <<d, "live">>
IsFreed(p) == p[2] = "freed"
Freed(p)   == <<p[1], "freed">>
Present(d) == state[d] # "absent"

\* devices that appear in a set of pointers
Targets(ptrs) == {d \in Devices : Live(d) \in ptrs}

Running == exit = "no"

TypeOK ==
    /\ state \in [Devices -> HostStates]
    /\ alarm \in [Devices -> BOOLEAN]
    /\ newdata \in [Devices -> HostStates]
    /\ update_started \in BOOLEAN /\ updating \in BOOLEAN
    /\ mpc \in {"poll", "swapcheck", "stop", "join", "swap", "update", "return",
                "jobs", "wake"}
    /\ poller \subseteq Devices
    /\ alarm_queue \subseteq Ptr /\ action_queue \subseteq Ptr
    /\ datalock \in {"free", "worker"}
    /\ alarm_data \in Seq(Ptr)
    /\ action_data \in Bag
    /\ sleeping \in BOOLEAN /\ running \in BOOLEAN
    /\ data_updated \in BOOLEAN /\ return_data \subseteq Ptr
    /\ wpc \in {"none", "start", "top", "presleep", "asleep", "relock", "alarms",
                "recheck", "state", "devices", "pass", "judge", "exited"}
    /\ polldevs \in Bag /\ todo \in Bag
    /\ cur \in Ptr \cup {NoJob}
    /\ exit \in {"no", "error", "alarm_type", "dangling"}

Init ==
    /\ state = [d \in Devices |-> "absent"]
    /\ alarm = [d \in Devices |-> FALSE]
    /\ newdata = [d \in Devices |-> "absent"]
    /\ update_started = FALSE /\ updating = FALSE
    /\ mpc = "poll"
    /\ poller = {} /\ alarm_queue = {} /\ action_queue = {}
    /\ datalock = "free" /\ alarm_data = <<>> /\ action_data = EmptyBag
    /\ sleeping = TRUE /\ running = TRUE
    /\ data_updated = FALSE /\ return_data = {}
    /\ wpc = "none" /\ polldevs = EmptyBag /\ todo = EmptyBag /\ cur = NoJob
    /\ exit = "no"

-----------------------------------------------------------------------------
(* The main thread.                                                        *)

Outcomes == {"quiet", "high", "changed", "timeout"}

\* The bounds: a poll raises an alarm, or loses a device, only while the queues
\* behind it have room.
RoomFor(out) ==
    /\ Len(alarm_data) + Cardinality({d \in poller : out[d] = "high" /\ ~alarm[d]})
            <= MaxAlarms
    /\ MapThenSumSet(LAMBDA d : polldevs[d] + action_data[d], Devices)
            + Cardinality({d \in poller : out[d] \in {"changed", "timeout"}}) <= MaxJobs

\* poller.poll(): every task's callback runs once.  check_alarm raises, keeps or
\* clears the interface's alarm and queues it only when it is raised from none; a
\* device that changed type or timed out is queued for the worker.
Poll ==
    /\ Running /\ mpc = "poll"
    /\ \E out \in [poller -> Outcomes] :
        LET answered == {d \in poller : out[d] \in {"quiet", "high"}}
            raised   == {d \in poller : out[d] = "high" /\ ~alarm[d]}
            failed   == poller \ answered
        IN  /\ RoomFor(out)
            /\ alarm' = [d \in Devices |-> IF d \in answered THEN out[d] = "high" ELSE alarm[d]]
            /\ state' = [d \in Devices |->
                            IF d \in failed
                            THEN IF out[d] = "changed" THEN "init" ELSE "unreachable"
                            ELSE state[d]]
            /\ alarm_queue' = alarm_queue \cup {Live(d) : d \in raised}
            /\ action_queue' = action_queue \cup {Live(d) : d \in failed}
    /\ mpc' = "swapcheck"
    /\ UNCHANGED <<newdata, update_started, updating, poller, datavars, syncvars,
                   retvars, workvars, exit>>

\* "if (update_started and not updating)"; prepare_data skips the shutdown when
\* no worker was ever started.
SwapCheck ==
    /\ Running /\ mpc = "swapcheck"
    /\ IF update_started /\ ~updating
       THEN /\ update_started' = FALSE
            /\ mpc' = IF wpc = "none" THEN "swap" ELSE "stop"
       ELSE /\ mpc' = "update"
            /\ UNCHANGED update_started
    /\ UNCHANGED <<state, alarm, newdata, updating, poller, alarm_queue, action_queue,
                   datavars, syncvars, retvars, workvars, exit>>

\* "if (syncdata.sleeping) { syncdata.sleeping = false; syncdata.wake.notify_all(); }"
WakeUpNotifyOnly == UNCHANGED sleeping               \* mutant
WakeUp == sleeping' = FALSE

StopWorker ==
    /\ Running /\ mpc = "stop"
    /\ running' = FALSE
    /\ WakeUp
    /\ mpc' = "join"
    /\ UNCHANGED <<mapvars, poller, alarm_queue, action_queue, datavars, retvars,
                   workvars, exit>>

Join ==
    /\ Running /\ mpc = "join"
    /\ wpc = "exited"
    /\ mpc' = "swap"
    /\ UNCHANGED <<mapvars, poller, alarm_queue, action_queue, datavars, syncvars,
                   retvars, workvars, exit>>

\* Which devices the rebuilt poller and the rebuilt action_data start with.
PollableIfAnswering(s) == s # "unreachable"          \* mutant
Pollable(s) == s = "enabled"
NeedsWorkIfNew(s) == s = "init"                      \* mutant
NeedsWork(s) == s \notin {"absent", "enabled"}

\* The rest of prepare_data and "delete newdata": the maps are swapped, devices
\* marked for deletion are dropped, the interface data of the others is carried
\* over, poller and action_data are rebuilt, a new worker starts - and every
\* pointer still in alarm_queue, action_queue or return_data is now freed.
Swap ==
    /\ Running /\ mpc = "swap"
    /\ state' = newdata
    /\ alarm' = [d \in Devices |-> alarm[d] /\ Present(d) /\ newdata[d] # "absent"]
    /\ newdata' = [d \in Devices |-> "absent"]
    /\ poller' = {d \in Devices : Pollable(newdata[d])}
    /\ action_data' = [d \in Devices |-> IF NeedsWork(newdata[d]) THEN 1 ELSE 0]
    /\ alarm_queue' = {Freed(p) : p \in alarm_queue}
    /\ action_queue' = {Freed(p) : p \in action_queue}
    /\ return_data' = {Freed(p) : p \in return_data}
    /\ running' = TRUE
    /\ wpc' = "start" /\ polldevs' = EmptyBag /\ todo' = EmptyBag /\ cur' = NoJob
    /\ mpc' = "update"
    /\ UNCHANGED <<update_started, updating, datalock, alarm_data, sleeping,
                   data_updated, exit>>

\* The second look at updating: a new update starts when the interval has passed
\* (a free choice) or the map is empty.
StartUpdate ==
    /\ Running /\ mpc = "update"
    /\ ~updating
    /\ newdata' = state
    /\ update_started' = TRUE /\ updating' = TRUE
    /\ mpc' = "return"
    /\ UNCHANGED <<state, alarm, poller, alarm_queue, action_queue, datavars, syncvars,
                   retvars, workvars, exit>>

NoUpdate ==
    /\ Running /\ mpc = "update"
    /\ updating \/ \E d \in Devices : Present(d)
    /\ mpc' = "return"
    /\ UNCHANGED <<mapvars, poller, alarm_queue, action_queue, datavars, syncvars,
                   retvars, workvars, exit>>

\* Devices the worker has returned get a poller task again.
TakeBack ==
    /\ Running /\ mpc = "return"
    /\ IF data_updated /\ \E p \in return_data : IsFreed(p)
       THEN /\ exit' = "dangling"
            /\ UNCHANGED <<mpc, poller, data_updated, return_data>>
       ELSE /\ mpc' = "jobs"
            /\ poller' = IF data_updated THEN poller \cup Targets(return_data) ELSE poller
            /\ return_data' = IF data_updated THEN {} ELSE return_data
            /\ data_updated' = FALSE
            /\ UNCHANGED exit
    /\ UNCHANGED <<mapvars, alarm_queue, action_queue, datavars, syncvars, workvars>>

NothingQueued == alarm_queue = {} /\ action_queue = {}

NoJobs ==
    /\ Running /\ mpc = "jobs"
    /\ NothingQueued
    /\ mpc' = "poll"
    /\ UNCHANGED <<mapvars, poller, alarm_queue, action_queue, datavars, syncvars,
                   retvars, workvars, exit>>

\* The orders in which the alarms of one poll can have been queued.
Orders(S) == {s \in [1..Cardinality(S) -> S] : \A p \in S : \E i \in DOMAIN s : s[i] = p}

\* add_jobs under worker_datalock.  A queued device is read through its pointer
\* (its host names the poller task to erase); a queued alarm is only copied.
AddJobs ==
    /\ Running /\ mpc = "jobs"
    /\ ~NothingQueued
    /\ datalock = "free"
    /\ IF \E p \in action_queue : IsFreed(p)
       THEN /\ exit' = "dangling"
            /\ UNCHANGED <<mpc, alarm_data, action_data, poller, alarm_queue, action_queue>>
       ELSE /\ \E s \in Orders(alarm_queue) : alarm_data' = alarm_data \o s
            /\ poller' = poller \ Targets(action_queue)
            /\ action_data' = [d \in Devices |->
                    action_data[d] + IF Live(d) \in action_queue THEN 1 ELSE 0]
            /\ alarm_queue' = {} /\ action_queue' = {}
            /\ mpc' = "wake"
            /\ UNCHANGED exit
    /\ UNCHANGED <<mapvars, datalock, syncvars, retvars, workvars>>

\* The end of add_jobs, under statelock.
WakeWorker ==
    /\ Running /\ mpc = "wake"
    /\ WakeUp
    /\ mpc' = "poll"
    /\ UNCHANGED <<mapvars, poller, alarm_queue, action_queue, datavars, running,
                   retvars, workvars, exit>>

Main == \/ Poll \/ SwapCheck \/ StopWorker \/ Join \/ Swap \/ StartUpdate \/ NoUpdate
        \/ TakeBack \/ NoJobs \/ AddJobs \/ WakeWorker

-----------------------------------------------------------------------------
(* The updater thread.                                                     *)

\* What update_devdata can make of a device of the copy: Zabbix reports it or
\* not; a new or init one is initialised; the interfaces of an enabled one are
\* read again, which may time out; an unreachable one is left to the worker.
UpdateResults(s) ==
    CASE s = "unreachable" -> {"absent", "unreachable"}
      [] OTHER             -> {"absent", "enabled", "unreachable"}

\* Nobody else looks at the copy before updating is false: one step.
FinishUpdate ==
    /\ Running /\ updating
    /\ newdata' \in [Devices -> HostStates]
    /\ \A d \in Devices : newdata'[d] \in UpdateResults(newdata[d])
    /\ updating' = FALSE
    /\ UNCHANGED <<state, alarm, update_started, mainvars, datavars, syncvars, retvars,
                   workvars, exit>>

-----------------------------------------------------------------------------
(* The worker thread.                                                      *)

\* The loop's first lock, and the lock process_devices takes again at its end.
Lock ==
    /\ Running /\ wpc = "start"
    /\ datalock = "free"
    /\ datalock' = "worker"
    /\ wpc' = "top"
    /\ UNCHANGED <<mapvars, mainvars, alarm_data, action_data, syncvars, retvars,
                   polldevs, todo, cur, exit>>

NoWork == action_data = EmptyBag /\ alarm_data = <<>>

\* With no jobs the lock is released: to sleep on the condition variable when no
\* device waits for a retry, for a two second nap otherwise.
Top ==
    /\ Running /\ wpc = "top"
    /\ IF NoWork
       THEN /\ datalock' = "free"
            /\ wpc' = IF polldevs = EmptyBag THEN "presleep" ELSE "relock"
       ELSE /\ wpc' = "alarms"
            /\ UNCHANGED datalock
    /\ UNCHANGED <<mapvars, mainvars, alarm_data, action_data, syncvars, retvars,
                   polldevs, todo, cur, exit>>

\* sleeping is set without another look at the queues or at running.
Sleep ==
    /\ Running /\ wpc = "presleep"
    /\ sleeping' = TRUE
    /\ wpc' = "asleep"
    /\ UNCHANGED <<mapvars, mainvars, datavars, running, retvars, polldevs, todo, cur, exit>>

Awake ==
    /\ Running /\ wpc = "asleep"
    /\ ~sleeping
    /\ wpc' = "relock"
    /\ UNCHANGED <<mapvars, mainvars, datavars, syncvars, retvars, polldevs, todo, cur, exit>>

\* The lock taken after a sleep, a nap or a rechecked alarm.
Relock ==
    /\ Running /\ wpc = "relock"
    /\ datalock = "free"
    /\ datalock' = "worker"
    /\ wpc' = "alarms"
    /\ UNCHANGED <<mapvars, mainvars, alarm_data, action_data, syncvars, retvars,
                   polldevs, todo, cur, exit>>

\* process_alarms takes the last alarm and rechecks it without the lock.
PopAlarm ==
    /\ Running /\ wpc = "alarms"
    /\ alarm_data # <<>>
    /\ cur' = alarm_data[Len(alarm_data)]
    /\ alarm_data' = SubSeq(alarm_data, 1, Len(alarm_data) - 1)
    /\ datalock' = "free"
    /\ wpc' = "recheck"
    /\ UNCHANGED <<mapvars, mainvars, action_data, syncvars, retvars, polldevs, todo, exit>>

AlarmsDrainedButOne == Len(alarm_data) <= 1          \* mutant
AlarmsDrained == alarm_data = <<>>

AlarmsDone ==
    /\ Running /\ wpc = "alarms"
    /\ AlarmsDrained
    /\ wpc' = "state"
    /\ UNCHANGED <<mapvars, mainvars, datavars, syncvars, retvars, polldevs, todo, cur, exit>>

\* The rate is measured again and the message sent or not; the alarm's type is
\* read only now, and a cleared alarm ends the daemon.
Recheck ==
    /\ Running /\ wpc = "recheck"
    /\ exit' = CASE IsFreed(cur)    -> "dangling"
                 [] ~alarm[cur[1]]  -> "alarm_type"
                 [] OTHER           -> "no"
    /\ IF exit' = "no" THEN wpc' = "relock" /\ cur' = NoJob
                       ELSE UNCHANGED <<wpc, cur>>
    /\ UNCHANGED <<mapvars, mainvars, datavars, syncvars, retvars, polldevs, todo>>

\* "if (!syncdata->running) return", with both locks held; returning frees them
\* and the worker's own list.
CheckRunning ==
    /\ Running /\ wpc = "state"
    /\ IF running
       THEN /\ wpc' = "devices"
            /\ UNCHANGED <<datalock, polldevs>>
       ELSE /\ wpc' = "exited"
            /\ datalock' = "free"
            /\ polldevs' = EmptyBag
    /\ UNCHANGED <<mapvars, mainvars, alarm_data, action_data, syncvars, retvars,
                   todo, cur, exit>>

\* The start of process_devices: new jobs are due at once; a device that is on
\* the list from an earlier pass may be waiting for its backoff to expire.
TakeDevices ==
    /\ Running /\ wpc = "devices"
    /\ polldevs' = [d \in Devices |-> polldevs[d] + action_data[d]]
    /\ \E late \in SUBSET {d \in Devices : polldevs[d] > 0 /\ action_data[d] = 0} :
            todo' = [d \in Devices |-> IF d \in late THEN 0 ELSE polldevs'[d]]
    /\ action_data' = EmptyBag
    /\ datalock' = "free"
    /\ wpc' = "pass"
    /\ UNCHANGED <<mapvars, mainvars, alarm_data, syncvars, retvars, cur, exit>>

\* Left to do in this pass: "if (rawtime < dev.timeticks) continue".
DueOrNot(d) == TRUE                                  \* mutant
Due(d) == todo[d] > 0

\* init_device and, when it succeeds, update_ints: the device answers both or is
\* marked unreachable.
TryDevice(d) ==
    /\ Running /\ wpc = "pass"
    /\ Due(d)
    /\ \E s \in {"enabled", "unreachable"} : state' = [state EXCEPT ![d] = s]
    /\ todo' = [todo EXCEPT ![d] = @ - 1]
    /\ cur' = Live(d)
    /\ wpc' = "judge"
    /\ UNCHANGED <<alarm, newdata, update_started, updating, mainvars, datavars, syncvars,
                   retvars, polldevs, exit>>

\* The state is read again: an enabled device is reset and returned under
\* updatelock, any other stays on the list.
JudgeDevice ==
    /\ Running /\ wpc = "judge"
    /\ IF state[cur[1]] = "enabled"
       THEN /\ alarm' = [alarm EXCEPT ![cur[1]] = FALSE]
            /\ return_data' = return_data \cup {cur}
            /\ data_updated' = TRUE
       ELSE UNCHANGED <<alarm, return_data, data_updated>>
    /\ cur' = NoJob
    /\ wpc' = "pass"
    /\ UNCHANGED <<state, newdata, update_started, updating, mainvars, datavars, syncvars,
                   polldevs, todo, exit>>

\* polldevs.remove_if: whatever is enabled by now leaves the list.
Prune ==
    /\ Running /\ wpc = "pass"
    /\ todo = EmptyBag
    /\ polldevs' = [d \in Devices |-> IF state[d] = "enabled" THEN 0 ELSE polldevs[d]]
    /\ wpc' = "start"
    /\ UNCHANGED <<mapvars, mainvars, datavars, syncvars, retvars, todo, cur, exit>>

Worker == \/ Lock \/ Top \/ Sleep \/ Awake \/ Relock \/ PopAlarm \/ AlarmsDone \/ Recheck
          \/ CheckRunning \/ TakeDevices \/ (\E d \in Devices : TryDevice(d))
          \/ JudgeDevice \/ Prune

-----------------------------------------------------------------------------
\* Every thread ends the daemon on an exception: an SNMP error other than a
\* timeout, a failed mail, an RRD or Zabbix API error.
Fatal ==
    /\ Running
    /\ mpc = "poll" \/ updating \/ wpc \in {"recheck", "pass"}
    /\ exit' = "error"
    /\ UNCHANGED <<mapvars, mainvars, datavars, syncvars, retvars, workvars>>

Next == Main \/ FinishUpdate \/ Worker \/ Fatal

Spec == Init /\ [][Next]_vars

\* The main thread's sleep and the worker's nap are finite, and SNMP requests and
\* mails end by success, timeout or exception; the mutexes are held for finite
\* sections only.
FairSpec == Spec /\ WF_vars(Main) /\ WF_vars(Worker) /\ WF_vars(FinishUpdate)

-----------------------------------------------------------------------------
(* Properties.                                                             *)

\* prepare_data: "Worker should complete all his alarm notification jobs before
\* exiting."  When the maps are swapped the worker is gone and has rechecked every
\* alarm that was handed to it, which are all those of earlier turns of mainloop:
\* each turn starts with nothing queued.  The alarms of the turn that swaps are still
\* in alarm_queue.  They are not the worker's yet: they survive the swap and are
\* handed to the next worker as pointers into the freed map, see NoDanglingUse.
AlarmJobsDrained ==
    /\ mpc = "poll" => NothingQueued
    /\ mpc = "swap" => alarm_data = <<>> /\ wpc \in {"none", "exited"}

\* Some thread is responsible for the device: it is polled, or it is on its way
\* to the worker, with the worker, or on its way back.
Tracked(d) == \/ d \in poller
              \/ Live(d) \in action_queue
              \/ action_data[d] > 0
              \/ polldevs[d] > 0
              \/ Live(d) \in return_data

\* No device of the map is dropped between the threads, whatever the order of
\* polls, retries, hand-overs and returns: it would never be polled again until
\* the next data swap.
NoDeviceLost ==
    wpc # "exited" => \A d \in Devices : Present(d) => Tracked(d)

\* A pointer that counts as live leads into the current map: no queue, list or
\* poller task names a device that a swap has dropped.
LivePointersResolve ==
    \A d \in Devices :
        Tracked(d) \/ Live(d) \in alarm_queue \/ (\E i \in DOMAIN alarm_data : alarm_data[i] = Live(d))
            => Present(d)

\* The use of a freed device: prepare_data's comment says that all data has to be
\* rebuilt because all pointers are invalidated.
NoDanglingUse == exit # "dangling"

\* process_alarms takes every queued alarm to be raised (its default case throws).
\* Does not hold: README, section 5.
QueuedAlarmStillRaised == exit # "alarm_type"

\* A requested shutdown of the worker ends in a swap, unless the daemon exits.
ShutdownCompletes == mpc = "join" ~> mpc = "swap" \/ ~Running

\* A worker that is asleep is reached by the next hand-over of jobs and by the
\* request to stop: it gets as far as its look at running.  (One that is only
\* about to sleep may miss both, see ShutdownCompletes.)  A flood of alarms can
\* keep the worker from its look for ever, so this is stated for MaxAlarms = 0.
SignalReachesSleeper ==
    wpc = "asleep" /\ mpc \in {"wake", "stop"} ~> wpc = "state" \/ ~Running

=============================================================================
