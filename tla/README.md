# A verification project for zbx_tools

TLA+ specifications of the parts of zbx_tools where things happen in an order nobody chose: threads that hand
devices to each other, polls that race timeouts, counters that wrap, files that two threads believe they own.
TLC checks the specifications on small instances; TLAPS proves the main theorems for every value of the constants.

Paths below are relative to the repository (`src/loopd/...` is the daemon).

## 1. Inventory

zbx_tools is a set of programs around a Zabbix server. `loopd` is a daemon with threads and state; the others are
started by Zabbix or cron, do one job and exit.

| component | state it keeps | operations | hard behaviour |
|---|---|---|---|
| **loopd threads** (`main.cpp`, `worker.cpp`) | device map, `alarm_queue`/`action_queue` (main), `alarm_data`/`action_data` (handed over under `worker_datalock`), `return_data` (back, under `updatelock`), `sleeping`/`running` with a condition variable | poll, swap in updated data, start an update, take devices back, hand jobs over; recheck alarms, retry devices, sleep | three threads, four locks, raw pointers into a map that is replaced while they are queued |
| **loopd alarms** (`data.cpp`) | per interface: last counter, moving average, alarm | rate from two readings, moving average, raise / clear / re-raise | wraps and resets of counters, an average kept incrementally, alarms that change type |
| **loopd devices, interfaces, RRD files** (`device.cpp`, `lrrd.cpp`, `transfer_data`, `return_dev`) | two copies of each device, marks for deletion, files on disk | initialise, update interfaces, swap, return | two threads each with its own copy and one set of files; time base and counters travel separately |
| **mux_poller** (`libs/snmp`) | tasks, open sessions | one round: open at most `max_hosts` sessions, select, read or expire, sweep | answers and timeouts race; every task must be called back once |
| snmp requests and walks | none between calls | GET, GETBULK walks | a walk takes several requests, and the table changes between them |
| **zbx_mail** | cache directory shared by processes, lock and rename | find, generate, wait for another's, clean up | several processes, crash between lock and rename |
| **zbx_cfm** | the host's application, item, trigger and macro on the Zabbix server; locally what the checks have read | add and delete the CFM monitoring of a vlan on some hosts | several API calls, each of which may be the last; data read before the first change; items that vlans share |
| **zbx_dd** | the host in Zabbix: templates, groups, macros, a trigger dependency | create and update a host, count unsuccessful tries, follow the uplink | what a run has set is remembered in a macro, which may be behind; a run may end at any call |
| **wifi poller** (Mikrotik API, zbx_sender) | a socket, the block being read, counts | login, two commands for each router, one request to Zabbix | replies that end in `!trap` and `!done`, connections that end, an answer in pieces, word lengths at their thresholds |
| **sba-disc** | lock file, the screen in Zabbix | walk, print for Zabbix, elect a process whose child rebuilds the screen | processes of two rules that overlap, children that die, items that are made later |
| buffer | size, capacity, memory | print, append, mappend, grow, copy | boundaries of growth |
| Zabbix API session | session token | login, request | any call may fail and ends the program |
| config, log, curl, mysql, sqlite | none to speak of | parsing and wrapping | - |
| frozen, md5 | - | vendored | - |

In loopd they interact like this. `mainloop` calls `mux_poller::poll()`, which runs `callback` for each device: it
updates the alarms (`data.cpp`), queues raised ones on `alarm_queue` and devices that failed on `action_queue`.
At the end of each turn `add_jobs` moves both to the worker under `worker_datalock` and signals it. The worker
rechecks alarms, retries devices with a growing backoff and returns those that answer through `return_data`. Every
few hours a detached updater thread copies the map, asks Zabbix and the devices what has changed, and sets
`updating = false`; the main thread then stops and joins the worker, swaps the maps, frees the old one and starts
a new worker.

What makes each part correct:

- threads: no device is ever without an owner; no queued pointer outlives what it points to (5.2: some do); the alarms
  handed to a worker are handled before it goes; a request to stop ends; no signal is lost.
- alarms: a rate is the traffic of its interval; the average is an average; one notification per alarm; a high rate is
  never without an alarm; an alarm ends.
- interfaces: an interface has its file for as long as it is in a map; a rate is not computed over too short a time.
- mux_poller: window kept, each callback once, `poll()` ends.
- zbx_mail: who holds the lock sends a complete text; nobody sends another's half-written one.
- zbx_cfm: a macro names only what is there; nothing is left behind; the report is true.
- zbx_dd: the host can be saved at every step; one undisturbed run brings it to what its type asks for, as far as the macro still tells what is on it.
- wifi poller: a reply belongs to the command before it; what is sent is what the routers said; success is the server's word.
- sba-disc: a walk of a changing table is sound; a screen can be drawn; it catches up with the hotspots.

The hazards behind these, at their lines, are in `PROJECT.json`.

## 2. Modules

| module | models | read it with |
|---|---|---|
| `Loopd` | the three threads and everything they hand over | `main.cpp`, `worker.cpp` |
| `MCLoopd` | instances of `Loopd` | |
| `Loopd_proofs` | the inductive invariant of `Loopd` and five theorems | |
| `PollRound` | abstract: what one round of polling promises its caller | |
| `MuxPoller` | `mux_poller::poll()`, implements `PollRound` | `mux_poller.cpp` |
| `MCMuxPoller`, `MuxPoller_proofs` | its instance, its theorems (with the refinement) | |
| `IntfAlarm` | one interface's readings, average and alarm | `data.cpp` |
| `Interfaces` | one device's interfaces in both maps, and the RRD files | `device.cpp`, `lrrd.cpp`, `transfer_data`, `return_dev` |
| `Interfaces_proofs` | its inductive invariant and theorems | |
| `MailCache`, `MCMailCache` | several `zbx_mail` processes on one cache directory | `zbx_mail/mail.cpp`, `message_process` |
| `MailCache_proofs` | its inductive invariant and theorems | |
| `IntfAlarm_proofs` | its inductive invariant and theorems | |
| `CfmRun` | runs of `zbx_cfm` and what they leave on the server | `zbx_cfm/main.cpp` |
| `CfmRun_proofs` | its inductive invariant and theorems | |
| `HostDeploy`, `MCHostDeploy` | runs of `zbx_dd` for one device | `zbx_dd/main.cpp`, `create.cpp`, `update.cpp`, `trigdepend.cpp` |
| `WordLength` | how the Mikrotik client codes the length of a word | `MikrotikAPI.cpp` 149-313 |
| `Sender` | one request of `zbx_sender` and its answer | `zbx_sender.cpp` |
| `RouterPoll` | one run of the wifi poller, on top of the two | `poller/main.cpp`, `MikrotikAPI.cpp` |
| `RouterPoll_proofs` | its inductive invariant and theorems, with those of the two | |
| `HotspotScreen`, `MCHotspotScreen` | the processes of `sba-disc` and the screen | `sba-disc/main.cpp`, `screen.cpp` |
| `Discovery_proofs` | the theorems of `HotspotScreen` and of `HostDeploy`, the two programs that discover | |

They share the system between them like this: `Loopd` knows *who holds a device when*, and reduces a device to its
state and to whether an alarm is up. `MuxPoller` justifies `Loopd`'s one-step `Poll` (every callback once, then the
call returns). `IntfAlarm` refines what `Loopd` calls an alarm that is raised or cleared; `Interfaces` what `Loopd`
calls swapping the maps.

### Loopd

Each action is one critical section or one stretch between two of them. `mpc` and `wpc` say where the main and the
worker thread are:

- main: `poll` (192-194) -> `swapcheck` (196) -> `stop`, `join`, `swap` (prepare_data) -> `update` (207) -> `return`
  (219-229) -> `jobs`, `wake` (add_jobs) -> `poll`.
- worker: `start` (lock) -> `top` (265) -> `presleep`, `asleep` or straight to `relock` -> `alarms` / `recheck`
  (process_alarms) -> `state` (285) -> `devices`, `pass`, `judge` (process_devices) -> `start`; `exited` at 286.
- the updater is one step, `FinishUpdate`: nobody else looks at `*newdata` until `updating` is false.

`worker_datalock` is a variable (`datalock`) because the worker holds it across steps; the other locks protect single
actions. `device_datalock` is taken by the main thread only - it excludes nobody, and neither does it in the model.
A pointer is a pair of a device and `live` or `freed`; `Swap` turns what is still queued into `freed` pointers, and the
use of one sets `exit = "dangling"`. An exception in any thread ends the daemon (`logger.error_exit`): `exit = "error"`,
and `"alarm_type"` for the one of `process_alarms`' default case. `StartUpdate` keeps the second reading of `updating`, so an
update that finishes between the two readings is overwritten, as in the code.

### MuxPoller

`Fill` opens sessions up to the window and sends, `SelectReadable` / `SelectTimedOut` are `select()` returning more than
0 or 0, `Read` and `Expire` are the library's handling of one session (a reply may be dropped as unmatched; an overdue
session retransmits `Retries` times), `Sweep` is `remove_if`. `Throw` leaves `poll()` by an exception, of its own or of the callback
inside `Read` or `Expire`, which ends the daemon: that is why the run allows the system to stop.

### IntfAlarm

The data are those of `polldata`. Rates are integers in units of `1/Scale`, with `Scale` such that every quotient is exact;
floating-point rounding is not modelled. A poll chooses how much traffic there was, whether the counter was cleared and how
many seconds passed; `ReturnDevice` is the reset after an outage. After an alarm is cleared, `check_alarm` reads the front of
an empty deque (data.cpp:71 after 56): the model takes the value the library's deque still holds, the rate just
forgotten.

### Interfaces

`map` and `copy` are the same device in `devices` and in `*newdata`. Both threads run `init_device` and `update_ints`, so these are
operators on a record, used by the updater's actions on `copy` and by the worker's on `map`. `Swap` is `transfer_data`. The
copy may be made between any two steps of the worker, since the worker does not take `device_datalock`. `timeticks` is both an uptime and
the time of a retry (`device.h:74`); the retry time is the value `Retry`, which is no uptime and is compared with none. The device has one owner at a time:
that it may be queued twice, or from before a swap, is in `Loopd`. `Restart` ends the daemon anywhere and starts
it with the files it left.

### MailCache

Processes with the same message and different recipients. The directory maps the names `msg`, `tmp` and `att` to files; a file is named by the
process that created it, so that an open stream and a lock follow the file through a rename, an unlink or a new file of the same
name. Each step is one call to the system: `Stat` / `Expire` (`get_cache_stat`), `OpenTmp`, `GetLock` or `Refused`, `Attach`, `WaitStat`, `OpenMsg`,
`OpenAtt` (`open_cache`), `CacheFails` (any other error of these calls, after which main's handler sends the plain text), `Generate`, `Flush`, `Rename`, `Send`, `CleanStat` / `CleanRemove` (`cache_cleanup`), `SendPlain` (main's handler). The text of a file is `empty`,
`partial`, `overwritten` (being written over an older text), `whole` or `tailed` (complete, with the tail of an older one: the file is
never truncated). `Kill` ends a process anywhere; its lock goes, its files stay. Whether a file is older than `cache-timeout` is a free choice at each
test: access times are those of creation until somebody reads, and the default of 10 s is less than the wait of up to 66 s. The message has images, whose
contents are left out.

### CfmRun

First all hosts of the command line are checked (`Check`), then all are processed, so that `data` may be old when it is used; a host may be
named twice. `CreateApplication`, `CreateItem`, `CreateTrigger`, `WriteMacro` and `CountTriggers`, `EraseMacro`, `DeleteTrigger`, `DeleteItem`,
`DeleteApplication` are one API call each, in the code's order; `CfmAbort` ends the program between any two of them (a failed call and a kill look the same to
the server), `Refused` is the server's own refusal. What the server does by itself - unique names, deleting the triggers with an item - is external. A macro
is the pair of ids in it. `WriteMacro` and `EraseMacro` write back all the macros that the check has read, as `host.update` does.
A host is assumed to have other macros besides zbx_cfm's own, as one that zbx_dd has made does; what happens otherwise is in section 5.

### HostDeploy

One device. `Poll` chooses what it answers: nothing, a type the table has, with any of the `Settings` that its row may have over time, or a type it has not. The host's state is what the code reads and writes of it; `param` is
the macro in which a run remembers what it has set, `db` what the device is now. `UpdateHost` is `zbx_update_host` with its parts as operators (`TypedGroups`, `TypedTemplates`,
`PingedTemplates`, `WithIntLevel`), which become one `host.update`. `CountTry` is `check_lowering`. `Undefined` marks the assignment through `end()` (update.cpp:193): it does nothing
or ends the program. The administrator may make templates, keep settings for himself or hand them back, and unlink templates (but the ping template) between runs. `untold`, `missed`, `steady` and `seen` are history:
`untold` has the types whose group and template the host may have although the macro no longer names them, and `int` when the macro's int level is not what the host has. `CountTry` adds to it, because
`check_lowering` writes the parameters of a device that has not answered over those of the last update; so does an interface template unlinked by hand, and a run that leaves `int_level` to the administrator.
The visible name is left out, and so is ping level 3.

### RouterPoll, Sender, WordLength

The poller's program counter is `rpc`: connect, the two steps of the login, the two commands, and after the last router the request to Zabbix. Sentences are the
unit: `ReadSentence` drops `!trap` and `!fatal`, `ReadBlock` collects until `!done`. The router is external: it may refuse a login or a
command, and go down. One access point stands for those of a
router, so that both commands are always asked (main.cpp:177,186), and names of points are taken not to contain each other (134, 158: the first whose name is found counts).
`ReadClosed` is what an uninitialised length byte, or a write before the buffer, can do after `read` returned 0 or -1: go on for ever or fail. `Sender` has the two receive loops of `zbx_sender::send`; an answer
has five units, as much as the buffer takes, and `recv` returns any number of those that have arrived. An answer may be foreign, refuse, have no response in it (the message about it dereferences null: `crashed`)
or be longer than the buffer (`recv` is asked for nothing and returns 0 for ever: `spinning`). `RouterPoll` extends it and moves `rpc` when `send` returns or throws. `WordLength` is
arithmetic on whole lengths: the shifts and byte swaps of `WriteLength` and `ReadLength` on the machine the code assumes.

### HotspotScreen

Each discovery rule has a process (`job`) and at most one child (`heir`, a bound: a second child of a rule
waits for the first to end). `WalkStep` is one GETBULK request: the `Bulk` next interfaces, the walk ends with a response that is not full. `Open` is the exclusive creation of the lock file, or the
fork, or fails in either; standard input is taken to be open, so that the lock file does not get descriptor 0 (main.cpp:150). `Wake`, `LookUp`, `Update` are the child: it removes the file whoever made it, asks for the graphs, and changes the screen in one call. `Layout` computes the cells of the
screen as `generate_screen_items` does. Zabbix is external: it makes items from the output some time later, which may be after the child has asked for them.

## 3. Runs

All passing runs are exhaustive. Bounds are CONSTANTS or stated guards.

| run | instance | shows |
|---|---|---|
| `loopd_safety` | 2 devices, 1 queued alarm, 2 entries in the device lists between the threads (two devices, or one twice); symmetric in the devices | `TypeOK`, `AlarmJobsDrained`, `NoDeviceLost`, `LivePointersResolve` over every interleaving (about 2 million states) |
| `loopd_signal` | 2 devices, no alarms, fair threads | `SignalReachesSleeper`: a sleeping worker is reached |
| `loopd_shutdown` | 1 device, fair threads | **violated**: the lost wake-up, see 5 |
| `loopd_dangling` | 1 device | **violated**: pointers that outlive the map |
| `mux_poller` | 3 hosts, window 2, 1 retry, fair | window, one callback each, termination, refinement of `PollRound` |
| `intf_alarm` | average over 2 rates, counter modulo 7, gaps of 1 and 2 s, traffic 0, 1 or 3 | the average is a mean, one notice per alarm, no high rate without alarm, a rate is the traffic, an alarm ends |
| `interfaces` | 2 interfaces, 3 polls | every interface has its file, no rate is too high, with two named exceptions |
| `mail_cache` | 3 processes, 1 kill, 1 round of waiting; symmetric in the processes | who holds the lock sends a complete text; torn mails and crashes happen only after the named events; every process ends (deadlock is checked, the only final state is the one where all have ended) |
| `cfm_run` | 2 hosts, one with a trap item that its vlans share; 2 vlans; 3 runs of one or two hosts | a macro names what is there at every step; a server that was not disturbed holds nothing besides; the report is true. Deadlock is not checked: the runs are bounded |
| `host_deploy` | 2 types, one of which may have the higher ping level and interfaces at one time and not at another; 2 communities, 2 uplinks; symmetric in the last two | the host is valid at every step; its macro is true but for what is `untold`; one undisturbed run makes the host exactly what the device asks for, but for what is `untold` and a community that was never set |
| `router_poll` | 2 routers, replies of at most 2 entries, word lengths at both ends of each form; fair | framing, counts, lengths, the server's answer, and that a run does not hang if neither a router nor the server goes away and the server's answer has room |
| `hotspot_screen` | 3 interfaces at 2 addresses, one of them comes and goes, responses of 2; fair | the walk is sound, every screen fits, and it catches up |

Why the bounds are enough. *Loopd*: two devices let one be polled while the other is with the worker, and be returned,
queued and swapped in any order; `MaxAlarms` and `MaxJobs` bound queues whose length no guard in the code looks at (the
theorems hold for every value). *MuxPoller*: more hosts than sessions, so that `Fill` runs again after `Sweep`. *IntfAlarm*: an
average of two goes through the summing phase, the switch and the incremental phase; the limits are placed so that each of the
three alarms is reached, one can be re-raised as another, and the counter wraps after a few polls. *Interfaces*: two interfaces so that one can go while
the other stays; three polls: one before the copy, one during the update, one after the swap.
*MailCache*: three processes: one to write, one to come late or to wait, one to read or clean up what the others leave; the kill leaves a half-written file to the
other two. The length of the wait changes only how many chances the others have, and none of their steps takes time.

*CfmRun*: three runs: the shortest way for one run to leave something, another to add to it and a third to remove it; two vlans are needed to share an item, two hosts (or one named
twice) for old data and for a report. *HostDeploy* has no bound but its sets: histories are kept only as far as the properties look back (three missed answers, two runs). *RouterPoll*: the second
router meets what the first has left in the block; two entries let one count and one not. *HotspotScreen*: with two variables in a response a walk takes two
requests, so that the table can change between them; the two addresses differ in whether they have both kinds of vlan.

Symmetry is used in `loopd_safety`, `mail_cache` and `host_deploy`, where nothing orders the devices, processes, communities or uplinks and only invariants are checked.

**Fairness.** `Loopd`: each thread takes a step when it can (the sleeps are finite; requests and mails end by success,
timeout or exception; a mutex is never held while waiting). It is weak fairness per thread, not per action.
`MuxPoller`: `poll()` keeps going, and a session's timer is handled again and again (strong fairness of `SelectTimedOut` for each host):
`select()` returns 0 as long as the hosts do not flood the poller with packets, which is the assumption here because the code
handles timeouts only then. `IntfAlarm`: the daemon keeps polling.
`RouterPoll`: the program is one thread and goes on; a router that is up answers - `read` has no timeout, so that without this nothing ends. `HotspotScreen`: Zabbix runs its
rules and reads their output again and again, and a process or child goes on. That nothing changes and nothing fails any more is the condition `calm`, and not fairness.

`SignalReachesSleeper` is checked without alarms: alarms are taken last-in first-out and before anything else, so a flood of
them keeps the worker from looking at `running` or at devices for ever.

## 4. Proofs

For every finite set of devices, hosts or interfaces, every set of mail processes and every bound. The assumptions are the named `ASSUME`s of the modules.

**Loopd_proofs.** `HandoffInvariant` proves the inductive invariant `HandoffInv`; the type invariant and the safety
invariants follow from it. None of them is inductive alone. *SyncInv* ties the program counters, the lock and `running`
to each other (who is past `join` has an exited worker). *DrainInv*: between the worker's look at an empty `alarm_data` and its
look at `running` it holds `worker_datalock`, so nothing can be added - this is why a worker has handled all the alarms it was handed before `prepare_data` joins it
(`WorkerDrainsAlarms`). Alarms that the poll of the swapping turn has queued itself are not among them: they survive the swap and dangle (section 5, 2). *ResolveInv* and *TrackInv* follow a device through the queues, the pass of the worker and the
decision of `JudgeDevice`: `remove_if` drops whatever is enabled, so the invariant must say that an enabled
device that is not polled is on its way back (`PointersResolve`, `DevicesKeepAnOwner`).

**MuxPoller_proofs.** `PollerInv` adds that nothing is finished or pending between turns of the loop; the window follows by the
cardinality of a union. `PollerImplementsRound` maps initial states to initial states and each step to a step of `PollRound` or a stutter: only
`Start`, `Return`, `Throw` and the callback in `Read` or `Expire` are visible.

**Interfaces_proofs.** `InterfacesInv` says of both maps that the time base fits the readings - and of the copy that it
fits the readings *of the other map*, which it will receive in `transfer_data`. Without that last part the invariant is not preserved by `Swap`.

**MailCache_proofs.** `MailInv` has a part per idea. *LockInv* and *TextInv*: one holder per file, and the text of a locked file follows the steps
of its holder; `LockedTextIsWhole` needs no more. *FreshInv*: the file a process may yet create is in nobody's hands. *Apart*: as long as every rename and every lock
has met the process's own file (`~displaced`), a file on its way is neither the cached message nor open for reading; *Published*: what
is cached or read is therefore complete; *FromEmpty*: without a kill it was written from empty, so that there is no tail (`NoTornMail`). *ImagesInv*: the images are
there before the message is (`NoCrashBeforeCleanup`). Neither conclusion is inductive: `TornNeedsDisplacement` speaks of what was sent, and the proof of
files that nobody has read yet.

**IntfAlarm_proofs.** `AlarmInv` adds to the three properties it proves that the remembered counter is the device's or 0, the sentinel. `RateTrue` is arithmetic: a reading counts the
traffic, or one less when it wraps (`CountedTraffic`), and the quotient is exact (`ScaledQuotient`); it assumes that less than a whole turn of the counter passes between two polls, which
64 bits justify. `OneNotice` and `HighRateAlarmed` hold because of what `check_alarm` does with an alarm that it has just cleared (`CheckAlarmNotifies`).
`AverageInv` is about the average: every rate is a multiple of every number of rates it may be divided by (`TakenRateIsFine`), so that the sum of up to `mavsize` of them is divided exactly (`MeanIsExact`), and exchanging the oldest
for the newest adds and takes away whole shares (`MeanOfPushed`). What it needs of `Sum` - what a rate in front, a rate dropped at the end and a common divisor do to it - is proved from the partial sums, with the least number for
which a claim fails in the place of induction (`LeastNumber`, from the well-foundedness of `<`). `MeanTrue` and `AlarmTypeCorrect` follow.

**CfmRun_proofs.** After the types (`CfmTypeCorrect`) the invariant `CfmInv` has a part per idea. *IdsInv*: an id is of one item of a host and is never given out again, without which a macro
could come to name another vlan's item. *SnapInv*: what the run still relies on of what the checks read before the first change, for every host of the command line:
the other vlans' macros, which nobody else writes; of an add what is there, which an add never takes away; of a del the ids and, as long as the vlan's trigger is there, the number of items. For a host that is named twice the
second turn finds the trigger gone, and the count is no longer claimed. *StageInv*: how far the run is with the current host. With these `MacroNamesLive` is inductive: a macro is
erased before what it names, and written after. *TidyInv* is what an undisturbed server has besides: every item has a trigger, except in the middle of the current host (`ServerTidy`). `ReportTrue` needs that a host in
the report is not changed again to the opposite in the same run.

**RouterPoll_proofs.** `WordsCorrect`: the decoder takes back every length below `0x10000000`, by the four forms of the encoding (`OneLength`). The rest follows from `RunInv` (`PollInvariant`). *PlaceInv* and *RequestInv*: where the
poller is fixes which one request may be under way, and none is sent with anything of a reply left. *ReplyInv* is the protocol: `!done` is the last sentence of a reply, and one with `!trap` or `!fatal` has no entries, so that
dropping the error sentence cannot leave entries behind; `OneReply` is not inductive without it. *CountInv*: what a device has told is what has been counted plus what the block and the sentences still on their way will
add - which gives `CountsTrue` at the end of each block, where both are empty. *SenderInv*: what has been received, followed by what is on its way, is the beginning of the server's answer, however `recv` cuts it
(`AnswerWhole`).

**Discovery_proofs.** `WalkSound`: `WalkInv` says that a walk under way has seen every interface that was there since it began and is not past the cursor. A response keeps that because it
takes the least of what is left (`ResponseIsNext`), goes on from the greatest of them (`MaxIsGreatest`) and ends only when fewer are left than it holds. An `ifIndex` is at most `LastIndex`.
`ScreenDrawable` is an action property: every child hands on interfaces only (`SeenInv`), and for any set of them the blocks of two addresses are at least three rows apart, because the smaller address has
fewer before it (`RankRises`, `LayoutFits`).
For `HostDeploy` the invariant is `DeployInv`. *ParamInv*: a macro that names a type goes with no count of tries. *HostInv* is `HostValid` and `ParamTrue` in the form that a step can keep: the groups are that of the type in the macro and the untold ones, that type is not untold,
and there is exactly one ping template, so that the template which is taken away when the level changes is the only one (`UpdatedTemplates`). *StageInv* carries what the update has done (`Prepared`) to the step that sets the dependency, and says that a run which has ended without a host has made the group that the next one needs;
`RunConverges` follows. A host that is prepared is settled whatever its dependency is (`PreparedSettles`). When `zbx_update_host` finds nothing to change, the macro is already that of the type, also after tries were counted (`NothingToChange`). `DeployAssumption` says that the
type names are not names of the configuration's own templates, which the code takes for granted when it looks a type's template up by name.

Only model-checked: liveness (`SignalReachesSleeper`, `PollEnds`, `AlarmClears`, `ScreenCatchesUp`), which is beyond the prover. Every invariant that
a passing run checks is also a theorem.

## 5. What was found

Two statements of the code's own comments have a run with a counterexample.

1. *A stop or hand-over can be missed* (worker.cpp:271-275, run `loopd_shutdown`). The worker sets `sleeping` without looking at `running` or at the queues again.
   If `prepare_data` cleared `running` since the worker last looked, the main thread joins a worker that sleeps for ever. The
   window includes a whole pass over the devices: the last one is returned, the next turn finds no jobs, the worker sleeps.
2. *Pointers outlive the map* (main.cpp:193-203, run `loopd_dangling`). `poll()` fills `alarm_queue` and `action_queue` just before `prepare_data` frees the
   devices they point to, and `return_data` may be filled too; none is cleared.

Seven more are stated in the modules next to the properties that hold. They are in no run; TLC shows the counterexample when the property is put in place of those of
the named configuration, with the change of constants given.

3. *An alarm can be cleared while it is on its way* (worker.cpp:161-166), which the worker takes for a broken invariant and ends the daemon: `QueuedAlarmStillRaised`, Loopd_dangling.cfg.
4. *A device's restart is not recognised as a counter reset* (data.cpp:143-155): the negative time makes the rate negative, below `maxdelta`: `ResetsAreSkipped`, IntfAlarm.cfg with
   `Modulus = 12` and `Restarts = TRUE`.
5. *The worker, too, releases files* (worker.cpp:191), while the updater's copy still names them (device.cpp:258-261): `NoMissingFile`, Interfaces.cfg.
6. *The waiter does not send from the cache* (mail.cpp:187-199): `cache_state` is still `cache_msg_notfound` after the wait, so the message is
   generated again, into a stream opened for reading, and the rename fails; the recipient gets the unprocessed body. The same rename can take a third process's unfinished
   file: `WaiterSendsFromCache`, MailCache.cfg.
7. *Two tries, not three* (update.cpp:72-101): the first unsuccessful try overwrites the remembered type, so that the second makes the device unknown: `ThreeTries`, HostDeploy.cfg.
8. *A refused login is taken for a good one* (MikrotikAPI.cpp:384): `!trap` is dropped and the `!done` after it is what `Login` looks at. The router then rejects the first command and closes
   the connection: `LoginIsChecked`, RouterPoll.cfg. (`ReadBlock`'s own comment, 389-392, says that a block ends at `!trap` or `!fatal`; for the same reason it does not.)
9. *What an unsuccessful try forgets is never cleaned up* (update.cpp:93-117, 173-184). The try overwrites the type in the macro (7); when the device then answers as another type, the group, the template and the interface
   template of the old one stay on the host for ever. In the same way an interface template stays or stays away after `int_level` was handed back or the template unlinked by hand, and
   a host made without a community never gets one (193). `LeavesNothingBehind` states the first and is refuted with HostDeploy.cfg; `Converges` and `ParamHolds` exempt exactly these cases, by name.

Noted in reading, and outside the model: when zbx_cfm deletes a host's only macro (zbx_cfm/main.cpp:356-368), `clear()` leaves the text of `tempbuf` in place and nothing is appended, so that the call writes whatever the
buffer held before - malformed text, or the macros of the host before it.

## 6. Plan

Done: all modules of section 2, with the proofs of section 4. Next:

1. `zbx_dd`'s ping level 3 and the visible name, if the templates they need are ever configured.

## 7. Not modelled

- *zbx_cfm and zbx_dd at the same time*: both write back all macros of a host from what they have read before, and either may undo what the other has done. Nothing in the code keeps them apart and
  nothing promises more, so the modules take one run at a time.
- *A host whose only macro is that of zbx_cfm* (section 5), several access points on a router and names of points that contain each other, a process of sba-disc without standard input, a second child of one rule at the same time.
- *buffer*: a container of one thread. One thing was noted in reading: `append(char)` grows without a size (buffer.cpp:91).
- *Walks of libs/snmp and of the discoverers*: the same loop as in `HotspotScreen`.
- *Message texts, HTML, JSON, graph drawing, the configuration parser, the wrappers of curl, mysql, sqlite and syslog*: formatting or I/O without state of its own.
- *frozen, md5*: vendored.
