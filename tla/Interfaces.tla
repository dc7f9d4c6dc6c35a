----------------------------- MODULE Interfaces -----------------------------
(***************************************************************************)
(* The interfaces of one device of loopd, with their RRD files and their   *)
(* time base, in the two device maps: the one the main and the worker      *)
(* thread use, and the copy the updater thread works on, which replaces it *)
(* (transfer_data).  Module Loopd shows who holds the device when; here    *)
(* the device has an owner, and the question is what the two maps and the  *)
(* files on disk make of each other.                                       *)
(*                                                                         *)
(* Time is counted in polls.  A device's timeticks is the poll that set it,*)
(* 0 after reset(), or Retry: the epoch time of the next try, which is no  *)
(* uptime and which nothing here compares with one.  An interface's        *)
(* counter is the poll that read it, 0 meaning that there is no reading    *)
(* yet.                                                                    *)
(***************************************************************************)
EXTENDS Naturals, FiniteSets

CONSTANTS
    Intfs,          \* interface ids
    MaxPolls        \* bound: polls of one run of the daemon

ASSUME InterfacesAssumption == IsFiniteSet(Intfs) /\ MaxPolls \in Nat

VARIABLES
    map,            \* the device in the main thread's map
    copy,           \* the device in *newdata
    files,          \* the interfaces whose RRD file exists; survives the daemon
    owner,          \* who has the device of the map; "queue" is on the way to the worker
    wpc, upc,       \* where the worker and the updater are
    now,            \* polls answered
    base,           \* history: <<timeticks, counter>> of the rates of the last poll
    overlap,        \* history: the worker has removed a file while a copy was in the making
    exit

threads == <<owner, wpc, upc>>
history == <<base, overlap>>
vars == <<map, copy, files, threads, now, history, exit>>

Retry == MaxPolls + 1

Absent == [state |-> "absent", delmark |-> FALSE, ints |-> {}, marked |-> {}, ticks |-> 0,
           counter |-> [i \in Intfs |-> 0]]

\* create_device, for a device that is not in the map.
Fresh == [Absent EXCEPT !.state = "init"]

Records == [state : {"absent", "init", "enabled", "unreachable"}, delmark : BOOLEAN,
            ints : SUBSET Intfs, marked : SUBSET Intfs, ticks : 0..Retry,
            counter : [Intfs -> 0..MaxPolls]]

TypeOK ==
    /\ map \in Records /\ map.marked \subseteq map.ints
    /\ copy \in Records /\ copy.marked \subseteq copy.ints
    /\ files \subseteq Intfs
    /\ owner \in {"none", "poller", "queue", "worker"}
    /\ wpc \in {"idle", "ready", "inited", "marked", "checked"}
    /\ upc \in {"idle", "report", "init", "ints", "done"}
    /\ now \in 0..MaxPolls
    /\ base \subseteq (0..Retry) \X (0..MaxPolls)
    /\ overlap \in BOOLEAN
    /\ exit \in {"no", "rrd"}

\* The daemon starts with an empty map, and with whatever files are there.
Init ==
    /\ map = Absent /\ copy = Absent
    /\ files \in SUBSET Intfs
    /\ owner = "none" /\ wpc = "idle" /\ upc = "idle"
    /\ now = 0 /\ base = {} /\ overlap = FALSE
    /\ exit = "no"

Running == exit = "no"

-----------------------------------------------------------------------------
(* The pieces of code that both threads run, each on its own map.          *)

\* init_device that gets an answer: a device of another type loses its
\* interfaces, but not their files.
Initialised(d) == {[d EXCEPT !.state = "enabled"],
                   [d EXCEPT !.state = "enabled", !.ints = {}, !.marked = {}]}

\* init_device, or update_ints, that times out.
Unreached(d) == [d EXCEPT !.state = "unreachable"]

\* update_ints: every interface is marked, then those the device reports as active
\* are unmarked or added.
AllMarked(d) == [d EXCEPT !.marked = d.ints]
WithActive(d, active) ==
    [d EXCEPT !.ints = d.ints \cup active, !.marked = @ \ active,
              !.counter = [i \in Intfs |-> IF i \in active \ d.ints THEN 0 ELSE @[i]]]

\* rrd::init for an added interface: an existing file is taken as it is.
NoFiles(d, active) == files                                  \* mutant
WithFiles(d, active) == files \cup (active \ d.ints)

\* rrd::remove throws when the file is gone already.
Removable(S) == S \subseteq files

\* The marked interfaces leave the map once their files are removed.
StillMarked(d) == [d EXCEPT !.ints = @ \ d.marked]           \* mutant
WithoutMarked(d) == [d EXCEPT !.ints = @ \ d.marked, !.marked = {}]

-----------------------------------------------------------------------------
(* The main thread.                                                        *)

\* The callback looks at the device's type before it takes the timeticks.
TicksBeforeType == [map EXCEPT !.state = "init", !.ticks = now + 1]     \* mutant
TypeChanged == [map EXCEPT !.state = "init"]

\* By the poller while no other holds the device.  That it may be queued a second
\* time, or from before a swap, is in module Loopd.
Polled == owner = "poller" /\ Running /\ now < MaxPolls

\* A rate needs a reading to compare with, and its interface's file to be added to.
Rated == {i \in map.ints : map.counter[i] # 0}

PollAnswered ==
    /\ Polled
    /\ now' = now + 1
    /\ base' = {<<map.ticks, map.counter[i]>> : i \in Rated}
    /\ exit' = IF Rated \subseteq files THEN "no" ELSE "rrd"
    /\ map' = [map EXCEPT !.ticks = now',
                          !.counter = [i \in Intfs |-> IF i \in map.ints THEN now' ELSE 0]]
    /\ UNCHANGED <<copy, files, threads, overlap>>

PollFailed ==
    /\ Polled
    /\ map' \in {TypeChanged, Unreached(map)}
    /\ owner' = "queue"
    /\ now' = now + 1
    /\ UNCHANGED <<copy, files, wpc, upc, history, exit>>

\* The copy is made from whatever the map holds, also while the worker is at it.
StartUpdate ==
    /\ Running /\ upc = "idle"
    /\ copy' = map
    /\ upc' = "report"
    /\ UNCHANGED <<map, files, owner, wpc, now, history, exit>>

\* The interface data the main thread has gathered meanwhile replaces the copy's.
Carried == [i \in Intfs |-> IF i \in map.ints THEN map.counter[i] ELSE copy.counter[i]]

\* The device must not be in the worker's hands: it was joined.
Swap ==
    /\ Running /\ upc = "done" /\ wpc = "idle"
    /\ LET gone == IF copy.delmark THEN copy.ints ELSE copy.marked
       IN  IF Removable(gone)
           THEN /\ files' = files \ gone
                /\ map' = IF copy.delmark \/ copy.state = "absent" THEN Absent
                          ELSE WithoutMarked([copy EXCEPT !.counter = Carried])
                /\ UNCHANGED exit
           ELSE /\ exit' = "rrd"
                /\ UNCHANGED <<map, files>>
    /\ owner' = CASE map'.state = "absent"  -> "none"
                  [] map'.state = "enabled" -> "poller"
                  [] OTHER                  -> "queue"
    /\ copy' = Absent /\ upc' = "idle"
    /\ UNCHANGED <<wpc, now, history>>

-----------------------------------------------------------------------------
(* The updater thread.                                                     *)

\* Zabbix reports the device or not.
Report ==
    /\ Running /\ upc = "report"
    /\ \/ /\ copy' = IF copy.state = "absent" THEN Fresh ELSE [copy EXCEPT !.delmark = FALSE]
          /\ upc' = "init"
       \/ /\ copy' = [copy EXCEPT !.delmark = TRUE]
          /\ upc' = "done"
    /\ UNCHANGED <<map, files, owner, wpc, now, history, exit>>

UpdaterInit ==
    /\ Running /\ upc = "init"
    /\ copy' \in IF copy.state = "init" THEN Initialised(copy) \cup {Unreached(copy)} ELSE {copy}
    /\ upc' = IF copy'.state = "enabled" THEN "ints" ELSE "done"
    /\ UNCHANGED <<map, files, owner, wpc, now, history, exit>>

UpdaterInts ==
    /\ Running /\ upc = "ints"
    /\ \/ /\ copy' = AllMarked(Unreached(copy))
          /\ UNCHANGED files
       \/ \E active \in SUBSET Intfs :
            /\ copy' = WithActive(AllMarked(copy), active)
            /\ files' = WithFiles(copy, active)
    /\ upc' = "done"
    /\ UNCHANGED <<map, owner, wpc, now, history, exit>>

-----------------------------------------------------------------------------
(* The worker thread.                                                      *)

\* A new device task: timeticks is cleared.
Take ==
    /\ Running /\ owner = "queue"
    /\ owner' = "worker" /\ wpc' = "ready"
    /\ map' = [map EXCEPT !.ticks = 0]
    /\ UNCHANGED <<copy, files, upc, now, history, exit>>

\* Another try, when the time for it has come.
TryAgain ==
    /\ Running /\ owner = "worker" /\ wpc = "idle"
    /\ wpc' = "ready"
    /\ UNCHANGED <<map, copy, files, owner, upc, now, history, exit>>

WorkerInit ==
    /\ Running /\ wpc = "ready"
    /\ map' \in Initialised(map) \cup {Unreached(map)}
    /\ wpc' = IF map'.state = "enabled" THEN "inited" ELSE "checked"
    /\ UNCHANGED <<copy, files, owner, upc, now, history, exit>>

\* The device is asked first; then the interfaces are marked, then unmarked.
WorkerMark ==
    /\ Running /\ wpc = "inited"
    /\ \/ map' = AllMarked(map) /\ wpc' = "marked"
       \/ map' = AllMarked(Unreached(map)) /\ wpc' = "checked"
    /\ UNCHANGED <<copy, files, owner, upc, now, history, exit>>

WorkerInts ==
    /\ Running /\ wpc = "marked"
    /\ \E active \in SUBSET Intfs :
        /\ map' = WithActive(map, active)
        /\ files' = WithFiles(map, active)
    /\ wpc' = "checked"
    /\ UNCHANGED <<copy, owner, upc, now, history, exit>>

\* Still unreachable: timeticks holds the time of the next try.
BackOff ==
    /\ Running /\ wpc = "checked"
    /\ map.state # "enabled"
    /\ map' = [map EXCEPT !.ticks = Retry]
    /\ wpc' = "idle"
    /\ UNCHANGED <<copy, files, owner, upc, now, history, exit>>

\* return_dev: marked interfaces are released by the worker itself, the others reset.
ReturnDevice ==
    /\ Running /\ wpc = "checked"
    /\ map.state = "enabled"
    /\ IF Removable(map.marked)
       THEN /\ files' = files \ map.marked
            /\ map' = [WithoutMarked(map) EXCEPT !.ticks = 0, !.counter = Absent.counter]
            /\ owner' = "poller" /\ wpc' = "idle"
            /\ overlap' = (overlap \/ (map.marked # {} /\ upc # "idle"))
            /\ UNCHANGED exit
       ELSE /\ exit' = "rrd"
            /\ UNCHANGED <<files, map, owner, wpc, overlap>>
    /\ UNCHANGED <<copy, upc, now, base>>

-----------------------------------------------------------------------------
\* The daemon is stopped, or has ended by an exception, and is started again: only
\* the files are left.
Restart ==
    /\ map' = Absent /\ copy' = Absent
    /\ owner' = "none" /\ wpc' = "idle" /\ upc' = "idle"
    /\ now' = 0 /\ base' = {} /\ overlap' = FALSE
    /\ exit' = "no"
    /\ UNCHANGED files

Main    == PollAnswered \/ PollFailed \/ StartUpdate \/ Swap
Updater == Report \/ UpdaterInit \/ UpdaterInts
Worker  == Take \/ TryAgain \/ WorkerInit \/ WorkerMark \/ WorkerInts \/ BackOff \/ ReturnDevice

Next == Main \/ Updater \/ Worker \/ Restart

Spec == Init /\ [][Next]_vars

-----------------------------------------------------------------------------
(* Properties.                                                             *)

\* Every interface of the map, and of the copy that will replace it, has its file:
\* rrd::init makes it when the interface is added, and whatever removes the file
\* removes the interface from the map.  The one exception is a file the worker
\* removes while an update is under way: the copy still has the interface.
FilesUnlessOverlap == overlap \/ map.ints \cup copy.ints \subseteq files

\* The time base of a rate is never later than the reading it is compared with: a
\* swap, an outage or a change of type can make a rate too low, which hides a
\* storm for one poll, but not too high, which would be a false alarm.  The
\* exception is a base that is no uptime at all: the time of a retry, copied from
\* the worker between init_device and return_dev.
RateNeverTooHigh == \A b \in base : b[1] = Retry \/ b[1] <= b[2]

\* What the comment at the end of update_devdata promises: marked resources are
\* released by the main thread alone, once the data was updated - so no file is
\* ever missing when it is written or removed, which would end the daemon.
\* Does not hold: README, section 5.
NoMissingFile == exit # "rrd"

=============================================================================
