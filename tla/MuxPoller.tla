----------------------------- MODULE MuxPoller -----------------------------
(***************************************************************************)
(* snmp::mux_poller: one thread polls many hosts with at most max_hosts    *)
(* asynchronous SNMP sessions open at a time.  poll() opens sessions while *)
(* there is room, waits in select(), lets the library read what arrived or *)
(* expire what is overdue - which runs the task's callback - and drops the *)
(* finished sessions, until all tasks are done.                            *)
(*                                                                         *)
(* The network is the choice of which sessions select() finds readable;    *)
(* the SNMP library is external: a session retransmits Retries times and   *)
(* then reports a timeout to the callback.                                 *)
(***************************************************************************)
EXTENDS Naturals, FiniteSets

CONSTANTS
    Hosts,          \* the hosts that can have a task
    MaxHosts,       \* max_hosts
    Retries         \* retransmissions of the SNMP library

ASSUME MuxAssumption ==
    /\ IsFiniteSet(Hosts)
    /\ MaxHosts \in Nat \ {0}
    /\ Retries \in Nat

VARIABLES
    pc,
    tasks,          \* the hosts with a task
    unsent,         \* the tasks from the iterator "it" on
    sessions,       \* the open sessions
    finished,       \* those whose state is pollstate::finished
    ready,          \* those the current pass over the sessions has yet to handle
    attempts,       \* retransmissions of each open session
    called          \* the operation each task's callback got, or "none"

vars == <<pc, tasks, unsent, sessions, finished, ready, attempts, called>>

TypeOK ==
    /\ pc \in {"idle", "fill", "select", "read", "expire", "thrown"}
    /\ tasks \subseteq Hosts
    /\ unsent \subseteq tasks
    /\ sessions \subseteq tasks
    /\ finished \subseteq sessions
    /\ ready \subseteq sessions
    /\ attempts \in [Hosts -> 0..Retries]
    /\ called \in [Hosts -> {"none", "answer", "timeout"}]

Init ==
    /\ pc = "idle"
    /\ tasks = {} /\ unsent = {} /\ sessions = {} /\ finished = {} /\ ready = {}
    /\ attempts = [h \in Hosts |-> 0]
    /\ called = [h \in Hosts |-> "none"]

\* The owner calls poll() with some tasks; with none it returns at once.
Start ==
    /\ pc = "idle"
    /\ \E T \in (SUBSET Hosts) \ {{}} : tasks' = T /\ unsent' = T
    /\ called' = [h \in Hosts |-> "none"]
    /\ pc' = "fill"
    /\ UNCHANGED <<sessions, finished, ready, attempts>>

\* max_hosts - active_hosts sessions may be opened.
RoomOffByOne == (MaxHosts + 1) - Cardinality(sessions)       \* mutant
Room == MaxHosts - Cardinality(sessions)

\* No session open and no task left.
NothingUnsent == unsent = {}                                 \* mutant
NothingLeft == sessions = {} /\ unsent = {}

Return ==
    /\ pc = "fill"
    /\ NothingLeft
    /\ pc' = "idle"
    /\ UNCHANGED <<tasks, unsent, sessions, finished, ready, attempts, called>>

\* Sessions are opened, and requests sent, while there is room and a task left.
Fill ==
    /\ pc = "fill"
    /\ ~NothingLeft
    /\ \E S \in SUBSET unsent :
        /\ Cardinality(S) <= Room
        /\ Cardinality(S) = Room \/ S = unsent
        /\ unsent' = unsent \ S
        /\ sessions' = sessions \cup S
        /\ attempts' = [h \in Hosts |-> IF h \in S THEN 0 ELSE attempts[h]]
    /\ pc' = "select"
    /\ UNCHANGED <<tasks, finished, ready, called>>

\* init_snmp_session or async_send throws, select() fails, or the owner's callback
\* throws inside the library's read or timeout (an SNMP error, an RRD error): poll()
\* is left with the sessions open, and the daemon ends.
Throw ==
    /\ \/ pc = "fill" /\ ~NothingLeft
       \/ pc = "select"
       \/ pc \in {"read", "expire"} /\ ready # {}
    /\ pc' = "thrown"
    /\ UNCHANGED <<tasks, unsent, sessions, finished, ready, attempts, called>>

\* select() > 0: some sessions have something to read.
SelectReadable ==
    /\ pc = "select"
    /\ \E R \in (SUBSET sessions) \ {{}} : ready' = R
    /\ pc' = "read"
    /\ UNCHANGED <<tasks, unsent, sessions, finished, attempts, called>>

\* select() = 0: the sessions that are overdue, if any.
SelectTimedOut ==
    /\ pc = "select"
    /\ \E R \in SUBSET sessions : ready' = R
    /\ pc' = "expire"
    /\ UNCHANGED <<tasks, unsent, sessions, finished, attempts, called>>

\* callback_wrap: the owner's callback returns ok_close.
FinishNothing(h) == UNCHANGED finished                       \* mutant
Finish(h) == finished' = finished \cup {h}

\* snmp_sess_read matches the packet with the session's request and runs the
\* callback, or drops a packet that does not match.
Read(h) ==
    /\ pc = "read"
    /\ h \in ready
    /\ ready' = ready \ {h}
    /\ \/ /\ called' = [called EXCEPT ![h] = "answer"]
          /\ Finish(h)
       \/ UNCHANGED <<called, finished>>
    /\ UNCHANGED <<pc, tasks, unsent, sessions, attempts>>

\* snmp_sess_timeout retransmits or gives up.
OneRetryMore(h) == attempts[h] <= Retries                    \* mutant
RetriesLeft(h) == attempts[h] < Retries

Expire(h) ==
    /\ pc = "expire"
    /\ h \in ready
    /\ ready' = ready \ {h}
    /\ IF RetriesLeft(h)
       THEN /\ attempts' = [attempts EXCEPT ![h] = @ + 1]
            /\ UNCHANGED <<called, finished>>
       ELSE /\ called' = [called EXCEPT ![h] = "timeout"]
            /\ Finish(h)
            /\ UNCHANGED attempts
    /\ UNCHANGED <<pc, tasks, unsent, sessions>>

\* sessions.remove_if(finished).
Sweep ==
    /\ pc \in {"read", "expire"}
    /\ ready = {}
    /\ sessions' = sessions \ finished
    /\ finished' = {}
    /\ pc' = "fill"
    /\ UNCHANGED <<tasks, unsent, ready, attempts, called>>

Next == \/ Start \/ Return \/ Fill \/ Throw \/ SelectReadable \/ SelectTimedOut \/ Sweep
        \/ \E h \in Hosts : Read(h) \/ Expire(h)

Spec == Init /\ [][Next]_vars

\* poll() runs on; a session's timer expires again and again until it is
\* answered or gives up, whatever else arrives.
FairSpec ==
    /\ Spec
    /\ WF_vars(Return \/ Fill \/ Sweep \/ SelectReadable \/ SelectTimedOut)
    /\ WF_vars(\E h \in Hosts : Read(h) \/ Expire(h))
    /\ \A h \in Hosts : SF_vars(SelectTimedOut /\ h \in ready')

-----------------------------------------------------------------------------
(* Properties.                                                             *)

\* The window: poll() never has more than max_hosts sessions open, however many
\* finish or are opened in one turn of the loop.
WindowBound == Cardinality(sessions) <= MaxHosts

\* A session stays open exactly while its callback is owed: no session is left
\* waiting after its callback ran, and no task is dropped without one.
OneCallbackEach ==
    \A h \in tasks :
        /\ called[h] = "none" <=> h \in unsent \cup (sessions \ finished)
        /\ h \in unsent => h \notin sessions

\* poll() returns or throws, although answers may be lost or late.
PollEnds == pc # "idle" ~> pc \in {"idle", "thrown"}

\* mux_poller implements the round of module PollRound.
Round == INSTANCE PollRound WITH
            round   <- tasks,
            outcome <- called,
            status  <- CASE pc = "idle"   -> "idle"
                         [] pc = "thrown" -> "thrown"
                         [] OTHER         -> "polling"

RoundImplemented == Round!PollSpec

=============================================================================
