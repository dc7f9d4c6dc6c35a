----------------------------- MODULE PollRound -----------------------------
(***************************************************************************)
(* What a round of polling promises to whoever calls mux_poller::poll():   *)
(* every task's callback runs once, with an answer or with a timeout, and  *)
(* the call returns when all of them have run - or ends in an exception.   *)
(* It is what the action Poll of module Loopd takes for granted.           *)
(***************************************************************************)
CONSTANT Hosts

VARIABLES
    round,      \* the tasks of the round
    outcome,    \* of each host: "none", "answer" or "timeout"
    status      \* "idle", "polling" or "thrown"

pollvars == <<round, outcome, status>>

PollInit ==
    /\ round = {}
    /\ outcome = [h \in Hosts |-> "none"]
    /\ status = "idle"

Begin ==
    /\ status = "idle"
    /\ \E T \in (SUBSET Hosts) \ {{}} : round' = T
    /\ outcome' = [h \in Hosts |-> "none"]
    /\ status' = "polling"

Callback(h) ==
    /\ status = "polling"
    /\ h \in round
    /\ outcome[h] = "none"
    /\ outcome' \in {[outcome EXCEPT ![h] = op] : op \in {"answer", "timeout"}}
    /\ UNCHANGED <<round, status>>

End ==
    /\ status = "polling"
    /\ \A h \in round : outcome[h] # "none"
    /\ status' = "idle"
    /\ UNCHANGED <<round, outcome>>

Throw ==
    /\ status = "polling"
    /\ status' = "thrown"
    /\ UNCHANGED <<round, outcome>>

PollNext == Begin \/ (\E h \in Hosts : Callback(h)) \/ End \/ Throw

PollSpec == PollInit /\ [][PollNext]_pollvars

=============================================================================
