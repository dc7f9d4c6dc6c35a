------------------------------- MODULE CfmRun -------------------------------
(***************************************************************************)
(* zbx_cfm add | del VLAN HOST...: the CFM monitoring of a vlan on some    *)
(* hosts of Zabbix.  On the server it is an application, an item, a        *)
(* trigger, and a macro of the host, named for the vlan, that holds the    *)
(* ids of the item and the trigger; the macro is all that a later run goes *)
(* by.  Every step that changes the server is one API call of its own: it  *)
(* may fail, and the process may be killed before or after it.             *)
(*                                                                         *)
(* One run at a time, on hosts that have other macros besides, as those    *)
(* that zbx_dd has made do: without, the list of macros that del writes    *)
(* back may be empty, and it sends old text of tempbuf instead.  The rules *)
(* of the Zabbix server (unique names, triggers that go with their item)   *)
(* are external.                                                           *)
(***************************************************************************)
EXTENDS Naturals, Sequences, FiniteSets

CONSTANTS
    CfmHosts,
    Vlans,
    TrapHosts,      \* cfm-table: alert_type is snmp_trap for their type, zbx_sender for the others
    Trap,           \* the key of the one item that the traps of a host arrive in
    MaxRuns         \* bound: runs of zbx_cfm

ASSUME CfmAssumption ==
    /\ TrapHosts \subseteq CfmHosts
    /\ IsFiniteSet(Vlans) /\ Trap \notin Vlans
    /\ MaxRuns \in Nat

VARIABLES
    app,            \* server: the host has the CFM application
    item,           \* server: id of the item of each key, 0 for none
    trig,           \* server: id of the trigger of each vlan
    cfmMacro,       \* server: the ids in the macro of each vlan
    lastId,         \* server: ids are never given out twice
    cpc,
    action, vlan,   \* the command line, with args
    args,
    at,             \* place in args
    data,           \* hosts: what the checks have read of the host at each place
    triggers,       \* delete_zabbix_cfm: triggers of the item when it was asked
    finished,       \* done: places reported as successfully processed
    runs,
    failed          \* history: a call has failed or a process was killed

server == <<app, item, trig, cfmMacro, lastId>>
command == <<action, vlan, args, runs>>
cfmVars == <<server, command, cpc, at, data, triggers, finished, failed>>

Keys == Vlans \cup {Trap}
NoMacro == <<0, 0>>
NoData == [app |-> FALSE, items |-> 0, item |-> 0, trig |-> 0, macros |-> [v \in Vlans |-> NoMacro]]
HostData == [app : BOOLEAN, items : Nat, item : Nat, trig : Nat, macros : [Vlans -> Nat \X Nat]]
CfmStates == {"idle", "check", "application", "item", "trigger", "macro",
              "count", "erase", "untrigger", "unitem", "unapplication"}

\* item_name: the key of the item a host's trigger for vlan v looks at.
KeyOf(h, v) == IF h \in TrapHosts THEN Trap ELSE v

ItemCount(h) == Cardinality({k \in Keys : item[h][k] # 0})
Users(h, k) == {v \in Vlans : KeyOf(h, v) = k /\ trig[h][v] # 0}

CfmTypeOK ==
    /\ app \in [CfmHosts -> BOOLEAN]
    /\ item \in [CfmHosts -> [Keys -> Nat]] /\ trig \in [CfmHosts -> [Vlans -> Nat]]
    /\ cfmMacro \in [CfmHosts -> [Vlans -> Nat \X Nat]]
    /\ lastId \in Nat /\ runs \in 0..MaxRuns /\ failed \in BOOLEAN
    /\ cpc \in CfmStates
    /\ action \in {"add", "del"} /\ vlan \in Vlans
    /\ args \in Seq(CfmHosts) /\ at \in 1..(Len(args) + 1)
    /\ data \in [DOMAIN args -> HostData] /\ finished \subseteq DOMAIN args
    /\ triggers \in 0..Cardinality(Vlans)

\* No host is monitored yet.
CfmInit ==
    /\ app = [h \in CfmHosts |-> FALSE]
    /\ item = [h \in CfmHosts |-> [k \in Keys |-> 0]]
    /\ trig = [h \in CfmHosts |-> [v \in Vlans |-> 0]]
    /\ cfmMacro = [h \in CfmHosts |-> [v \in Vlans |-> NoMacro]]
    /\ lastId = 0 /\ runs = 0 /\ failed = FALSE
    /\ cpc = "idle" /\ action = "add" /\ vlan \in Vlans
    /\ args = <<>> /\ at = 1 /\ data = <<>> /\ triggers = 0 /\ finished = {}

host == args[at]
cur == data[at]

\* main: a command of one host, or of two that may be one and the same.
Command(a, v, s) ==
    /\ cpc = "idle" /\ runs < MaxRuns
    /\ action' = a /\ vlan' = v /\ args' = s /\ runs' = runs + 1
    /\ at' = 1 /\ data' = [i \in DOMAIN s |-> NoData] /\ finished' = {} /\ triggers' = 0
    /\ cpc' = "check"
    /\ UNCHANGED <<server, failed>>

\* logger.error_exit, or the throw that ends there.
Exit == cpc' = "idle" /\ UNCHANGED <<server, command, at, data, triggers, finished>>

\* An API call fails, or the process is killed, before or after any call.
CfmAbort == cpc # "idle" /\ failed' = TRUE /\ Exit

-----------------------------------------------------------------------------
(* First all the hosts are checked, then all are processed.                *)

\* get_zbx_hostdata, snmp_trap_prepare and check_cfm_application of one host.
Read(h) ==
    [app |-> app[h],
     items |-> IF app[h] THEN ItemCount(h) ELSE 0,
     item |-> IF action = "add" /\ h \in TrapHosts THEN item[h][Trap] ELSE 0,
     trig |-> 0,
     macros |-> cfmMacro[h]]

\* add wants the vlan's macro not to be there, del wants it.
CheckHost(h) == (action = "del") <=> (cfmMacro[h][vlan] # NoMacro)

First(a) == IF a = "add" THEN "application" ELSE "count"

Check ==
    /\ cpc = "check"
    /\ IF CheckHost(host)
       THEN /\ data' = [data EXCEPT ![at] = Read(host)]
            /\ IF at = Len(args) THEN at' = 1 /\ cpc' = First(action)
                                 ELSE at' = at + 1 /\ UNCHANGED cpc
            /\ UNCHANGED <<server, command, triggers, finished, failed>>
       ELSE Exit /\ UNCHANGED failed

DoneAll == DOMAIN args                                         \* mutant

DoneNext == finished \cup {at + 1}                             \* mutant

\* done << host.hostname
Done == finished \cup {at}

\* The host is processed; on to the next.
NextHost ==
    /\ finished' = Done
    /\ at' = at + 1
    /\ cpc' = IF at = Len(args) THEN "idle" ELSE First(action)
    /\ UNCHANGED command

\* The server refuses the call: error in the answer, and send_json throws.
Refused == Exit /\ UNCHANGED failed

-----------------------------------------------------------------------------
(* deploy_zabbix_cfm                                                       *)

CreateApplication ==
    /\ cpc = "application"
    /\ \/ cur.app /\ cpc' = "item" /\ UNCHANGED <<app, data>>
       \/ /\ ~cur.app /\ ~app[host]
          /\ app' = [app EXCEPT ![host] = TRUE]
          /\ data' = [data EXCEPT ![at].app = TRUE]
          /\ cpc' = "item"
       \/ ~cur.app /\ app[host] /\ cpc' = "idle" /\ UNCHANGED <<app, data>>
    /\ UNCHANGED <<item, trig, cfmMacro, lastId, command, at, triggers, finished, failed>>

\* The trap item of a host is made once and shared by its vlans.
CreateItem ==
    LET k == KeyOf(host, vlan) IN
    /\ cpc = "item"
    /\ \/ cur.item # 0 /\ cpc' = "trigger" /\ UNCHANGED <<item, lastId, data>>
       \/ /\ cur.item = 0 /\ item[host][k] = 0
          /\ lastId' = lastId + 1
          /\ item' = [item EXCEPT ![host][k] = lastId + 1]
          /\ data' = [data EXCEPT ![at].item = lastId + 1]
          /\ cpc' = "trigger"
       \/ cur.item = 0 /\ item[host][k] # 0 /\ cpc' = "idle" /\ UNCHANGED <<item, lastId, data>>
    /\ UNCHANGED <<app, trig, cfmMacro, command, at, triggers, finished, failed>>

CreateTrigger ==
    /\ cpc = "trigger"
    /\ IF trig[host][vlan] = 0 /\ item[host][KeyOf(host, vlan)] # 0
       THEN /\ lastId' = lastId + 1
            /\ trig' = [trig EXCEPT ![host][vlan] = lastId + 1]
            /\ data' = [data EXCEPT ![at].trig = lastId + 1]
            /\ cpc' = "macro"
            /\ UNCHANGED <<app, item, cfmMacro, command, at, triggers, finished, failed>>
       ELSE Refused

\* host.update replaces all the macros by what the check has read and the new one.
WriteMacro ==
    /\ cpc = "macro"
    /\ cfmMacro' = [cfmMacro EXCEPT ![host] = [cur.macros EXCEPT ![vlan] = <<cur.item, cur.trig>>]]
    /\ NextHost
    /\ UNCHANGED <<app, item, trig, lastId, data, triggers, failed>>

-----------------------------------------------------------------------------
(* delete_zabbix_cfm: item_id and trigger_id come from the macro.          *)

ids == cur.macros[vlan]

CountTriggers ==
    /\ cpc = "count"
    /\ IF \E k \in Keys : item[host][k] = ids[1]
       THEN /\ triggers' = Cardinality(Users(host, CHOOSE k \in Keys : item[host][k] = ids[1]))
            /\ cpc' = "erase"
            /\ UNCHANGED <<server, command, at, data, finished, failed>>
       ELSE Refused

\* macros.erase(cfm_macro)
LeftMacros == [cur.macros EXCEPT ![vlan] = NoMacro]

\* host.update with the macros that are left.
EraseMacro ==
    /\ cpc = "erase"
    /\ cfmMacro' = [cfmMacro EXCEPT ![host] = LeftMacros]
    /\ cpc' = "untrigger"
    /\ UNCHANGED <<app, item, trig, lastId, command, at, data, triggers, finished, failed>>

LastTriggerAlways == TRUE                                      \* mutant

\* triggers - 1 > 0 is false; the numbers are unsigned.
LastTrigger == triggers = 1

DeleteTrigger ==
    /\ cpc = "untrigger"
    /\ IF trig[host][vlan] = ids[2]
       THEN /\ trig' = [trig EXCEPT ![host][vlan] = 0]
            /\ IF LastTrigger THEN cpc' = "unitem" /\ UNCHANGED <<command, at, finished>> ELSE NextHost
            /\ UNCHANGED <<app, item, cfmMacro, lastId, data, triggers, failed>>
       ELSE Refused

LastItemNot == cur.items = 0                                   \* mutant

\* item_count - 1 > 0 is false, the count being that of the check.
LastItem == cur.items = 1

\* The server deletes the triggers of the item with it.
DeleteItem ==
    /\ cpc = "unitem"
    /\ \E k \in Keys :
         /\ item[host][k] = ids[1]
         /\ item' = [item EXCEPT ![host][k] = 0]
         /\ trig' = [trig EXCEPT ![host] =
                        [v \in Vlans |-> IF v \in Users(host, k) THEN 0 ELSE trig[host][v]]]
    /\ IF LastItem THEN cpc' = "unapplication" /\ UNCHANGED <<command, at, finished>> ELSE NextHost
    /\ UNCHANGED <<app, cfmMacro, lastId, data, triggers, failed>>

DeleteApplication ==
    /\ cpc = "unapplication"
    /\ app' = [app EXCEPT ![host] = FALSE]
    /\ NextHost
    /\ UNCHANGED <<item, trig, cfmMacro, lastId, data, triggers, failed>>

CfmNext ==
    \/ \E a \in {"add", "del"}, v \in Vlans, g, h \in CfmHosts : Command(a, v, <<g>>) \/ Command(a, v, <<g, h>>)
    \/ CfmAbort
    \/ Check
    \/ CreateApplication \/ CreateItem \/ CreateTrigger \/ WriteMacro
    \/ CountTriggers \/ EraseMacro \/ DeleteTrigger \/ DeleteItem \/ DeleteApplication

CfmSpec == CfmInit /\ [][CfmNext]_cfmVars

-----------------------------------------------------------------------------
(* Properties                                                              *)

\* A macro never names an item or a trigger that is not there, nor is the
\* application gone (item_count would be read uninitialised), wherever a run is
\* cut short: the macro is written last by deploy_zabbix_cfm and erased first by
\* delete_zabbix_cfm, and an item that vlans share goes with the last of them.
MacroNamesLive ==
    \A h \in CfmHosts, v \in Vlans :
        cfmMacro[h][v] # NoMacro =>
            /\ cfmMacro[h][v] = <<item[h][KeyOf(h, v)], trig[h][v]>>
            /\ item[h][KeyOf(h, v)] # 0 /\ trig[h][v] # 0
            /\ app[h]

\* As long as no call has failed and no process was killed, a server at rest
\* holds what its macros say and nothing besides: no trigger without a macro, no
\* item without a trigger, an application where there are items and no other.
NothingLeftOver ==
    cpc = "idle" /\ ~failed =>
        \A h \in CfmHosts :
            /\ \A v \in Vlans : (trig[h][v] # 0) <=> (cfmMacro[h][v] # NoMacro)
            /\ \A k \in Keys : (item[h][k] # 0) <=> (Users(h, k) # {})
            /\ app[h] <=> (ItemCount(h) # 0)

\* "Successfully processed hosts": a host in the list is monitored after an add
\* and no longer after a del, also when a later host has ended the run.
ReportIsTrue ==
    \A i \in finished :
        IF action = "add" THEN cfmMacro[args[i]][vlan] # NoMacro
                          ELSE cfmMacro[args[i]][vlan] = NoMacro /\ trig[args[i]][vlan] = 0
=============================================================================
