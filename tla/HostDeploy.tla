----------------------------- MODULE HostDeploy -----------------------------
(***************************************************************************)
(* zbx_dd IP: what Zabbix should monitor on a device that its discovery    *)
(* has met.  A run asks the device for its type over SNMP, takes the       *)
(* settings of the type from a database, creates or updates the host in    *)
(* Zabbix, and makes the host's ping trigger depend on that of its uplink. *)
(* What a run has set is kept in a macro of the host, the next run         *)
(* compares with it.                                                       *)
(*                                                                         *)
(* One device and one run at a time; the administrator acts between runs.  *)
(* The visible name of the host is left out.                               *)
(* Each call that changes the server is a step, and any may fail.          *)
(***************************************************************************)
EXTENDS Naturals, FiniteSets

CONSTANTS
    Types,          \* types-table: names of the device types
    Settings,       \* rows the table may have over time: <<type, ping_level, int_level>>
    Communities,    \* snmp_communities
    Uplinks,        \* devices that may be the uplink
    None            \* no type, no community, no uplink

ASSUME DeployAssumption ==
    /\ Settings \subseteq Types \X (1..2) \X (0..1)
    /\ "unknown" \notin Types /\ None \notin Types \cup Communities \cup Uplinks
    /\ (Types \cup {None}) \cap {"icmp_l1", "icmp_l2", "int"} = {}   \* the templates of the configuration

VARIABLES
    typeGroups,     \* server: types that have a host group
    typeTemplates,  \* server: types that have a template
    exists,         \* server: the host is there
    flags,          \* autod-macro: what the administrator keeps for himself
    param,          \* param-macro: ping level, int level and type that the last update has set
    lower,          \* lower-macro, 0 when the host has none
    community,      \* community-macro
    templates, groups,
    depends,        \* the uplink whose ping trigger the host's ping trigger depends on
    dpc,
    db,             \* db_devdata and the community that was answered
    uplink,         \* what hierarchy-table says when the run asks
    untold,         \* history: types of which the host may have kept group and template, and "int",
                    \* of which the param-macro does not tell
    missed,         \* history: runs that found no known type since the last that did, up to 3
    steady,         \* history: undisturbed runs in a row with the same type and uplink, up to 2
    seen            \* history: that answer and uplink

zhost == <<exists, flags, param, lower, community, templates, groups, depends>>
catalog == <<typeGroups, typeTemplates>>
deployHistory == <<untold, missed, steady, seen>>
locals == <<dpc, db, uplink>>
deployVars == <<catalog, zhost, locals, deployHistory>>

Flags == {"ping_depend", "ping_level", "int_level"}
Ping(l) == <<"unknown", "icmp_l1", "icmp_l2">>[l + 1]
PingTemplates == {Ping(1), Ping(2)}

\* device_params as constructed, and as read for a device type.
NoDevice == [init |-> FALSE, type |-> None, ping |-> 1, int |-> 0, community |-> None]
Device(s, c) == [init |-> TRUE, type |-> s[1], ping |-> s[2], int |-> s[3], community |-> c]
Stranger(c) == [NoDevice EXCEPT !.community = c]
Answers == {NoDevice} \cup {Stranger(c) : c \in Communities}
                      \cup {Device(s, c) : s \in Settings, c \in Communities}
Params(d) == [type |-> d.type, ping |-> d.ping, int |-> d.int]
Name(d) == IF d.init THEN d.type ELSE "unknown"

DeployTypeOK ==
    /\ typeGroups \subseteq Types /\ typeTemplates \subseteq Types
    /\ exists \in BOOLEAN /\ flags \subseteq Flags
    /\ param \in [type : Types \cup {None}, ping : 1..2, int : 0..1]
    /\ lower \in 0..3 /\ community \in Communities \cup {None}
    /\ templates \subseteq PingTemplates \cup {"int"} \cup Types
    /\ groups \subseteq Types \cup {"unknown"}
    /\ depends \in Uplinks \cup {None}
    /\ dpc \in {"idle", "poll", "create", "update", "depend", "undepend", "add"}
    /\ db \in Answers /\ uplink \in Uplinks \cup {None}
    /\ untold \subseteq Types \cup {"int"} /\ missed \in 0..3 /\ steady \in 0..2
    /\ seen \in Answers \X (Uplinks \cup {None})

\* The device is not in Zabbix.
DeployInit ==
    /\ typeGroups = {} /\ typeTemplates = {}
    /\ exists = FALSE /\ flags = {} /\ param = Params(NoDevice) /\ lower = 0
    /\ community = None /\ templates = {} /\ groups = {} /\ depends = None
    /\ dpc = "idle" /\ db = NoDevice /\ uplink = None
    /\ untold = {} /\ missed = 0 /\ steady = 0 /\ seen = <<NoDevice, None>>

\* The administrator makes a template for a type, keeps a setting for himself or hands
\* it back, or unlinks a template of the host that is not the ping template.
Administrate ==
    /\ dpc = "idle"
    /\ \/ /\ \E t \in Types \ typeTemplates : typeTemplates' = typeTemplates \cup {t}
          /\ UNCHANGED <<flags, templates, untold>>
       \/ /\ exists /\ \E f \in Flags : flags' = (flags \ {f}) \cup ({f} \ flags)
          /\ UNCHANGED <<typeTemplates, templates, untold>>
       \/ /\ exists /\ \E t \in templates \ PingTemplates :
                          templates' = templates \ {t} /\ untold' = untold \cup ({t} \cap {"int"})
          /\ UNCHANGED <<typeTemplates, flags>>
    /\ steady' = 0 /\ seen' = <<NoDevice, None>>
    /\ UNCHANGED <<typeGroups, exists, param, lower, community, groups, depends, locals, missed>>

\* main: primary_ip and get_zabbix_host; a host of the administrator's own, without
\* autod-macro, is left alone.
Start ==
    /\ dpc = "idle" /\ dpc' = "poll"
    /\ UNCHANGED <<catalog, zhost, db, uplink, deployHistory>>

\* The run is over; calm when nothing but the code has ended it.
End(calm) ==
    /\ dpc' = "idle" /\ db' = NoDevice /\ uplink' = None
    /\ IF calm /\ db.init
       THEN seen' = <<db, uplink>> /\ steady' = IF steady > 0 /\ seen = <<db, uplink>> THEN 2 ELSE 1
       ELSE seen' = <<NoDevice, None>> /\ steady' = 0
    /\ UNCHANGED <<untold, missed>>

\* An API call fails, or the process is killed.
DeployAbort == dpc # "idle" /\ End(FALSE) /\ UNCHANGED <<catalog, zhost>>

\* snmp_get_objid and get_device_params: no answer, a type that the table has,
\* or one that it has not.
Poll ==
    /\ dpc = "poll"
    /\ db' \in Answers /\ uplink' \in Uplinks \cup {None}
    /\ missed' = IF db'.init THEN 0 ELSE IF missed < 3 THEN missed + 1 ELSE 3
    /\ dpc' = IF exists THEN "update" ELSE "create"
    /\ UNCHANGED <<catalog, zhost, untold, steady, seen>>

-----------------------------------------------------------------------------
(* zbx_create_host                                                         *)

Unchecked == {Ping(db.ping), db.type} \cup (IF db.int = 1 THEN {"int"} ELSE {})  \* mutant

CreateTemplates == {Ping(db.ping)} \cup (IF db.int = 1 THEN {"int"} ELSE {}) \cup ({db.type} \cap typeTemplates)

\* A type's group that was not there is made, but its id is dropped: host.create
\* names group 0 and is refused.
CreateGroup ==
    /\ dpc = "create" /\ db.init /\ db.type \notin typeGroups
    /\ typeGroups' = typeGroups \cup {db.type}
    /\ End(TRUE)
    /\ UNCHANGED <<typeTemplates, zhost>>

CreateHost ==
    /\ dpc = "create" /\ (db.init => db.type \in typeGroups)
    /\ exists' = TRUE /\ flags' = {} /\ param' = Params(db) /\ lower' = 0
    /\ community' = db.community
    /\ templates' = CreateTemplates /\ groups' = {Name(db)} /\ depends' = None
    /\ dpc' = "depend" /\ untold' = {}
    /\ UNCHANGED <<catalog, db, uplink, missed, steady, seen>>

-----------------------------------------------------------------------------
(* zbx_update_host                                                         *)

MacroLevel == param.ping                                       \* mutant

\* parse_params_macro: the ping level of the host's template overrides the macro's.
ActualLevel == CHOOSE l \in 1..2 : Ping(l) \in templates

WasKnown == param.type # None
OldName == IF WasKnown THEN param.type ELSE "unknown"

\* devname of an unknown device is empty in db_devdata and "unknown" in zbx_devdata.
TypeDiffers == ~db.init \/ db.type # OldName

\* check_lowering: the try is counted and the host is left, until the count is 3.
Lowering == WasKnown /\ ~db.init /\ lower < 3

\* build_host_macrostr writes the parameters of db_devdata into the param-macro,
\* and a device that has not answered has those of no type: the macro
\* forgets what the host keeps.
CountTry ==
    /\ dpc = "update" /\ Lowering
    /\ lower' = lower + 1 /\ param' = Params(db)
    /\ untold' = untold \cup {param.type} \cup (IF param.int = 1 THEN {"int"} ELSE {})
    /\ dpc' = "depend"
    /\ UNCHANGED <<catalog, exists, flags, community, templates, groups, depends,
                   db, uplink, missed, steady, seen>>

MakeGroup ==
    /\ dpc = "update" /\ ~Lowering
    /\ TypeDiffers /\ db.init /\ db.type \notin typeGroups
    /\ typeGroups' = typeGroups \cup {db.type}
    /\ UNCHANGED <<typeTemplates, zhost, locals, deployHistory>>

KeptOld == IF TypeDiffers THEN groups \cup {Name(db)} ELSE groups  \* mutant

TypedGroups == IF TypeDiffers THEN (groups \ {OldName}) \cup {Name(db)} ELSE groups

\* The template of the old type is cleared when the type has changed; that of the
\* type is linked if there is one, check_supt_template doing so for the same type.
TypedTemplates ==
    (IF TypeDiffers THEN templates \ {param.type} ELSE templates) \cup ({db.type} \cap typeTemplates)

RelevelPing == "ping_level" \notin flags /\ ActualLevel # db.ping
RelevelInt == "int_level" \notin flags /\ param.int # db.int

NotErased == IF RelevelPing THEN TypedTemplates \cup {Ping(db.ping)} ELSE TypedTemplates  \* mutant

PingedTemplates ==
    IF RelevelPing THEN (TypedTemplates \ {Ping(ActualLevel)}) \cup {Ping(db.ping)} ELSE TypedTemplates

WithIntLevel(ts) == IF ~RelevelInt THEN ts
                    ELSE IF param.int = 0 THEN ts \cup {"int"} ELSE ts \ {"int"}

NewCommunity == db.community \notin {None, community}

\* The community is assigned through end() when the host has no such macro.
Undefined == NewCommunity /\ community = None

Changes == TypeDiffers \/ TypedTemplates # templates \/ RelevelPing \/ RelevelInt \/ NewCommunity

\* With the macro written anew it tells of the device's type, and of the interface
\* template when that was changed along with it; not when the administrator keeps
\* the level and only the macro was changed.
StillUntold ==
    CASE RelevelInt -> untold \ {db.type, "int"}
      [] ~RelevelInt /\ param.int # db.int -> (untold \ {db.type}) \cup {"int"}
      [] OTHER -> untold \ {db.type}

\* One host.update: the visible name always, all the rest when there are changes.  A
\* template that is cleared takes its trigger along, and the dependency of it.
UpdateHost ==
    /\ dpc = "update" /\ ~Lowering
    /\ TypeDiffers /\ db.init => db.type \in typeGroups
    /\ dpc' = "depend"
    /\ IF Changes
       THEN /\ param' = Params(db) /\ lower' = 0
            /\ community' = IF NewCommunity /\ ~Undefined THEN db.community ELSE community
            /\ templates' = WithIntLevel(PingedTemplates) /\ groups' = TypedGroups
            /\ depends' = IF RelevelPing THEN None ELSE depends
            /\ untold' = StillUntold
       ELSE UNCHANGED <<param, lower, community, templates, groups, depends, untold>>
    /\ UNCHANGED <<catalog, exists, flags, db, uplink, missed, steady, seen>>

\* What the assignment through end() may do instead of nothing.
Crash == dpc = "update" /\ ~Lowering /\ Undefined /\ End(FALSE) /\ UNCHANGED <<catalog, zhost>>

-----------------------------------------------------------------------------
(* update_icmp_trigdepend                                                  *)

\* The administrator has not kept the dependency, the device has one uplink, and
\* the ping trigger does not depend on it yet.
NewDependency == dpc = "depend" /\ "ping_depend" \notin flags /\ uplink \notin {None, depends}

NoDependency == dpc = "depend" /\ ~NewDependency /\ End(TRUE) /\ UNCHANGED <<catalog, zhost>>

\* trigger.deleteDependencies, when there is one.
DeleteDependency ==
    /\ NewDependency /\ depends # None
    /\ depends' = None
    /\ UNCHANGED <<catalog, exists, flags, param, lower, community, templates, groups,
                   locals, deployHistory>>

\* trigger.addDependencies
AddDependency ==
    /\ NewDependency /\ depends = None
    /\ depends' = uplink
    /\ End(TRUE)
    /\ UNCHANGED <<catalog, exists, flags, param, lower, community, templates, groups>>

DeployNext ==
    \/ Administrate \/ Start \/ DeployAbort \/ Poll
    \/ CreateGroup \/ CreateHost
    \/ CountTry \/ MakeGroup \/ UpdateHost \/ Crash
    \/ NoDependency \/ DeleteDependency \/ AddDependency

DeploySpec == DeployInit /\ [][DeployNext]_deployVars

-----------------------------------------------------------------------------
(* Properties                                                              *)

\* The host is as its device asks for: in the group of its type and in no other but
\* untold ones, with its template if there is one and no other type's but untold
\* ones, and with ping template, interface template and dependency that follow it
\* unless the administrator keeps them.
Settled(d, u) ==
    /\ param.type = d.type /\ lower = 0
    /\ groups = {d.type} \cup (untold \cap Types)
    /\ d.type \in typeTemplates => d.type \in templates
    /\ templates \cap Types \subseteq {d.type} \cup untold
    /\ "ping_level" \notin flags => templates \cap PingTemplates = {Ping(d.ping)}
    /\ {"int_level", "int"} \cap (flags \cup untold) = {} => ("int" \in templates <=> d.int = 1)
    /\ community # None => community = d.community
    /\ "ping_depend" \notin flags /\ u # None => depends = u

\* One undisturbed run makes the host of a device of a known type exactly what the
\* device asks for, and two make a host that was not there, whatever calls of
\* earlier runs have failed and whichever settings were kept and handed back.  Two
\* things no run repairs and they are exempt: what is untold, which is what tries
\* counted by check_lowering made the macro forget or what a change by hand made
\* false, and the community of a host that was made without one (update.cpp:193).
Converges ==
    dpc = "idle" =>
        /\ steady = 2 => exists
        /\ steady > 0 /\ exists => Settled(seen[1], seen[2])

\* At every step a host has a group, as Zabbix requires, and one ping template, so
\* that exactly one trigger tells whether it is there.
HostIsValid ==
    exists => groups # {} /\ Cardinality(templates \cap PingTemplates) = 1

\* The param-macro tells the truth at every step: but for what is untold the host
\* is in the group of the type that it names and in no other type's, has no other
\* type's template, and has the interface template just when the macro says so.
\* After a counted try the macro names no type, and all groups left are untold.
ParamHolds ==
    exists => /\ groups \ {"unknown"} = ({param.type} \ {None}) \cup (untold \cap Types)
              /\ templates \cap Types \subseteq {param.type} \cup untold
              /\ "int" \notin untold => ("int" \in templates <=> param.int = 1)

\* A run that finds a known type leaves nothing of an earlier type on the host.  Does
\* not hold after counted tries: README, section 5.
LeavesNothingBehind ==
    dpc = "idle" /\ steady > 0 /\ exists => groups = {seen[1].type}

\* update.cpp: "After three unsuccessful tries, we are considering that device is
\* now of unknown type, even if it was known before."  Does not hold: README, section 5.
ThreeTries ==
    [][exists /\ "unknown" \in groups' \ groups => missed >= 3]_deployVars
=============================================================================
