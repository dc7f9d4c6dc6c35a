---------------------------- MODULE CfmRun_proofs ----------------------------
(***************************************************************************)
(* What any number of runs of zbx_cfm leaves on the server, each of them   *)
(* cut short anywhere or not: types, then an invariant that says how far   *)
(* the run is with the current host (StageInv), what it may still rely on  *)
(* of what the checks have read (SnapInv), and what a run that nothing has *)
(* disturbed has changed so far (TidyInv).                                 *)
(***************************************************************************)
EXTENDS CfmRun, FiniteSetTheorems, TLAPS

LEMMA KeysFinite ==
    /\ IsFiniteSet(Vlans) /\ IsFiniteSet(Keys)
    /\ Trap \notin Vlans /\ TrapHosts \subseteq CfmHosts /\ MaxRuns \in Nat
    /\ Vlans \subseteq Keys /\ Trap \in Keys
BY CfmAssumption, FS_AddElement DEF Keys

\* The counts of the API: zero when there is nothing to count.
LEMMA Counts ==
    ASSUME NEW h \in CfmHosts
    PROVE  /\ ItemCount(h) \in Nat
           /\ (ItemCount(h) = 0) <=> (\A k \in Keys : item[h][k] = 0)
           /\ \A k \in Keys : /\ Cardinality(Users(h, k)) \in 0..Cardinality(Vlans)
                              /\ (Cardinality(Users(h, k)) = 0) <=> (Users(h, k) = {})
<1> DEFINE I == {k \in Keys : item[h][k] # 0}
<1>1. I \in SUBSET Keys /\ IsFiniteSet(I)
  BY KeysFinite, FS_Subset
<1>2. /\ Cardinality(I) \in Nat
      /\ (Cardinality(I) = 0) <=> (I = {})
  BY <1>1, FS_CardinalityType, FS_EmptySet
<1>3. ASSUME NEW k \in Keys
      PROVE  /\ Cardinality(Users(h, k)) \in 0..Cardinality(Vlans)
             /\ (Cardinality(Users(h, k)) = 0) <=> (Users(h, k) = {})
  <2>1. Users(h, k) \in SUBSET Vlans
    BY DEF Users
  <2>2. /\ IsFiniteSet(Users(h, k))
        /\ Cardinality(Users(h, k)) <= Cardinality(Vlans)
        /\ Cardinality(Users(h, k)) \in Nat /\ Cardinality(Vlans) \in Nat
    BY <2>1, KeysFinite, FS_Subset, FS_CardinalityType
  <2>3. QED  BY <2>2, FS_EmptySet
<1>4. QED  BY <1>2, <1>3 DEF ItemCount

\* One entry of a table of the server changes, and no other.
LEMMA TableEntry ==
    ASSUME NEW S, NEW T, NEW V, NEW f \in [S -> [T -> V]], NEW s \in S, NEW t \in T, NEW x \in V
    PROVE  /\ [f EXCEPT ![s][t] = x] \in [S -> [T -> V]]
           /\ \A a \in S, b \in T :
                [f EXCEPT ![s][t] = x][a][b] = IF a = s /\ b = t THEN x ELSE f[a][b]
OBVIOUS

\* One field of what is known of the current host changes.
LEMMA DataEntry ==
    ASSUME data \in [DOMAIN args -> HostData], at \in DOMAIN args, NEW n \in Nat
    PROVE  /\ [data EXCEPT ![at].app = TRUE] \in [DOMAIN args -> HostData]
           /\ [data EXCEPT ![at].item = n] \in [DOMAIN args -> HostData]
           /\ [data EXCEPT ![at].trig = n] \in [DOMAIN args -> HostData]
<1>1. data[at] \in HostData
  OBVIOUS
<1>2. /\ [data[at] EXCEPT !.app = TRUE] \in HostData
      /\ [data[at] EXCEPT !.item = n] \in HostData
      /\ [data[at] EXCEPT !.trig = n] \in HostData
  BY <1>1 DEF HostData
<1>3. QED  BY <1>2

LEMMA KeyOfType ==
    ASSUME NEW h \in CfmHosts, NEW v \in Vlans
    PROVE  KeyOf(h, v) \in Keys
BY KeysFinite DEF KeyOf

-----------------------------------------------------------------------------
(* Types.                                                                  *)

PlaceOK == cpc # "idle" => at \in DOMAIN args

TypeInv == CfmTypeOK /\ PlaceOK

LEMMA InitType == CfmInit => TypeInv
<1> SUFFICES ASSUME CfmInit PROVE TypeInv
  OBVIOUS
<1>1. Cardinality(Vlans) \in Nat /\ MaxRuns \in Nat
  BY KeysFinite, FS_CardinalityType
<1>2. args = <<>> /\ data = <<>> /\ DOMAIN args = {} /\ Len(args) = 0 /\ args \in Seq(CfmHosts)
  BY DEF CfmInit
<1>3. data \in [DOMAIN args -> HostData] /\ finished \subseteq DOMAIN args
  BY <1>2 DEF CfmInit
<1>4. at \in 1..(Len(args) + 1)
  BY <1>2 DEF CfmInit
<1>5. cfmMacro \in [CfmHosts -> [Vlans -> Nat \X Nat]]
  BY DEF CfmInit, NoMacro
<1>6. /\ app \in [CfmHosts -> BOOLEAN]
      /\ item \in [CfmHosts -> [Keys -> Nat]] /\ trig \in [CfmHosts -> [Vlans -> Nat]]
  BY DEF CfmInit
<1>7. /\ lastId \in Nat /\ runs \in 0..MaxRuns /\ failed \in BOOLEAN /\ cpc \in CfmStates
      /\ action \in {"add", "del"} /\ vlan \in Vlans /\ triggers \in 0..Cardinality(Vlans)
      /\ cpc = "idle"
  <2>1. /\ lastId = 0 /\ runs = 0 /\ failed = FALSE /\ cpc = "idle" /\ action = "add"
        /\ vlan \in Vlans /\ triggers = 0
    BY DEF CfmInit
  <2>2. runs \in 0..MaxRuns /\ triggers \in 0..Cardinality(Vlans)
    BY <1>1, <2>1
  <2>3. QED  BY <2>1, <2>2 DEF CfmStates
<1>8. QED  BY <1>2, <1>3, <1>4, <1>5, <1>6, <1>7 DEF TypeInv, CfmTypeOK, PlaceOK

\* The next place is one that the checks or the processing may go on to.
LEMMA Place ==
    ASSUME TypeInv, cpc # "idle"
    PROVE  /\ at \in Nat \ {0} /\ at <= Len(args) /\ Len(args) \in Nat
           /\ DOMAIN args = 1..Len(args) /\ DOMAIN data = DOMAIN args
           /\ host \in CfmHosts /\ cur \in HostData /\ vlan \in Vlans
           /\ \A i \in DOMAIN args : args[i] \in CfmHosts
           /\ 1 \in DOMAIN args
           /\ at # Len(args) => at + 1 \in DOMAIN args
           /\ at + 1 \in 1..(Len(args) + 1)
           /\ KeyOf(host, vlan) \in Keys
<1>1. /\ args \in Seq(CfmHosts) /\ at \in DOMAIN args /\ vlan \in Vlans
      /\ data \in [DOMAIN args -> HostData]
  BY DEF TypeInv, CfmTypeOK, PlaceOK
<1>2. DOMAIN args = 1..Len(args) /\ Len(args) \in Nat /\ args[at] \in CfmHosts /\ data[at] \in HostData
  BY <1>1
<1>3. \A i \in DOMAIN args : args[i] \in CfmHosts
  BY <1>1
<1>4. QED  BY <1>1, <1>2, <1>3, KeyOfType DEF host, cur

LEMMA CommandType ==
    ASSUME TypeInv, NEW a \in {"add", "del"}, NEW v \in Vlans, NEW s \in Seq(CfmHosts), s # <<>>,
           Command(a, v, s)
    PROVE  TypeInv'
<1>1. Len(s) \in Nat /\ DOMAIN s = 1..Len(s) /\ 1 \in DOMAIN s /\ 1 \in 1..(Len(s) + 1)
  BY SMT
<1>2. NoData \in HostData
  BY DEF NoData, HostData, NoMacro
<1>3. data' \in [DOMAIN s -> HostData]
  BY <1>2 DEF Command
<1>4. runs' \in 0..MaxRuns
  BY KeysFinite DEF Command, TypeInv, CfmTypeOK
<1>5. 0 \in 0..Cardinality(Vlans)
  BY KeysFinite, FS_CardinalityType
<1>6. QED  BY <1>1, <1>3, <1>4, <1>5 DEF Command, TypeInv, CfmTypeOK, PlaceOK, server, CfmStates

LEMMA ExitType ==
    ASSUME TypeInv, Exit, failed' \in BOOLEAN
    PROVE  TypeInv'
BY DEF Exit, TypeInv, CfmTypeOK, PlaceOK, server, command, CfmStates

LEMMA NextHostType ==
    ASSUME TypeInv, cpc # "idle", NextHost
    PROVE  /\ finished' \subseteq DOMAIN args' /\ at' \in 1..(Len(args') + 1)
           /\ cpc' \in CfmStates /\ PlaceOK'
           /\ action' = action /\ vlan' = vlan /\ args' = args /\ runs' = runs
BY Place DEF NextHost, Done, First, TypeInv, CfmTypeOK, PlaceOK, CfmStates, command

LEMMA CheckType ==
    ASSUME TypeInv, Check
    PROVE  TypeInv'
<1>0. cpc # "idle"
  BY DEF Check
<1>1. CASE CheckHost(host)
  <2>1. Read(host) \in HostData
    <3>1. /\ app[host] \in BOOLEAN /\ item[host][Trap] \in Nat /\ cfmMacro[host] \in [Vlans -> Nat \X Nat]
          /\ ItemCount(host) \in Nat
      <4>1. host \in CfmHosts /\ Trap \in Keys
        BY <1>0, Place, KeysFinite
      <4>2. ItemCount(host) \in Nat
        BY <4>1, Counts
      <4>3. QED  BY <4>1, <4>2 DEF TypeInv, CfmTypeOK
    <3>2. QED  BY <3>1 DEF Read, HostData
  <2>2. data' \in [DOMAIN args -> HostData]
    BY <1>1, <2>1 DEF Check, TypeInv, CfmTypeOK
  <2>3. UNCHANGED <<server, command, triggers, finished, failed>>
    BY <1>1 DEF Check
  <2>4. at' \in 1..(Len(args) + 1) /\ at' \in DOMAIN args /\ cpc' \in CfmStates
    <3>1. CASE at = Len(args)
      BY <1>0, <1>1, <3>1, Place DEF Check, First, CfmStates
    <3>2. CASE at # Len(args)
      BY <1>0, <1>1, <3>2, Place DEF Check, TypeInv, CfmTypeOK
    <3>3. QED  BY <3>1, <3>2
  <2>5. QED  BY <2>2, <2>3, <2>4 DEF server, command, PlaceOK, TypeInv, CfmTypeOK
<1>2. CASE ~CheckHost(host)
  BY <1>2, ExitType DEF Check, TypeInv, CfmTypeOK
<1>3. QED  BY <1>1, <1>2

LEMMA DeployType ==
    ASSUME TypeInv, CreateApplication \/ CreateItem \/ CreateTrigger \/ WriteMacro
    PROVE  TypeInv'
<1> USE DEF TypeInv, CfmTypeOK
<1>0. cpc # "idle" /\ data \in [DOMAIN args -> HostData] /\ at \in DOMAIN args /\ host \in CfmHosts
      /\ vlan \in Vlans /\ KeyOf(host, vlan) \in Keys /\ data[at] \in HostData /\ lastId \in Nat
  BY Place DEF CreateApplication, CreateItem, CreateTrigger, WriteMacro, PlaceOK
<1>1. CASE CreateApplication
  <2>1. data' \in [DOMAIN args -> HostData]
    <3>1. data' = data \/ data' = [data EXCEPT ![at].app = TRUE]
      BY <1>1 DEF CreateApplication
    <3> HIDE DEF TypeInv, CfmTypeOK
    <3>2. QED  BY <1>0, <3>1, DataEntry
  <2>2. app' \in [CfmHosts -> BOOLEAN]
    BY <1>0, <1>1 DEF CreateApplication
  <2>3. QED  BY <1>0, <1>1, <2>1, <2>2 DEF CreateApplication, command, PlaceOK, CfmStates
<1>2. CASE CreateItem
  <2>0. \/ UNCHANGED <<item, lastId, data>>
        \/ /\ lastId' = lastId + 1
           /\ item' = [item EXCEPT ![host][KeyOf(host, vlan)] = lastId + 1]
           /\ data' = [data EXCEPT ![at].item = lastId + 1]
    <3> HIDE DEF TypeInv, CfmTypeOK
    <3>1. QED  BY <1>2 DEF CreateItem
  <2>1. data' \in [DOMAIN args -> HostData]
    <3> HIDE DEF TypeInv, CfmTypeOK
    <3>1. lastId + 1 \in Nat
      BY <1>0
    <3>2. QED  BY <1>0, <2>0, <3>1, DataEntry
  <2>2. item' \in [CfmHosts -> [Keys -> Nat]] /\ lastId' \in Nat
    <3>1. item \in [CfmHosts -> [Keys -> Nat]]
      OBVIOUS
    <3> HIDE DEF TypeInv, CfmTypeOK
    <3>2. lastId + 1 \in Nat
      BY <1>0
    <3>3. [item EXCEPT ![host][KeyOf(host, vlan)] = lastId + 1] \in [CfmHosts -> [Keys -> Nat]]
      BY <1>0, <3>1, <3>2, TableEntry
    <3>4. QED  BY <1>0, <2>0, <3>1, <3>2, <3>3
  <2>3. QED  BY <1>0, <1>2, <2>1, <2>2 DEF CreateItem, command, PlaceOK, CfmStates
<1>3. CASE CreateTrigger /\ trig[host][vlan] = 0 /\ item[host][KeyOf(host, vlan)] # 0
  <2>1. data' \in [DOMAIN args -> HostData]
    <3>1. data' = [data EXCEPT ![at].trig = lastId + 1] /\ lastId + 1 \in Nat
      BY <1>0, <1>3 DEF CreateTrigger
    <3> HIDE DEF TypeInv, CfmTypeOK
    <3>2. QED  BY <1>0, <3>1, DataEntry
  <2>2. trig' \in [CfmHosts -> [Vlans -> Nat]] /\ lastId' \in Nat
    <3>1. trig' = [trig EXCEPT ![host][vlan] = lastId + 1] /\ lastId' = lastId + 1 /\ lastId' \in Nat
      BY <1>0, <1>3 DEF CreateTrigger
    <3>2. trig \in [CfmHosts -> [Vlans -> Nat]]
      OBVIOUS
    <3> HIDE DEF TypeInv, CfmTypeOK
    <3>3. QED  BY <1>0, <3>1, <3>2, TableEntry
  <2>3. QED  BY <1>0, <1>3, <2>1, <2>2 DEF CreateTrigger, command, PlaceOK, CfmStates
<1>4. CASE CreateTrigger /\ ~(trig[host][vlan] = 0 /\ item[host][KeyOf(host, vlan)] # 0)
  BY <1>4, ExitType DEF CreateTrigger, Refused
<1>5. CASE WriteMacro
  <2>1. [cur.macros EXCEPT ![vlan] = <<cur.item, cur.trig>>] \in [Vlans -> Nat \X Nat]
    BY <1>0, Place DEF HostData
  <2>2. cfmMacro' \in [CfmHosts -> [Vlans -> Nat \X Nat]]
    BY <1>0, <1>5, <2>1 DEF WriteMacro
  <2>3. QED  BY <1>0, <1>5, <2>2, NextHostType DEF WriteMacro
<1>6. QED  BY <1>1, <1>2, <1>3, <1>4, <1>5

LEMMA DeleteType ==
    ASSUME TypeInv,
           CountTriggers \/ EraseMacro \/ DeleteTrigger \/ DeleteItem \/ DeleteApplication
    PROVE  TypeInv'
<1> USE DEF TypeInv, CfmTypeOK
<1>0. cpc # "idle" /\ host \in CfmHosts /\ at \in DOMAIN args /\ vlan \in Vlans
  BY Place DEF CountTriggers, EraseMacro, DeleteTrigger, DeleteItem, DeleteApplication, PlaceOK
<1>1. CASE CountTriggers /\ \E k \in Keys : item[host][k] = ids[1]
  <2>1. (CHOOSE k \in Keys : item[host][k] = ids[1]) \in Keys
    BY <1>1
  <2>2. triggers' \in 0..Cardinality(Vlans)
    BY <1>0, <1>1, <2>1, Counts DEF CountTriggers
  <2>3. QED  BY <1>0, <1>1, <2>2 DEF CountTriggers, server, command, PlaceOK, CfmStates
<1>2. CASE CountTriggers /\ ~\E k \in Keys : item[host][k] = ids[1]
  BY <1>2, ExitType DEF CountTriggers, Refused
<1>3. CASE EraseMacro
  <2>1. LeftMacros \in [Vlans -> Nat \X Nat]
    BY <1>0, Place DEF LeftMacros, HostData, NoMacro
  <2>2. cfmMacro' \in [CfmHosts -> [Vlans -> Nat \X Nat]]
    BY <1>0, <1>3, <2>1 DEF EraseMacro
  <2>3. QED  BY <1>0, <1>3, <2>2 DEF EraseMacro, command, PlaceOK, CfmStates
<1>4. CASE DeleteTrigger /\ trig[host][vlan] = ids[2]
  <2>1. trig' \in [CfmHosts -> [Vlans -> Nat]]
    <3>1. trig' = [trig EXCEPT ![host][vlan] = 0] /\ trig \in [CfmHosts -> [Vlans -> Nat]]
      BY <1>4 DEF DeleteTrigger
    <3> HIDE DEF TypeInv, CfmTypeOK
    <3>2. QED  BY <1>0, <3>1, TableEntry
  <2>2. CASE LastTrigger
    <3>1. /\ cpc' = "unitem" /\ UNCHANGED <<command, at, finished>>
          /\ UNCHANGED <<app, item, cfmMacro, lastId, data, triggers, failed>>
      BY <1>4, <2>2 DEF DeleteTrigger
    <3>2. QED  BY <1>0, <2>1, <3>1 DEF command, PlaceOK, CfmStates
  <2>3. CASE ~LastTrigger
    BY <1>0, <1>4, <2>1, <2>3, NextHostType DEF DeleteTrigger
  <2>4. QED  BY <2>2, <2>3
<1>5. CASE DeleteTrigger /\ trig[host][vlan] # ids[2]
  BY <1>5, ExitType DEF DeleteTrigger, Refused
<1>6. CASE DeleteItem
  <2>0. PICK k \in Keys :
            /\ item' = [item EXCEPT ![host][k] = 0]
            /\ trig' = [trig EXCEPT ![host] =
                          [v \in Vlans |-> IF v \in Users(host, k) THEN 0 ELSE trig[host][v]]]
    BY <1>6 DEF DeleteItem
  <2>1. item' \in [CfmHosts -> [Keys -> Nat]] /\ trig' \in [CfmHosts -> [Vlans -> Nat]]
    <3>1. [v \in Vlans |-> IF v \in Users(host, k) THEN 0 ELSE trig[host][v]] \in [Vlans -> Nat]
      BY <1>0
    <3>2. QED  BY <1>0, <2>0, <3>1
  <2>2. CASE LastItem
    <3>1. /\ cpc' = "unapplication" /\ UNCHANGED <<command, at, finished>>
          /\ UNCHANGED <<app, cfmMacro, lastId, data, triggers, failed>>
      BY <1>6, <2>2 DEF DeleteItem
    <3>2. QED  BY <1>0, <2>1, <3>1 DEF command, PlaceOK, CfmStates
  <2>3. CASE ~LastItem
    BY <1>0, <1>6, <2>1, <2>3, NextHostType DEF DeleteItem
  <2>4. QED  BY <2>2, <2>3
<1>7. CASE DeleteApplication
  <2>1. app' \in [CfmHosts -> BOOLEAN]
    BY <1>0, <1>7 DEF DeleteApplication
  <2>2. QED  BY <1>0, <1>7, <2>1, NextHostType DEF DeleteApplication
<1>8. QED  BY <1>1, <1>2, <1>3, <1>4, <1>5, <1>6, <1>7

LEMMA NextType == TypeInv /\ [CfmNext]_cfmVars => TypeInv'
<1> SUFFICES ASSUME TypeInv, [CfmNext]_cfmVars PROVE TypeInv'
  OBVIOUS
<1>1. ASSUME NEW a \in {"add", "del"}, NEW v \in Vlans, NEW g \in CfmHosts, NEW h \in CfmHosts,
             Command(a, v, <<g>>) \/ Command(a, v, <<g, h>>)
      PROVE  TypeInv'
  <2>1. <<g>> \in Seq(CfmHosts) /\ <<g, h>> \in Seq(CfmHosts) /\ <<g>> # <<>> /\ <<g, h>> # <<>>
    OBVIOUS
  <2>2. QED  BY <1>1, <2>1, CommandType
<1>2. CASE CfmAbort
  BY <1>2, ExitType DEF CfmAbort
<1>3. CASE UNCHANGED cfmVars
  BY <1>3 DEF cfmVars, server, command, TypeInv, CfmTypeOK, PlaceOK
<1>4. QED  BY <1>1, <1>2, <1>3, CheckType, DeployType, DeleteType DEF CfmNext

\* Every variable keeps its type.
THEOREM CfmTypeCorrect == CfmSpec => []CfmTypeOK
<1>1. TypeInv => CfmTypeOK
  BY DEF TypeInv
<1>2. QED  BY <1>1, InitType, NextType, PTL DEF CfmSpec
-----------------------------------------------------------------------------
(* The invariant.                                                          *)

Key == KeyOf(host, vlan)
Used(h, k) == \E v \in Vlans : KeyOf(h, v) = k /\ trig[h][v] # 0

\* An id is of one item of a host, and has been given out.
IdsInv ==
    \A h \in CfmHosts :
        /\ \A j, k \in Keys : item[h][j] = item[h][k] /\ item[h][k] # 0 => j = k
        /\ \A k \in Keys : item[h][k] <= lastId

\* What the checks have read of the host at place i and the run relies on later:
\* other vlans' macros do not change, an add takes nothing away, and a del that finds
\* the vlan's trigger is the first to come to this host.
SnapMacros(i) == \A w \in Vlans \ {vlan} : data[i].macros[w] = cfmMacro[args[i]][w]
SnapAdd(i) ==
    /\ data[i].app => app[args[i]]
    /\ data[i].item # 0 => data[i].item = item[args[i]][KeyOf(args[i], vlan)]
SnapDel(i) ==
    /\ data[i].macros[vlan][1] # 0 /\ data[i].macros[vlan][2] # 0
    /\ \A j \in Keys : item[args[i]][j] = data[i].macros[vlan][1] => j = KeyOf(args[i], vlan)
    /\ trig[args[i]][vlan] \in {0, data[i].macros[vlan][2]}
    /\ trig[args[i]][vlan] # 0 => ItemCount(args[i]) = data[i].items

Snap(i) ==
    SnapMacros(i) /\ (action = "add" => SnapAdd(i)) /\ (action = "del" => SnapDel(i))

SnapInv == cpc # "idle" => \A i \in DOMAIN args : (cpc = "check" /\ i >= at) \/ Snap(i)

\* How far the run is with the current host.
AddStates == {"application", "item", "trigger", "macro"}
DelStates == {"count", "erase", "untrigger", "unitem", "unapplication"}

StageInv ==
    /\ cpc \in AddStates => action = "add"
    /\ cpc \in DelStates => action = "del"
    /\ cpc \in {"item", "trigger", "macro"} => cur.app
    /\ cpc \in {"trigger", "macro"} => cur.item # 0
    /\ cpc = "macro" => trig[host][vlan] # 0 /\ cur.trig = trig[host][vlan]
    /\ cpc \in {"erase", "untrigger"} => /\ item[host][Key] = ids[1]
                                         /\ triggers = Cardinality(Users(host, Key))
    /\ cpc \in {"untrigger", "unitem", "unapplication"} => cfmMacro[host][vlan] = NoMacro
    /\ cpc \in {"unitem", "unapplication"} => trig[host][vlan] = 0
    /\ cpc = "unitem" => ~Used(host, Key) /\ item[host][Key] # 0 /\ ItemCount(host) = cur.items
    /\ cpc = "unapplication" => \A k \in Keys : item[host][k] = 0

\* Without a failure every host is as its macros say, but for what the run is
\* about to do to the current one.
TidyInv ==
    ~failed => \A h \in CfmHosts :
        /\ \A v \in Vlans : ~(cpc \in {"macro", "untrigger"} /\ h = host /\ v = vlan)
                                => ((trig[h][v] # 0) <=> (cfmMacro[h][v] # NoMacro))
        /\ \A k \in Keys : ~(cpc \in {"trigger", "unitem"} /\ h = host /\ k = Key)
                                => ((item[h][k] # 0) <=> Used(h, k))
        /\ ~(cpc \in {"item", "unapplication"} /\ h = host)
                => (app[h] <=> \E k \in Keys : item[h][k] # 0)

CfmInv == IdsInv /\ SnapInv /\ StageInv /\ MacroNamesLive /\ TidyInv /\ ReportIsTrue

Tidy ==
    \A h \in CfmHosts :
        /\ \A v \in Vlans : (trig[h][v] # 0) <=> (cfmMacro[h][v] # NoMacro)
        /\ \A k \in Keys : (item[h][k] # 0) <=> Used(h, k)
        /\ app[h] <=> \E k \in Keys : item[h][k] # 0

LEMMA InitCfm == CfmInit => CfmInv
<1> SUFFICES ASSUME CfmInit PROVE CfmInv
  OBVIOUS
<1>1. \A h \in CfmHosts : /\ ~app[h]
                          /\ \A k \in Keys : item[h][k] = 0
                          /\ \A v \in Vlans : trig[h][v] = 0 /\ cfmMacro[h][v] = NoMacro
  BY DEF CfmInit
<1>2. lastId = 0 /\ cpc = "idle" /\ finished = {}
  BY DEF CfmInit
<1>3. TidyInv
  BY <1>1, <1>2 DEF TidyInv, Used
<1>4. QED  BY <1>1, <1>2, <1>3
           DEF CfmInv, IdsInv, SnapInv, StageInv, AddStates, DelStates, MacroNamesLive, ReportIsTrue

-----------------------------------------------------------------------------
(* Steps that leave the server as it is, or the current host.              *)

LEMMA ServerKept ==
    ASSUME UNCHANGED server
    PROVE  /\ IdsInv => IdsInv'
           /\ MacroNamesLive => MacroNamesLive'
           /\ Tidy => Tidy'
           /\ \A h : ItemCount(h)' = ItemCount(h)
           /\ \A h, k : Users(h, k)' = Users(h, k)
BY DEF server, IdsInv, MacroNamesLive, Tidy, Used, ItemCount, Users, KeyOf

\* Between two hosts nothing is under way.
LEMMA TidyBetween ==
    ASSUME TidyInv, cpc \in {"idle", "check", "application", "count", "erase"}
    PROVE  failed \/ Tidy
BY DEF TidyInv, Tidy

LEMMA TidyAtRest ==
    ASSUME failed' \/ Tidy'
    PROVE  TidyInv'
BY DEF TidyInv, Tidy

LEMMA ExitKeeps ==
    ASSUME CfmInv, Exit, failed' = TRUE \/ (failed' = failed /\ (failed \/ Tidy))
    PROVE  CfmInv'
<1>1. UNCHANGED <<server, command, finished>> /\ cpc' = "idle"
  BY DEF Exit
<1>2. IdsInv' /\ MacroNamesLive' /\ (Tidy => Tidy')
  BY <1>1, ServerKept DEF CfmInv
<1>3. TidyInv'
  BY <1>2, TidyAtRest
<1>4. ReportIsTrue'
  BY <1>1 DEF CfmInv, ReportIsTrue, server, command
<1>5. QED  BY <1>1, <1>2, <1>3, <1>4 DEF CfmInv, SnapInv, StageInv, AddStates, DelStates

LEMMA NextHostKeeps ==
    ASSUME TypeInv, StageInv, cpc \in AddStates \cup DelStates, NextHost,
           \A i \in DOMAIN args : Snap(i)', failed' \/ Tidy'
    PROVE  SnapInv' /\ StageInv' /\ TidyInv'
<1>1. UNCHANGED command
  BY DEF NextHost
<1>2. cpc' = "idle" \/ (cpc' = "application" /\ action = "add") \/ (cpc' = "count" /\ action = "del")
  <2>1. action \in {"add", "del"}
    BY DEF TypeInv, CfmTypeOK
  <2>2. QED  BY <2>1 DEF NextHost, First
<1>3. SnapInv'
  BY <1>1, <1>2 DEF SnapInv, command
<1>4. StageInv'
  BY <1>1, <1>2 DEF StageInv, AddStates, DelStates, command
<1>5. QED  BY <1>3, <1>4, TidyAtRest

LEMMA CommandKeeps ==
    ASSUME TypeInv, CfmInv, NEW a \in {"add", "del"}, NEW v \in Vlans, NEW s \in Seq(CfmHosts),
           Command(a, v, s)
    PROVE  CfmInv'
<1>1. /\ cpc = "idle" /\ cpc' = "check" /\ at' = 1 /\ finished' = {} /\ args' = s
      /\ UNCHANGED <<server, failed>>
  BY DEF Command
<1>2. IdsInv' /\ MacroNamesLive' /\ (Tidy => Tidy')
  BY <1>1, ServerKept DEF CfmInv
<1>3. TidyInv'
  BY <1>1, <1>2, TidyBetween, TidyAtRest DEF CfmInv
<1>4. SnapInv'
  <2>1. DOMAIN s = 1..Len(s) /\ Len(s) \in Nat
    OBVIOUS
  <2>2. QED  BY <1>1, <2>1 DEF SnapInv
<1>5. QED  BY <1>1, <1>2, <1>3, <1>4 DEF CfmInv, StageInv, AddStates, DelStates, ReportIsTrue

\* A host is checked: what is read of it is what is on the server.
LEMMA CheckKeeps ==
    ASSUME TypeInv, CfmInv, Check
    PROVE  CfmInv'
<1>0. cpc = "check" /\ cpc # "idle"
  BY DEF Check
<1>1. CASE ~CheckHost(host)
  BY <1>0, <1>1, TidyBetween, ExitKeeps DEF Check, CfmInv
<1>2. CASE CheckHost(host)
  <2>1. /\ data' = [data EXCEPT ![at] = Read(host)]
        /\ UNCHANGED <<server, command, triggers, finished, failed>>
        /\ \/ at = Len(args) /\ at' = 1 /\ cpc' = First(action)
           \/ at # Len(args) /\ at' = at + 1 /\ cpc' = "check"
    BY <1>0, <1>2 DEF Check
  <2>2. IdsInv' /\ MacroNamesLive' /\ (Tidy => Tidy')
    BY <2>1, ServerKept DEF CfmInv
  <2>3. TidyInv'
    BY <1>0, <2>1, <2>2, TidyBetween, TidyAtRest DEF CfmInv
  <2>4. ReportIsTrue'
    BY <2>1 DEF CfmInv, ReportIsTrue, server, command
  <2>5. StageInv'
    BY <2>1 DEF First, StageInv, AddStates, DelStates, command, TypeInv, CfmTypeOK
  <2>6. ASSUME NEW i \in DOMAIN args, i < at
        PROVE  Snap(i)'
    <3>1. Snap(i)
      <4>1. ~(i >= at)
        BY <1>0, <2>6, Place
      <4>2. QED  BY <1>0, <4>1 DEF CfmInv, SnapInv
    <3>2. data'[i] = data[i] /\ ItemCount(args[i])' = ItemCount(args[i])
      BY <1>0, <2>1, <2>6, Place, ServerKept DEF command
    <3>3. QED  BY <2>1, <3>1, <3>2 DEF Snap, SnapMacros, SnapAdd, SnapDel, server, command
  <2>7. ASSUME NEW i \in DOMAIN args, i = at
        PROVE  Snap(i)'
    <3>0. PICK h \in CfmHosts : h = args[i] /\ h = host
      BY <1>0, <2>7, Place DEF host
    <3>1. data'[i] = Read(h) /\ vlan \in Vlans /\ KeyOf(h, vlan) \in Keys
      BY <1>0, <2>1, <2>7, <3>0, Place
    <3>2. action = "add" => (Read(h).item # 0 => Read(h).item = item[h][KeyOf(h, vlan)])
      BY DEF Read, KeyOf
    <3>3. ASSUME action = "del"
          PROVE  /\ cfmMacro[h][vlan] = <<item[h][KeyOf(h, vlan)], trig[h][vlan]>>
                 /\ item[h][KeyOf(h, vlan)] # 0 /\ trig[h][vlan] # 0 /\ app[h]
      BY <1>2, <3>0, <3>1, <3>3 DEF CheckHost, CfmInv, MacroNamesLive
    <3>4. ItemCount(h)' = ItemCount(h)
      BY <2>1, ServerKept
    <3>5. /\ Read(h).macros = cfmMacro[h] /\ Read(h).app = app[h]
          /\ Read(h).items = IF app[h] THEN ItemCount(h) ELSE 0
      BY DEF Read
    <3>6. action = "del" => \A j \in Keys : item[h][j] = item[h][KeyOf(h, vlan)] => j = KeyOf(h, vlan)
      BY <3>1, <3>3 DEF CfmInv, IdsInv
    <3>7. UNCHANGED <<app, item, trig, cfmMacro, action, vlan, args>>
      BY <2>1 DEF server, command
    <3>8. args'[i] = h /\ vlan' = vlan /\ action' = action /\ ItemCount(args[i])' = ItemCount(h)
      BY <3>0, <3>4, <3>7
    <3>9. action = "del" => /\ Read(h).macros[vlan][1] = item[h][KeyOf(h, vlan)]
                            /\ Read(h).macros[vlan][2] = trig[h][vlan]
                            /\ Read(h).items = ItemCount(h)
      BY <3>3, <3>5
    <3> HIDE DEF Read
    <3>10. QED  BY <3>1, <3>2, <3>3, <3>5, <3>6, <3>7, <3>8, <3>9 DEF Snap, SnapMacros, SnapAdd, SnapDel
  <2>8. SnapInv'
    <3>1. \A i \in DOMAIN args : i < at \/ i = at \/ (i > at /\ at # Len(args) /\ i >= at + 1)
      BY <1>0, Place
    <3>2. args' = args
      BY <2>1 DEF command
    <3>3. \A i \in DOMAIN args : Snap(i)' \/ (at' = at + 1 /\ cpc' = "check" /\ i >= at + 1)
      BY <2>1, <2>6, <2>7, <3>1
    <3>4. QED  BY <3>2, <3>3 DEF SnapInv
  <2>9. QED  BY <2>2, <2>3, <2>4, <2>5, <2>8 DEF CfmInv
<1>3. QED  BY <1>1, <1>2

-----------------------------------------------------------------------------
(* deploy_zabbix_cfm.                                                      *)

\* What is known of a host changes in one field.
LEMMA DataFields ==
    ASSUME data \in [DOMAIN args -> HostData], at \in DOMAIN args, NEW n, NEW i \in DOMAIN args
    PROVE  /\ LET d == [data EXCEPT ![at].app = TRUE][i]
              IN  /\ d.macros = data[i].macros /\ d.item = data[i].item /\ d.trig = data[i].trig
                  /\ d.items = data[i].items
                  /\ d.app = IF i = at THEN TRUE ELSE data[i].app
           /\ LET d == [data EXCEPT ![at].item = n][i]
              IN  /\ d.macros = data[i].macros /\ d.app = data[i].app /\ d.trig = data[i].trig
                  /\ d.items = data[i].items
                  /\ d.item = IF i = at THEN n ELSE data[i].item
           /\ LET d == [data EXCEPT ![at].trig = n][i]
              IN  /\ d.macros = data[i].macros /\ d.app = data[i].app /\ d.item = data[i].item
                  /\ d.items = data[i].items
                  /\ d.trig = IF i = at THEN n ELSE data[i].trig
<1>1. data[i] \in HostData /\ data[at] \in HostData
  OBVIOUS
<1>2. QED  BY <1>1 DEF HostData

LEMMA CreateApplicationKeeps ==
    ASSUME TypeInv, CfmInv, CreateApplication
    PROVE  CfmInv'
<1>0. /\ cpc = "application" /\ cpc # "idle" /\ action = "add"
      /\ UNCHANGED <<item, trig, cfmMacro, lastId, command, at, triggers, finished, failed>>
  BY DEF CreateApplication, CfmInv, StageInv, AddStates
<1>1. CASE ~cur.app /\ app[host] /\ cpc' = "idle" /\ UNCHANGED <<app, data>>
  <2>1. Exit /\ failed' = failed
    BY <1>0, <1>1 DEF Exit, server
  <2>2. QED  BY <1>0, <2>1, TidyBetween, ExitKeeps DEF CfmInv
<1>2. CASE /\ cpc' = "item"
           /\ \/ cur.app /\ UNCHANGED <<app, data>>
              \/ /\ app' = [app EXCEPT ![host] = TRUE]
                 /\ data' = [data EXCEPT ![at].app = TRUE]
  <2>1. PICK h \in CfmHosts : h = host /\ h = args[at]
    BY <1>0, Place DEF host
  <2>2. data \in [DOMAIN args -> HostData] /\ at \in DOMAIN args /\ app \in [CfmHosts -> BOOLEAN]
    BY <1>0 DEF TypeInv, CfmTypeOK, PlaceOK
  <2>3. \A i \in DOMAIN args :
            /\ data'[i].macros = data[i].macros /\ data'[i].item = data[i].item
            /\ data'[i].app = IF i = at THEN TRUE ELSE data[i].app
    <3>1. CASE cur.app /\ UNCHANGED data
      BY <3>1 DEF cur
    <3>2. CASE data' = [data EXCEPT ![at].app = TRUE]
      BY <2>2, <3>2, DataFields
    <3>3. QED  BY <1>2, <3>1, <3>2
  <2>4. \A i \in DOMAIN args : Snap(i)
    BY <1>0 DEF CfmInv, SnapInv
  <2>5. app'[h] = TRUE /\ \A g \in CfmHosts : g # h => app'[g] = app[g]
    <3>1. CASE cur.app /\ UNCHANGED <<app, data>>
      BY <2>1, <2>2, <2>4, <3>1, <1>0 DEF Snap, SnapAdd, cur
    <3>2. CASE app' = [app EXCEPT ![host] = TRUE]
      BY <2>1, <2>2, <3>2
    <3>3. QED  BY <1>2, <3>1, <3>2
  <2>6. UNCHANGED <<item, trig, cfmMacro, action, vlan, args, at, failed, finished>>
    BY <1>0 DEF command
  <2>7. SnapInv'
    <3>1. ASSUME NEW i \in DOMAIN args PROVE Snap(i)'
      <4>1. data'[i].app => app'[args[i]]
        <5>1. args[i] \in CfmHosts
          BY DEF TypeInv, CfmTypeOK
        <5>2. QED  BY <1>0, <2>1, <2>3, <2>4, <2>5, <5>1 DEF Snap, SnapMacros, SnapAdd
      <4>2. SnapMacros(i)'
        <5>1. \A w \in Vlans \ {vlan} : data[i].macros[w] = cfmMacro[args[i]][w]
          BY <2>4 DEF Snap, SnapMacros
        <5>2. data'[i].macros = data[i].macros
          BY <2>3
        <5>3. QED  BY <2>6, <5>1, <5>2 DEF SnapMacros
      <4>3. SnapAdd(i)'
        BY <1>0, <2>3, <2>4, <2>6, <4>1 DEF Snap, SnapAdd
      <4>4. QED  BY <1>0, <2>6, <4>2, <4>3 DEF Snap
    <3>2. QED  BY <2>6, <3>1 DEF SnapInv
  <2>8. StageInv'
    BY <1>0, <1>2, <2>2, <2>3, <2>6 DEF StageInv, AddStates, DelStates, cur
  <2>9. MacroNamesLive' /\ IdsInv'
    BY <2>5, <2>6, <1>0 DEF CfmInv, MacroNamesLive, IdsInv, KeyOf
  <2>10. TidyInv'
    BY <1>0, <1>2, <2>1, <2>5, <2>6 DEF CfmInv, TidyInv, Used, host, Key
  <2>11. ReportIsTrue'
    BY <2>6 DEF CfmInv, ReportIsTrue
  <2>12. QED  BY <2>7, <2>8, <2>9, <2>10, <2>11 DEF CfmInv
<1>3. QED  BY <1>1, <1>2 DEF CreateApplication

LEMMA CreateItemKeeps ==
    ASSUME TypeInv, CfmInv, CreateItem
    PROVE  CfmInv'
<1>0. /\ cpc = "item" /\ cpc # "idle" /\ action = "add" /\ cur.app
      /\ UNCHANGED <<app, trig, cfmMacro, command, at, triggers, finished, failed>>
      /\ UNCHANGED <<action, vlan, args>>
  BY DEF CreateItem, CfmInv, StageInv, AddStates, command
<1>1. PICK h \in CfmHosts : h = host /\ h = args[at]
  BY <1>0, Place DEF host
<1>2. PICK k \in Keys : k = KeyOf(h, vlan) /\ k = Key
  BY <1>0, <1>1, Place DEF Key
<1>3. /\ data \in [DOMAIN args -> HostData] /\ at \in DOMAIN args /\ item \in [CfmHosts -> [Keys -> Nat]]
      /\ lastId \in Nat /\ vlan \in Vlans /\ \A i \in DOMAIN args : args[i] \in CfmHosts
  BY <1>0, Place DEF TypeInv, CfmTypeOK, PlaceOK
<1>4. \A i \in DOMAIN args : Snap(i)
  BY <1>0 DEF CfmInv, SnapInv
<1>5. app[h]
  BY <1>0, <1>1, <1>3, <1>4 DEF Snap, SnapAdd, cur
<1>6. CASE cur.item = 0 /\ item[host][KeyOf(host, vlan)] # 0 /\ cpc' = "idle" /\ UNCHANGED <<item, lastId, data>>
  <2>1. Exit /\ failed' = failed
    BY <1>0, <1>6 DEF Exit, server
  <2>2. failed \/ Tidy
    BY <1>0, <1>1, <1>2, <1>5, <1>6 DEF CfmInv, TidyInv, Tidy
  <2>3. QED  BY <2>1, <2>2, ExitKeeps
<1>7. CASE cur.item # 0 /\ cpc' = "trigger" /\ UNCHANGED <<item, lastId, data>>
  <2>1. UNCHANGED server
    BY <1>0, <1>7 DEF server
  <2>2. SnapInv'
    BY <1>0, <1>4, <1>7 DEF SnapInv, Snap, SnapMacros, SnapAdd
  <2>3. StageInv'
    BY <1>0, <1>7 DEF StageInv, AddStates, DelStates, cur
  <2>4. item[h][k] # 0
    <3>1. SnapAdd(at)
      BY <1>0, <1>3, <1>4 DEF Snap
    <3>2. QED  BY <1>1, <1>2, <1>7, <3>1 DEF SnapAdd, cur
  <2>5. TidyInv'
    BY <1>0, <1>1, <1>2, <1>5, <1>7, <2>4 DEF CfmInv, TidyInv, Used, host, Key
  <2>6. QED  BY <1>0, <2>1, <2>2, <2>3, <2>5, ServerKept DEF CfmInv, ReportIsTrue
<1>8. CASE /\ cur.item = 0 /\ item[host][KeyOf(host, vlan)] = 0 /\ cpc' = "trigger"
           /\ lastId' = lastId + 1
           /\ item' = [item EXCEPT ![host][KeyOf(host, vlan)] = lastId + 1]
           /\ data' = [data EXCEPT ![at].item = lastId + 1]
  <2>1. \A i \in DOMAIN args :
            /\ data'[i].macros = data[i].macros /\ data'[i].app = data[i].app
            /\ data'[i].item = IF i = at THEN lastId + 1 ELSE data[i].item
    BY <1>3, <1>8, DataFields
  <2>2. lastId + 1 \in Nat /\ lastId + 1 # 0 /\ lastId' = lastId + 1
    BY <1>3, <1>8
  <2>3. \A g \in CfmHosts, j \in Keys :
            item'[g][j] = IF g = h /\ j = k THEN lastId + 1 ELSE item[g][j]
    <3>1. item' = [item EXCEPT ![h][k] = lastId + 1]
      BY <1>1, <1>2, <1>8
    <3>2. QED  BY <1>3, <2>2, <3>1, TableEntry
  <2>4. item[h][k] = 0
    BY <1>1, <1>2, <1>8
  <2>5. SnapInv'
    <3>1. ASSUME NEW i \in DOMAIN args PROVE Snap(i)'
      <4>1. ASSUME data'[i].item # 0
            PROVE  data'[i].item = item'[args[i]][KeyOf(args[i], vlan)]
        <5>1. CASE i = at
          <6>1. args[i] = h /\ KeyOf(args[i], vlan) = k
            BY <1>1, <1>2, <5>1
          <6>2. QED  BY <2>1, <2>3, <5>1, <6>1
        <5>2. CASE i # at
          <6>1. data[i].item = item[args[i]][KeyOf(args[i], vlan)] /\ data'[i].item = data[i].item
            BY <1>0, <1>4, <2>1, <4>1, <5>2 DEF Snap, SnapMacros, SnapAdd
          <6>2. args[i] \in CfmHosts /\ KeyOf(args[i], vlan) \in Keys
            BY <1>3, KeyOfType
          <6>3. QED  BY <2>3, <2>4, <4>1, <6>1, <6>2
        <5>3. QED  BY <5>1, <5>2
      <4>2. QED  BY <1>0, <1>4, <2>1, <4>1 DEF Snap, SnapMacros, SnapAdd
    <3>2. QED  BY <1>0, <3>1 DEF SnapInv
  <2>6. StageInv'
    BY <1>0, <1>3, <1>8, <2>1, <2>2 DEF StageInv, AddStates, DelStates, cur
  <2>7. MacroNamesLive'
    <3>1. ASSUME NEW g \in CfmHosts, NEW v \in Vlans, cfmMacro[g][v] # NoMacro
          PROVE  item'[g][KeyOf(g, v)] = item[g][KeyOf(g, v)]
      <4>1. item[g][KeyOf(g, v)] # 0 /\ KeyOf(g, v) \in Keys
        BY <3>1, KeyOfType DEF CfmInv, MacroNamesLive
      <4>2. QED  BY <2>3, <2>4, <4>1
    <3>2. QED  BY <1>0, <3>1 DEF CfmInv, MacroNamesLive, KeyOf
  <2>8. IdsInv'
    <3>1. \A g \in CfmHosts, j \in Keys : item[g][j] <= lastId /\ item[g][j] \in Nat
      BY <1>3 DEF CfmInv, IdsInv
    <3>2. \A g \in CfmHosts, j \in Keys : item'[g][j] <= lastId' /\ (item'[g][j] = lastId + 1 => g = h /\ j = k)
      BY <1>3, <2>2, <2>3, <3>1
    <3>3. QED  BY <2>3, <3>2 DEF CfmInv, IdsInv
  <2>9. TidyInv'
    <3>1. \A g \in CfmHosts, j \in Keys : Used(g, j)' <=> Used(g, j)
      BY <1>0 DEF Used
    <3>2. item'[h][k] # 0
      BY <2>2, <2>3
    <3>3. host' = h /\ Key' = k
      BY <1>0, <1>1, <1>2 DEF host, Key
    <3> HIDE DEF host, Key
    <3>4. QED  BY <1>0, <1>1, <1>2, <1>5, <1>8, <2>3, <3>1, <3>2, <3>3 DEF CfmInv, TidyInv
  <2>10. QED  BY <1>0, <2>5, <2>6, <2>7, <2>8, <2>9 DEF CfmInv, ReportIsTrue
<1>9. QED  BY <1>6, <1>7, <1>8 DEF CreateItem

LEMMA CreateTriggerKeeps ==
    ASSUME TypeInv, CfmInv, CreateTrigger
    PROVE  CfmInv'
<1>0. cpc = "trigger" /\ cpc # "idle" /\ action = "add" /\ cur.app /\ cur.item # 0
  BY DEF CreateTrigger, CfmInv, StageInv, AddStates
<1>1. PICK h \in CfmHosts : h = host /\ h = args[at]
  BY <1>0, Place DEF host
<1>2. PICK k \in Keys : k = KeyOf(h, vlan) /\ k = Key
  BY <1>0, <1>1, Place DEF Key
<1>3. /\ data \in [DOMAIN args -> HostData] /\ at \in DOMAIN args /\ trig \in [CfmHosts -> [Vlans -> Nat]]
      /\ lastId \in Nat /\ vlan \in Vlans
  BY <1>0 DEF TypeInv, CfmTypeOK, PlaceOK
<1>4. \A i \in DOMAIN args : Snap(i)
  BY <1>0 DEF CfmInv, SnapInv
<1>5. app[h] /\ item[h][k] # 0
  <2>1. SnapAdd(at)
    BY <1>0, <1>3, <1>4 DEF Snap
  <2>2. QED  BY <1>0, <1>1, <1>2, <2>1 DEF SnapAdd, cur
<1>6. CASE trig[host][vlan] # 0
  <2>1. Exit /\ failed' = failed
    BY <1>6 DEF CreateTrigger, Refused
  <2>2. Used(h, k)
    BY <1>1, <1>2, <1>3, <1>6 DEF Used
  <2>3. failed \/ Tidy
    BY <1>0, <1>1, <1>2, <1>5, <2>2 DEF CfmInv, TidyInv, Tidy
  <2>4. QED  BY <2>1, <2>3, ExitKeeps
<1>7. CASE trig[host][vlan] = 0
  <2>0. /\ lastId' = lastId + 1 /\ trig' = [trig EXCEPT ![host][vlan] = lastId + 1]
        /\ data' = [data EXCEPT ![at].trig = lastId + 1] /\ cpc' = "macro"
        /\ UNCHANGED <<app, item, cfmMacro, at, finished, failed, action, vlan, args>>
    BY <1>1, <1>2, <1>5, <1>7 DEF CreateTrigger, command
  <2>1. \A i \in DOMAIN args :
            /\ data'[i].macros = data[i].macros /\ data'[i].app = data[i].app
            /\ data'[i].item = data[i].item
            /\ data'[i].trig = IF i = at THEN lastId + 1 ELSE data[i].trig
    BY <1>3, <2>0, DataFields
  <2>2. lastId + 1 \in Nat /\ lastId + 1 # 0
    BY <1>3
  <2>3. \A g \in CfmHosts, v \in Vlans :
            trig'[g][v] = IF g = h /\ v = vlan THEN lastId + 1 ELSE trig[g][v]
    <3>1. trig' = [trig EXCEPT ![h][vlan] = lastId + 1]
      BY <1>1, <2>0
    <3>2. QED  BY <1>3, <2>2, <3>1, TableEntry
  <2>4. cfmMacro[h][vlan] = NoMacro
    BY <1>1, <1>3, <1>7 DEF CfmInv, MacroNamesLive
  <2>5. SnapInv'
    <3>1. ASSUME NEW i \in DOMAIN args PROVE Snap(i)'
      BY <1>0, <1>4, <2>0, <2>1 DEF Snap, SnapMacros, SnapAdd
    <3>2. QED  BY <2>0, <3>1 DEF SnapInv
  <2>6. StageInv'
    <3>1. cur'.app = cur.app /\ cur'.item = cur.item /\ cur'.trig = lastId + 1
      BY <1>3, <2>0, <2>1 DEF cur
    <3>2. trig'[host'][vlan'] = lastId + 1
      BY <1>1, <1>3, <2>0, <2>3 DEF host
    <3>3. QED  BY <1>0, <2>0, <2>2, <3>1, <3>2 DEF StageInv, AddStates, DelStates
  <2>7. MacroNamesLive'
    BY <2>0, <2>3, <2>4 DEF CfmInv, MacroNamesLive, KeyOf
  <2>8. IdsInv'
    <3>1. \A g \in CfmHosts, j \in Keys : item[g][j] <= lastId /\ item[g][j] \in Nat
      BY <1>3 DEF CfmInv, IdsInv, TypeInv, CfmTypeOK
    <3>2. \A g \in CfmHosts, j \in Keys : item'[g][j] <= lastId'
      BY <1>3, <2>0, <3>1
    <3>3. QED  BY <2>0, <3>2 DEF CfmInv, IdsInv
  <2>9. TidyInv'
    <3>1. \A g \in CfmHosts, j \in Keys : ~(g = h /\ j = k) => (Used(g, j)' <=> Used(g, j))
      BY <1>2, <2>3, KeyOfType DEF Used
    <3>2. Used(h, k)'
      BY <1>2, <1>3, <2>2, <2>3 DEF Used
    <3>3. host' = h /\ Key' = k
      BY <1>1, <1>2, <2>0 DEF host, Key
    <3>4. ASSUME ~failed', NEW g \in CfmHosts
          PROVE  /\ \A v \in Vlans : ~(g = h /\ v = vlan) => ((trig'[g][v] # 0) <=> (cfmMacro'[g][v] # NoMacro))
                 /\ \A j \in Keys : (item'[g][j] # 0) <=> Used(g, j)'
                 /\ app'[g] <=> \E j \in Keys : item'[g][j] # 0
      BY <1>0, <1>1, <1>2, <1>5, <2>0, <2>3, <3>1, <3>2, <3>4 DEF CfmInv, TidyInv
    <3>5. QED  BY <2>0, <3>3, <3>4 DEF TidyInv
  <2>10. QED  BY <1>0, <2>0, <2>5, <2>6, <2>7, <2>8, <2>9 DEF CfmInv, ReportIsTrue
<1>8. QED  BY <1>6, <1>7

LEMMA WriteMacroKeeps ==
    ASSUME TypeInv, CfmInv, WriteMacro
    PROVE  CfmInv'
<1>0. /\ cpc = "macro" /\ cpc # "idle" /\ action = "add" /\ cur.app /\ cur.item # 0
      /\ trig[host][vlan] # 0 /\ cur.trig = trig[host][vlan]
      /\ UNCHANGED <<app, item, trig, lastId, data, triggers, failed>>
      /\ NextHost /\ UNCHANGED <<action, vlan, args>>
  BY DEF WriteMacro, CfmInv, StageInv, AddStates, NextHost, command
<1>1. PICK h \in CfmHosts : h = host /\ h = args[at]
  BY <1>0, Place DEF host
<1>2. PICK k \in Keys : k = KeyOf(h, vlan) /\ k = Key
  BY <1>0, <1>1, Place DEF Key
<1>3. /\ data \in [DOMAIN args -> HostData] /\ at \in DOMAIN args /\ vlan \in Vlans
      /\ cfmMacro \in [CfmHosts -> [Vlans -> Nat \X Nat]] /\ cur \in HostData
      /\ \A i \in DOMAIN args : args[i] \in CfmHosts
  BY <1>0, Place DEF TypeInv, CfmTypeOK, PlaceOK
<1>4. \A i \in DOMAIN args : Snap(i)
  BY <1>0 DEF CfmInv, SnapInv
<1>5. app[h] /\ item[h][k] # 0 /\ cur.item = item[h][k] /\ cur.trig = trig[h][vlan]
  <2>1. SnapAdd(at)
    BY <1>0, <1>3, <1>4 DEF Snap
  <2>2. QED  BY <1>0, <1>1, <1>2, <2>1 DEF SnapAdd, cur
<1>6. \A g \in CfmHosts, v \in Vlans :
        cfmMacro'[g][v] = IF g = h /\ v = vlan THEN <<cur.item, cur.trig>> ELSE cfmMacro[g][v]
  <2>1. \A v \in Vlans \ {vlan} : cur.macros[v] = cfmMacro[h][v]
    BY <1>1, <1>3, <1>4 DEF Snap, SnapMacros, cur
  <2>2. cur.macros \in [Vlans -> Nat \X Nat]
    BY <1>3 DEF HostData
  <2>3. cfmMacro' = [cfmMacro EXCEPT ![h] = [cur.macros EXCEPT ![vlan] = <<cur.item, cur.trig>>]]
    BY <1>1 DEF WriteMacro
  <2> HIDE DEF cur
  <2>4. QED  BY <1>3, <2>1, <2>2, <2>3
<1>7. <<cur.item, cur.trig>> # NoMacro
  BY <1>0 DEF NoMacro
<1>8. \A i \in DOMAIN args : Snap(i)'
  <2>1. ASSUME NEW i \in DOMAIN args PROVE Snap(i)'
    BY <1>0, <1>3, <1>4, <1>6 DEF Snap, SnapMacros, SnapAdd
  <2>2. QED  BY <2>1
<1>9. failed' \/ Tidy'
  <2>1. \A g \in CfmHosts, j \in Keys : Used(g, j)' <=> Used(g, j)
    BY <1>0 DEF Used
  <2>2. ASSUME ~failed, NEW g \in CfmHosts
        PROVE  /\ \A v \in Vlans : (trig[g][v] # 0) <=> (cfmMacro'[g][v] # NoMacro)
               /\ \A j \in Keys : (item[g][j] # 0) <=> Used(g, j)
               /\ app[g] <=> \E j \in Keys : item[g][j] # 0
    BY <1>0, <1>1, <1>6, <1>7, <2>2 DEF CfmInv, TidyInv
  <2>3. QED  BY <1>0, <2>1, <2>2 DEF Tidy, NoMacro
<1>10. MacroNamesLive'
  <2>1. ASSUME NEW g \in CfmHosts, NEW v \in Vlans, cfmMacro'[g][v] # NoMacro
        PROVE  /\ cfmMacro'[g][v] = <<item[g][KeyOf(g, v)], trig[g][v]>>
               /\ item[g][KeyOf(g, v)] # 0 /\ trig[g][v] # 0 /\ app[g]
    <3>1. CASE g = h /\ v = vlan
      <4>1. KeyOf(g, v) = k
        BY <1>2, <3>1
      <4>2. cfmMacro'[g][v] = <<cur.item, cur.trig>>
        BY <1>3, <1>6, <3>1
      <4>3. trig[h][vlan] # 0
        BY <1>0, <1>1
      <4>4. QED  BY <1>5, <3>1, <4>1, <4>2, <4>3
    <3>2. CASE ~(g = h /\ v = vlan)
      BY <1>6, <2>1, <3>2 DEF CfmInv, MacroNamesLive
    <3>3. QED  BY <3>1, <3>2
  <2>2. QED  BY <1>0, <2>1 DEF MacroNamesLive, KeyOf, NoMacro
<1>11. ReportIsTrue'
  <2>1. finished' = finished \cup {at} /\ finished \subseteq DOMAIN args
    BY <1>0 DEF NextHost, Done, TypeInv, CfmTypeOK
  <2>2. \A i \in finished' : cfmMacro'[args[i]][vlan] # NoMacro
    BY <1>0, <1>1, <1>3, <1>6, <1>7, <2>1 DEF CfmInv, ReportIsTrue
  <2>3. QED  BY <1>0, <2>2 DEF ReportIsTrue, NoMacro
<1>12. IdsInv'
  BY <1>0 DEF CfmInv, IdsInv
<1>13. QED  BY <1>0, <1>8, <1>9, <1>10, <1>11, <1>12, NextHostKeeps DEF CfmInv, AddStates, DelStates

-----------------------------------------------------------------------------
(* delete_zabbix_cfm.                                                      *)

LEMMA CountTriggersKeeps ==
    ASSUME TypeInv, CfmInv, CountTriggers
    PROVE  CfmInv'
<1>0. cpc = "count" /\ cpc # "idle" /\ action = "del"
  BY DEF CountTriggers, CfmInv, StageInv, DelStates
<1>1. PICK h \in CfmHosts : h = host /\ h = args[at]
  BY <1>0, Place DEF host
<1>2. PICK k \in Keys : k = KeyOf(h, vlan) /\ k = Key
  BY <1>0, <1>1, Place DEF Key
<1>3. failed \/ Tidy
  BY <1>0, TidyBetween DEF CfmInv
<1>4. CASE \E j \in Keys : item[host][j] = ids[1]
  <2>0. /\ triggers' = Cardinality(Users(host, CHOOSE j \in Keys : item[host][j] = ids[1]))
        /\ cpc' = "erase" /\ UNCHANGED <<server, command, at, data, finished, failed>>
        /\ UNCHANGED <<action, vlan, args, app, item, trig, cfmMacro>>
    BY <1>4 DEF CountTriggers, server, command
  <2>1. \A i \in DOMAIN args : Snap(i)
    BY <1>0 DEF CfmInv, SnapInv
  <2>2. \A j \in Keys : item[h][j] = ids[1] => j = k
    <3>1. SnapDel(at)
      BY <1>0, <2>1 DEF Snap, TypeInv, PlaceOK
    <3>2. QED  BY <1>1, <1>2, <3>1 DEF SnapDel, ids, cur
  <2>3. (CHOOSE j \in Keys : item[host][j] = ids[1]) = k /\ item[h][k] = ids[1]
    BY <1>1, <1>4, <2>2
  <2>4. host' = h /\ Key' = k /\ ids' = ids
    BY <1>1, <1>2, <2>0 DEF host, Key, ids, cur
  <2>5. SnapInv'
    <3>1. ASSUME NEW i \in DOMAIN args PROVE Snap(i)'
      <4>1. ItemCount(args[i])' = ItemCount(args[i])
        BY <2>0 DEF ItemCount
      <4>2. QED  BY <1>0, <2>0, <2>1, <4>1 DEF Snap, SnapMacros, SnapDel
    <3>2. QED  BY <2>0, <3>1 DEF SnapInv
  <2>6. StageInv'
    <3>1. triggers' = Cardinality(Users(h, k)')
      BY <1>1, <2>0, <2>3, ServerKept
    <3>2. Users(host, Key)' = Users(h, k)'
      BY <2>0, <2>4 DEF Users
    <3>3. item'[host'][Key'] = ids'[1]
      BY <2>0, <2>3, <2>4
    <3> HIDE DEF host, Key, ids
    <3>4. QED  BY <1>0, <2>0, <3>1, <3>2, <3>3 DEF StageInv, AddStates, DelStates
  <2>7. TidyInv'
    BY <1>3, <2>0, ServerKept, TidyAtRest
  <2>8. QED  BY <2>0, <2>5, <2>6, <2>7, ServerKept DEF CfmInv, ReportIsTrue
<1>5. CASE ~\E j \in Keys : item[host][j] = ids[1]
  BY <1>3, <1>5, ExitKeeps DEF CountTriggers, Refused
<1>6. QED  BY <1>4, <1>5

LEMMA EraseMacroKeeps ==
    ASSUME TypeInv, CfmInv, EraseMacro
    PROVE  CfmInv'
<1>0. /\ cpc = "erase" /\ cpc # "idle" /\ action = "del" /\ cpc' = "untrigger"
      /\ item[host][Key] = ids[1] /\ triggers = Cardinality(Users(host, Key))
      /\ UNCHANGED <<app, item, trig, lastId, command, at, data, triggers, finished, failed>>
      /\ UNCHANGED <<action, vlan, args>>
  BY DEF EraseMacro, CfmInv, StageInv, DelStates, command
<1>1. PICK h \in CfmHosts : h = host /\ h = args[at]
  BY <1>0, Place DEF host
<1>2. PICK k \in Keys : k = KeyOf(h, vlan) /\ k = Key
  BY <1>0, <1>1, Place DEF Key
<1>3. /\ at \in DOMAIN args /\ vlan \in Vlans /\ cur \in HostData
      /\ cfmMacro \in [CfmHosts -> [Vlans -> Nat \X Nat]]
      /\ \A i \in DOMAIN args : args[i] \in CfmHosts
  BY <1>0, Place DEF TypeInv, CfmTypeOK, PlaceOK
<1>4. \A i \in DOMAIN args : Snap(i)
  BY <1>0 DEF CfmInv, SnapInv
<1>5. \A g \in CfmHosts, v \in Vlans :
        cfmMacro'[g][v] = IF g = h /\ v = vlan THEN NoMacro ELSE cfmMacro[g][v]
  <2>1. \A v \in Vlans \ {vlan} : cur.macros[v] = cfmMacro[h][v]
    BY <1>1, <1>3, <1>4 DEF Snap, SnapMacros, cur
  <2>2. cur.macros \in [Vlans -> Nat \X Nat]
    BY <1>3 DEF HostData
  <2>3. cfmMacro' = [cfmMacro EXCEPT ![h] = [cur.macros EXCEPT ![vlan] = NoMacro]]
    BY <1>1 DEF EraseMacro, LeftMacros
  <2> HIDE DEF cur
  <2>4. QED  BY <1>3, <2>1, <2>2, <2>3
<1>6. host' = h /\ Key' = k /\ ids' = ids
  BY <1>0, <1>1, <1>2 DEF host, Key, ids, cur
<1>7. SnapInv'
  <2>1. ASSUME NEW i \in DOMAIN args PROVE Snap(i)'
    <3>1. ItemCount(args[i])' = ItemCount(args[i])
      BY <1>0 DEF ItemCount
    <3>2. SnapMacros(i)'
      BY <1>0, <1>3, <1>4, <1>5 DEF Snap, SnapMacros
    <3>3. QED  BY <1>0, <1>4, <3>1, <3>2 DEF Snap, SnapDel
  <2>2. QED  BY <1>0, <2>1 DEF SnapInv
<1>8. StageInv'
  <2>1. Users(host, Key)' = Users(host, Key)
    BY <1>0, <1>1, <1>2, <1>6 DEF Users
  <2>2. item'[host'][Key'] = ids'[1] /\ cfmMacro'[host'][vlan'] = NoMacro
    BY <1>0, <1>1, <1>2, <1>3, <1>5, <1>6
  <2>3. triggers' = Cardinality(Users(host, Key)')
    BY <1>0, <2>1
  <2> HIDE DEF host, Key, ids
  <2>4. QED  BY <1>0, <2>2, <2>3 DEF StageInv, AddStates, DelStates, NoMacro
<1>9. MacroNamesLive'
  BY <1>0, <1>5 DEF CfmInv, MacroNamesLive, KeyOf, NoMacro
<1>10. TidyInv'
  <2>1. \A g \in CfmHosts, j \in Keys : Used(g, j)' <=> Used(g, j)
    BY <1>0 DEF Used
  <2>2. ASSUME ~failed, NEW g \in CfmHosts
        PROVE  /\ \A v \in Vlans : ~(g = h /\ v = vlan) => ((trig[g][v] # 0) <=> (cfmMacro'[g][v] # NoMacro))
               /\ \A j \in Keys : (item[g][j] # 0) <=> Used(g, j)
               /\ app[g] <=> \E j \in Keys : item[g][j] # 0
    BY <1>0, <1>5, <2>2 DEF CfmInv, TidyInv
  <2> HIDE DEF host, Key
  <2>3. QED  BY <1>0, <1>6, <2>1, <2>2 DEF TidyInv, NoMacro
<1>11. IdsInv' /\ ReportIsTrue'
  <2>1. finished \subseteq DOMAIN args
    BY DEF TypeInv, CfmTypeOK
  <2>2. QED  BY <1>0, <1>3, <1>5, <2>1 DEF CfmInv, IdsInv, ReportIsTrue, NoMacro
<1>12. QED  BY <1>7, <1>8, <1>9, <1>10, <1>11 DEF CfmInv

LEMMA DeleteTriggerKeeps ==
    ASSUME TypeInv, CfmInv, DeleteTrigger
    PROVE  CfmInv'
<1>0. /\ cpc = "untrigger" /\ cpc # "idle" /\ action = "del"
      /\ item[host][Key] = ids[1] /\ triggers = Cardinality(Users(host, Key))
      /\ cfmMacro[host][vlan] = NoMacro
  BY DEF DeleteTrigger, CfmInv, StageInv, DelStates
<1>1. PICK h \in CfmHosts : h = host /\ h = args[at]
  BY <1>0, Place DEF host
<1>2. PICK k \in Keys : k = KeyOf(h, vlan) /\ k = Key
  BY <1>0, <1>1, Place DEF Key
<1>3. /\ at \in DOMAIN args /\ vlan \in Vlans /\ trig \in [CfmHosts -> [Vlans -> Nat]]
      /\ finished \subseteq DOMAIN args /\ \A i \in DOMAIN args : args[i] \in CfmHosts
  BY <1>0, Place DEF TypeInv, CfmTypeOK, PlaceOK
<1>4. \A i \in DOMAIN args : Snap(i)
  BY <1>0 DEF CfmInv, SnapInv
<1>5. /\ ids[1] # 0 /\ ids[2] # 0 /\ trig[h][vlan] \in {0, ids[2]}
      /\ trig[h][vlan] # 0 => ItemCount(h) = cur.items
  <2>1. SnapDel(at)
    BY <1>0, <1>3, <1>4 DEF Snap
  <2>2. QED  BY <1>1, <2>1 DEF SnapDel, ids, cur
<1>6. CASE trig[host][vlan] # ids[2]
  <2>1. trig[h][vlan] = 0
    BY <1>1, <1>5, <1>6
  <2>2. failed \/ Tidy
    BY <1>0, <1>1, <2>1 DEF CfmInv, TidyInv, Tidy
  <2>3. QED  BY <1>6, <2>2, ExitKeeps DEF DeleteTrigger, Refused
<1>7. CASE trig[host][vlan] = ids[2]
  <2>0. /\ trig' = [trig EXCEPT ![h][vlan] = 0]
        /\ \/ LastTrigger /\ cpc' = "unitem" /\ UNCHANGED <<command, at, finished>>
           \/ ~LastTrigger /\ NextHost
        /\ UNCHANGED <<app, item, cfmMacro, lastId, data, triggers, failed>>
        /\ UNCHANGED <<action, vlan, args>>
    BY <1>1, <1>7 DEF DeleteTrigger, NextHost, command
  <2>1. \A g \in CfmHosts, v \in Vlans :
            trig'[g][v] = IF g = h /\ v = vlan THEN 0 ELSE trig[g][v]
    BY <1>3, <2>0, TableEntry
  <2>2. item[h][k] # 0 /\ trig[h][vlan] # 0 /\ vlan \in Users(h, k) /\ cfmMacro[h][vlan] = NoMacro
        /\ triggers = Cardinality(Users(h, k))
    BY <1>0, <1>1, <1>2, <1>3, <1>5, <1>7 DEF Users
  <2>3. Used(h, k)' <=> ~LastTrigger
    <3>1. IsFiniteSet(Users(h, k))
      <4>1. Users(h, k) \in SUBSET Vlans
        BY DEF Users
      <4>2. QED  BY <4>1, KeysFinite, FS_Subset
    <3>2. LastTrigger <=> Users(h, k) = {vlan}
      <4>1. LastTrigger <=> \E x : Users(h, k) = {x}
        BY <2>2, <3>1, FS_Singleton DEF LastTrigger
      <4>2. QED  BY <2>2, <4>1
    <3>3. Used(h, k)' <=> \E v \in Users(h, k) : v # vlan
      BY <2>1 DEF Used, Users
    <3>4. QED  BY <2>2, <3>2, <3>3
  <2>4. \A i \in DOMAIN args : Snap(i)'
    <3>1. ASSUME NEW i \in DOMAIN args PROVE Snap(i)'
      <4>1. ItemCount(args[i])' = ItemCount(args[i])
        BY <2>0 DEF ItemCount
      <4>2. trig'[args[i]][vlan] = IF args[i] = h THEN 0 ELSE trig[args[i]][vlan]
        BY <1>3, <2>1
      <4>3. SnapMacros(i)'
        BY <1>4, <2>0 DEF Snap, SnapMacros
      <4>4. SnapDel(i)'
        BY <1>0, <1>4, <2>0, <4>1, <4>2 DEF Snap, SnapDel
      <4>5. QED  BY <1>0, <2>0, <4>3, <4>4 DEF Snap
    <3>2. QED  BY <3>1
  <2>5. \A g \in CfmHosts, j \in Keys : ~(g = h /\ j = k) => (Used(g, j)' <=> Used(g, j))
    BY <1>2, <2>1 DEF Used
  <2>6. ASSUME ~failed, NEW g \in CfmHosts
        PROVE  /\ \A v \in Vlans : (trig'[g][v] # 0) <=> (cfmMacro[g][v] # NoMacro)
               /\ \A j \in Keys : ~(g = h /\ j = k) => ((item[g][j] # 0) <=> Used(g, j)')
               /\ app[g] <=> \E j \in Keys : item[g][j] # 0
    BY <1>0, <1>1, <1>3, <2>1, <2>2, <2>5, <2>6 DEF CfmInv, TidyInv
  <2>7. MacroNamesLive' /\ IdsInv'
    BY <2>0, <2>1, <2>2 DEF CfmInv, MacroNamesLive, IdsInv, KeyOf, NoMacro
  <2>8. ReportIsTrue'
    <3>1. finished' \subseteq finished \cup {at}
      BY <2>0 DEF NextHost, Done
    <3>2. \A i \in finished' : cfmMacro[args[i]][vlan] = NoMacro /\ trig'[args[i]][vlan] = 0
      BY <1>0, <1>1, <1>3, <2>1, <2>2, <3>1 DEF CfmInv, ReportIsTrue
    <3>3. QED  BY <1>0, <2>0, <3>2 DEF ReportIsTrue, NoMacro
  <2>9. CASE LastTrigger /\ cpc' = "unitem" /\ UNCHANGED <<command, at, finished>>
    <3>1. host' = h /\ Key' = k /\ cur' = cur
      BY <1>1, <1>2, <2>0, <2>9 DEF host, Key, cur
    <3>2. ItemCount(host)' = ItemCount(h)
      BY <2>0, <3>1 DEF ItemCount
    <3>3. ~Used(host, Key)'
      BY <2>0, <2>3, <2>9, <3>1 DEF Used
    <3>4. trig'[h][vlan] = 0
      BY <1>3, <2>1
    <3> HIDE DEF host, Key, cur
    <3>5. StageInv'
      BY <1>0, <1>5, <2>0, <2>2, <2>9, <3>1, <3>2, <3>3, <3>4 DEF StageInv, AddStates, DelStates, NoMacro
    <3>6. SnapInv'
      BY <2>0, <2>4, <2>9 DEF SnapInv
    <3>7. TidyInv'
      BY <2>0, <2>6, <2>9, <3>1 DEF TidyInv, NoMacro
    <3>8. QED  BY <2>7, <2>8, <3>5, <3>6, <3>7 DEF CfmInv
  <2>10. CASE ~LastTrigger /\ NextHost
    <3>1. failed' \/ Tidy'
      BY <2>0, <2>2, <2>3, <2>6, <2>10 DEF Tidy, NoMacro
    <3>2. QED  BY <1>0, <2>0, <2>4, <2>7, <2>8, <2>10, <3>1, NextHostKeeps DEF CfmInv, DelStates
  <2>11. QED  BY <2>0, <2>9, <2>10
<1>8. QED  BY <1>6, <1>7

LEMMA DeleteItemKeeps ==
    ASSUME TypeInv, CfmInv, DeleteItem
    PROVE  CfmInv'
<1>0. /\ cpc = "unitem" /\ cpc # "idle" /\ action = "del" /\ cfmMacro[host][vlan] = NoMacro
      /\ trig[host][vlan] = 0 /\ ~Used(host, Key) /\ item[host][Key] # 0
      /\ ItemCount(host) = cur.items
  BY DEF DeleteItem, CfmInv, StageInv, DelStates
<1>1. PICK h \in CfmHosts : h = host /\ h = args[at]
  BY <1>0, Place DEF host
<1>2. PICK k \in Keys : k = KeyOf(h, vlan) /\ k = Key
  BY <1>0, <1>1, Place DEF Key
<1>3. /\ at \in DOMAIN args /\ vlan \in Vlans /\ trig \in [CfmHosts -> [Vlans -> Nat]]
      /\ item \in [CfmHosts -> [Keys -> Nat]]
      /\ finished \subseteq DOMAIN args /\ \A i \in DOMAIN args : args[i] \in CfmHosts
  BY <1>0, Place DEF TypeInv, CfmTypeOK, PlaceOK
<1>4. \A i \in DOMAIN args : Snap(i)
  BY <1>0 DEF CfmInv, SnapInv
<1>5. /\ item' = [item EXCEPT ![h][k] = 0]
      /\ \A g \in CfmHosts, v \in Vlans : trig'[g][v] = trig[g][v]
  <2>1. PICK j \in Keys :
            /\ item[host][j] = ids[1] /\ item' = [item EXCEPT ![host][j] = 0]
            /\ trig' = [trig EXCEPT ![host] =
                          [v \in Vlans |-> IF v \in Users(host, j) THEN 0 ELSE trig[host][v]]]
    BY DEF DeleteItem
  <2>2. SnapDel(at)
    BY <1>0, <1>3, <1>4 DEF Snap
  <2>3. j = k
    BY <1>1, <1>2, <2>1, <2>2 DEF SnapDel, ids, cur
  <2>4. Users(h, k) = {}
    BY <1>0, <1>1, <1>2 DEF Used, Users
  <2>5. trig' = [trig EXCEPT ![h] = [v \in Vlans |-> trig[h][v]]]
    BY <1>1, <2>1, <2>3, <2>4
  <2>6. item' = [item EXCEPT ![h][k] = 0]
    BY <1>1, <2>1, <2>3
  <2>7. \A g \in CfmHosts, v \in Vlans : trig'[g][v] = trig[g][v]
    <3>1. ASSUME NEW g \in CfmHosts, NEW v \in Vlans PROVE trig'[g][v] = trig[g][v]
      <4>1. CASE g = h
        <5>1. trig'[h] = [w \in Vlans |-> trig[h][w]]
          BY <1>3, <2>5
        <5>2. QED  BY <4>1, <5>1
      <4>2. CASE g # h
        BY <1>3, <2>5, <4>2
      <4>3. QED  BY <4>1, <4>2
    <3>2. QED  BY <3>1
  <2>8. QED  BY <2>6, <2>7
<1>6. /\ \/ LastItem /\ cpc' = "unapplication" /\ UNCHANGED <<command, at, finished>>
         \/ ~LastItem /\ NextHost
      /\ UNCHANGED <<app, cfmMacro, lastId, data, triggers, failed>>
      /\ UNCHANGED <<action, vlan, args>>
  BY DEF DeleteItem, NextHost, command
<1>7. \A g \in CfmHosts, j \in Keys :
        item'[g][j] = IF g = h /\ j = k THEN 0 ELSE item[g][j]
  <2>1. item \in [CfmHosts -> [Keys -> Nat]] /\ 0 \in Nat
    BY <1>3
  <2>2. \A g \in CfmHosts, j \in Keys :
          [item EXCEPT ![h][k] = 0][g][j] = IF g = h /\ j = k THEN 0 ELSE item[g][j]
    BY <2>1, TableEntry
  <2>3. item' = [item EXCEPT ![h][k] = 0]
    BY <1>5
  <2>4. QED  BY <2>2, <2>3, Zenon
<1>8. LastItem <=> \A j \in Keys : item'[h][j] = 0
  <2> DEFINE I == {j \in Keys : item[h][j] # 0}
  <2>1. IsFiniteSet(I)
    BY KeysFinite, FS_Subset
  <2>2. LastItem <=> Cardinality(I) = 1
    BY <1>0, <1>1 DEF LastItem, ItemCount
  <2>3. k \in I
    BY <1>0, <1>1, <1>2
  <2> HIDE DEF I
  <2>4. Cardinality(I) = 1 <=> \E x : I = {x}
    BY <2>1, FS_Singleton
  <2>5. Cardinality(I) = 1 <=> I = {k}
    BY <2>3, <2>4
  <2>6. I = {k} <=> \A j \in Keys : item'[h][j] = 0
    BY <1>7, <2>3 DEF I
  <2>7. QED  BY <2>2, <2>5, <2>6
<1>9. \A i \in DOMAIN args : Snap(i)'
  <2>1. ASSUME NEW i \in DOMAIN args PROVE Snap(i)'
    <3>1. args[i] # h => ItemCount(args[i])' = ItemCount(args[i])
      <4>1. args[i] # h => item'[args[i]] = item[args[i]]
        BY <1>3, <1>5
      <4>2. QED  BY <1>6, <4>1 DEF ItemCount
    <3>2. SnapMacros(i)'
      BY <1>4, <1>6 DEF Snap, SnapMacros
    <3>3. SnapDel(i)
      BY <1>0, <1>4 DEF Snap
    <3>4. trig'[args[i]][vlan] = trig[args[i]][vlan] /\ (args[i] = h => trig[args[i]][vlan] = 0)
      BY <1>0, <1>1, <1>3, <1>5
    <3>5. \A j \in Keys : item'[args[i]][j] \in {0, item[args[i]][j]}
      BY <1>3, <1>7
    <3>6. SnapDel(i)'
      BY <1>6, <3>1, <3>3, <3>4, <3>5 DEF SnapDel
    <3>7. QED  BY <1>0, <1>6, <3>2, <3>6 DEF Snap
  <2>2. QED  BY <2>1
<1>10. \A g \in CfmHosts, j \in Keys : Used(g, j)' <=> Used(g, j)
  BY <1>5 DEF Used
<1>11. ASSUME ~failed, NEW g \in CfmHosts
       PROVE  /\ \A v \in Vlans : (trig'[g][v] # 0) <=> (cfmMacro[g][v] # NoMacro)
              /\ \A j \in Keys : (item'[g][j] # 0) <=> Used(g, j)'
              /\ app[g] <=> \E j \in Keys : item[g][j] # 0
  <2>1. /\ \A v \in Vlans : (trig[g][v] # 0) <=> (cfmMacro[g][v] # NoMacro)
        /\ \A j \in Keys : ~(g = h /\ j = k) => ((item[g][j] # 0) <=> Used(g, j))
        /\ app[g] <=> \E j \in Keys : item[g][j] # 0
    BY <1>0, <1>1, <1>2, <1>11 DEF CfmInv, TidyInv
  <2>2. QED  BY <1>0, <1>1, <1>2, <1>5, <1>7, <1>10, <2>1
<1>12. MacroNamesLive'
  <2>1. ASSUME NEW g \in CfmHosts, NEW v \in Vlans, cfmMacro[g][v] # NoMacro
        PROVE  item'[g][KeyOf(g, v)] = item[g][KeyOf(g, v)] /\ trig'[g][v] = trig[g][v]
    <3>1. trig[g][v] # 0 /\ KeyOf(g, v) \in Keys
      BY <2>1, KeyOfType DEF CfmInv, MacroNamesLive
    <3>2. ~(g = h /\ KeyOf(g, v) = k)
      BY <1>0, <1>1, <1>2, <3>1 DEF Used
    <3>3. QED  BY <1>5, <1>7, <3>1, <3>2
  <2>2. QED  BY <1>6, <2>1 DEF CfmInv, MacroNamesLive, KeyOf, NoMacro
<1>13. IdsInv'
  <2>1. \A g \in CfmHosts, j \in Keys : item'[g][j] \in {0, item[g][j]} /\ item[g][j] <= lastId /\ 0 <= lastId
    <3>1. \A g \in CfmHosts, j \in Keys : item[g][j] \in Nat
      BY <1>3
    <3>2. lastId \in Nat
      BY DEF TypeInv, CfmTypeOK
    <3>3. \A g \in CfmHosts, j \in Keys : item[g][j] <= lastId
      BY DEF CfmInv, IdsInv
    <3>4. \A g \in CfmHosts, j \in Keys : item'[g][j] \in {0, item[g][j]}
      BY <1>7
    <3>5. 0 <= lastId
      BY <3>2
    <3>6. QED  BY <3>3, <3>4, <3>5
  <2>2. QED  BY <1>6, <2>1 DEF CfmInv, IdsInv
<1>14. ReportIsTrue'
  <2>1. finished' \subseteq finished \cup {at}
    BY <1>6 DEF NextHost, Done
  <2>2. \A i \in finished' : cfmMacro[args[i]][vlan] = NoMacro /\ trig'[args[i]][vlan] = 0
    BY <1>0, <1>1, <1>3, <1>5, <2>1 DEF CfmInv, ReportIsTrue
  <2>3. QED  BY <1>0, <1>6, <2>2 DEF ReportIsTrue, NoMacro
<1>15. CASE LastItem /\ cpc' = "unapplication" /\ UNCHANGED <<command, at, finished>>
  <2>1. host' = h
    BY <1>1, <1>6, <1>15 DEF host
  <2>2. trig'[h][vlan] = 0 /\ cfmMacro'[h][vlan] = NoMacro
    BY <1>0, <1>1, <1>3, <1>5, <1>6
  <2> HIDE DEF host
  <2>3. StageInv'
    BY <1>0, <1>6, <1>8, <1>15, <2>1, <2>2 DEF StageInv, AddStates, DelStates, NoMacro
  <2>4. SnapInv'
    BY <1>6, <1>9, <1>15 DEF SnapInv
  <2>5. \A g \in CfmHosts : g # h => \A j \in Keys : item'[g][j] = item[g][j]
    BY <1>7
  <2>6. TidyInv'
    BY <1>6, <1>11, <1>15, <2>1, <2>5 DEF TidyInv, NoMacro
  <2>7. QED  BY <1>12, <1>13, <1>14, <2>3, <2>4, <2>6 DEF CfmInv
<1>16. CASE ~LastItem /\ NextHost
  <2>1. ASSUME ~failed, NEW g \in CfmHosts
        PROVE  app[g] <=> \E j \in Keys : item'[g][j] # 0
    <3>1. CASE g = h
      BY <1>0, <1>1, <1>2, <1>8, <1>11, <1>16, <2>1, <3>1
    <3>2. CASE g # h
      BY <1>7, <1>11, <2>1, <3>2
    <3>3. QED  BY <3>1, <3>2
  <2>2. failed' \/ Tidy'
    BY <1>6, <1>11, <2>1 DEF Tidy, NoMacro
  <2>3. QED  BY <1>0, <1>6, <1>9, <1>12, <1>13, <1>14, <1>16, <2>2, NextHostKeeps DEF CfmInv, DelStates
<1>17. QED  BY <1>6, <1>15, <1>16

LEMMA DeleteApplicationKeeps ==
    ASSUME TypeInv, CfmInv, DeleteApplication
    PROVE  CfmInv'
<1>0. /\ cpc = "unapplication" /\ cpc # "idle" /\ action = "del" /\ cfmMacro[host][vlan] = NoMacro
      /\ trig[host][vlan] = 0 /\ \A j \in Keys : item[host][j] = 0
      /\ app' = [app EXCEPT ![host] = FALSE] /\ NextHost
      /\ UNCHANGED <<item, trig, cfmMacro, lastId, data, triggers, failed>>
      /\ UNCHANGED <<action, vlan, args>>
  BY DEF DeleteApplication, NextHost, command, CfmInv, StageInv, DelStates
<1>1. PICK h \in CfmHosts : h = host /\ h = args[at]
  BY <1>0, Place DEF host
<1>2. /\ at \in DOMAIN args /\ vlan \in Vlans /\ app \in [CfmHosts -> BOOLEAN]
      /\ finished \subseteq DOMAIN args /\ \A i \in DOMAIN args : args[i] \in CfmHosts
  BY <1>0, Place DEF TypeInv, CfmTypeOK, PlaceOK
<1>3. app'[h] = FALSE /\ \A g \in CfmHosts : g # h => app'[g] = app[g]
  BY <1>0, <1>1, <1>2
<1>4. \A i \in DOMAIN args : Snap(i)'
  <2>1. ASSUME NEW i \in DOMAIN args PROVE Snap(i)'
    <3>1. Snap(i)
      BY <1>0 DEF CfmInv, SnapInv
    <3>2. ItemCount(args[i])' = ItemCount(args[i])
      BY <1>0 DEF ItemCount
    <3>3. QED  BY <1>0, <3>1, <3>2 DEF Snap, SnapMacros, SnapDel
  <2>2. QED  BY <2>1
<1>5. \A g \in CfmHosts, j \in Keys : Used(g, j)' <=> Used(g, j)
  BY <1>0 DEF Used
<1>6. ASSUME ~failed, NEW g \in CfmHosts
      PROVE  /\ \A v \in Vlans : (trig[g][v] # 0) <=> (cfmMacro[g][v] # NoMacro)
             /\ \A j \in Keys : (item[g][j] # 0) <=> Used(g, j)
             /\ app'[g] <=> \E j \in Keys : item[g][j] # 0
  BY <1>0, <1>1, <1>3, <1>6 DEF CfmInv, TidyInv
<1>7. failed' \/ Tidy'
  BY <1>0, <1>5, <1>6 DEF Tidy, NoMacro
<1>8. MacroNamesLive'
  <2>1. ASSUME NEW g \in CfmHosts, NEW v \in Vlans, cfmMacro[g][v] # NoMacro
        PROVE  app'[g]
    <3>1. item[g][KeyOf(g, v)] # 0 /\ KeyOf(g, v) \in Keys /\ app[g]
      BY <2>1, KeyOfType DEF CfmInv, MacroNamesLive
    <3>2. QED  BY <1>0, <1>1, <1>3, <3>1
  <2>2. QED  BY <1>0, <2>1 DEF CfmInv, MacroNamesLive, KeyOf, NoMacro
<1>9. ReportIsTrue'
  <2>1. finished' \subseteq finished \cup {at}
    BY <1>0 DEF NextHost, Done
  <2>2. \A i \in finished' : cfmMacro[args[i]][vlan] = NoMacro /\ trig[args[i]][vlan] = 0
    BY <1>0, <1>1, <2>1 DEF CfmInv, ReportIsTrue
  <2>3. QED  BY <1>0, <2>2 DEF ReportIsTrue, NoMacro
<1>10. IdsInv'
  BY <1>0 DEF CfmInv, IdsInv
<1>11. QED  BY <1>0, <1>4, <1>7, <1>8, <1>9, <1>10, NextHostKeeps DEF CfmInv, DelStates

-----------------------------------------------------------------------------
LEMMA NextCfm == TypeInv /\ CfmInv /\ [CfmNext]_cfmVars => CfmInv'
<1> SUFFICES ASSUME TypeInv, CfmInv, [CfmNext]_cfmVars PROVE CfmInv'
  OBVIOUS
<1>1. ASSUME NEW a \in {"add", "del"}, NEW v \in Vlans, NEW g \in CfmHosts, NEW h \in CfmHosts,
             Command(a, v, <<g>>) \/ Command(a, v, <<g, h>>)
      PROVE  CfmInv'
  <2>1. <<g>> \in Seq(CfmHosts) /\ <<g, h>> \in Seq(CfmHosts)
    OBVIOUS
  <2>2. QED  BY <1>1, <2>1, CommandKeeps
<1>2. CASE CfmAbort
  <2>1. Exit
    BY <1>2 DEF CfmAbort
  <2>2. failed' = TRUE
    BY <1>2, Zenon DEF CfmAbort
  <2>3. failed' = TRUE \/ (failed' = failed /\ (failed \/ Tidy))
    BY <2>2, Zenon
  <2>4. QED  BY <2>1, <2>3, ExitKeeps
<1>3. CASE UNCHANGED cfmVars
  <2>1. /\ UNCHANGED server
        /\ UNCHANGED <<app, item, trig, cfmMacro, lastId, cpc, action, vlan, args, at, data, triggers,
                       finished, failed>>
    BY <1>3 DEF cfmVars, server, command
  <2>2. SnapInv'
    <3>1. \A i : Snap(i) => Snap(i)'
      <4>1. \A i : ItemCount(args[i])' = ItemCount(args[i])
        BY <2>1 DEF ItemCount
      <4>2. QED  BY <2>1, <4>1 DEF Snap, SnapMacros, SnapAdd, SnapDel
    <3>2. QED  BY <2>1, <3>1 DEF CfmInv, SnapInv
  <2>3. StageInv'
    BY <2>1 DEF CfmInv, StageInv, host, cur, ids, Key, Used, Users, ItemCount
  <2>4. TidyInv'
    BY <2>1 DEF CfmInv, TidyInv, Used, host, Key
  <2>5. QED  BY <2>1, <2>2, <2>3, <2>4, ServerKept DEF CfmInv, ReportIsTrue
<1>4. CASE CreateApplication \/ CreateItem \/ CreateTrigger \/ WriteMacro
  BY <1>4, CreateApplicationKeeps, CreateItemKeeps, CreateTriggerKeeps, WriteMacroKeeps
<1>5. CASE CountTriggers \/ EraseMacro \/ DeleteTrigger \/ DeleteItem \/ DeleteApplication
  BY <1>5, CountTriggersKeeps, EraseMacroKeeps, DeleteTriggerKeeps, DeleteItemKeeps, DeleteApplicationKeeps
<1>6. QED  BY <1>1, <1>2, <1>3, <1>4, <1>5, CheckKeeps DEF CfmNext

\* The inductive invariant of zbx_cfm, with its three properties.
THEOREM CfmInvariant == CfmSpec => [](TypeInv /\ CfmInv)
BY InitType, InitCfm, NextType, NextCfm, PTL DEF CfmSpec

\* A macro names an item and a trigger that are there, and the application is, at
\* every step of every run, cut short or not.
THEOREM MacrosLive == CfmSpec => []MacroNamesLive
<1>1. CfmInv => MacroNamesLive
  BY DEF CfmInv
<1>2. QED  BY <1>1, CfmInvariant, PTL

\* "Successfully processed hosts" are.
THEOREM ReportTrue == CfmSpec => []ReportIsTrue
<1>1. CfmInv => ReportIsTrue
  BY DEF CfmInv
<1>2. QED  BY <1>1, CfmInvariant, PTL

\* Runs that the server or the checks have ended, but in which no call has failed,
\* leave on the server what the macros say and nothing else.
THEOREM ServerTidy == CfmSpec => []NothingLeftOver
<1>1. CfmInv => NothingLeftOver
  <2> SUFFICES ASSUME CfmInv, cpc = "idle", ~failed, NEW h \in CfmHosts
               PROVE  /\ \A v \in Vlans : (trig[h][v] # 0) <=> (cfmMacro[h][v] # NoMacro)
                      /\ \A k \in Keys : (item[h][k] # 0) <=> (Users(h, k) # {})
                      /\ app[h] <=> (ItemCount(h) # 0)
    BY DEF NothingLeftOver
  <2>1. Tidy
    BY TidyBetween DEF CfmInv
  <2>2. \A k \in Keys : Used(h, k) <=> (Users(h, k) # {})
    BY DEF Used, Users
  <2>3. QED  BY <2>1, <2>2, Counts DEF Tidy
<1>2. QED  BY <1>1, CfmInvariant, PTL
=============================================================================
