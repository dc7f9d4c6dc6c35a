---------------------------- MODULE HotspotScreen ----------------------------
(***************************************************************************)
(* sba-disc.  Zabbix starts it once for each of two discovery rules, over  *)
(* and over.  Each process walks the router's interfaces for hotspot       *)
(* vlans, prints them for Zabbix and tries to create one lock file; the    *)
(* process that finds it there forks, and its child sleeps, removes the    *)
(* file and rebuilds the screen.                                           *)
(*                                                                         *)
(* Zabbix is external: it reads the output of a rule when the process is   *)
(* done, makes the rule's items and graphs from it some time later, and    *)
(* keeps the items of what is gone.                                        *)
(***************************************************************************)
EXTENDS Naturals, FiniteSets, SequencesExt

CONSTANTS
    Interfaces,     \* interface index -> its vlan's kind and address, if any
    Movable,        \* bound: the interfaces that come and go
    Bulk            \* variables in a response; 30 in the code

Kinds == {"int", "ext"}

\* The greatest ifIndex there is: InterfaceIndex of the interfaces MIB.
LastIndex == 2147483647

ASSUME ScreenAssumption ==
    /\ DOMAIN Interfaces \subseteq 1..LastIndex
    /\ \A i \in DOMAIN Interfaces : Interfaces[i].kind \in Kinds /\ Interfaces[i].addr \in Nat
    /\ Movable \subseteq DOMAIN Interfaces /\ Bulk \in Nat \ {0}

VARIABLES
    table,          \* the router's interfaces
    job,            \* the process of each rule
    lock,           \* the lock file exists
    heir,           \* the child of a process of each rule; bound: one, the next waits
    output,         \* what a rule's process has printed and Zabbix has not read
    items,          \* the interfaces for which a rule has items and graphs
    screen,         \* in Zabbix: the hotspots of the last screen.update
    calm            \* from here on nothing changes or fails

screenVars == <<table, job, lock, heir, output, items, screen, calm>>

Indices == DOMAIN Interfaces
Nobody == [pc |-> "none", seen |-> {}]

\* steady and ever are history: what was there all the time of the walk, and at
\* any time of it.
Idle == [pc |-> "idle", cursor |-> 0, seen |-> {}, steady |-> {}, ever |-> {}]

ScreenInit ==
    /\ \E S \in SUBSET Movable : table = (Indices \ Movable) \cup S
    /\ job = [k \in Kinds |-> Idle]
    /\ lock = FALSE /\ heir = [k \in Kinds |-> Nobody]
    /\ output = [k \in Kinds |-> {}] /\ items = [k \in Kinds |-> {}]
    /\ screen = {}
    /\ calm = FALSE

-----------------------------------------------------------------------------
(* get_sber_vlans                                                          *)

After(c) == {i \in table : i > c}
FirstOf(S, n) == {i \in S : Cardinality({j \in S : j <= i}) <= n}

EndsAtOnce(c) == TRUE                                          \* mutant

\* A GETBULK response: the next interfaces.  One that is not full goes on past the
\* end of the subtree.
Response(c) == FirstOf(After(c), Bulk)
EndsWalk(c) == Cardinality(After(c)) < Bulk

\* The first request of a process, or the next one, which goes out from the last
\* variable of the response before.
WalkStep(k) ==
    /\ job[k].pc = "walk" \/ (job[k].pc = "idle" /\ output[k] = {})
    /\ LET j == IF job[k].pc = "walk" THEN job[k] ELSE [Idle EXCEPT !.steady = table, !.ever = table]
           c == j.cursor
       IN job' = [job EXCEPT ![k] =
                    [j EXCEPT !.seen = @ \cup Response(c),
                              !.pc = IF EndsWalk(c) THEN "open" ELSE "walk",
                              !.cursor = IF EndsWalk(c) THEN 0 ELSE Max(Response(c))]]
    /\ UNCHANGED <<table, lock, heir, output, items, screen, calm>>

\* synch_request, the database or another call of discover throws; before the
\* output is complete.
DiscoverFails(k) ==
    /\ ~calm /\ job[k].pc # "idle"
    /\ job' = [job EXCEPT ![k] = Idle]
    /\ UNCHANGED <<table, lock, heir, output, items, screen, calm>>

-----------------------------------------------------------------------------
(* discover and run                                                        *)

\* The vlans whose address the database knows.
Known(S) == {i \in S : Interfaces[i].addr # 0}

OpenTidy(k) ==                                                 \* mutant
    /\ job[k].pc = "open"
    /\ IF ~lock
       THEN UNCHANGED <<lock, heir>>
       ELSE /\ heir[k] = Nobody
            /\ heir' = [heir EXCEPT ![k] = [pc |-> "sleep", seen |-> job[k].seen]]
            /\ UNCHANGED lock
    /\ output' = [output EXCEPT ![k] = Known(job[k].seen)]
    /\ job' = [job EXCEPT ![k] = Idle]
    /\ UNCHANGED <<table, items, screen, calm>>

\* open(O_CREAT | O_EXCL): whoever makes the file is done, whoever finds it forks.
\* Either may fail, which ends a process that has printed what it has to.  That open
\* returns 0 takes a process without standard input, which Zabbix does not start.
Open(k) ==
    /\ job[k].pc = "open"
    /\ \/ ~lock /\ lock' = TRUE /\ UNCHANGED heir
       \/ /\ lock /\ heir[k] = Nobody
          /\ heir' = [heir EXCEPT ![k] = [pc |-> "sleep", seen |-> job[k].seen]]
          /\ UNCHANGED lock
       \/ ~calm /\ UNCHANGED <<lock, heir>>
    /\ output' = [output EXCEPT ![k] = Known(job[k].seen)]
    /\ job' = [job EXCEPT ![k] = Idle]
    /\ UNCHANGED <<table, items, screen, calm>>

-----------------------------------------------------------------------------
(* build_screen                                                            *)

\* hotspots: the addresses with, of each kind, the last vlan of the walk; 0 if none.
Addresses(S) == {Interfaces[i].addr : i \in Known(S)}
Latest(S, a, k) == Max({0} \cup {i \in Known(S) : Interfaces[i] = [kind |-> k, addr |-> a]})

\* get_graph_ids: every item and its graph is there.
HasGraphs(S) == \A a \in Addresses(S), k \in Kinds : Latest(S, a, k) \in {0} \cup items[k]

RowsShort == 2                                                 \* mutant

\* y++ and y += 2
Rows == 3

Cell(what, x, y) == [what |-> what, x |-> x, y |-> y]

\* Name, then traffic and users of the vlans of an address: the external one on
\* the left.
Block(S, a, y) ==
    LET column(k, x) == LET i == Latest(S, a, k) IN
            IF i = 0 THEN {} ELSE {Cell(<<"traffic", i>>, x, y + 1), Cell(<<"users", i>>, x, y + 2)}
    IN {Cell(<<"name", a>>, x, y) : x \in {0, 1}} \cup column("ext", 0) \cup column("int", 1)

\* generate_screen_items, the items of screen.update: a name takes both columns; the
\* totals come last.
Layout(S) ==
    LET top(a) == Rows * Cardinality({b \in Addresses(S) : b < a})
        end == Rows * Cardinality(Addresses(S))
    IN [vsize |-> end + 2,
        cells |-> (UNION {Block(S, a, top(a)) : a \in Addresses(S)})
                  \cup {Cell(<<"name", 0>>, x, end) : x \in {0, 1}}
                  \cup {Cell(<<"total", x>>, x, end + 1) : x \in {0, 1}}]

\* After the sleep; the file may be another's by now, or gone.
Wake(k) ==
    /\ heir[k].pc = "sleep"
    /\ lock' = FALSE
    /\ heir' = [heir EXCEPT ![k].pc = "build"]
    /\ UNCHANGED <<table, job, output, items, screen, calm>>

\* The graphs are asked for one by one before the one call that changes the screen;
\* one that is not there ends the child.
LookUp(k) ==
    /\ heir[k].pc = "build"
    /\ heir' = [heir EXCEPT ![k] = IF HasGraphs(@.seen) THEN [@ EXCEPT !.pc = "update"] ELSE Nobody]
    /\ UNCHANGED <<table, job, lock, output, items, screen, calm>>

Update(k) ==
    /\ heir[k].pc = "update"
    /\ heir' = [heir EXCEPT ![k] = Nobody]
    /\ screen' = heir[k].seen
    /\ UNCHANGED <<table, job, lock, output, items, calm>>

\* Killed, or an API call has failed.
HeirEnds(k) ==
    /\ ~calm /\ heir[k].pc # "none"
    /\ heir' = [heir EXCEPT ![k] = Nobody]
    /\ UNCHANGED <<table, job, lock, output, items, screen, calm>>

-----------------------------------------------------------------------------
(* The surroundings                                                        *)

\* A hotspot is set up or taken down.
Replug(i) ==
    /\ ~calm
    /\ table' = IF i \in table THEN table \ {i} ELSE table \cup {i}
    /\ job' = [k \in Kinds |->
                 IF job[k].pc # "walk" THEN job[k]
                 ELSE [job[k] EXCEPT !.steady = @ \cap table', !.ever = @ \cup table']]
    /\ UNCHANGED <<lock, heir, output, items, screen, calm>>

\* Zabbix makes the items of a rule: those of its kind of vlan.
MakeItems(k) ==
    /\ output[k] # {}
    /\ items' = [items EXCEPT ![k] = @ \cup {i \in output[k] : Interfaces[i].kind = k}]
    /\ output' = [output EXCEPT ![k] = {}]
    /\ UNCHANGED <<table, job, lock, heir, screen, calm>>

Calm ==
    /\ ~calm /\ calm' = TRUE
    /\ UNCHANGED <<table, job, lock, heir, output, items, screen>>

Rule(k) == WalkStep(k) \/ Open(k)
Heir(k) == Wake(k) \/ LookUp(k) \/ Update(k)

ScreenNext ==
    \/ \E k \in Kinds : Rule(k) \/ DiscoverFails(k) \/ MakeItems(k)
    \/ \E k \in Kinds : Heir(k) \/ HeirEnds(k)
    \/ \E i \in Movable : Replug(i)
    \/ Calm

\* Zabbix runs its rules and reads what they print again and again; a process runs on.
ScreenSpec ==
    /\ ScreenInit /\ [][ScreenNext]_screenVars
    /\ \A k \in Kinds : WF_screenVars(Rule(k)) /\ WF_screenVars(MakeItems(k))
    /\ \A k \in Kinds : WF_screenVars(Heir(k))

-----------------------------------------------------------------------------
(* Properties                                                              *)

\* A walk is a sound reading of a table that changes under it: it returns all that
\* was there the whole time and nothing that was never there.
WalkIsSound == \A k \in Kinds : job[k].pc = "open" =>
                   job[k].steady \subseteq job[k].seen /\ job[k].seen \subseteq job[k].ever

\* Every screen that a child writes is one that Zabbix can draw: no two elements in
\* one place, none below the last row, whichever vlans an address has.
Fits(scr) ==
    /\ \A c, d \in scr.cells : c.x = d.x /\ c.y = d.y => c = d
    /\ \A c \in scr.cells : c.y < scr.vsize
ScreenFits == [][screen' # screen => Fits(Layout(screen'))]_screenVars

\* Whatever the two rules' processes and children did to the lock file before,
\* died with it, or removed it from under another: once nothing changes and nothing
\* fails the screen comes to show the vlans of all hotspots that there are and of
\* no other, and keeps to it.
Shown == {Latest(screen, a, k) : a \in Addresses(screen), k \in Kinds} \ {0}
ScreenCatchesUp == <>[](calm => Shown = Known(table))
=============================================================================
