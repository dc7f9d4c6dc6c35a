-------------------------- MODULE Discovery_proofs --------------------------
(***************************************************************************)
(* Proofs about the two discoveries.  HotspotScreen, for any interfaces    *)
(* and any size of a response: a walk is a sound reading of a table that   *)
(* changes under it, and a screen made from it can be drawn.  HostDeploy,  *)
(* for any types, communities and uplinks: the host is valid at every step *)
(* and an undisturbed run brings it to what its type asks for.             *)
(***************************************************************************)
EXTENDS HotspotScreen, HostDeploy, FiniteSetTheorems, WellFoundedInduction, TLAPS

\* While a walk is under way, what was there all the time and is not past the
\* cursor has been seen.
WalkInv ==
    /\ table \subseteq Indices
    /\ DOMAIN job = Kinds
    /\ \A k \in Kinds :
         /\ DOMAIN job[k] = {"pc", "cursor", "seen", "steady", "ever"}
         /\ job[k].pc \in {"idle", "walk", "open"}
         /\ job[k].cursor \in Nat
         /\ job[k].pc # "idle" => job[k].seen \subseteq job[k].ever
         /\ job[k].pc = "walk" => /\ job[k].steady \subseteq table
                                  /\ table \subseteq job[k].ever
                                  /\ \A i \in job[k].steady : i <= job[k].cursor => i \in job[k].seen
         /\ job[k].pc = "open" => job[k].steady \subseteq job[k].seen

-----------------------------------------------------------------------------
(* The next interfaces of a response.                                      *)

LEMMA IndicesFinite ==
    ASSUME NEW S \in SUBSET Indices
    PROVE  /\ S \subseteq Nat \ {0}
           /\ \E b \in Nat : \A i \in S : i <= b
           /\ IsFiniteSet(S) /\ Cardinality(S) \in Nat
<1>1. PICK b \in Nat : Indices \subseteq 1..b
  <2>1. LastIndex \in Nat
    BY DEF LastIndex
  <2>2. Indices \subseteq 1..LastIndex
    BY ScreenAssumption DEF Indices
  <2>3. QED  BY <2>1, <2>2
<1>2. IsFiniteSet(1..b)
  BY FS_Interval
<1>3. IsFiniteSet(S)
  BY <1>1, <1>2, FS_Subset
<1>4. S \subseteq Nat \ {0} /\ \A i \in S : i <= b
  BY <1>1
<1>5. Cardinality(S) \in Nat
  BY <1>3, FS_CardinalityType
<1>6. QED  BY <1>3, <1>4, <1>5

LEMMA HasLeast ==
    ASSUME NEW S \in SUBSET Nat, S # {}
    PROVE  \E x \in S : \A y \in S : x <= y
<1> DEFINE R == OpToRel(<, Nat)
<1>1. R = {p \in Nat \X Nat : p[1] < p[2]}
  BY DEF OpToRel
<1>2. IsWellFoundedOn(R, Nat)
  BY NatLessThanWellFounded, Zenon
<1> HIDE DEF R
<1>3. PICK x \in S : \A y \in S : ~ (<<y, x>> \in R)
  BY <1>2, WFMin
<1>4. \A y \in S : <<y, x>> \in R <=> y < x
  BY <1>1
<1>5. \A y \in S : ~ (y < x)
  BY <1>3, <1>4
<1>6. QED  BY <1>5

\* The greatest interface is where the next request goes on from.
LEMMA MaxIsGreatest ==
    ASSUME NEW R \in SUBSET Indices, R # {}
    PROVE  Max(R) \in R /\ \A i \in R : i <= Max(R)
<1> DEFINE U == {n \in Nat : \A i \in R : i <= n}
<1>1. R \subseteq Nat \ {0} /\ \E b \in Nat : \A i \in R : i <= b
  BY IndicesFinite
<1>2. U # {} /\ U \in SUBSET Nat
  BY <1>1
<1>3. \E m \in U : \A n \in U : m <= n
  <2> HIDE DEF U
  <2>1. QED  BY <1>2, HasLeast
<1>4. PICK m \in U : \A n \in U : m <= n
  BY <1>3
<1>5. m \in R
  <2>1. SUFFICES ASSUME m \notin R PROVE FALSE
    OBVIOUS
  <2>2. \A i \in R : i <= m - 1 /\ m - 1 \in Nat
    BY <1>1, <1>4, <2>1
  <2>3. m - 1 \in U
    BY <2>2
  <2>4. QED  BY <1>4, <2>3
<1>6. \E x \in R : \A y \in R : x >= y
  BY <1>1, <1>4, <1>5
<1>7. QED  BY <1>1, <1>6 DEF Max

LEMMA ResponseIsNext ==
    ASSUME NEW S \in SUBSET Indices
    PROVE  /\ FirstOf(S, Bulk) \subseteq S
           /\ \A m \in FirstOf(S, Bulk) : \A i \in S : i <= m => i \in FirstOf(S, Bulk)
           /\ Cardinality(S) < Bulk => S \subseteq FirstOf(S, Bulk)
           /\ S # {} => FirstOf(S, Bulk) # {}
<1> DEFINE upto(i) == {j \in S : j <= i}
<1>1. \A i : /\ upto(i) \subseteq S /\ upto(i) \in SUBSET Indices /\ IsFiniteSet(upto(i))
             /\ Cardinality(upto(i)) \in Nat
  BY IndicesFinite
<1>2. Bulk \in Nat \ {0} /\ S \subseteq Nat /\ IsFiniteSet(S) /\ Cardinality(S) \in Nat
  BY IndicesFinite, ScreenAssumption
<1>3. FirstOf(S, Bulk) = {i \in S : Cardinality(upto(i)) <= Bulk}
  BY DEF FirstOf
<1>4. ASSUME NEW m \in FirstOf(S, Bulk), NEW i \in S, i <= m
      PROVE  i \in FirstOf(S, Bulk)
  <2>1. m \in S /\ Cardinality(upto(m)) <= Bulk
    BY <1>3
  <2>2. ASSUME NEW j \in S, j <= i
        PROVE  j <= m
    BY <1>2, <1>4, <2>1, <2>2
  <2>3. upto(i) \in SUBSET upto(m)
    BY <2>2
  <2> HIDE DEF upto
  <2>4. Cardinality(upto(i)) <= Cardinality(upto(m))
    BY <1>1, <2>3, FS_Subset
  <2>5. QED  BY <1>1, <1>2, <1>3, <1>4, <2>1, <2>4
<1>5. ASSUME Cardinality(S) < Bulk, NEW i \in S
      PROVE  i \in FirstOf(S, Bulk)
  <2>1. Cardinality(upto(i)) <= Cardinality(S)
    BY <1>1, <1>2, FS_Subset
  <2> HIDE DEF upto
  <2>2. QED  BY <1>1, <1>2, <1>3, <1>5, <2>1
<1>6. ASSUME S # {}
      PROVE  FirstOf(S, Bulk) # {}
  <2>1. PICK x \in S : \A y \in S : x <= y
    BY <1>2, <1>6, HasLeast
  <2>2. upto(x) = {x}
    <3>1. \A y \in S : y \in Nat /\ x <= y /\ x \in Nat
      BY <1>2, <2>1
    <3>2. \A y \in S : y <= x => y = x
      BY <3>1
    <3>3. x \in upto(x)
      BY <3>1
    <3>4. QED  BY <3>2, <3>3
  <2>3. Cardinality(upto(x)) = 1
    BY <2>2, FS_Singleton
  <2>4. QED  BY <1>2, <1>3, <2>3
<1>7. QED  BY <1>3, <1>4, <1>5, <1>6

-----------------------------------------------------------------------------
LEMMA InitWalk == ScreenInit => WalkInv
BY ScreenAssumption DEF ScreenInit, WalkInv, Idle, Indices

\* A response takes the walk on; the last one takes all that is left.
LEMMA WalkGoesOn ==
    ASSUME WalkInv, NEW k \in Kinds, WalkStep(k)
    PROVE  WalkInv'
<1> DEFINE j == IF job[k].pc = "walk" THEN job[k] ELSE [Idle EXCEPT !.steady = table, !.ever = table]
           c == j.cursor
           R == Response(c)
           n == [j EXCEPT !.seen = @ \cup R,
                          !.pc = IF EndsWalk(c) THEN "open" ELSE "walk",
                          !.cursor = IF EndsWalk(c) THEN 0 ELSE Max(R)]
<1>1. job' = [job EXCEPT ![k] = n] /\ table' = table
  BY DEF WalkStep
<1>2. /\ DOMAIN j = {"pc", "cursor", "seen", "steady", "ever"}
      /\ c \in Nat /\ j.seen \subseteq j.ever
      /\ j.steady \subseteq table /\ table \subseteq j.ever
      /\ \A i \in j.steady : i <= c => i \in j.seen
  <2>1. CASE job[k].pc = "walk"
    BY <2>1 DEF WalkInv
  <2>2. CASE job[k].pc # "walk"
    <3>1. table \subseteq Nat \ {0}
      BY IndicesFinite DEF WalkInv
    <3>2. QED  BY <2>2, <3>1 DEF Idle
  <2>3. QED  BY <2>1, <2>2
<1> HIDE DEF j
<1>3. After(c) \in SUBSET Indices
  BY DEF After, WalkInv
<1>4. /\ R \subseteq After(c)
      /\ \A m \in R : \A i \in After(c) : i <= m => i \in R
      /\ EndsWalk(c) => After(c) \subseteq R
      /\ ~EndsWalk(c) => R # {}
  <2>1. Cardinality(After(c)) \in Nat /\ Bulk \in Nat \ {0}
    BY <1>3, IndicesFinite, ScreenAssumption
  <2>2. ~EndsWalk(c) => After(c) # {}
    BY <2>1, FS_EmptySet DEF EndsWalk
  <2>3. QED  BY <1>3, <2>2, ResponseIsNext DEF Response, EndsWalk
<1>5. \A i \in j.steady : i \in j.seen \/ i \in After(c)
  <2>1. j.steady \subseteq Nat
    BY <1>2, IndicesFinite DEF WalkInv
  <2>2. QED  BY <1>2, <2>1 DEF After
<1>6. R \subseteq table
  BY <1>4 DEF After
<1> HIDE DEF R
<1>7. CASE EndsWalk(c)
  <2>1. /\ DOMAIN n = {"pc", "cursor", "seen", "steady", "ever"}
        /\ n.pc = "open" /\ n.cursor = 0 /\ n.seen = j.seen \cup R
        /\ n.steady = j.steady /\ n.ever = j.ever
    BY <1>2, <1>7
  <2> HIDE DEF n
  <2>2. n.seen \subseteq n.ever /\ n.steady \subseteq n.seen
    BY <1>2, <1>4, <1>5, <1>6, <1>7, <2>1
  <2>3. QED  BY <1>1, <2>1, <2>2 DEF WalkInv
<1>8. CASE ~EndsWalk(c)
  <2>1. /\ DOMAIN n = {"pc", "cursor", "seen", "steady", "ever"}
        /\ n.pc = "walk" /\ n.cursor = Max(R) /\ n.seen = j.seen \cup R
        /\ n.steady = j.steady /\ n.ever = j.ever
    BY <1>2, <1>8
  <2> HIDE DEF n
  <2>2. Max(R) \in R /\ Max(R) \in Nat
    <3>1. R \in SUBSET Indices /\ R # {}
      BY <1>3, <1>4, <1>8
    <3>2. QED  BY <3>1, MaxIsGreatest, IndicesFinite
  <2>3. \A i \in n.steady : i <= n.cursor => i \in n.seen
    BY <1>4, <1>5, <2>1, <2>2
  <2>4. n.seen \subseteq n.ever
    BY <1>2, <1>6, <2>1
  <2>5. QED  BY <1>1, <1>2, <2>1, <2>2, <2>3, <2>4 DEF WalkInv
<1>9. QED  BY <1>7, <1>8

LEMMA NextWalk == WalkInv /\ [ScreenNext]_screenVars => WalkInv'
<1> SUFFICES ASSUME WalkInv, [ScreenNext]_screenVars PROVE WalkInv'
  OBVIOUS
<1>1. ASSUME NEW k \in Kinds, WalkStep(k) PROVE WalkInv'
  BY <1>1, WalkGoesOn
<1>2. ASSUME NEW k \in Kinds, Open(k) \/ DiscoverFails(k) PROVE WalkInv'
  <2>1. job' = [job EXCEPT ![k] = Idle] /\ table' = table
    BY <1>2 DEF Open, DiscoverFails
  <2>2. QED  BY <2>1 DEF WalkInv, Idle
<1>3. ASSUME NEW k \in Kinds, MakeItems(k) \/ Heir(k) \/ HeirEnds(k) PROVE WalkInv'
  <2>1. job' = job /\ table' = table
    BY <1>3 DEF MakeItems, Heir, Wake, LookUp, Update, HeirEnds
  <2>2. QED  BY <2>1 DEF WalkInv
<1>4. ASSUME NEW i \in Movable, Replug(i) PROVE WalkInv'
  <2>1. table' \subseteq Indices
    BY <1>4, ScreenAssumption DEF Replug, WalkInv, Indices
  <2>2. job' = [k \in Kinds |->
                  IF job[k].pc # "walk" THEN job[k]
                  ELSE [job[k] EXCEPT !.steady = @ \cap table', !.ever = @ \cup table']]
    BY <1>4 DEF Replug
  <2>3. ASSUME NEW k \in Kinds, job[k].pc # "walk"
        PROVE  job'[k] = job[k]
    BY <2>2, <2>3
  <2>4. ASSUME NEW k \in Kinds, job[k].pc = "walk"
        PROVE  /\ DOMAIN job'[k] = {"pc", "cursor", "seen", "steady", "ever"}
               /\ job'[k].pc = "walk" /\ job'[k].cursor = job[k].cursor
               /\ job'[k].seen = job[k].seen
               /\ job'[k].steady = job[k].steady \cap table'
               /\ job'[k].ever = job[k].ever \cup table'
    BY <2>2, <2>4 DEF WalkInv
  <2>5. DOMAIN job' = Kinds
    BY <2>2
  <2>6. QED  BY <2>1, <2>3, <2>4, <2>5 DEF WalkInv
<1>5. CASE Calm \/ UNCHANGED screenVars
  BY <1>5 DEF Calm, screenVars, WalkInv
<1>6. QED  BY <1>1, <1>2, <1>3, <1>4, <1>5 DEF ScreenNext, Rule

\* A walk returns every interface that was there the whole time and none that was
\* never there, however the table changes between its requests.
THEOREM WalkSound == ScreenSpec => []WalkIsSound
<1>1. WalkInv => WalkIsSound
  BY DEF WalkInv, WalkIsSound
<1>2. QED  BY <1>1, InitWalk, NextWalk, PTL DEF ScreenSpec

-----------------------------------------------------------------------------
(* The screen.                                                             *)

LEMMA AddressesFinite ==
    ASSUME NEW S \in SUBSET Indices
    PROVE  Addresses(S) \subseteq Nat /\ IsFiniteSet(Addresses(S))
<1> DEFINE f == [i \in Known(S) |-> Interfaces[i].addr]
<1>1. Known(S) \in SUBSET S /\ Known(S) \subseteq Indices
  BY DEF Known
<1>2. IsFiniteSet(Known(S))
  BY <1>1, IndicesFinite, FS_Subset
<1>3. f \in Surjection(Known(S), Addresses(S))
  BY DEF Surjection, Addresses
<1>4. IsFiniteSet(Addresses(S))
  <2> HIDE DEF f
  <2>1. QED  BY <1>2, <1>3, FS_Surjection
<1>5. Addresses(S) \subseteq Nat
  BY <1>1, ScreenAssumption DEF Addresses, Indices
<1>6. QED  BY <1>4, <1>5

\* How many of a set come before a: the rows of the blocks follow from it.
Rank(A, a) == Cardinality({b \in A : b < a})

LEMMA RankRises ==
    ASSUME NEW A \in SUBSET Nat, IsFiniteSet(A), NEW a \in A
    PROVE  /\ Rank(A, a) \in Nat /\ Cardinality(A) \in Nat
           /\ Rank(A, a) + 1 <= Cardinality(A)
           /\ \A b \in A : a < b => Rank(A, a) + 1 <= Rank(A, b)
<1> DEFINE before(b) == {x \in A : x < b}
<1>1. \A b \in A : before(b) \in SUBSET A /\ IsFiniteSet(before(b)) /\ Cardinality(before(b)) \in Nat
  BY FS_Subset, FS_CardinalityType
<1>2. a \notin before(a)
  OBVIOUS
<1>3. ASSUME NEW T \in SUBSET A, before(a) \subseteq T, a \in T
      PROVE  Cardinality(T) \in Nat /\ Cardinality(before(a)) + 1 <= Cardinality(T)
  <2> HIDE DEF before
  <2>1. IsFiniteSet(T) /\ Cardinality(T) \in Nat
    BY FS_Subset, FS_CardinalityType
  <2>2. before(a) \cup {a} \in SUBSET T
    BY <1>3
  <2>3. Cardinality(before(a) \cup {a}) <= Cardinality(T)
    BY <2>1, <2>2, FS_Subset
  <2>4. Cardinality(before(a) \cup {a}) = Cardinality(before(a)) + 1
    BY <1>1, <1>2, FS_AddElement
  <2>5. QED  BY <1>1, <2>1, <2>3, <2>4
<1>4. Cardinality(A) \in Nat /\ Cardinality(before(a)) + 1 <= Cardinality(A)
  BY <1>1, <1>3
<1>5. ASSUME NEW b \in A, a < b
      PROVE  Cardinality(before(a)) + 1 <= Cardinality(before(b))
  <2>1. before(a) \subseteq before(b) /\ a \in before(b)
    <3>1. \A x \in A : x < a => x < b
      BY <1>5
    <3>2. QED  BY <1>5, <3>1
  <2>2. QED  BY <1>1, <1>3, <2>1
<1>6. QED  BY <1>1, <1>4, <1>5 DEF Rank

\* What an address' block has in a column of one of its three rows.
Content(S, a, x, r) ==
    LET i == Latest(S, a, IF x = 0 THEN "ext" ELSE "int") IN
    IF r = 0 THEN <<"name", a>> ELSE IF r = 1 THEN <<"traffic", i>> ELSE <<"users", i>>

LEMMA BlockCells ==
    ASSUME NEW S, NEW a, NEW y \in Nat, NEW c \in Block(S, a, y)
    PROVE  \E x \in {0, 1}, r \in 0..2 : c = Cell(Content(S, a, x, r), x, y + r)
<1> DEFINE e == Latest(S, a, "ext")
           i == Latest(S, a, "int")
<1>1. \/ c \in {Cell(<<"name", a>>, x, y) : x \in {0, 1}}
      \/ c = Cell(<<"traffic", e>>, 0, y + 1) \/ c = Cell(<<"users", e>>, 0, y + 2)
      \/ c = Cell(<<"traffic", i>>, 1, y + 1) \/ c = Cell(<<"users", i>>, 1, y + 2)
  <2> HIDE DEF e, i
  <2>1. Block(S, a, y) = {Cell(<<"name", a>>, x, y) : x \in {0, 1}}
            \cup (IF e = 0 THEN {} ELSE {Cell(<<"traffic", e>>, 0, y + 1), Cell(<<"users", e>>, 0, y + 2)})
            \cup (IF i = 0 THEN {} ELSE {Cell(<<"traffic", i>>, 1, y + 1), Cell(<<"users", i>>, 1, y + 2)})
    BY DEF Block, e, i
  <2>2. QED  BY <2>1
<1>2. CASE c \in {Cell(<<"name", a>>, x, y) : x \in {0, 1}}
  <2>1. PICK x \in {0, 1} : c = Cell(<<"name", a>>, x, y)
    BY <1>2
  <2>2. Content(S, a, x, 0) = <<"name", a>> /\ y + 0 = y /\ 0 \in 0..2
    BY DEF Content
  <2>3. QED  BY <2>1, <2>2
<1>3. /\ Content(S, a, 0, 1) = <<"traffic", e>> /\ Content(S, a, 0, 2) = <<"users", e>>
      /\ Content(S, a, 1, 1) = <<"traffic", i>> /\ Content(S, a, 1, 2) = <<"users", i>>
  BY DEF Content
<1>4. 1 \in 0..2 /\ 2 \in 0..2
  OBVIOUS
<1> HIDE DEF e, i
<1>5. QED  BY <1>1, <1>2, <1>3, <1>4

\* The blocks have rows of their own, and the totals come after them.
LEMMA LayoutFits ==
    ASSUME NEW S \in SUBSET Indices
    PROVE  Fits(Layout(S))
<1> DEFINE A == Addresses(S)
           top(a) == 3 * Rank(A, a)
           end == 3 * Cardinality(A)
           scr == Layout(S)
<1>1. A \subseteq Nat /\ IsFiniteSet(A) /\ Cardinality(A) \in Nat /\ end \in Nat
  BY AddressesFinite, FS_CardinalityType
<1>2. \A a \in A : /\ Rank(A, a) \in Nat /\ Rank(A, a) + 1 <= Cardinality(A)
                   /\ \A b \in A : a < b => Rank(A, a) + 1 <= Rank(A, b)
  <2> HIDE DEF A
  <2>1. QED  BY <1>1, RankRises
<1>3. \A a \in A : /\ top(a) \in Nat /\ top(a) + 3 <= end
                   /\ \A b \in A : a < b => top(a) + 3 <= top(b)
  <2> HIDE DEF A
  <2>1. ASSUME NEW a \in A
        PROVE  top(a) \in Nat /\ top(a) + 3 <= end
    BY <1>1, <1>2
  <2>2. ASSUME NEW a \in A, NEW b \in A, a < b
        PROVE  top(a) + 3 <= top(b)
    BY <1>1, <1>2, <2>2
  <2>3. QED  BY <2>1, <2>2
<1>4. /\ scr.vsize = end + 2
      /\ scr.cells = (UNION {Block(S, a, top(a)) : a \in A})
                     \cup {Cell(<<"name", 0>>, x, end) : x \in {0, 1}}
                     \cup {Cell(<<"total", x>>, x, end + 1) : x \in {0, 1}}
  BY DEF Layout, Rows, Rank
<1> HIDE DEF A, top, end, scr
<1> DEFINE InBlock(c) == \E a \in A, x \in {0, 1}, r \in 0..2 : c = Cell(Content(S, a, x, r), x, top(a) + r)
           InTotals(c) == \E x \in {0, 1} : \/ c = Cell(<<"name", 0>>, x, end)
                                            \/ c = Cell(<<"total", x>>, x, end + 1)
<1>5. ASSUME NEW c \in scr.cells
      PROVE  InBlock(c) \/ InTotals(c)
  <2> DEFINE blocks == UNION {Block(S, a, top(a)) : a \in A}
             names == {Cell(<<"name", 0>>, x, end) : x \in {0, 1}}
             totals == {Cell(<<"total", x>>, x, end + 1) : x \in {0, 1}}
  <2>1. CASE c \in blocks
    <3>1. PICK a \in A : c \in Block(S, a, top(a))
      BY <2>1
    <3>2. \E x \in {0, 1}, r \in 0..2 : c = Cell(Content(S, a, x, r), x, top(a) + r)
      BY <1>3, <3>1, BlockCells
    <3>3. QED  BY <3>2
  <2>2. CASE c \in names \/ c \in totals
    BY <2>2
  <2>3. scr.cells = blocks \cup names \cup totals
    BY <1>4
  <2> HIDE DEF InBlock, InTotals, blocks, names, totals
  <2>4. QED  BY <2>1, <2>2, <2>3
<1>6. ASSUME NEW c, InBlock(c)
      PROVE  c.y \in Nat /\ c.y < end
  <2>1. PICK a \in A, x \in {0, 1}, r \in 0..2 : c = Cell(Content(S, a, x, r), x, top(a) + r)
    BY <1>6
  <2>2. c.y = top(a) + r
    BY <2>1 DEF Cell
  <2>3. QED  BY <1>1, <1>3, <2>2 DEF end
<1>7. ASSUME NEW c, InTotals(c)
      PROVE  c.y \in {end, end + 1}
  BY <1>7 DEF Cell
<1>8. ASSUME NEW c, NEW d, InBlock(c), InBlock(d), c.x = d.x, c.y = d.y
      PROVE  c = d
  <2>1. PICK a \in A, x \in {0, 1}, r \in 0..2 : c = Cell(Content(S, a, x, r), x, top(a) + r)
    BY <1>8
  <2>2. PICK b \in A, z \in {0, 1}, q \in 0..2 : d = Cell(Content(S, b, z, q), z, top(b) + q)
    BY <1>8
  <2>3. x = z /\ top(a) + r = top(b) + q
    BY <1>8, <2>1, <2>2 DEF Cell
  <2>4. top(a) \in Nat /\ top(b) \in Nat /\ a \in Nat /\ b \in Nat
    BY <1>1, <1>3
  <2>5. ~(a < b) /\ ~(b < a)
    <3>1. a < b => top(a) + 3 <= top(b)
      BY <1>3
    <3>2. b < a => top(b) + 3 <= top(a)
      BY <1>3
    <3>3. QED  BY <2>3, <2>4, <3>1, <3>2
  <2>6. a = b
    BY <2>4, <2>5
  <2>7. r = q
    BY <2>3, <2>4, <2>6
  <2>8. QED  BY <2>1, <2>2, <2>3, <2>6, <2>7
<1>9. ASSUME NEW c, NEW d, InTotals(c), InTotals(d), c.x = d.x, c.y = d.y
      PROVE  c = d
  <2>1. PICK x \in {0, 1} : c = Cell(<<"name", 0>>, x, end) \/ c = Cell(<<"total", x>>, x, end + 1)
    BY <1>9
  <2>2. PICK z \in {0, 1} : d = Cell(<<"name", 0>>, z, end) \/ d = Cell(<<"total", z>>, z, end + 1)
    BY <1>9
  <2>3. end # end + 1
    BY <1>1 DEF end
  <2>4. x = z
    BY <1>9, <2>1, <2>2 DEF Cell
  <2>5. QED  BY <1>9, <2>1, <2>2, <2>3, <2>4 DEF Cell
<1> HIDE DEF InBlock, InTotals
<1>10. ASSUME NEW c \in scr.cells, NEW d \in scr.cells, c.x = d.x, c.y = d.y
       PROVE  c = d
  <2>1. InBlock(c) /\ InTotals(d) => FALSE
    BY <1>1, <1>6, <1>7, <1>10
  <2>2. InBlock(d) /\ InTotals(c) => FALSE
    BY <1>1, <1>6, <1>7, <1>10
  <2>3. QED  BY <1>5, <1>8, <1>9, <1>10, <2>1, <2>2
<1>11. ASSUME NEW c \in scr.cells
       PROVE  c.y < scr.vsize
  BY <1>1, <1>4, <1>5, <1>6, <1>7, <1>11
<1>12. QED  BY <1>10, <1>11 DEF Fits, scr

\* What a process has seen, and hands on to its child, are interfaces.
SeenInv ==
    /\ table \subseteq Indices
    /\ DOMAIN job = Kinds /\ DOMAIN heir = Kinds
    /\ \A k \in Kinds : /\ "seen" \in DOMAIN job[k] /\ job[k].seen \subseteq Indices
                        /\ "seen" \in DOMAIN heir[k] /\ heir[k].seen \subseteq Indices

LEMMA SeenInit == ScreenInit => SeenInv
BY ScreenAssumption DEF ScreenInit, SeenInv, Idle, Nobody, Indices

LEMMA SeenNext == SeenInv /\ [ScreenNext]_screenVars => SeenInv'
<1> SUFFICES ASSUME SeenInv, [ScreenNext]_screenVars PROVE SeenInv'
  OBVIOUS
<1>1. ASSUME NEW k \in Kinds, WalkStep(k) PROVE SeenInv'
  <2> DEFINE j == IF job[k].pc = "walk" THEN job[k] ELSE [Idle EXCEPT !.steady = table, !.ever = table]
             c == j.cursor
             n == [j EXCEPT !.seen = @ \cup Response(c),
                            !.pc = IF EndsWalk(c) THEN "open" ELSE "walk",
                            !.cursor = IF EndsWalk(c) THEN 0 ELSE Max(Response(c))]
  <2>1. job' = [job EXCEPT ![k] = n] /\ table' = table /\ heir' = heir
    BY <1>1 DEF WalkStep
  <2>2. "seen" \in DOMAIN j /\ j.seen \subseteq Indices
    BY DEF SeenInv, Idle
  <2> HIDE DEF j
  <2>3. Response(c) \subseteq Indices
    BY DEF Response, FirstOf, After, SeenInv
  <2>4. "seen" \in DOMAIN n /\ n.seen \subseteq Indices
    BY <2>2, <2>3
  <2> HIDE DEF n
  <2>5. QED  BY <2>1, <2>4 DEF SeenInv
<1>2. ASSUME NEW k \in Kinds, DiscoverFails(k) PROVE SeenInv'
  BY <1>2 DEF DiscoverFails, SeenInv, Idle
<1>3. ASSUME NEW k \in Kinds, Open(k) PROVE SeenInv'
  <2>1. job' = [job EXCEPT ![k] = Idle] /\ table' = table
    BY <1>3 DEF Open
  <2>2. heir' = heir \/ heir' = [heir EXCEPT ![k] = [pc |-> "sleep", seen |-> job[k].seen]]
    BY <1>3 DEF Open
  <2>3. QED  BY <2>1, <2>2 DEF SeenInv, Idle
<1>4. ASSUME NEW k \in Kinds, Heir(k) \/ HeirEnds(k) PROVE SeenInv'
  <2>1. job' = job /\ table' = table
    BY <1>4 DEF Heir, Wake, LookUp, Update, HeirEnds
  <2>2. \/ heir' = [heir EXCEPT ![k].pc = "build"] \/ heir' = [heir EXCEPT ![k].pc = "update"]
        \/ heir' = [heir EXCEPT ![k] = Nobody]
    BY <1>4 DEF Heir, Wake, LookUp, Update, HeirEnds
  <2>3. QED  BY <2>1, <2>2 DEF SeenInv, Nobody
<1>5. ASSUME NEW k \in Kinds, MakeItems(k) PROVE SeenInv'
  BY <1>5 DEF MakeItems, SeenInv
<1>6. ASSUME NEW i \in Movable, Replug(i) PROVE SeenInv'
  <2>1. table' \subseteq Indices /\ heir' = heir
    BY <1>6, ScreenAssumption DEF Replug, SeenInv, Indices
  <2>2. job' = [k \in Kinds |->
                  IF job[k].pc # "walk" THEN job[k]
                  ELSE [job[k] EXCEPT !.steady = @ \cap table', !.ever = @ \cup table']]
    BY <1>6 DEF Replug
  <2>3. ASSUME NEW k \in Kinds
        PROVE  "seen" \in DOMAIN job'[k] /\ job'[k].seen = job[k].seen
    BY <2>2 DEF SeenInv
  <2>4. QED  BY <2>1, <2>2, <2>3 DEF SeenInv
<1>7. CASE Calm \/ UNCHANGED screenVars
  BY <1>7 DEF Calm, screenVars, SeenInv
<1>8. QED  BY <1>1, <1>2, <1>3, <1>4, <1>5, <1>6, <1>7 DEF ScreenNext, Rule

\* Every screen that a child writes can be drawn: no two elements in one place and
\* none below the last row, whatever vlans the addresses have.
THEOREM ScreenDrawable == ScreenSpec => ScreenFits
<1>1. SeenInv /\ [ScreenNext]_screenVars => [screen' # screen => Fits(Layout(screen'))]_screenVars
  <2> SUFFICES ASSUME SeenInv, ScreenNext, screen' # screen PROVE Fits(Layout(screen'))
    BY DEF screenVars
  <2>1. PICK k \in Kinds : screen' = heir[k].seen
    BY DEF ScreenNext, Rule, Heir, WalkStep, Open, DiscoverFails, MakeItems, Wake, LookUp, Update,
           HeirEnds, Replug, Calm
  <2>2. QED  BY <2>1, LayoutFits DEF SeenInv
<1>2. QED  BY <1>1, SeenInit, SeenNext, PTL DEF ScreenSpec, ScreenFits

-----------------------------------------------------------------------------
(* A host that zbx_dd keeps.                                               *)

LEMMA PingNames ==
    /\ PingTemplates = {Ping(1), Ping(2)} /\ Ping(1) # Ping(2)
    /\ \A l \in 1..2 : Ping(l) \in PingTemplates /\ Ping(l) \notin Types \cup {None} /\ Ping(l) # "int"
    /\ \A l, m \in 1..2 : Ping(l) = Ping(m) => l = m
    /\ "int" \notin Types \cup {None} /\ "unknown" \notin Types /\ None \notin Types
    /\ None \notin Communities /\ None \notin Uplinks
<1>1. Ping(1) = "icmp_l1" /\ Ping(2) = "icmp_l2"
  BY DEF Ping
<1>2. \A l \in 1..2 : l = 1 \/ l = 2
  OBVIOUS
<1>3. QED  BY <1>1, <1>2, DeployAssumption DEF PingTemplates

\* What a device may answer, and what of it is kept in the param-macro.
DeviceOK(d) ==
    /\ d.init \in BOOLEAN /\ d.ping \in 1..2 /\ d.int \in 0..1
    /\ d.type \in Types \cup {None} /\ (d.init <=> d.type \in Types)
    /\ d.community \in Communities \cup {None}
    /\ d.init => d.community \in Communities
    /\ Params(d) \in [type : Types \cup {None}, ping : 1..2, int : 0..1]
    /\ Params(d).type = d.type /\ Params(d).ping = d.ping /\ Params(d).int = d.int
    /\ Name(d) = IF d.init THEN d.type ELSE "unknown"

LEMMA AnswerFields ==
    ASSUME NEW d \in Answers
    PROVE  DeviceOK(d)
<1>1. /\ None \notin Types /\ "unknown" \notin Types
      /\ \A s \in Settings : s[1] \in Types /\ s[2] \in 1..2 /\ s[3] \in 0..1
  BY DeployAssumption
<1>2. CASE d = NoDevice
  BY <1>1, <1>2 DEF NoDevice, DeviceOK, Params, Name
<1>3. ASSUME NEW c \in Communities, d = Stranger(c) PROVE DeviceOK(d)
  <2>1. d = [init |-> FALSE, type |-> None, ping |-> 1, int |-> 0, community |-> c]
    BY <1>3 DEF Stranger, NoDevice
  <2>2. QED  BY <1>1, <2>1 DEF DeviceOK, Params, Name
<1>4. ASSUME NEW s \in Settings, NEW c \in Communities, d = Device(s, c)
      PROVE  DeviceOK(d)
  BY <1>1, <1>4 DEF Device, DeviceOK, Params, Name
<1>5. QED  BY <1>2, <1>3, <1>4 DEF Answers

\* The host's ping template: exactly one.
OnePing(ts) == \E l \in 1..2 : Ping(l) \in ts /\ \A m \in 1..2 : Ping(m) \in ts => m = l

LEMMA OnePingCard ==
    ASSUME NEW ts
    PROVE  OnePing(ts) => Cardinality(ts \cap PingTemplates) = 1
<1> SUFFICES ASSUME OnePing(ts) PROVE Cardinality(ts \cap PingTemplates) = 1
  OBVIOUS
<1>1. PICK l \in 1..2 : Ping(l) \in ts /\ \A m \in 1..2 : Ping(m) \in ts => m = l
  BY DEF OnePing
<1>2. ts \cap PingTemplates = {Ping(l)}
  BY <1>1, PingNames
<1>3. QED  BY <1>2, FS_Singleton

\* While tries are counted the param-macro names no type.
ParamInv == param.type # None => lower = 0

\* The macro is true but for what is untold, and the type that it names is told.
HostInv ==
    exists => /\ groups # {} /\ OnePing(templates)
              /\ groups \ {"unknown"} = ({param.type} \ {None}) \cup (untold \cap Types)
              /\ "unknown" \in groups => param.type = None
              /\ param.type \notin untold
              /\ templates \cap Types \subseteq {param.type} \cup untold
              /\ "int" \notin untold => ("int" \in templates <=> param.int = 1)

\* After the update or the creation, what HostInv does not say of the host already;
\* only the dependency may not yet be what is asked for.
Prepared(d) ==
    /\ param.type = d.type
    /\ "int_level" \notin flags => param.int = d.int
    /\ d.type \in typeTemplates => d.type \in templates
    /\ "ping_level" \notin flags => Ping(d.ping) \in templates
    /\ community # None => community = d.community

\* Where a run is; a run without a host has made the group that the next one needs.
StageInv ==
    /\ dpc \in {"update", "depend"} => exists
    /\ dpc = "create" => ~exists
    /\ dpc = "depend" /\ db.init => Prepared(db)
    /\ steady > 0 /\ ~exists => steady = 1 /\ seen[1].type \in typeGroups

DeployInv == DeployTypeOK /\ ParamInv /\ HostInv /\ StageInv /\ Converges

\* A host that is prepared is settled, whatever its dependency is.
LEMMA PreparedSettles ==
    ASSUME ParamInv, HostInv, exists, NEW d, DeviceOK(d), d.init, Prepared(d)
    PROVE  Settled(d, depends)
<1>1. d.type \in Types /\ d.type # None /\ d.type # "unknown" /\ d.ping \in 1..2
  BY PingNames DEF DeviceOK
<1>2. param.type = d.type /\ lower = 0
  BY <1>1 DEF Prepared, ParamInv
<1>3. groups = {d.type} \cup (untold \cap Types)
  <2>1. "unknown" \notin groups
    BY <1>1, <1>2 DEF HostInv
  <2>2. groups \ {"unknown"} = {d.type} \cup (untold \cap Types)
    BY <1>1, <1>2 DEF HostInv
  <2>3. QED  BY <2>1, <2>2
<1>4. "ping_level" \notin flags => templates \cap PingTemplates = {Ping(d.ping)}
  <2>1. PICK l \in 1..2 : Ping(l) \in templates /\ \A m \in 1..2 : Ping(m) \in templates => m = l
    BY DEF HostInv, OnePing
  <2>2. templates \cap PingTemplates = {Ping(l)}
    BY <2>1, PingNames
  <2>3. "ping_level" \notin flags => l = d.ping
    BY <1>1, <2>1 DEF Prepared
  <2>4. QED  BY <2>2, <2>3
<1>5. {"int_level", "int"} \cap (flags \cup untold) = {} => ("int" \in templates <=> d.int = 1)
  BY DEF Prepared, HostInv
<1>6. templates \cap Types \subseteq {d.type} \cup untold
  BY <1>2 DEF HostInv
<1>7. QED  BY <1>2, <1>3, <1>4, <1>5, <1>6 DEF Prepared, Settled

LEMMA DeployInitInv == DeployInit => DeployInv
<1> SUFFICES ASSUME DeployInit PROVE DeployInv
  OBVIOUS
<1>1. NoDevice \in Answers
  BY DEF Answers
<1>2. DeviceOK(NoDevice) /\ NoDevice.type = None
  BY <1>1, AnswerFields DEF NoDevice
<1>3. DeployTypeOK
  <2>1. param \in [type : Types \cup {None}, ping : 1..2, int : 0..1]
    BY <1>2 DEF DeployInit, DeviceOK
  <2>2. seen \in Answers \X (Uplinks \cup {None}) /\ db \in Answers
    BY <1>1 DEF DeployInit
  <2>0. exists \in BOOLEAN
    BY DEF DeployInit
  <2>3. /\ typeGroups \subseteq Types /\ typeTemplates \subseteq Types
        /\ flags \subseteq Flags /\ lower \in 0..3
        /\ community \in Communities \cup {None}
        /\ templates \subseteq PingTemplates \cup {"int"} \cup Types
        /\ groups \subseteq Types \cup {"unknown"} /\ depends \in Uplinks \cup {None}
    BY DEF DeployInit
  <2>4. /\ dpc \in {"idle", "poll", "create", "update", "depend", "undepend", "add"}
        /\ uplink \in Uplinks \cup {None} /\ missed \in 0..3 /\ steady \in 0..2
        /\ untold \subseteq Types \cup {"int"}
    BY DEF DeployInit
  <2>5. QED  BY <2>0, <2>1, <2>2, <2>3, <2>4 DEF DeployTypeOK
<1>4. param.type = None /\ ~exists /\ steady = 0 /\ dpc = "idle"
  BY <1>2 DEF DeployInit, DeviceOK
<1>5. QED  BY <1>2, <1>3, <1>4 DEF DeployInit, DeployInv, ParamInv, HostInv, StageInv, Converges

-----------------------------------------------------------------------------
(* Between the runs, and how a run ends.                                   *)

LEMMA BetweenKeeps ==
    ASSUME DeployInv, Administrate \/ Start \/ Poll
    PROVE  DeployInv'
<1>1. CASE Administrate
  <2>1. /\ dpc = "idle" /\ steady' = 0 /\ seen' = <<NoDevice, None>>
        /\ UNCHANGED <<typeGroups, exists, param, lower, community, groups,
                       depends, dpc, db, uplink, missed>>
    BY <1>1 DEF Administrate, locals
  <2>2. /\ typeTemplates' \subseteq Types /\ flags' \subseteq Flags
        /\ templates' \subseteq templates /\ templates \cap PingTemplates \subseteq templates'
        /\ untold \subseteq untold' /\ untold' \subseteq untold \cup {"int"}
        /\ "int" \in templates /\ "int" \notin templates' => "int" \in untold'
    BY <1>1 DEF Administrate, DeployInv, DeployTypeOK
  <2>3. NoDevice \in Answers
    BY DEF Answers
  <2>4. DeployTypeOK'
    BY <2>1, <2>2, <2>3 DEF DeployInv, DeployTypeOK
  <2>5. HostInv'
    <3>1. exists => OnePing(templates')
      BY <2>2, PingNames DEF DeployInv, HostInv, OnePing
    <3>2. untold' \cap Types = untold \cap Types /\ (param.type \in untold' => param.type \in untold)
      BY <2>2, PingNames DEF DeployInv, DeployTypeOK
    <3>3. "int" \notin untold' => "int" \notin untold /\ ("int" \in templates' <=> "int" \in templates)
      BY <2>2
    <3>4. exists => templates' \cap Types \subseteq {param.type} \cup untold'
      BY <2>2 DEF DeployInv, HostInv
    <3>5. QED  BY <2>1, <3>1, <3>2, <3>3, <3>4 DEF DeployInv, HostInv
  <2>6. QED  BY <2>1, <2>4, <2>5 DEF DeployInv, ParamInv, StageInv, Converges
<1>2. CASE Start
  <2>1. /\ dpc' = "poll" /\ UNCHANGED <<typeGroups, typeTemplates, exists, flags, param, lower, community,
                                        templates, groups, depends, db, uplink, untold, missed, steady, seen>>
    BY <1>2 DEF Start, catalog, zhost, deployHistory
  <2>2. DeployTypeOK'
    BY <2>1 DEF DeployInv, DeployTypeOK
  <2>3. QED  BY <2>1, <2>2 DEF DeployInv, ParamInv, HostInv, StageInv, Converges
<1>3. CASE Poll
  <2>1. /\ dpc' = (IF exists THEN "update" ELSE "create")
        /\ db' \in Answers /\ uplink' \in Uplinks \cup {None} /\ missed' \in 0..3
        /\ UNCHANGED <<typeGroups, typeTemplates, exists, flags, param, lower, community,
                       templates, groups, depends, untold, steady, seen>>
    <3>1. missed' = (IF db'.init THEN 0 ELSE IF missed < 3 THEN missed + 1 ELSE 3) /\ missed \in 0..3
      BY <1>3 DEF Poll, DeployInv, DeployTypeOK
    <3>2. missed' \in 0..3
      BY <3>1
    <3>3. QED  BY <1>3, <3>2 DEF Poll, catalog, zhost
  <2>2. DeployTypeOK'
    BY <2>1 DEF DeployInv, DeployTypeOK
  <2>3. QED  BY <2>1, <2>2 DEF DeployInv, ParamInv, HostInv, StageInv, Converges
<1>4. QED  BY <1>1, <1>2, <1>3

LEMMA Ends ==
    ASSUME DeployInv
    PROVE  /\ End(TRUE) \/ End(FALSE) =>
                /\ dpc' = "idle" /\ db' \in Answers /\ uplink' = None /\ missed' = missed /\ untold' = untold
                /\ steady' \in 0..2 /\ seen' \in Answers \X (Uplinks \cup {None})
           /\ End(FALSE) => steady' = 0
           /\ End(TRUE) => \/ ~db.init /\ steady' = 0
                           \/ /\ db.init /\ seen' = <<db, uplink>> /\ steady' > 0
                              /\ steady' = 1 \/ (steady > 0 /\ seen = <<db, uplink>>)
<1>1. db \in Answers /\ uplink \in Uplinks \cup {None} /\ NoDevice \in Answers
  BY DEF DeployInv, DeployTypeOK, Answers
<1>2. <<db, uplink>> \in Answers \X (Uplinks \cup {None}) /\ <<NoDevice, None>> \in Answers \X (Uplinks \cup {None})
  BY <1>1
<1>3. ASSUME End(FALSE)
      PROVE  steady' = 0 /\ seen' = <<NoDevice, None>>
  BY <1>3 DEF End
<1>4. ASSUME End(TRUE)
      PROVE  \/ ~db.init /\ steady' = 0 /\ seen' = <<NoDevice, None>>
             \/ /\ db.init /\ seen' = <<db, uplink>>
                /\ steady' = 1 \/ (steady' = 2 /\ steady > 0 /\ seen = <<db, uplink>>)
  BY <1>4 DEF End
<1>5. End(TRUE) \/ End(FALSE) =>
        dpc' = "idle" /\ db' \in Answers /\ uplink' = None /\ missed' = missed /\ untold' = untold
  BY <1>1 DEF End
<1>6. End(TRUE) \/ End(FALSE) => steady' \in 0..2 /\ seen' \in Answers \X (Uplinks \cup {None})
  <2>1. CASE End(FALSE)
    BY <1>2, <1>3, <2>1
  <2>2. ASSUME End(TRUE)
        PROVE  steady' \in {0, 1, 2} /\ (seen' = <<NoDevice, None>> \/ seen' = <<db, uplink>>)
    BY <1>4, <2>2
  <2>3. CASE End(TRUE)
    BY <1>2, <2>2, <2>3
  <2>4. QED  BY <2>1, <2>3
<1>7. End(TRUE) => \/ ~db.init /\ steady' = 0
                   \/ /\ db.init /\ seen' = <<db, uplink>> /\ steady' > 0
                      /\ steady' = 1 \/ (steady > 0 /\ seen = <<db, uplink>>)
  BY <1>4
<1>8. QED  BY <1>3, <1>5, <1>6, <1>7

\* A run that has been cut short proves nothing of the host.
LEMMA CutKeeps ==
    ASSUME DeployInv, End(FALSE), UNCHANGED <<catalog, zhost>>
    PROVE  DeployInv'
<1>1. UNCHANGED <<typeGroups, typeTemplates, exists, flags, param, lower, community, templates, groups, depends>>
  BY DEF catalog, zhost
<1>2. /\ dpc' = "idle" /\ db' \in Answers /\ uplink' = None /\ missed' = missed /\ untold' = untold
      /\ steady' = 0 /\ seen' \in Answers \X (Uplinks \cup {None})
  BY Ends
<1>3. DeployTypeOK'
  BY <1>1, <1>2 DEF DeployInv, DeployTypeOK
<1>4. QED  BY <1>1, <1>2, <1>3 DEF DeployInv, ParamInv, HostInv, StageInv, Converges

\* A run that nothing has cut short leaves the host as the device's type asks for.
LEMMA FinishKeeps ==
    ASSUME DeployInv, dpc = "depend", End(TRUE),
           UNCHANGED <<catalog, exists, flags, param, lower, community, templates, groups>>,
           depends' \in Uplinks \cup {None},
           "ping_depend" \notin flags /\ uplink # None => depends' = uplink
    PROVE  DeployInv'
<1>1. exists /\ UNCHANGED <<typeGroups, typeTemplates>>
  BY DEF DeployInv, StageInv, catalog
<1>2. /\ dpc' = "idle" /\ db' \in Answers /\ uplink' = None /\ missed' = missed /\ untold' = untold
      /\ steady' \in 0..2 /\ seen' \in Answers \X (Uplinks \cup {None})
  BY Ends
<1>3. DeployTypeOK'
  BY <1>1, <1>2 DEF DeployInv, DeployTypeOK
<1>4. Converges'
  <2>1. CASE ~db.init
    <3>1. steady' = 0
      BY <2>1, Ends
    <3>2. QED  BY <3>1 DEF Converges
  <2>2. CASE db.init
    <3>1. seen'[1] = db /\ seen'[2] = uplink
      BY <2>2, Ends
    <3>2. Settled(db, depends)
      <4>1. DeviceOK(db) /\ Prepared(db) /\ ParamInv /\ HostInv
        BY <2>2, AnswerFields DEF DeployInv, DeployTypeOK, StageInv
      <4>2. QED  BY <1>1, <2>2, <4>1, PreparedSettles
    <3>3. Settled(seen[1], seen[2])'
      BY <1>1, <1>2, <3>1, <3>2 DEF Settled
    <3>4. QED  BY <1>1, <3>3 DEF Converges
  <2>3. QED  BY <2>1, <2>2
<1>5. QED  BY <1>1, <1>2, <1>3, <1>4 DEF DeployInv, ParamInv, HostInv, StageInv

LEMMA DependKeeps ==
    ASSUME DeployInv, NoDependency \/ DeleteDependency \/ AddDependency
    PROVE  DeployInv'
<1>1. CASE NoDependency
  <2>1. /\ dpc = "depend" /\ End(TRUE) /\ depends' = depends
        /\ UNCHANGED <<catalog, exists, flags, param, lower, community, templates, groups>>
    BY <1>1 DEF NoDependency, zhost
  <2>2. "ping_depend" \notin flags /\ uplink # None => depends' = uplink
    BY <1>1, <2>1 DEF NoDependency, NewDependency
  <2>3. depends' \in Uplinks \cup {None}
    BY <2>1 DEF DeployInv, DeployTypeOK
  <2>4. QED  BY <2>1, <2>2, <2>3, FinishKeeps
<1>2. CASE DeleteDependency
  <2>1. /\ dpc = "depend" /\ depends' = None
        /\ UNCHANGED <<typeGroups, typeTemplates, exists, flags, param, lower, community, templates, groups,
                       dpc, db, uplink, untold, missed, steady, seen>>
    BY <1>2 DEF DeleteDependency, NewDependency, catalog, locals, deployHistory
  <2>2. DeployTypeOK'
    BY <2>1 DEF DeployInv, DeployTypeOK
  <2>3. QED
    BY <2>1, <2>2 DEF DeployInv, ParamInv, HostInv, StageInv, Prepared, Params, Converges
<1>3. CASE AddDependency
  <2>1. /\ dpc = "depend" /\ End(TRUE) /\ depends' = uplink
        /\ UNCHANGED <<catalog, exists, flags, param, lower, community, templates, groups>>
    BY <1>3 DEF AddDependency, NewDependency
  <2>2. depends' \in Uplinks \cup {None}
    BY <2>1 DEF DeployInv, DeployTypeOK
  <2>3. QED  BY <2>1, <2>2, FinishKeeps
<1>4. QED  BY <1>1, <1>2, <1>3

-----------------------------------------------------------------------------
(* zbx_create_host                                                         *)

LEMMA CreateGroupKeeps ==
    ASSUME DeployInv, CreateGroup
    PROVE  DeployInv'
<1>1. /\ dpc = "create" /\ db.init /\ db.type \notin typeGroups /\ End(TRUE)
      /\ typeGroups' = typeGroups \cup {db.type}
      /\ UNCHANGED <<typeTemplates, exists, flags, param, lower, community, templates, groups, depends>>
  BY DEF CreateGroup, zhost
<1>2. db \in Answers /\ DeviceOK(db) /\ ~exists
  BY <1>1, AnswerFields DEF DeployInv, DeployTypeOK, StageInv
<1>3. /\ dpc' = "idle" /\ db' \in Answers /\ uplink' = None /\ missed' = missed /\ untold' = untold
      /\ steady' \in 0..2 /\ seen' \in Answers \X (Uplinks \cup {None})
  BY <1>1, Ends
<1>4. db.type \in Types
  BY <1>1, <1>2 DEF DeviceOK
<1>5. DeployTypeOK'
  BY <1>1, <1>3, <1>4 DEF DeployInv, DeployTypeOK
\* The group was not there before, so that the run before this one saw another device.
<1>6. seen'[1] = db /\ steady' = 1
  <2>1. seen' = <<db, uplink>> /\ (steady' = 1 \/ (steady > 0 /\ seen = <<db, uplink>>))
    BY <1>1, Ends
  <2>2. ~(steady > 0 /\ seen = <<db, uplink>>)
    BY <1>1, <1>2 DEF DeployInv, StageInv
  <2>3. QED  BY <2>1, <2>2
<1>7. QED  BY <1>1, <1>2, <1>3, <1>5, <1>6 DEF DeployInv, ParamInv, HostInv, StageInv, Converges

LEMMA CreateHostKeeps ==
    ASSUME DeployInv, CreateHost
    PROVE  DeployInv'
<1>1. /\ exists' = TRUE /\ flags' = {} /\ param' = Params(db) /\ lower' = 0
      /\ community' = db.community /\ untold' = {}
      /\ templates' = CreateTemplates /\ groups' = {Name(db)} /\ depends' = None
      /\ dpc' = "depend"
      /\ UNCHANGED <<typeGroups, typeTemplates, db, uplink, missed, steady, seen>>
  BY DEF CreateHost, catalog
<1>2. db \in Answers /\ DeviceOK(db)
  BY AnswerFields DEF DeployInv, DeployTypeOK
<1>3. Ping(db.ping) \in PingTemplates /\ \A m \in 1..2 : Ping(m) = Ping(db.ping) => m = db.ping
  BY <1>2, PingNames DEF DeviceOK
<1>4. \A t : t \in templates' <=> \/ t = Ping(db.ping)
                                  \/ t = "int" /\ db.int = 1
                                  \/ t = db.type /\ t \in typeTemplates
  BY <1>1 DEF CreateTemplates
<1>5. typeTemplates \subseteq Types
  BY DEF DeployInv, DeployTypeOK
<1>6. DeployTypeOK'
  <2>1. templates' \subseteq PingTemplates \cup {"int"} \cup Types
    BY <1>3, <1>4, <1>5
  <2>2. groups' \subseteq Types \cup {"unknown"}
    BY <1>1, <1>2 DEF DeviceOK
  <2>3. /\ param' \in [type : Types \cup {None}, ping : 1..2, int : 0..1]
        /\ community' \in Communities \cup {None}
    BY <1>1, <1>2 DEF DeviceOK
  <2>4. exists' \in BOOLEAN /\ flags' \subseteq Flags /\ lower' \in 0..3 /\ depends' \in Uplinks \cup {None}
        /\ untold' \subseteq Types \cup {"int"}
    BY <1>1
  <2>5. QED  BY <1>1, <2>1, <2>2, <2>3, <2>4 DEF DeployInv, DeployTypeOK
<1>7. ParamInv'
  BY <1>1 DEF ParamInv
<1>8. OnePing(templates')
  BY <1>2, <1>3, <1>4, <1>5, PingNames DEF OnePing, DeviceOK
<1>9. param'.type = db.type /\ param'.int = db.int
  BY <1>1, <1>2 DEF DeviceOK
<1>10. HostInv'
  <2>1. /\ groups' # {} /\ ("unknown" \in groups' => param'.type = None)
        /\ groups' \ {"unknown"} = {param'.type} \ {None}
    BY <1>1, <1>2, <1>9, PingNames DEF DeviceOK
  <2>2. templates' \cap Types \subseteq {param'.type}
    BY <1>2, <1>4, <1>9, PingNames DEF DeviceOK
  <2>3. "int" \in templates' <=> param'.int = 1
    BY <1>2, <1>4, <1>5, <1>9, PingNames DEF DeviceOK
  <2>4. QED  BY <1>1, <1>8, <2>1, <2>2, <2>3 DEF HostInv
<1>11. Prepared(db)'
  BY <1>1, <1>4, <1>9 DEF Prepared
<1>12. StageInv'
  BY <1>1, <1>11 DEF StageInv
<1>13. QED  BY <1>1, <1>6, <1>7, <1>10, <1>12 DEF DeployInv, Converges

-----------------------------------------------------------------------------
(* zbx_update_host                                                         *)

\* What the overwritten macro told is untold from now on.
LEMMA CountTryKeeps ==
    ASSUME DeployInv, CountTry
    PROVE  DeployInv'
<1>1. /\ dpc = "update" /\ exists /\ param.type # None /\ ~db.init /\ lower < 3
      /\ lower' = lower + 1 /\ param' = Params(db) /\ dpc' = "depend"
      /\ untold' = untold \cup {param.type} \cup (IF param.int = 1 THEN {"int"} ELSE {})
      /\ UNCHANGED <<typeGroups, typeTemplates, exists, flags, community, templates, groups, depends,
                     db, uplink, missed, steady, seen>>
  BY DEF CountTry, Lowering, WasKnown, catalog, DeployInv, StageInv
<1>2. db \in Answers /\ DeviceOK(db) /\ param.type \in Types /\ param.int \in 0..1
  BY <1>1, AnswerFields DEF DeployInv, DeployTypeOK
<1>3. param'.type = None /\ param'.int = 0
  <2>1. db = NoDevice \/ \E c \in Communities : db = Stranger(c)
    <3>1. \A s \in Settings, c \in Communities : Device(s, c).init = TRUE
      BY DEF Device
    <3>2. QED  BY <1>1, <1>2, <3>1 DEF Answers
  <2>2. db.type = None /\ db.int = 0
    BY <2>1 DEF NoDevice, Stranger
  <2>3. QED  BY <1>1, <1>2, <2>2 DEF DeviceOK
<1>4. DeployTypeOK'
  <2>1. lower' \in 0..3
    BY <1>1 DEF DeployInv, DeployTypeOK
  <2>2. param' \in [type : Types \cup {None}, ping : 1..2, int : 0..1]
    BY <1>1, <1>2 DEF DeviceOK
  <2>3. untold' \subseteq Types \cup {"int"}
    BY <1>1, <1>2 DEF DeployInv, DeployTypeOK
  <2>4. QED  BY <1>1, <2>1, <2>2, <2>3 DEF DeployInv, DeployTypeOK
<1>5. HostInv'
  <2>1. untold' \cap Types = (untold \cap Types) \cup {param.type}
    BY <1>1, <1>2, PingNames
  <2>2. groups \ {"unknown"} = untold' \cap Types /\ templates \cap Types \subseteq untold'
    BY <1>1, <1>2, <2>1 DEF DeployInv, HostInv
  <2>3. None \notin untold'
    BY <1>1, <1>2, PingNames DEF DeployInv, DeployTypeOK
  <2>4. "int" \notin untold' => "int" \notin templates
    BY <1>1, <1>2 DEF DeployInv, HostInv
  <2>5. QED  BY <1>1, <1>3, <2>2, <2>3, <2>4 DEF DeployInv, HostInv
<1>6. ParamInv' /\ StageInv'
  BY <1>1, <1>3 DEF ParamInv, DeployInv, StageInv
<1>7. QED  BY <1>1, <1>4, <1>5, <1>6 DEF DeployInv, Converges

LEMMA MakeGroupKeeps ==
    ASSUME DeployInv, MakeGroup
    PROVE  DeployInv'
<1>1. /\ db.init /\ typeGroups' = typeGroups \cup {db.type} /\ dpc = "update" /\ exists
      /\ UNCHANGED <<typeTemplates, exists, flags, param, lower, community, templates, groups, depends,
                     dpc, db, uplink, untold, missed, steady, seen>>
  BY DEF MakeGroup, zhost, locals, deployHistory, DeployInv, StageInv
<1>2. DeviceOK(db)
  BY AnswerFields DEF DeployInv, DeployTypeOK
<1>3. DeployTypeOK'
  BY <1>1, <1>2 DEF DeployInv, DeployTypeOK, DeviceOK
<1>4. QED  BY <1>1, <1>3 DEF DeployInv, ParamInv, HostInv, StageInv, Converges

\* What an update leaves untold.
LEMMA Untold ==
    ASSUME DeployInv, NEW u, u = StillUntold
    PROVE  /\ u \subseteq Types \cup {"int"}
           /\ u \cap Types = (untold \cap Types) \ {db.type}
           /\ db.type \notin u
           /\ "int" \notin u => RelevelInt \/ ("int" \notin untold /\ param.int = db.int)
<1>1. untold \subseteq Types \cup {"int"} /\ "int" \notin Types /\ db.type # "int"
  BY PingNames, AnswerFields DEF DeployInv, DeployTypeOK, DeviceOK
<1>2. CASE RelevelInt
  <2>1. u = untold \ {db.type, "int"}
    BY <1>2 DEF StillUntold
  <2>2. QED  BY <1>1, <1>2, <2>1
<1>3. CASE ~RelevelInt /\ param.int # db.int
  <2>1. u = (untold \ {db.type}) \cup {"int"}
    BY <1>3 DEF StillUntold
  <2>2. QED  BY <1>1, <2>1
<1>4. CASE ~RelevelInt /\ param.int = db.int
  <2>1. u = untold \ {db.type}
    BY <1>4 DEF StillUntold
  <2>2. QED  BY <1>1, <1>4, <2>1
<1>5. QED  BY <1>2, <1>3, <1>4

\* The templates after an update: one ping template, that of the device unless the
\* administrator keeps his; that of its type and no other's but untold ones; and that
\* of the interfaces just when the device asks for it.
LEMMA UpdatedTemplates ==
    ASSUME DeployInv, exists, NEW ts, ts = WithIntLevel(PingedTemplates)
    PROVE  /\ ts \subseteq PingTemplates \cup {"int"} \cup Types
           /\ OnePing(ts)
           /\ "ping_level" \notin flags => Ping(db.ping) \in ts
           /\ db.type \in typeTemplates => db.type \in ts
           /\ ts \cap Types \subseteq {db.type} \cup StillUntold
           /\ "int" \notin StillUntold => ("int" \in ts <=> db.int = 1)
<1>1. /\ db \in Answers /\ DeviceOK(db) /\ typeTemplates \subseteq Types
      /\ templates \subseteq PingTemplates \cup {"int"} \cup Types
      /\ param.type \in Types \cup {None} /\ param.int \in 0..1
  BY AnswerFields DEF DeployInv, DeployTypeOK
<1>2. /\ db.ping \in 1..2 /\ db.int \in 0..1
  BY <1>1 DEF DeviceOK
<1>3. PICK l \in 1..2 : Ping(l) \in templates /\ \A m \in 1..2 : Ping(m) \in templates => m = l
  BY DEF DeployInv, HostInv, OnePing
<1>4. ActualLevel = l
  BY <1>3 DEF ActualLevel
<1>5. /\ "int" \notin untold => ("int" \in templates <=> param.int = 1)
      /\ templates \cap Types \subseteq {param.type} \cup untold
  BY DEF DeployInv, HostInv
<1>6. /\ TypedTemplates \subseteq PingTemplates \cup {"int"} \cup Types
      /\ \A m \in 1..2 : Ping(m) \in TypedTemplates <=> Ping(m) \in templates
      /\ "int" \in TypedTemplates <=> "int" \in templates
      /\ db.type \in typeTemplates => db.type \in TypedTemplates
      /\ TypedTemplates \cap Types \subseteq {db.type} \cup untold
  <2>1. None \notin Types /\ None \notin typeTemplates /\ "int" \notin typeTemplates
    BY <1>1, PingNames
  <2>2. \A x : x \in TypedTemplates => x \in templates \/ (x \in typeTemplates /\ x = db.type)
    BY DEF TypedTemplates
  <2>3. \A x : x \in templates /\ x # param.type => x \in TypedTemplates
    BY DEF TypedTemplates
  <2>4. db.type \in typeTemplates => db.type \in TypedTemplates
    BY DEF TypedTemplates
  <2>5. \A m \in 1..2 : Ping(m) \in TypedTemplates => Ping(m) \in templates
    BY <1>1, <2>2, PingNames
  <2>6. "int" \in TypedTemplates => "int" \in templates
    BY <2>1, <2>2
  <2>7. TypedTemplates \subseteq PingTemplates \cup {"int"} \cup Types
    BY <1>1, <2>2
  <2>8. \A m \in 1..2 : Ping(m) \in templates => Ping(m) \in TypedTemplates
    BY <1>1, <2>3, PingNames
  <2>9. "int" \in templates => "int" \in TypedTemplates
    BY <1>1, <2>3, PingNames
  <2>10. TypedTemplates \cap Types \subseteq {db.type} \cup untold
    <3>1. CASE TypeDiffers
      <4>1. TypedTemplates = (templates \ {param.type}) \cup ({db.type} \cap typeTemplates)
        BY <3>1 DEF TypedTemplates
      <4>2. QED  BY <1>5, <4>1
    <3>2. CASE ~TypeDiffers
      <4>1. db.type = param.type
        BY <1>1, <3>2, PingNames DEF TypeDiffers, DeviceOK, OldName, WasKnown
      <4>2. QED  BY <1>5, <2>2, <4>1
    <3>3. QED  BY <3>1, <3>2
  <2>11. QED  BY <2>4, <2>5, <2>6, <2>7, <2>8, <2>9, <2>10
<1> HIDE DEF TypedTemplates
<1>7. /\ PingedTemplates \subseteq PingTemplates \cup {"int"} \cup Types
      /\ OnePing(PingedTemplates)
      /\ "ping_level" \notin flags => Ping(db.ping) \in PingedTemplates
      /\ "int" \in PingedTemplates <=> "int" \in templates
      /\ db.type \in typeTemplates => db.type \in PingedTemplates
      /\ PingedTemplates \cap Types \subseteq {db.type} \cup untold
  <2>1. CASE RelevelPing
    <3>1. PingedTemplates = (TypedTemplates \ {Ping(l)}) \cup {Ping(db.ping)}
      BY <1>4, <2>1 DEF PingedTemplates
    <3>2. \A x : x \in PingedTemplates <=> x = Ping(db.ping) \/ (x \in TypedTemplates /\ x # Ping(l))
      BY <3>1
    <3>3. OnePing(PingedTemplates)
      BY <1>2, <1>3, <1>6, <3>2, PingNames DEF OnePing
    <3>4. Ping(l) # "int" /\ Ping(db.ping) # "int" /\ Ping(db.ping) \in PingTemplates
          /\ Ping(db.ping) \notin Types
          /\ (db.type \in typeTemplates => db.type # Ping(l))
      BY <1>1, <1>2, PingNames
    <3>5. QED  BY <1>6, <3>2, <3>3, <3>4
  <2>2. CASE ~RelevelPing
    <3>1. PingedTemplates = TypedTemplates
      BY <2>2 DEF PingedTemplates
    <3>2. "ping_level" \notin flags => l = db.ping
      BY <1>4, <2>2 DEF RelevelPing
    <3>3. QED  BY <1>3, <1>6, <3>1, <3>2 DEF OnePing
  <2>3. QED  BY <2>1, <2>2
<1> HIDE DEF PingedTemplates
<1>8. \A x : x # "int" => (x \in ts <=> x \in PingedTemplates)
  BY DEF WithIntLevel
<1>9. "int" \notin StillUntold => ("int" \in ts <=> db.int = 1)
  <2>1. CASE RelevelInt
    <3>1. "int" \in ts <=> param.int = 0
      BY <2>1 DEF WithIntLevel
    <3>2. param.int # db.int
      BY <2>1 DEF RelevelInt
    <3>3. QED  BY <1>1, <1>2, <3>1, <3>2
  <2>2. CASE ~RelevelInt
    <3>1. ts = PingedTemplates
      BY <2>2 DEF WithIntLevel
    <3>2. "int" \notin StillUntold => "int" \notin untold /\ param.int = db.int
      BY <2>2, Untold
    <3>3. QED  BY <1>5, <1>7, <3>1, <3>2
  <2>3. QED  BY <2>1, <2>2
<1>10. OnePing(ts)
  BY <1>7, <1>8, PingNames DEF OnePing
<1>11. ts \subseteq PingTemplates \cup {"int"} \cup Types
  BY <1>7, <1>8
<1>12. "ping_level" \notin flags => Ping(db.ping) \in ts
  BY <1>2, <1>7, <1>8, PingNames
<1>13. db.type \in typeTemplates => db.type \in ts
  BY <1>1, <1>7, <1>8, PingNames
<1>14. ts \cap Types \subseteq {db.type} \cup StillUntold
  <2>1. StillUntold \cap Types = (untold \cap Types) \ {db.type}
    BY Untold
  <2>2. QED  BY <1>7, <1>8, <2>1, PingNames
<1>15. QED  BY <1>9, <1>10, <1>11, <1>12, <1>13, <1>14

LEMMA UpdatedGroups ==
    ASSUME DeployInv, exists, ~Lowering
    PROVE  /\ TypedGroups \subseteq Types \cup {"unknown"} /\ TypedGroups # {}
           /\ TypedGroups \ {"unknown"} = ({db.type} \ {None}) \cup (StillUntold \cap Types)
           /\ "unknown" \in TypedGroups => db.type = None
<1>1. /\ DeviceOK(db) /\ groups \subseteq Types \cup {"unknown"} /\ groups # {}
      /\ param.type \in Types \cup {None} /\ param.type \notin untold
      /\ "unknown" \in groups => param.type = None
  BY AnswerFields DEF DeployInv, DeployTypeOK, HostInv
<1>2. \A x \in Types : x \in groups <=> x = param.type \/ x \in untold
  <2>1. groups \ {"unknown"} = ({param.type} \ {None}) \cup (untold \cap Types)
    BY DEF DeployInv, HostInv
  <2>2. QED  BY <2>1, PingNames
<1>3. Name(db) \in Types \cup {"unknown"} /\ (Name(db) = "unknown" <=> db.type = None)
      /\ (db.type # None => db.type \in Types /\ Name(db) = db.type)
  BY <1>1, PingNames DEF DeviceOK
<1>4. StillUntold \cap Types = (untold \cap Types) \ {db.type}
  BY Untold
<1>5. CASE TypeDiffers
  <2>1. TypedGroups = (groups \ {OldName}) \cup {Name(db)}
    BY <1>5 DEF TypedGroups
  <2>2. OldName = IF param.type # None THEN param.type ELSE "unknown"
    BY DEF OldName, WasKnown
  <2>3. \A x \in Types : x \in TypedGroups <=> x = db.type \/ x \in untold
    BY <1>1, <1>2, <1>3, <2>1, <2>2, PingNames
  <2>4. "unknown" \in TypedGroups => db.type = None
    BY <1>1, <1>3, <2>1, <2>2
  <2>5. TypedGroups \subseteq Types \cup {"unknown"} /\ TypedGroups # {}
    BY <1>1, <1>3, <2>1
  <2>6. TypedGroups \ {"unknown"} = ({db.type} \ {None}) \cup (StillUntold \cap Types)
    <3>1. \A x : x \in TypedGroups \ {"unknown"} => x \in ({db.type} \ {None}) \cup (StillUntold \cap Types)
      BY <1>4, <2>3, <2>5, PingNames
    <3>2. \A x : x \in ({db.type} \ {None}) \cup (StillUntold \cap Types) => x \in TypedGroups \ {"unknown"}
      BY <1>3, <1>4, <2>3, PingNames
    <3>3. QED  BY <3>1, <3>2
  <2>7. QED  BY <2>4, <2>5, <2>6
<1>6. CASE ~TypeDiffers
  <2>1. TypedGroups = groups /\ db.init /\ db.type = OldName
    BY <1>6 DEF TypedGroups, TypeDiffers
  <2>2. db.type \in Types /\ "unknown" \notin Types
    BY <1>1, <2>1, PingNames DEF DeviceOK
  <2>3. db.type = param.type /\ param.type # None
    BY <2>1, <2>2 DEF OldName, WasKnown
  <2>4. StillUntold \cap Types = untold \cap Types
    BY <1>1, <1>4, <2>3
  <2>5. groups \ {"unknown"} = ({param.type} \ {None}) \cup (untold \cap Types)
    BY DEF DeployInv, HostInv
  <2>6. QED  BY <1>1, <2>1, <2>3, <2>4, <2>5
<1>7. QED  BY <1>5, <1>6

\* Nothing to change: the macro is that of the type, and the host is as it should be.
LEMMA NothingToChange ==
    ASSUME DeployInv, exists, ~Changes
    PROVE  Prepared(db)
<1>1. DeviceOK(db)
  BY AnswerFields DEF DeployInv, DeployTypeOK
<1>2. /\ ~TypeDiffers /\ TypedTemplates = templates /\ ~RelevelPing /\ ~RelevelInt /\ ~NewCommunity
  BY DEF Changes
<1>3. db.init /\ db.type = OldName /\ db.type \in Types /\ "unknown" \notin Types
  BY <1>1, <1>2, PingNames DEF TypeDiffers, DeviceOK
<1>4. param.type = db.type
  BY <1>3 DEF OldName, WasKnown
<1>5. "int_level" \notin flags => param.int = db.int
  BY <1>2 DEF RelevelInt
<1>6. db.type \in typeTemplates => db.type \in templates
  BY <1>2 DEF TypedTemplates
<1>7. "ping_level" \notin flags => Ping(db.ping) \in templates
  <2>1. PICK l \in 1..2 : Ping(l) \in templates /\ \A m \in 1..2 : Ping(m) \in templates => m = l
    BY DEF DeployInv, HostInv, OnePing
  <2>2. ActualLevel = l
    BY <2>1 DEF ActualLevel
  <2>3. QED  BY <1>2, <2>1, <2>2 DEF RelevelPing
<1>8. community # None => community = db.community
  BY <1>1, <1>2, <1>3, PingNames DEF NewCommunity, DeviceOK
<1>9. QED  BY <1>4, <1>5, <1>6, <1>7, <1>8 DEF Prepared

LEMMA UpdateHostKeeps ==
    ASSUME DeployInv, UpdateHost
    PROVE  DeployInv'
<1>1. /\ dpc = "update" /\ exists /\ ~Lowering /\ dpc' = "depend"
      /\ UNCHANGED <<typeGroups, typeTemplates, exists, flags, db, uplink, missed, steady, seen>>
  BY DEF UpdateHost, catalog, DeployInv, StageInv
<1>2. db \in Answers /\ DeviceOK(db)
  BY AnswerFields DEF DeployInv, DeployTypeOK
<1>3. CASE ~Changes
  <2>1. UNCHANGED <<param, lower, community, templates, groups, depends, untold>>
    BY <1>3 DEF UpdateHost
  <2>2. Prepared(db)'
    BY <1>1, <1>3, <2>1, NothingToChange DEF Prepared
  <2>3. DeployTypeOK'
    BY <1>1, <2>1 DEF DeployInv, DeployTypeOK
  <2>4. QED  BY <1>1, <2>1, <2>2, <2>3 DEF DeployInv, ParamInv, HostInv, StageInv, Converges
<1>4. CASE Changes
  <2>1. /\ param' = Params(db) /\ lower' = 0 /\ untold' = StillUntold
        /\ community' = IF NewCommunity /\ ~Undefined THEN db.community ELSE community
        /\ templates' = WithIntLevel(PingedTemplates) /\ groups' = TypedGroups
        /\ depends' = IF RelevelPing THEN None ELSE depends
    BY <1>4 DEF UpdateHost
  <2>2. /\ templates' \subseteq PingTemplates \cup {"int"} \cup Types
        /\ OnePing(templates')
        /\ "ping_level" \notin flags => Ping(db.ping) \in templates'
        /\ db.type \in typeTemplates => db.type \in templates'
        /\ templates' \cap Types \subseteq {db.type} \cup StillUntold
        /\ "int" \notin StillUntold => ("int" \in templates' <=> db.int = 1)
    BY <1>1, <2>1, UpdatedTemplates
  <2>3. /\ groups' \subseteq Types \cup {"unknown"} /\ groups' # {}
        /\ groups' \ {"unknown"} = ({db.type} \ {None}) \cup (StillUntold \cap Types)
        /\ "unknown" \in groups' => db.type = None
    BY <1>1, <2>1, UpdatedGroups
  <2>4. /\ community \in Communities \cup {None} /\ community' \in Communities \cup {None}
        /\ db.init /\ community' # None => community' = db.community
    BY <1>2, <2>1, PingNames DEF DeviceOK, NewCommunity, Undefined, DeployInv, DeployTypeOK
  <2>5. depends' \in Uplinks \cup {None}
    BY <2>1 DEF DeployInv, DeployTypeOK
  <2>6. untold' \subseteq Types \cup {"int"} /\ db.type \notin untold'
    BY <2>1, Untold
  <2>7. DeployTypeOK'
    <3>1. param' \in [type : Types \cup {None}, ping : 1..2, int : 0..1] /\ lower' \in 0..3
      BY <1>2, <2>1 DEF DeviceOK
    <3>2. QED  BY <1>1, <2>2, <2>3, <2>4, <2>5, <2>6, <3>1 DEF DeployInv, DeployTypeOK
  <2>8. param'.type = db.type /\ param'.int = db.int
    BY <1>2, <2>1 DEF DeviceOK
  <2>9. HostInv'
    BY <1>1, <2>1, <2>2, <2>3, <2>6, <2>8 DEF HostInv
  <2>10. ParamInv'
    BY <2>1 DEF ParamInv
  <2>11. db.init => Prepared(db)'
    BY <1>1, <2>2, <2>4, <2>8 DEF Prepared
  <2>12. StageInv'
    BY <1>1, <2>11 DEF DeployInv, StageInv
  <2>13. QED  BY <1>1, <2>7, <2>9, <2>10, <2>12 DEF DeployInv, Converges
<1>5. QED  BY <1>3, <1>4

-----------------------------------------------------------------------------
LEMMA DeployNextInv == DeployInv /\ [DeployNext]_deployVars => DeployInv'
<1> SUFFICES ASSUME DeployInv, [DeployNext]_deployVars PROVE DeployInv'
  OBVIOUS
<1>1. CASE DeployAbort \/ Crash
  BY <1>1, CutKeeps DEF DeployAbort, Crash
<1>2. CASE UNCHANGED deployVars
  <2>1. UNCHANGED <<typeGroups, typeTemplates, exists, flags, param, lower, community, templates, groups,
                    depends, dpc, db, uplink, untold, missed, steady, seen>>
    BY <1>2 DEF deployVars, catalog, zhost, locals, deployHistory
  <2>2. DeployTypeOK'
    BY <2>1 DEF DeployInv, DeployTypeOK
  <2>3. QED
    BY <2>1, <2>2 DEF DeployInv, ParamInv, HostInv, StageInv, Prepared, Converges, Settled
<1>3. CASE Administrate \/ Start \/ Poll
  BY <1>3, BetweenKeeps
<1>4. CASE CreateGroup \/ CreateHost \/ CountTry \/ MakeGroup \/ UpdateHost
  BY <1>4, CreateGroupKeeps, CreateHostKeeps, CountTryKeeps, MakeGroupKeeps, UpdateHostKeeps
<1>5. CASE NoDependency \/ DeleteDependency \/ AddDependency
  BY <1>5, DependKeeps
<1>6. QED  BY <1>1, <1>2, <1>3, <1>4, <1>5 DEF DeployNext

\* The inductive invariant of zbx_dd.
THEOREM DeployInvariant == DeploySpec => []DeployInv
BY DeployInitInv, DeployNextInv, PTL DEF DeploySpec

\* The host, the catalogue and the run keep their types.
THEOREM DeployTypeCorrect == DeploySpec => []DeployTypeOK
<1>1. DeployInv => DeployTypeOK
  BY DEF DeployInv
<1>2. QED  BY <1>1, DeployInvariant, PTL

\* At every step a host has a group and exactly one ping template.
THEOREM HostValid == DeploySpec => []HostIsValid
<1>1. DeployInv => HostIsValid
  BY OnePingCard DEF DeployInv, HostInv, HostIsValid
<1>2. QED  BY <1>1, DeployInvariant, PTL

\* The param-macro tells the truth at every step, but for what is untold.
THEOREM ParamTrue == DeploySpec => []ParamHolds
<1>1. DeployInv => ParamHolds
  BY DEF DeployInv, HostInv, ParamHolds
<1>2. QED  BY <1>1, DeployInvariant, PTL

\* One undisturbed run makes the host exactly what its device asks for, two make one
\* that was not there, whatever was cut short, kept or handed back before; exempt is
\* what a counted try or a change by hand left untold, and a community never set.
THEOREM RunConverges == DeploySpec => []Converges
<1>1. DeployInv => Converges
  BY DEF DeployInv
<1>2. QED  BY <1>1, DeployInvariant, PTL

=============================================================================
