--------------------------- MODULE DiscoveryProofs ---------------------------
(***************************************************************************)
(* Proofs about what finds the paths of a scene: edge tables of any length *)
(* on any set of points, the enumerated solves of any rows, and both as    *)
(* parts of MCDiscovery.                                                   *)
(*                                                                         *)
(* The argument, for edges: the records of one edge are told apart by how  *)
(* many of them stand before.  None stands before the first, so of two     *)
(* that stay selected both are first; and of two records of one edge the   *)
(* lower is First, the higher Second, and so the partner of the other.     *)
(*                                                                         *)
(* For enumerated solves: sorted rows are told apart in the same way, so a *)
(* result has each of its rows once; the evaluators run in one order and   *)
(* each row is taken by one of them, so what a row has become is a         *)
(* function of how many have run.                                          *)
(***************************************************************************)
EXTENDS MCDiscovery, FiniteSetTheorems, SequenceTheorems, WellFoundedInduction, TLAPS

-----------------------------------------------------------------------------
(* Edge tables                                                             *)

\* A table of edges as the native kernel leaves it.
Table(t) == \E n \in Nat : t \in [1..n -> {r \in Records : Native(r)}]

ResolvedPolicies == [mode : Modes, boundary : Boundaries \cup {"conflict"}]

\* A refined table is the one refinement of its records.
IInv ==
  /\ Table(records)
  /\ policy \in ResolvedPolicies
  /\ refined = <<>> \/ refined = Refined(records, policy)

\* The records of an edge that stand before record i.
Before(t, i) == {j \in SameEdge(t, i) : j < i}

-----------------------------------------------------------------------------
\* A nonempty set of positions has a first: the one that fewest stand before.
LEMMA FirstOfPositions ==
  ASSUME NEW S, S \subseteq Nat, S # {}
  PROVE  \E x \in S : \A y \in S : x <= y
<1>. DEFINE Below(x) == {y \in S : y < x}
            T == {Below(x) : x \in S}
            R == StrictSubsetOrdering(S)
<1>0. \A z \in S : z \in Nat
  OBVIOUS
<1>1. IsWellFoundedOn(R, FiniteSubsetsOf(S))
  BY FS_StrictSubsetOrderingWellFounded
<1>2. T \subseteq FiniteSubsetsOf(S)
  <2>1. ASSUME NEW x \in S PROVE IsFiniteSet(Below(x))
    <3>1. ASSUME NEW y \in Below(x) PROVE y \in Nat /\ y <= x
      <4>1. y \in Nat /\ x \in Nat /\ y < x
        BY <1>0
      <4>. QED BY <4>1
    <3>2. ASSUME NEW U \in SUBSET Nat, \A y \in U : y <= x PROVE IsFiniteSet(U)
      BY <1>0, <3>2, FS_BoundedSetOfNaturals
    <3>3. Below(x) \in SUBSET Nat
      BY <3>1
    <3>. QED BY <3>1, <3>2, <3>3
  <2>. QED BY <2>1 DEF FiniteSubsetsOf
<1>3. T # {}
  OBVIOUS
<1>4. PICK D \in T : \A E \in T : <<E, D>> \notin R
  <2>. HIDE DEF R, T
  <2>. QED BY <1>1, <1>2, <1>3, WFMin
<1>5. PICK x \in S : D = Below(x)
  BY <1>4
<1>6. ASSUME NEW y \in S, y < x PROVE FALSE
  <2>1. x \in Nat /\ y \in Nat
    BY <1>0
  <2>2. Below(y) \subseteq Below(x)
    <3>1. ASSUME NEW z \in S, z < y PROVE z < x
      BY <1>0, <1>6, <3>1
    <3>. QED BY <3>1
  <2>3. y \in Below(x) /\ y \notin Below(y)
    BY <1>6, <2>1
  <2>4. <<Below(y), Below(x)>> \in R
    BY <2>2, <2>3 DEF StrictSubsetOrdering
  <2>5. Below(y) \in T
    OBVIOUS
  <2>. QED BY <1>4, <1>5, <2>4, <2>5
<1>. QED BY <1>6

\* The least member of a set of positions, and the greatest.
LEMMA MinIs ==
  ASSUME NEW S, S \subseteq Nat, NEW x \in S, \A y \in S : x <= y
  PROVE  Min(S) = x
<1>1. \A z \in S : (\A y \in S : z <= y) => z = x
  OBVIOUS
<1>. QED BY <1>1 DEF Min

LEMMA MaxIs ==
  ASSUME NEW S, S \subseteq Nat, NEW x \in S, \A y \in S : y <= x
  PROVE  Max(S) = x
<1>1. \A z \in S : (\A y \in S : z >= y) => z = x
  OBVIOUS
<1>. QED BY <1>1 DEF Max

-----------------------------------------------------------------------------
\* The records of an edge are positions of the table, finitely many.
LEMMA SameEdgeFinite ==
  ASSUME NEW t, Table(t), NEW i \in DOMAIN t
  PROVE  /\ SameEdge(t, i) \subseteq DOMAIN t
         /\ DOMAIN t \subseteq Nat
         /\ IsFiniteSet(SameEdge(t, i))
         /\ Cardinality(SameEdge(t, i)) \in Nat
         /\ IsFiniteSet(Before(t, i))
         /\ Cardinality(Before(t, i)) \in Nat
<1>1. PICK n \in Nat : t \in [1..n -> {r \in Records : Native(r)}]
  BY DEF Table
<1>2. DOMAIN t = 1..n /\ IsFiniteSet(1..n)
  BY <1>1, FS_Interval
<1>3. SameEdge(t, i) \in SUBSET (1..n) /\ Before(t, i) \in SUBSET (1..n)
  BY <1>2 DEF SameEdge, Before
<1>4. IsFiniteSet(SameEdge(t, i)) /\ IsFiniteSet(Before(t, i))
  BY <1>2, <1>3, FS_Subset
<1>. QED BY <1>2, <1>3, <1>4, FS_CardinalityType

\* Two records of one edge see the same records of it.
LEMMA SameEdgeShared ==
  ASSUME NEW t, NEW i, NEW j, Key(t[i]) = Key(t[j])
  PROVE  SameEdge(t, i) = SameEdge(t, j)
BY DEF SameEdge

\* A record that stays selected, of an edge that has others, is the first of
\* its edge.
LEMMA SurvivorIsFirst ==
  ASSUME NEW t, Table(t), NEW i \in DOMAIN t, Candidate(t, i), Merged(t, i).selected
  PROVE  \A j \in SameEdge(t, i) : i <= j
<1>. DEFINE c == Cardinality(Before(t, i))
<1>1. /\ DOMAIN t \subseteq Nat
      /\ SameEdge(t, i) \subseteq DOMAIN t
      /\ IsFiniteSet(Before(t, i))
      /\ c \in Nat
  BY SameEdgeFinite
<1>2. CASE First(t, i)
  <2>1. i \in SameEdge(t, i)
    BY DEF SameEdge, Candidate
  <2>2. PICK x \in SameEdge(t, i) : \A y \in SameEdge(t, i) : x <= y
    BY <1>1, <2>1, FirstOfPositions
  <2>3. Min(SameEdge(t, i)) = x
    BY <1>1, <2>2, MinIs
  <2>. QED BY <1>2, <2>2, <2>3 DEF First
<1>3. CASE ~First(t, i)
  <2>1. PICK r \in {r \in Records : Native(r)} : t[i] = r
    BY DEF Table
  <2>2. ~Second(t, i) /\ ~Extra(t, i)
    BY <1>3, <2>1 DEF Merged, Records
  <2>3. c # 1 /\ ~(c >= 2)
    BY <2>2 DEF Second, Extra, Before
  <2>4. c = 0
    BY <1>1, <2>3
  <2>5. Before(t, i) = {}
    BY <1>1, <2>4, FS_EmptySet
  <2>. QED BY <1>1, <2>5 DEF Before
<1>. QED BY <1>2, <1>3

\* Of several records of one edge, one is the second.
LEMMA SecondExists ==
  ASSUME NEW t, Table(t), NEW i \in DOMAIN t, First(t, i)
  PROVE  \E j \in SameEdge(t, i) : Second(t, j)
<1>. DEFINE S == SameEdge(t, i)
<1>1. S \subseteq DOMAIN t /\ DOMAIN t \subseteq Nat /\ IsFiniteSet(S) /\ i \in S
  BY SameEdgeFinite DEF First, Candidate, SameEdge
<1>2. Cardinality(S) >= 2 /\ Cardinality(S) \in Nat
  BY SameEdgeFinite DEF First
<1>3. S \ {i} # {}
  <2>1. Cardinality(S \ {i}) = Cardinality(S) - 1 /\ IsFiniteSet(S \ {i})
    <3>. HIDE DEF S
    <3>. QED BY <1>1, FS_RemoveElement
  <2>2. Cardinality(S \ {i}) # 0
    BY <1>2, <2>1
  <2>. QED BY <2>1, <2>2, FS_EmptySet
<1>4. PICK j \in S \ {i} : \A y \in S \ {i} : j <= y
  BY <1>1, <1>3, FirstOfPositions
<1>5. \A y \in S : i <= y
  <2>1. PICK x \in S : \A y \in S : x <= y
    <3>. HIDE DEF S
    <3>. QED BY <1>1, FirstOfPositions
  <2>2. Min(S) = x
    BY <1>1, <2>1, MinIs
  <2>. QED BY <2>1, <2>2 DEF First
<1>6. SameEdge(t, j) = S
  BY <1>4 DEF SameEdge
<1>7. {y \in SameEdge(t, j) : y < j} = {i}
  <2>1. i < j
    BY <1>1, <1>4, <1>5
  <2>2. \A y \in S : y < j => y = i
    BY <1>1, <1>4
  <2>. QED BY <1>1, <1>6, <2>1, <2>2
<1>8. Candidate(t, j)
  BY <1>4 DEF Candidate, SameEdge
<1>9. Second(t, j)
  BY <1>7, <1>8, FS_Singleton DEF Second
<1>. QED BY <1>4, <1>9

\* Merging leaves a record a record.
LEMMA MergedIsRecord ==
  ASSUME NEW t, Table(t), NEW i \in DOMAIN t
  PROVE  Merged(t, i) \in Records
<1>1. \A j \in DOMAIN t : t[j] \in Records
  BY DEF Table
<1>2. PICK r \in Records : r = t[i]
  BY <1>1
<1>3. CASE First(t, i)
  <2>1. PartnerOf(t, i) \in DOMAIN t
    <3>1. PartnerOf(t, i) \in SameEdge(t, i)
      BY <1>3, SecondExists DEF PartnerOf
    <3>. QED BY <3>1 DEF SameEdge
  <2>2. PICK s \in Records : s = t[PartnerOf(t, i)]
    BY <1>1, <2>1
  <2>3. Merged(t, i) = [r EXCEPT !.boundary = FALSE, !.n1 = s.n0,
                                 !.selected = ~Coplanar(r.n0, s.n0)]
    BY <1>2, <1>3, <2>2 DEF Merged
  <2>. QED BY <2>3 DEF Records, Coplanar
<1>4. CASE ~First(t, i)
  BY <1>2, <1>4 DEF Merged, Records
<1>. QED BY <1>3, <1>4

\* What a refined record is.
LEMMA RefinedIs ==
  ASSUME NEW t, Table(t), NEW p, NEW i \in DOMAIN t
  PROVE  /\ Refined(t, p)[i] \in Records
         /\ Refined(t, p)[i].selected = (Merged(t, i).selected /\ Admits(p, Merged(t, i)))
         /\ Refined(t, p)[i].n0 = Merged(t, i).n0
         /\ Refined(t, p)[i].n1 = Merged(t, i).n1
<1>1. PICK m \in Records : m = Merged(t, i)
  BY MergedIsRecord
<1>2. Refined(t, p)[i] = [m EXCEPT !.selected = m.selected /\ Admits(p, m)]
  BY <1>1 DEF Refined
<1>3. m.selected \in BOOLEAN /\ (m.selected /\ Admits(p, m)) \in BOOLEAN
  BY <1>1 DEF Records, Admits
<1>. QED BY <1>1, <1>2, <1>3 DEF Records

-----------------------------------------------------------------------------
\* What a refinement of a table does, whatever the policy.
RefinedWell(t, p, table) ==
  /\ DOMAIN table = DOMAIN t
  /\ \A i \in DOMAIN table : table[i] \in Records
  /\ \A i, j \in DOMAIN t :
       /\ Candidate(t, i) /\ Candidate(t, j) /\ Key(t[i]) = Key(t[j])
       /\ table[i].selected /\ table[j].selected
       => i = j
  /\ \A i \in DOMAIN t :
       Candidate(t, i) /\ Cardinality(SameEdge(t, i)) = 2 =>
         LET a == Min(SameEdge(t, i)) b == Max(SameEdge(t, i)) IN
         /\ table[a].selected <=>
              /\ ~Coplanar(t[a].n0, t[b].n0)
              /\ p.mode = "vertical_only" => t[a].steep
         /\ table[a].selected => {table[a].n0, table[a].n1} = {t[a].n0, t[b].n0}

\* Of the records of one edge one stays.
LEMMA OneStays ==
  ASSUME NEW t, Table(t), NEW p, NEW i \in DOMAIN t, NEW j \in DOMAIN t,
         Candidate(t, i), Candidate(t, j), Key(t[i]) = Key(t[j]),
         Refined(t, p)[i].selected, Refined(t, p)[j].selected
  PROVE  i = j
<1>1. Merged(t, i).selected /\ Merged(t, j).selected
  BY RefinedIs
<1>2. \A k \in SameEdge(t, i) : i <= k
  BY <1>1, SurvivorIsFirst
<1>3. \A k \in SameEdge(t, j) : j <= k
  BY <1>1, SurvivorIsFirst
<1>4. i \in SameEdge(t, j) /\ j \in SameEdge(t, i)
  BY DEF SameEdge, Candidate
<1>5. i \in Nat /\ j \in Nat
  BY SameEdgeFinite
<1>. QED BY <1>2, <1>3, <1>4, <1>5

\* Two records of one edge are its first and its second.
LEMMA PairIs ==
  ASSUME NEW t, Table(t), NEW i \in DOMAIN t, Candidate(t, i),
         Cardinality(SameEdge(t, i)) = 2
  PROVE  \E a, b \in DOMAIN t :
           /\ Min(SameEdge(t, i)) = a /\ Max(SameEdge(t, i)) = b
           /\ First(t, a) /\ PartnerOf(t, a) = b
<1>. DEFINE S == SameEdge(t, i)
<1>1. S \subseteq DOMAIN t /\ S \subseteq Nat /\ IsFiniteSet(S) /\ i \in S
  BY SameEdgeFinite DEF Candidate, SameEdge
<1>2. PICK x : S \ {i} = {x}
  <2>1. Cardinality(S \ {i}) = Cardinality(S) - 1 /\ IsFiniteSet(S \ {i})
    <3>. HIDE DEF S
    <3>. QED BY <1>1, FS_RemoveElement
  <2>2. Cardinality(S \ {i}) = 1
    BY <2>1
  <2>. QED BY <2>1, <2>2, FS_Singleton
<1>3. S = {i, x} /\ i # x /\ i \in Nat /\ x \in Nat /\ x \in DOMAIN t
  BY <1>1, <1>2
<1>4. PICK a \in S, b \in S : S = {a, b} /\ a < b /\ a \in Nat /\ b \in Nat
  <2>1. CASE i < x
    BY <1>3, <2>1
  <2>2. CASE x < i
    BY <1>3, <2>2
  <2>. QED BY <1>3, <2>1, <2>2
<1>5. Min(S) = a
  BY <1>1, <1>4, MinIs
<1>6. Max(S) = b
  BY <1>1, <1>4, MaxIs
<1>7. a \in DOMAIN t /\ b \in DOMAIN t /\ Candidate(t, a) /\ Candidate(t, b)
  BY <1>1, <1>4 DEF Candidate, SameEdge
<1>8. SameEdge(t, a) = S /\ SameEdge(t, b) = S
  BY <1>4 DEF SameEdge
<1>9. First(t, a)
  BY <1>5, <1>7, <1>8 DEF First
<1>10. {k \in SameEdge(t, a) : k < a} = {}
  BY <1>4, <1>8
<1>11. {k \in SameEdge(t, b) : k < b} = {a}
  BY <1>4, <1>8
<1>12. ~Second(t, a)
  BY <1>10, FS_EmptySet DEF Second
<1>13. Second(t, b)
  BY <1>7, <1>11, FS_Singleton DEF Second
<1>14. PartnerOf(t, a) = b
  BY <1>4, <1>8, <1>12, <1>13 DEF PartnerOf
<1>. QED BY <1>5, <1>6, <1>7, <1>9, <1>14

\* Where two structures meet the first record is the wedge between their faces.
LEMMA PairIsAWedge ==
  ASSUME NEW t, Table(t), NEW p \in ResolvedPolicies, NEW i \in DOMAIN t,
         Candidate(t, i), Cardinality(SameEdge(t, i)) = 2,
         NEW a, a = Min(SameEdge(t, i)), NEW b, b = Max(SameEdge(t, i))
  PROVE  /\ Refined(t, p)[a].selected <=>
              /\ ~Coplanar(t[a].n0, t[b].n0)
              /\ p.mode = "vertical_only" => t[a].steep
         /\ {Refined(t, p)[a].n0, Refined(t, p)[a].n1} = {t[a].n0, t[b].n0}
<1>1. a \in DOMAIN t /\ b \in DOMAIN t /\ First(t, a) /\ PartnerOf(t, a) = b
  BY PairIs
<1>2. PICK r \in Records, s \in Records : r = t[a] /\ s = t[b]
  BY <1>1 DEF Table
<1>3. PICK m : m = Merged(t, a)
  OBVIOUS
<1>4. m = [r EXCEPT !.boundary = FALSE, !.n1 = s.n0, !.selected = ~Coplanar(r.n0, s.n0)]
  BY <1>1, <1>2, <1>3 DEF Merged
<1>5. /\ m.n0 = r.n0 /\ m.n1 = s.n0 /\ m.boundary = FALSE /\ m.steep = r.steep
      /\ m.selected = ~Coplanar(r.n0, s.n0)
  BY <1>4 DEF Records
<1>6. Admits(p, m) <=> (p.mode = "vertical_only" => r.steep)
  BY <1>5 DEF Admits
<1>7. /\ Refined(t, p)[a].selected = (m.selected /\ Admits(p, m))
      /\ Refined(t, p)[a].n0 = m.n0
      /\ Refined(t, p)[a].n1 = m.n1
  BY <1>1, <1>3, RefinedIs
<1>. QED BY <1>2, <1>5, <1>6, <1>7

\* A refinement merges well.
LEMMA RefinesWell ==
  ASSUME NEW t, Table(t), NEW p \in ResolvedPolicies
  PROVE  RefinedWell(t, p, Refined(t, p))
<1>1. DOMAIN Refined(t, p) = DOMAIN t
  BY DEF Refined
<1>2. \A i \in DOMAIN t : Refined(t, p)[i] \in Records
  BY RefinedIs
<1>3. \A i, j \in DOMAIN t :
        /\ Candidate(t, i) /\ Candidate(t, j) /\ Key(t[i]) = Key(t[j])
        /\ Refined(t, p)[i].selected /\ Refined(t, p)[j].selected
        => i = j
  BY OneStays
<1>4. ASSUME NEW i \in DOMAIN t, Candidate(t, i), Cardinality(SameEdge(t, i)) = 2
      PROVE  LET a == Min(SameEdge(t, i)) b == Max(SameEdge(t, i)) IN
             /\ Refined(t, p)[a].selected <=>
                  /\ ~Coplanar(t[a].n0, t[b].n0)
                  /\ p.mode = "vertical_only" => t[a].steep
             /\ Refined(t, p)[a].selected =>
                  {Refined(t, p)[a].n0, Refined(t, p)[a].n1} = {t[a].n0, t[b].n0}
  BY <1>4, PairIsAWedge
<1>. QED BY <1>1, <1>2, <1>3, <1>4 DEF RefinedWell

-----------------------------------------------------------------------------
\* The invariant is inductive: the one step there is refines.
LEMMA InitInductive == Init => IInv
<1>. SUFFICES ASSUME Init PROVE IInv
  OBVIOUS
<1>1. Table(records)
  BY DEF Init, Table
<1>2. policy \in ResolvedPolicies
  BY DEF Init, Policies, ResolvedPolicies, Resolve, Modes, Boundaries
<1>. QED BY <1>1, <1>2 DEF Init, IInv

LEMMA StepInductive == IInv /\ [Next]_vars => IInv'
BY DEF IInv, Next, Refine, vars, Table, Refined

\* Refined tables are typed and merged well.
LEMMA RefinedTables ==
  IInv => TypeOK /\ EachEdgeIsOneWedge
<1>. SUFFICES ASSUME IInv PROVE TypeOK /\ EachEdgeIsOneWedge
  OBVIOUS
<1>1. policy.boundary \in Boundaries \cup {"conflict"}
  BY DEF IInv, ResolvedPolicies
<1>2. CASE ~Done
  BY <1>1, <1>2 DEF TypeOK, EachEdgeIsOneWedge, EachEdgeOnce, MeetingStructuresAreAWedge
<1>3. CASE Done
  <2>1. RefinedWell(records, policy, refined)
    BY <1>3, RefinesWell DEF IInv, Done
  <2>2. TypeOK
    BY <1>1, <2>1 DEF TypeOK, RefinedWell
  <2>3. EachEdgeOnce
    BY <2>1 DEF EachEdgeOnce, RefinedWell
  <2>4. MeetingStructuresAreAWedge
    BY <2>1 DEF MeetingStructuresAreAWedge, RefinedWell, Was
  <2>. QED BY <2>2, <2>3, <2>4 DEF EachEdgeIsOneWedge
<1>. QED BY <1>2, <1>3

-----------------------------------------------------------------------------
(* Enumerated solves                                                       *)

\* The instance has its own copies of the library's operators.
LEMMA FieldsCardinalityIs == \A S : Fields!Cardinality(S) = Cardinality(S)
BY DEF Fields!Cardinality, Cardinality, Fields!IsFiniteSet, IsFiniteSet

LEMMA FieldsFiniteIs == \A S : Fields!IsFiniteSet(S) <=> IsFiniteSet(S)
BY DEF Fields!IsFiniteSet, IsFiniteSet

-----------------------------------------------------------------------------
(* Sorting                                                                 *)

LEMMA WorldIs ==
  /\ IsFiniteSet(FieldWorld)
  /\ \A r \in FieldWorld :
       Fields!PairOf(r) \in Int /\ r.id \in Nat /\ r.depth \in Nat /\ r.n \in Nat
  /\ \A x, r \in FieldWorld : x = r \/ Fields!Before(x, r) \/ Fields!Before(r, x)
<1>1. Fields!FieldsAssumption
  BY DiscoveryAssumption DEF DiscoveryAssumption
<1>2. \A r \in FieldWorld : Fields!PairOf(r) \in Int
  <2>. SUFFICES ASSUME NEW r \in FieldWorld PROVE Fields!PairOf(r) \in Int
    OBVIOUS
  <2>1. r.rx \in Int /\ r.tx \in Int /\ Transmitters \in Int
    BY <1>1 DEF Fields!FieldsAssumption
  <2>. QED BY <2>1 DEF Fields!PairOf
<1>. QED BY <1>1, <1>2, FieldsFiniteIs DEF Fields!FieldsAssumption

LEMMA BeforeIsStrict ==
  ASSUME NEW x \in FieldWorld, NEW y \in FieldWorld, NEW z \in FieldWorld
  PROVE  /\ ~Fields!Before(x, x)
         /\ Fields!Before(x, y) /\ Fields!Before(y, z) => Fields!Before(x, z)
         /\ Fields!Before(x, y) => Fields!PairOf(x) <= Fields!PairOf(y)
BY WorldIs DEF Fields!Before

\* How many of S stand before r.
Ahead(S, r) == Cardinality({x \in S : Fields!Before(x, r)})

LEMMA AheadGrows ==
  ASSUME NEW S \in SUBSET FieldWorld
  PROVE  /\ IsFiniteSet(S) /\ Cardinality(S) \in Nat
         /\ \A r \in S : Ahead(S, r) \in 0 .. Cardinality(S) - 1
         /\ \A r, s \in S : Fields!Before(r, s) => Ahead(S, r) < Ahead(S, s)
<1>1. IsFiniteSet(S) /\ Cardinality(S) \in Nat
  BY WorldIs, FS_Subset, FS_CardinalityType
<1>2. \A r \in FieldWorld : LET A == {x \in S : Fields!Before(x, r)}
                  IN IsFiniteSet(A) /\ Cardinality(A) \in Nat
  <2>. SUFFICES ASSUME NEW r \in FieldWorld PROVE LET A == {x \in S : Fields!Before(x, r)}
                  IN IsFiniteSet(A) /\ Cardinality(A) \in Nat
    OBVIOUS
  <2>1. {x \in S : Fields!Before(x, r)} \in SUBSET S
    OBVIOUS
  <2>. QED BY <1>1, <2>1, FS_Subset, FS_CardinalityType
<1>3. ASSUME NEW r \in S PROVE Ahead(S, r) \in 0 .. Cardinality(S) - 1
  <2>1. {x \in S : Fields!Before(x, r)} \in SUBSET S /\ r \notin {x \in S : Fields!Before(x, r)}
    BY BeforeIsStrict
  <2>2. Cardinality({x \in S : Fields!Before(x, r)}) <= Cardinality(S)
        /\ Cardinality({x \in S : Fields!Before(x, r)}) # Cardinality(S)
    BY <1>1, <2>1, FS_Subset
  <2>. QED BY <1>1, <1>2, <2>2 DEF Ahead
<1>4. ASSUME NEW r \in S, NEW s \in S, Fields!Before(r, s) PROVE Ahead(S, r) < Ahead(S, s)
  <2>. DEFINE A == {x \in S : Fields!Before(x, r)} B == {x \in S : Fields!Before(x, s)}
  <2>1. A \in SUBSET B /\ r \in B /\ r \notin A
    BY <1>4, BeforeIsStrict
  <2>2. IsFiniteSet(B) /\ Cardinality(A) \in Nat /\ Cardinality(B) \in Nat
    BY <1>2
  <2>. HIDE DEF A, B
  <2>3. Cardinality(A) <= Cardinality(B) /\ Cardinality(A) # Cardinality(B)
    BY <2>1, <2>2, FS_Subset
  <2>. QED BY <2>2, <2>3 DEF Ahead, A, B
<1>. QED BY <1>1, <1>3, <1>4

\* Rows that are sorted: S, each once, each before the next ones.
Sorted(s, S) ==
  /\ s = [i \in 1 .. Cardinality(S) |-> s[i]]
  /\ \A i \in 1 .. Cardinality(S) : s[i] \in S
  /\ \A r \in S : \E i \in 1 .. Cardinality(S) : s[i] = r
  /\ \A i, j \in 1 .. Cardinality(S) : i < j => Fields!Before(s[i], s[j])

LEMMA InOrderIsSorted ==
  ASSUME NEW S \in SUBSET FieldWorld PROVE Sorted(Fields!InOrder(S), S)
<1>. DEFINE n == Cardinality(S)
            place == [r \in S |-> Ahead(S, r) + 1]
            s == Fields!InOrder(S)
<1>1. IsFiniteSet(S) /\ n \in Nat /\ \A r \in S : Ahead(S, r) \in 0 .. n - 1
  BY AheadGrows
<1>2. ASSUME NEW r \in S, NEW t \in S, Ahead(S, r) = Ahead(S, t) PROVE r = t
  <2>1. Fields!Before(r, t) => Ahead(S, r) < Ahead(S, t)
    BY AheadGrows
  <2>2. Fields!Before(t, r) => Ahead(S, t) < Ahead(S, r)
    BY AheadGrows
  <2>. QED BY <1>1, <1>2, <2>1, <2>2, WorldIs
<1>3. \A i \in 1 .. n : \E r \in S : Ahead(S, r) = i - 1
  <2>1. place \in Injection(S, 1 .. n)
    BY <1>1, <1>2 DEF Injection, IsInjective
  <2>2. IsFiniteSet(1 .. n) /\ Cardinality(1 .. n) = n
    <3>1. n \in Int /\ 1 \in Int
      BY <1>1
    <3>. HIDE DEF n
    <3>2. IsFiniteSet(1 .. n) /\ Cardinality(1 .. n) = IF 1 > n THEN 0 ELSE n - 1 + 1
      BY <3>1, FS_Interval, Zenon
    <3>. QED BY <1>1, <3>2
  <2>3. place \in Surjection(S, 1 .. n)
    BY <2>1, <2>2, FS_Injection
  <2>4. \A i \in 1 .. n : \E r \in S : place[r] = i
    BY <2>3 DEF Surjection
  <2>. QED BY <1>1, <2>4
<1>4. s = [i \in 1 .. n |-> CHOOSE r \in S : Fields!Cardinality({x \in S : Fields!Before(x, r)}) = i - 1]
  <2>1. n = Fields!Cardinality(S)
    BY FieldsCardinalityIs
  <2>. HIDE DEF n
  <2>. QED BY <2>1 DEF Fields!InOrder
<1>5. \A i \in 1 .. n : s[i] \in S /\ Ahead(S, s[i]) = i - 1
  <2>. SUFFICES ASSUME NEW i \in 1 .. n PROVE s[i] \in S /\ Ahead(S, s[i]) = i - 1
    OBVIOUS
  <2>1. \A r : Fields!Cardinality({x \in S : Fields!Before(x, r)}) = Ahead(S, r)
    BY FieldsCardinalityIs DEF Ahead
  <2>2. \E r \in S : Fields!Cardinality({x \in S : Fields!Before(x, r)}) = i - 1
    BY <1>3, <2>1
  <2>3. s[i] = CHOOSE r \in S : Fields!Cardinality({x \in S : Fields!Before(x, r)}) = i - 1
    BY <1>4
  <2>. HIDE DEF s, n
  <2>4. s[i] \in S /\ Fields!Cardinality({x \in S : Fields!Before(x, s[i])}) = i - 1
    BY <2>2, <2>3
  <2>. QED BY <2>1, <2>4
<1>6. \A r \in S : \E i \in 1 .. n : s[i] = r
  <2>. SUFFICES ASSUME NEW r \in S PROVE \E i \in 1 .. n : s[i] = r
    OBVIOUS
  <2>1. Ahead(S, r) + 1 \in 1 .. n
    BY <1>1
  <2>2. s[Ahead(S, r) + 1] \in S /\ Ahead(S, s[Ahead(S, r) + 1]) = Ahead(S, r)
    BY <1>1, <1>5, <2>1
  <2>. QED BY <1>2, <2>1, <2>2
<1>7. ASSUME NEW i \in 1 .. n, NEW j \in 1 .. n, i < j PROVE Fields!Before(s[i], s[j])
  <2>1. s[i] \in S /\ s[j] \in S /\ Ahead(S, s[i]) = i - 1 /\ Ahead(S, s[j]) = j - 1
    BY <1>5
  <2>2. Ahead(S, s[i]) < Ahead(S, s[j])
    BY <1>1, <1>7, <2>1
  <2>3. ~(Fields!Before(s[j], s[i])) /\ s[i] # s[j]
    BY <1>1, <2>1, <2>2, AheadGrows
  <2>. QED BY <2>1, <2>3, WorldIs
<1>8. s = [i \in 1 .. n |-> s[i]]
  BY <1>4
<1>. QED BY <1>5, <1>6, <1>7, <1>8 DEF Sorted

-----------------------------------------------------------------------------
(* A solve                                                                 *)

Order == <<"los", "reflection", "transmission", "diffraction", "coupled", "double">>

\* The kinds of rows a search lists: a reflection's chain is no deeper than can
\* be asked for.
Kind(r) ==
  \/ r.id \in {0, 2, 3, 4, 5, 7}
  \/ r.id = 1 /\ r.depth \in 1 .. 5 /\ job.depth # 0

Kinds == {r \in FieldWorld : Kind(r)}
Lists == {Fields!InOrder(S) : S \in SUBSET Kinds}

Searches ==
  {b \in [ids : SUBSET Nat, depths : SUBSET Nat] :
     \/ b.ids \subseteq {0, 2, 3, 4, 5, 7}
     \/ b.ids = {1} /\ b.depths \subseteq 1 .. 5 /\ job.depth # 0}

\* The place in Order of the evaluator that takes a row.
Turn(r) ==
  CASE r.id = 0 -> 1
    [] r.id = 1 -> 2
    [] r.id = 5 -> 3
    [] r.id = 2 -> 4
    [] r.id \in {3, 4} -> 5
    [] OTHER -> 6

\* What a row has become when the first k evaluators have run.
ColumnAt(r, k) ==
  IF Turn(r) <= k THEN Fields!Evaluated(Order[Turn(r)], job, r, Fields!Discovered(r.id))
  ELSE Fields!Discovered(r.id)
WriterAt(r, k) == IF Turn(r) <= k THEN {Order[Turn(r)]} ELSE {}

Nothing == rows = <<>> /\ column = <<>> /\ writer = <<>>

EvaluatedTo(k) ==
  /\ todo = [i \in 1 .. 6 - k |-> Order[i + k]]
  /\ column = [i \in DOMAIN rows |-> ColumnAt(rows[i], k)]
  /\ writer = [i \in DOMAIN rows |-> WriterAt(rows[i], k)]
  /\ k >= 5 /\ (\E i \in DOMAIN rows : rows[i].id \in {3, 4, 7})
       => ~(Fields!GeometryAd(job) /\ "vertices" \in job.live)

Offsets ==
  [k \in 1 .. Transmitters * Receivers + 1 |->
     Fields!Cardinality({i \in DOMAIN rows : Fields!PairOf(rows[i]) < k - 1})]

FieldsInv ==
  /\ job \in FieldJobs
  /\ \/ stage \in {"prepare", "refused"} /\ Nothing /\ blocks = <<>>
     \/ stage = "discover" /\ Nothing /\ todo \in Seq(Searches) /\ blocks \in Seq(Lists)
     \/ /\ stage \in {"evaluate", "done", "refused"}
        /\ rows \in Lists /\ \E k \in 0 .. 6 : EvaluatedTo(k)
        /\ stage # "refused" => offsets = Offsets
        /\ stage = "done" => todo = <<>>

LEMMA JobIs ==
  ASSUME job \in FieldJobs
  PROVE  /\ job.depth \in Nat
         /\ job.live \subseteq {"frequency", "ends", "material", "vertices", "power"}
BY DiscoveryAssumption DEF DiscoveryAssumption, Fields!FieldsAssumption, Fields!Leaves

\* Every search of a solve that is not refused is of the kinds.
LEMMA BlocksAreSearches ==
  ASSUME job \in FieldJobs, ~Fields!Refusable
  PROVE  Fields!Blocks(job) \in Seq(Searches)
<1>. DEFINE c == Fields!Components(job)
            Maybe(b, s) == IF b THEN <<s>> ELSE <<>>
<1>1. job.depth \in Nat
  BY JobIs
<1>2. "reflection" \in c => job.depth # 0 /\ job.depth <= 5
  <2>1. "reflection" \in c => "reflection" \in job.components /\ job.depth # 0
    BY DEF Fields!Components
  <2>. QED BY <1>1, <2>1 DEF Fields!Refusable, Fields!DepthLimit
<1>3. \A s : \A b \in BOOLEAN : (b => s \in Searches) => Maybe(b, s) \in Seq(Searches)
  OBVIOUS
<1>4. \A s, t \in Seq(Searches) : s \o t \in Seq(Searches)
  OBVIOUS
<1>5. /\ [ids |-> {0}, depths |-> {0}] \in Searches
      /\ [ids |-> {2}, depths |-> {1}] \in Searches
      /\ [ids |-> {5}, depths |-> 1 .. job.depth] \in Searches
      /\ [ids |-> {3, 4, 7}, depths |-> {2}] \in Searches
  <2>1. 1 .. job.depth \in SUBSET Nat
    BY <1>1
  <2>. QED BY <2>1 DEF Searches
<1>6. "reflection" \in c => /\ [ids |-> {1}, depths |-> {1}] \in Searches
                            /\ [ids |-> {1}, depths |-> 2 .. job.depth] \in Searches
  <2>1. ASSUME "reflection" \in c PROVE {1} \in SUBSET (1 .. 5) /\ 2 .. job.depth \in SUBSET (1 .. 5)
    BY <1>1, <1>2, <2>1
  <2>2. 1 .. 5 \in SUBSET Nat
    OBVIOUS
  <2>. QED BY <1>2, <2>1, <2>2 DEF Searches
<1>7. /\ Maybe("los" \in c, [ids |-> {0}, depths |-> {0}]) \in Seq(Searches)
      /\ Maybe("reflection" \in c, [ids |-> {1}, depths |-> {1}]) \in Seq(Searches)
      /\ Maybe("reflection" \in c /\ job.depth >= 2, [ids |-> {1}, depths |-> 2 .. job.depth]) \in Seq(Searches)
      /\ Maybe("diffraction" \in c, [ids |-> {2}, depths |-> {1}]) \in Seq(Searches)
      /\ Maybe("transmission" \in c, [ids |-> {5}, depths |-> 1 .. job.depth]) \in Seq(Searches)
      /\ Maybe(job.coupled /\ job.depth >= 2 /\ {"reflection", "diffraction"} \subseteq c,
               [ids |-> {3, 4, 7}, depths |-> {2}]) \in Seq(Searches)
  <2>. HIDE DEF c
  <2>. QED BY <1>5, <1>6
<1>8. Fields!Blocks(job)
        = Maybe("los" \in c, [ids |-> {0}, depths |-> {0}])
          \o Maybe("reflection" \in c, [ids |-> {1}, depths |-> {1}])
          \o Maybe("reflection" \in c /\ job.depth >= 2, [ids |-> {1}, depths |-> 2 .. job.depth])
          \o Maybe("diffraction" \in c, [ids |-> {2}, depths |-> {1}])
          \o Maybe("transmission" \in c, [ids |-> {5}, depths |-> 1 .. job.depth])
          \o Maybe(job.coupled /\ job.depth >= 2 /\ {"reflection", "diffraction"} \subseteq c,
                   [ids |-> {3, 4, 7}, depths |-> {2}])
  BY DEF Fields!Blocks, Fields!Coupled
<1>. HIDE DEF Maybe, c
<1>. QED BY <1>4, <1>7, <1>8

\* Of any rows of those kinds, those in order are a list.
LEMMA ListedIs ==
  ASSUME NEW b \in Searches PROVE Fields!Listed(b) \in SUBSET Kinds
BY WorldIs DEF Searches, Fields!Listed, Kinds, Kind

LEMMA RangeOfList ==
  ASSUME NEW s \in Lists PROVE Fields!Range(s) \in SUBSET Kinds
<1>1. PICK S \in SUBSET Kinds : s = Fields!InOrder(S)
  BY DEF Lists
<1>2. S \in SUBSET FieldWorld
  BY DEF Kinds
<1>3. Sorted(s, S)
  BY <1>1, <1>2, InOrderIsSorted
<1>4. DOMAIN s = 1 .. Cardinality(S) /\ \A i \in DOMAIN s : s[i] \in S
  BY <1>3 DEF Sorted
<1>. QED BY <1>4 DEF Fields!Range

LEMMA EmptyListIs == Fields!InOrder({}) = <<>>
<1>1. Fields!Cardinality({}) = 0
  BY FieldsCardinalityIs, FS_EmptySet
<1>. QED BY <1>1 DEF Fields!InOrder

LEMMA JobKept ==
  ASSUME job' = job
  PROVE  /\ Lists' = Lists /\ Searches' = Searches /\ Kinds' = Kinds
         /\ \A r, k : ColumnAt(r, k)' = ColumnAt(r, k)
         /\ Fields!GeometryAd(job)' = Fields!GeometryAd(job)
<1>1. Kinds' = Kinds
  BY DEF Kinds, Kind
<1>2. Lists' = Lists
  BY <1>1 DEF Lists
<1>3. Searches' = Searches
  BY DEF Searches
<1>. QED BY <1>1, <1>2, <1>3 DEF ColumnAt

LEMMA FieldsInitInv == Fields!Init => FieldsInv
BY DEF Fields!Init, FieldsInv, Nothing

LEMMA PrepareInv ==
  ASSUME FieldsInv, Fields!Prepare PROVE FieldsInv'
<1>1. stage = "prepare" /\ ~Fields!Refusable /\ todo' = Fields!Blocks(job) /\ stage' = "discover"
      /\ UNCHANGED <<job, blocks, rows, column, writer>>
  BY DEF Fields!Prepare
<1>2. job \in FieldJobs /\ Nothing /\ blocks = <<>>
  BY <1>1 DEF FieldsInv
<1>3. todo' \in Seq(Searches)
  BY <1>1, <1>2, BlocksAreSearches
<1>4. blocks' \in Seq(Lists)
  BY <1>1, <1>2
<1>5. Lists' = Lists /\ Searches' = Searches
  BY <1>1, JobKept
<1>. QED BY <1>1, <1>2, <1>3, <1>4, <1>5 DEF FieldsInv, Nothing

LEMMA DiscoverInv ==
  ASSUME FieldsInv, Fields!Discover PROVE FieldsInv'
<1>1. /\ stage = "discover" /\ stage' = stage /\ todo # <<>> /\ todo' = Tail(todo)
      /\ blocks' = Append(blocks, Fields!InOrder(Fields!Listed(Head(todo))))
      /\ UNCHANGED <<job, rows, column, writer>>
  BY DEF Fields!Discover
<1>2. job \in FieldJobs /\ Nothing /\ todo \in Seq(Searches) /\ blocks \in Seq(Lists)
  BY <1>1 DEF FieldsInv
<1>3. Head(todo) \in Searches /\ Tail(todo) \in Seq(Searches)
  BY <1>1, <1>2
<1>4. Fields!InOrder(Fields!Listed(Head(todo))) \in Lists
  BY <1>3, ListedIs DEF Lists
<1>5. blocks' \in Seq(Lists)
  BY <1>1, <1>2, <1>4
<1>6. Lists' = Lists /\ Searches' = Searches
  BY <1>1, JobKept
<1>. QED BY <1>1, <1>2, <1>3, <1>5, <1>6 DEF FieldsInv, Nothing

LEMMA SelectedIsList ==
  ASSUME blocks \in Seq(Lists) PROVE Fields!Selected \in Lists
<1>1. CASE Fields!FastPath
  <2>1. Len(blocks) = 1
    BY <1>1 DEF Fields!FastPath
  <2>2. blocks[1] \in Lists
    BY <2>1
  <2>. QED BY <1>1, <2>2 DEF Fields!Selected
<1>2. CASE ~Fields!FastPath
  <2>. DEFINE all == UNION {Fields!Range(blocks[b]) : b \in DOMAIN blocks}
              before(r) == {x \in all : /\ Fields!Before(x, r)
                                        /\ job.scope = "per_pair" => Fields!PairOf(x) = Fields!PairOf(r)}
              some == {r \in all : job.cap = 0 \/ Fields!Cardinality(before(r)) < job.cap}
  <2>1. \A b \in DOMAIN blocks : blocks[b] \in Lists
    OBVIOUS
  <2>2. \A b \in DOMAIN blocks : Fields!Range(blocks[b]) \in SUBSET Kinds
    BY <2>1, RangeOfList
  <2>3. some \in SUBSET Kinds
    BY <2>2
  <2>4. Fields!Selected = Fields!InOrder(some)
    BY <1>2 DEF Fields!Selected
  <2>. HIDE DEF some
  <2>. QED BY <2>3, <2>4 DEF Lists
<1>. QED BY <1>1, <1>2

\* The rows of a list are of the kinds, and the evaluators take them in turn.
LEMMA ListRows ==
  ASSUME rows \in Lists
  PROVE  \E S \in SUBSET Kinds : Sorted(rows, S)
<1>1. PICK S \in SUBSET Kinds : rows = Fields!InOrder(S)
  BY DEF Lists
<1>2. S \in SUBSET FieldWorld
  BY DEF Kinds
<1>. QED BY <1>1, <1>2, InOrderIsSorted

LEMMA RowsAre ==
  ASSUME rows \in Lists
  PROVE  /\ \A i \in DOMAIN rows : rows[i] \in Kinds
         /\ rows = [i \in DOMAIN rows |-> rows[i]]
         /\ \E n \in Nat : DOMAIN rows = 1 .. n
         /\ \A i, j \in DOMAIN rows : i < j => Fields!Before(rows[i], rows[j])
<1>1. PICK S \in SUBSET Kinds : Sorted(rows, S)
  BY ListRows
<1>2. Cardinality(S) \in Nat
  BY AheadGrows DEF Kinds
<1>3. DOMAIN rows = 1 .. Cardinality(S)
  BY <1>1 DEF Sorted
<1>. QED BY <1>1, <1>2, <1>3 DEF Sorted

LEMMA TakenInTurn ==
  ASSUME NEW r \in Kinds
  PROVE  /\ Turn(r) \in 1 .. 6
         /\ \A m \in 1 .. 6 : Fields!Takes(Order[m], r) <=> m = Turn(r)
<1>1. r.id \in {0, 1, 2, 3, 4, 5, 7} /\ (r.id = 1 => r.depth \in 1 .. 5)
  BY DEF Kinds, Kind
<1>2. Turn(r) \in 1 .. 6
  BY <1>1 DEF Turn
<1>3. ASSUME NEW m \in 1 .. 6 PROVE Fields!Takes(Order[m], r) <=> m = Turn(r)
  <2>1. CASE m = 1
    BY <1>1, <2>1 DEF Order, Turn, Fields!Takes
  <2>2. CASE m = 2
    BY <1>1, <2>2 DEF Order, Turn, Fields!Takes, Fields!DepthLimit
  <2>3. CASE m = 3
    BY <1>1, <2>3 DEF Order, Turn, Fields!Takes
  <2>4. CASE m = 4
    BY <1>1, <2>4 DEF Order, Turn, Fields!Takes
  <2>5. CASE m = 5
    BY <1>1, <2>5 DEF Order, Turn, Fields!Takes
  <2>6. CASE m = 6
    BY <1>1, <2>6 DEF Order, Turn, Fields!Takes
  <2>. QED BY <2>1, <2>2, <2>3, <2>4, <2>5, <2>6
<1>. QED BY <1>2, <1>3

LEMMA MergeInv ==
  ASSUME FieldsInv, Fields!Merge PROVE FieldsInv'
<1>1. /\ stage = "discover" /\ stage' = "evaluate" /\ rows' = Fields!Selected
      /\ offsets' = [k \in 1 .. Transmitters * Receivers + 1 |->
           Fields!Cardinality({i \in DOMAIN rows' : Fields!PairOf(rows'[i]) < k - 1})]
      /\ column' = [i \in DOMAIN rows' |-> Fields!Discovered(rows'[i].id)]
      /\ writer' = [i \in DOMAIN rows' |-> {}]
      /\ todo' = IF rows' = <<>> THEN <<>> ELSE Order
      /\ UNCHANGED <<job, blocks>>
  BY DEF Fields!Merge, Order
<1>2. job \in FieldJobs /\ blocks \in Seq(Lists)
  BY <1>1 DEF FieldsInv
<1>3. rows' \in Lists
  BY <1>1, <1>2, SelectedIsList
<1>4. Lists' = Lists /\ \A r, k : ColumnAt(r, k)' = ColumnAt(r, k)
  BY <1>1, JobKept
<1>5. offsets' = Offsets'
  BY <1>1 DEF Offsets
<1>6. \A i \in DOMAIN rows' : rows'[i] \in Kinds
  <2>1. PICK S \in SUBSET Kinds : rows' = Fields!InOrder(S)
    BY <1>3 DEF Lists
  <2>2. Sorted(rows', S)
    BY <2>1, InOrderIsSorted DEF Kinds
  <2>. QED BY <2>2 DEF Sorted
<1>7. CASE rows' = <<>>
  <2>1. EvaluatedTo(6)'
    <3>1. DOMAIN rows' = {} /\ todo' = <<>>
      BY <1>1, <1>7
    <3>2. todo' = [i \in 1 .. 6 - 6 |-> Order[i + 6]]
      BY <3>1
    <3>3. column' = [i \in DOMAIN rows' |-> ColumnAt(rows'[i], 6)]
      BY <1>1, <3>1
    <3>4. writer' = [i \in DOMAIN rows' |-> WriterAt(rows'[i], 6)]
      BY <1>1, <3>1
    <3>. QED BY <3>1, <3>2, <3>3, <3>4 DEF EvaluatedTo, WriterAt
  <2>2. 6 \in 0 .. 6
    OBVIOUS
  <2>. QED BY <1>1, <1>2, <1>3, <1>4, <1>5, <2>1, <2>2 DEF FieldsInv
<1>8. CASE rows' # <<>>
  <2>1. EvaluatedTo(0)'
    <3>1. todo' = [i \in 1 .. 6 - 0 |-> Order[i + 0]]
      BY <1>1, <1>8 DEF Order
    <3>2. \A i \in DOMAIN rows' : ~(Turn(rows'[i]) <= 0)
      BY <1>6, TakenInTurn
    <3>3. column' = [i \in DOMAIN rows' |-> ColumnAt(rows'[i], 0)]
      BY <1>1, <3>2 DEF ColumnAt
    <3>4. writer' = [i \in DOMAIN rows' |-> WriterAt(rows'[i], 0)]
      BY <1>1, <3>2 DEF WriterAt
    <3>. QED BY <1>4, <3>1, <3>3, <3>4 DEF EvaluatedTo, WriterAt
  <2>2. 0 \in 0 .. 6
    OBVIOUS
  <2>. QED BY <1>1, <1>2, <1>3, <1>4, <1>5, <2>1, <2>2 DEF FieldsInv
<1>. QED BY <1>7, <1>8

LEMMA EvaluateInv ==
  ASSUME FieldsInv, Fields!Evaluate PROVE FieldsInv'
<1>1. /\ stage = "evaluate" /\ stage' = stage /\ todo # <<>> /\ Fields!Winner(Head(todo))
      /\ column' = [i \in DOMAIN rows |->
           IF i \in Fields!Taken(Head(todo))
           THEN Fields!Evaluated(Head(todo), job, rows[i], column[i]) ELSE column[i]]
      /\ writer' = [i \in DOMAIN rows |->
           writer[i] \cup (IF i \in Fields!Taken(Head(todo)) THEN {Head(todo)} ELSE {})]
      /\ todo' = Tail(todo) /\ UNCHANGED <<job, blocks, rows, offsets>>
  BY DEF Fields!Evaluate
<1>2. job \in FieldJobs /\ rows \in Lists /\ offsets = Offsets
  BY <1>1 DEF FieldsInv
<1>3. PICK k \in 0 .. 6 : EvaluatedTo(k)
  BY <1>1 DEF FieldsInv
<1>4. k \in 0 .. 5 /\ Len(todo) = 6 - k
  BY <1>1, <1>3 DEF EvaluatedTo
<1>5. Head(todo) = Order[k + 1] /\ Tail(todo) = [i \in 1 .. 6 - (k + 1) |-> Order[i + (k + 1)]]
  <2>1. todo = [i \in 1 .. 6 - k |-> Order[i + k]]
    BY <1>3 DEF EvaluatedTo
  <2>2. todo \in Seq({Order[i] : i \in 1 .. 6})
    BY <1>4, <2>1
  <2>3. /\ Head(todo) = todo[1] /\ Tail(todo) \in Seq({Order[i] : i \in 1 .. 6}) /\ Len(Tail(todo)) = 5 - k
        /\ \A i \in 1 .. 5 - k : Tail(todo)[i] = todo[i + 1]
    BY <1>1, <1>4, <2>2, HeadTailProperties
  <2>4. \A i \in 1 .. 5 - k : todo[i + 1] = Order[i + (k + 1)]
    BY <1>4, <2>1
  <2>5. Tail(todo) = [i \in 1 .. 5 - k |-> Tail(todo)[i]]
    <3>1. Tail(todo) \in [1 .. Len(Tail(todo)) -> {Order[i] : i \in 1 .. 6}]
      BY <2>3, LenProperties
    <3>. QED BY <2>3, <3>1
  <2>6. Tail(todo) = [i \in 1 .. 5 - k |-> Order[i + (k + 1)]]
    BY <2>3, <2>4, <2>5
  <2>7. 5 - k = 6 - (k + 1)
    BY <1>4
  <2>8. todo[1] = Order[k + 1]
    BY <1>4, <2>1
  <2>. QED BY <2>3, <2>6, <2>7, <2>8
<1>6. \A i \in DOMAIN rows : /\ rows[i] \in Kinds /\ Turn(rows[i]) \in 1 .. 6
                             /\ i \in Fields!Taken(Head(todo)) <=> Turn(rows[i]) = k + 1
  <2>. SUFFICES ASSUME NEW i \in DOMAIN rows
       PROVE /\ rows[i] \in Kinds /\ Turn(rows[i]) \in 1 .. 6
             /\ i \in Fields!Taken(Head(todo)) <=> Turn(rows[i]) = k + 1
    OBVIOUS
  <2>1. rows[i] \in Kinds
    BY <1>2, RowsAre
  <2>2. k + 1 \in 1 .. 6
    BY <1>4
  <2>. QED BY <1>5, <2>1, <2>2, TakenInTurn DEF Fields!Taken
<1>7. Lists' = Lists /\ (\A r, n : ColumnAt(r, n)' = ColumnAt(r, n)) /\ Fields!GeometryAd(job)' = Fields!GeometryAd(job)
  BY <1>1, JobKept
<1>8. \A i \in DOMAIN rows : column'[i] = ColumnAt(rows[i], k + 1)
  <2>. SUFFICES ASSUME NEW i \in DOMAIN rows PROVE column'[i] = ColumnAt(rows[i], k + 1)
    OBVIOUS
  <2>1. column[i] = ColumnAt(rows[i], k)
    BY <1>3 DEF EvaluatedTo
  <2>2. CASE Turn(rows[i]) = k + 1
    <3>1. column[i] = Fields!Discovered(rows[i].id)
      BY <1>4, <2>1, <2>2 DEF ColumnAt
    <3>2. column'[i] = Fields!Evaluated(Order[k + 1], job, rows[i], column[i])
      BY <1>1, <1>5, <1>6, <2>2
    <3>. QED BY <1>4, <2>2, <3>1, <3>2 DEF ColumnAt
  <2>3. CASE Turn(rows[i]) # k + 1
    <3>1. column'[i] = column[i]
      BY <1>1, <1>6, <2>3
    <3>2. Turn(rows[i]) <= k <=> Turn(rows[i]) <= k + 1
      BY <1>4, <1>6, <2>3
    <3>. QED BY <2>1, <3>1, <3>2 DEF ColumnAt
  <2>. QED BY <2>2, <2>3
<1>9. \A i \in DOMAIN rows : writer'[i] = WriterAt(rows[i], k + 1)
  <2>. SUFFICES ASSUME NEW i \in DOMAIN rows PROVE writer'[i] = WriterAt(rows[i], k + 1)
    OBVIOUS
  <2>1. writer[i] = WriterAt(rows[i], k)
    BY <1>3 DEF EvaluatedTo
  <2>2. writer'[i] = writer[i] \cup (IF Turn(rows[i]) = k + 1 THEN {Order[k + 1]} ELSE {})
    BY <1>1, <1>5, <1>6
  <2>. QED BY <1>4, <1>6, <2>1, <2>2 DEF WriterAt
<1>10. k + 1 >= 5 /\ (\E i \in DOMAIN rows : rows[i].id \in {3, 4, 7})
         => ~(Fields!GeometryAd(job) /\ "vertices" \in job.live)
  <2>1. CASE k = 4
    <3>1. Head(todo) = "coupled"
      BY <1>5, <2>1 DEF Order
    <3>. QED BY <1>1, <3>1 DEF Fields!Winner, Fields!Coupled
  <2>2. CASE k # 4
    BY <1>3, <1>4, <2>2 DEF EvaluatedTo
  <2>. QED BY <2>1, <2>2
<1>11. EvaluatedTo(k + 1)'
  <2>1. column' = [i \in DOMAIN rows |-> column'[i]] /\ writer' = [i \in DOMAIN rows |-> writer'[i]]
    BY <1>1
  <2>2. column' = [i \in DOMAIN rows |-> ColumnAt(rows[i], k + 1)]
    BY <1>8, <2>1
  <2>3. writer' = [i \in DOMAIN rows |-> WriterAt(rows[i], k + 1)]
    BY <1>9, <2>1
  <2>. QED BY <1>1, <1>5, <1>7, <1>10, <2>2, <2>3 DEF EvaluatedTo, WriterAt
<1>12. k + 1 \in 0 .. 6 /\ offsets' = Offsets'
  BY <1>1, <1>2, <1>4 DEF Offsets
<1>. QED BY <1>1, <1>2, <1>7, <1>11, <1>12 DEF FieldsInv

\* The other steps change the stage only.
LEMMA StageInv ==
  ASSUME FieldsInv, Fields!Refuse \/ Fields!EvaluatorFails \/ Fields!Finish \/ UNCHANGED Fields!vars
  PROVE  FieldsInv'
<1>1. UNCHANGED <<job, todo, blocks, rows, column, writer, offsets>>
  BY DEF Fields!Refuse, Fields!EvaluatorFails, Fields!Finish, Fields!vars
<1>2. /\ Lists' = Lists /\ Searches' = Searches /\ (\A r, n : ColumnAt(r, n)' = ColumnAt(r, n))
      /\ Fields!GeometryAd(job)' = Fields!GeometryAd(job)
  BY <1>1, JobKept
<1>3. \A k \in 0 .. 6 : EvaluatedTo(k) => EvaluatedTo(k)'
  BY <1>1, <1>2 DEF EvaluatedTo, WriterAt
<1>4. Offsets' = Offsets /\ Nothing' = Nothing
  BY <1>1 DEF Offsets, Nothing
<1>5. CASE Fields!Refuse
  BY <1>1, <1>2, <1>4, <1>5 DEF FieldsInv, Fields!Refuse
<1>6. CASE Fields!EvaluatorFails
  BY <1>1, <1>2, <1>3, <1>4, <1>6 DEF FieldsInv, Fields!EvaluatorFails
<1>7. CASE Fields!Finish
  BY <1>1, <1>2, <1>3, <1>4, <1>7 DEF FieldsInv, Fields!Finish
<1>8. CASE UNCHANGED Fields!vars
  <2>1. stage' = stage
    BY <1>8 DEF Fields!vars
  <2>. QED BY <1>1, <1>2, <1>3, <1>4, <2>1 DEF FieldsInv
<1>. QED BY <1>5, <1>6, <1>7, <1>8

LEMMA FieldsStep ==
  ASSUME FieldsInv, [Fields!Next]_Fields!vars PROVE FieldsInv'
BY PrepareInv, DiscoverInv, MergeInv, EvaluateInv, StageInv DEF Fields!Next

-----------------------------------------------------------------------------
(* What a solve promises                                                   *)

LEMMA RowsAreInjective ==
  ASSUME rows \in Lists PROVE Fields!IsInjective(rows)
<1>. SUFFICES ASSUME NEW a \in DOMAIN rows, NEW b \in DOMAIN rows, rows[a] = rows[b] PROVE a = b
  BY DEF Fields!IsInjective
<1>1. PICK n \in Nat : DOMAIN rows = 1 .. n
  BY RowsAre
<1>2. rows[a] \in FieldWorld /\ rows[b] \in FieldWorld
  BY RowsAre DEF Kinds
<1>3. ~(a < b) /\ ~(b < a)
  BY <1>2, RowsAre, BeforeIsStrict
<1>. QED BY <1>1, <1>3

\* Each row has become what its one evaluator makes of it.
LEMMA DoneRows ==
  ASSUME FieldsInv, stage = "done", NEW i \in DOMAIN rows
  PROVE  /\ rows[i] \in Kinds /\ Turn(rows[i]) \in 1 .. 6
         /\ writer[i] = {Order[Turn(rows[i])]}
         /\ column[i] = Fields!Evaluated(Order[Turn(rows[i])], job, rows[i], Fields!Discovered(rows[i].id))
         /\ rows[i].id \in {3, 4, 7} => ~(Fields!GeometryAd(job) /\ "vertices" \in job.live)
<1>1. PICK k \in 0 .. 6 : EvaluatedTo(k)
  BY DEF FieldsInv
<1>2. todo = <<>> /\ rows \in Lists
  BY DEF FieldsInv
<1>3. k = 6
  <2>1. k # 6 => 1 \in DOMAIN todo
    BY <1>1 DEF EvaluatedTo
  <2>. QED BY <1>2, <2>1
<1>4. rows[i] \in Kinds /\ Turn(rows[i]) \in 1 .. 6
  BY <1>2, RowsAre, TakenInTurn
<1>5. Turn(rows[i]) <= 6
  BY <1>4
<1>. QED BY <1>1, <1>3, <1>4, <1>5 DEF EvaluatedTo, ColumnAt, WriterAt

LEMMA FieldsTypes ==
  ASSUME FieldsInv PROVE Fields!TypeOK
<1>1. stage \in {"prepare", "discover", "evaluate", "done", "refused"}
  BY DEF FieldsInv
<1>2. CASE Nothing
  BY <1>1, <1>2 DEF Nothing, Fields!TypeOK, Fields!IsInjective
<1>3. CASE rows \in Lists /\ \E k \in 0 .. 6 : EvaluatedTo(k)
  <2>1. DOMAIN column = DOMAIN rows /\ DOMAIN writer = DOMAIN rows
    BY <1>3 DEF EvaluatedTo
  <2>2. \A i \in DOMAIN writer : writer[i] = {} \/ \E e : writer[i] = {e}
    BY <1>3 DEF EvaluatedTo, WriterAt
  <2>3. \A i \in DOMAIN writer : Cardinality(writer[i]) <= 1
    <3>. SUFFICES ASSUME NEW i \in DOMAIN writer PROVE Cardinality(writer[i]) <= 1
      OBVIOUS
    <3>1. CASE writer[i] = {}
      <4>1. Cardinality(writer[i]) = 0
        BY <3>1, FS_EmptySet
      <4>. QED BY <4>1
    <3>2. ASSUME NEW e, writer[i] = {e} PROVE Cardinality(writer[i]) <= 1
      <4>1. Cardinality(writer[i]) = 1
        BY <3>2, FS_Singleton
      <4>. QED BY <4>1
    <3>. QED BY <2>2, <3>1, <3>2
  <2>4. \A i \in DOMAIN writer : Fields!Cardinality(writer[i]) <= 1
    BY <2>3, FieldsCardinalityIs
  <2>. QED BY <1>1, <1>3, <2>1, <2>4, RowsAreInjective DEF Fields!TypeOK
<1>. QED BY <1>2, <1>3 DEF FieldsInv

\* What the evaluator of its kind makes of a row.
Finished(r) == Fields!Evaluated(Order[Turn(r)], job, r, Fields!Discovered(r.id))

LEMMA EvaluatedIs ==
  ASSUME NEW r \in Kinds
  PROVE  /\ Finished(r).power = Fields!UnitExcitation
         /\ "replaced" \in Finished(r).factors <=> r.id = 1 /\ "replaced" \in Fields!RoughFactors(job, r)
         /\ Finished(r).wrt \ {"power"} =
              Fields!Followed(job, IF r.id = 0 THEN {"frequency", "ends"}
                                   ELSE IF r.id \in {3, 4, 7} THEN {"frequency", "ends", "material"}
                                   ELSE {"frequency", "ends", "material", "vertices"})
<1>0. r.id \in {0, 1, 2, 3, 4, 5, 7}
  BY DEF Kinds, Kind
<1>1. \A leaves : "power" \notin leaves => Fields!Followed(job, leaves) \ {"power"} = Fields!Followed(job, leaves)
  BY DEF Fields!Followed
<1>2. CASE r.id = 0
  <2>1. Finished(r) = Fields!Los(job, r, Fields!Discovered(r.id))
    BY <1>2 DEF Finished, Order, Turn, Fields!Evaluated
  <2>. QED BY <1>1, <1>2, <2>1 DEF Fields!Los
<1>3. CASE r.id = 1
  <2>1. Finished(r) = Fields!Reflect(job, r, Fields!Discovered(r.id))
    BY <1>3 DEF Finished, Order, Turn, Fields!Evaluated
  <2>. QED BY <1>1, <1>3, <2>1 DEF Fields!Reflect
<1>4. CASE r.id = 5
  <2>1. Finished(r) = Fields!Transmit(job, r, Fields!Discovered(r.id))
    BY <1>4 DEF Finished, Order, Turn, Fields!Evaluated
  <2>. QED BY <1>1, <1>4, <2>1 DEF Fields!Transmit
<1>5. CASE r.id = 2
  <2>. DEFINE d == Fields!Discovered(2)
  <2>1. Finished(r) = Fields!Diffract(job, r, d)
    BY <1>5 DEF Finished, Order, Turn, Fields!Evaluated
  <2>2. d.power["field_xyz"] = 1 /\ d.factors = {}
        /\ d = [power |-> d.power, arrival |-> d.arrival, factors |-> d.factors, wrt |-> d.wrt]
    BY DEF Fields!Discovered, Fields!Coupled, Fields!Fields
  <2>. HIDE DEF d
  <2>3. /\ Finished(r).power = Fields!UnitExcitation /\ Finished(r).factors = {}
        /\ Finished(r).wrt = Fields!Followed(job, {"frequency", "ends", "material", "vertices"})
                     \cup (IF job.detach THEN {} ELSE job.live \cap {"power"})
    BY <2>1, <2>2 DEF Fields!Diffract, Fields!UnitExcitation
  <2>4. "power" \notin Fields!Followed(job, {"frequency", "ends", "material", "vertices"})
    BY DEF Fields!Followed
  <2>. QED BY <1>5, <2>3, <2>4
<1>6. CASE r.id \in {3, 4, 7}
  <2>. DEFINE d == Fields!Discovered(r.id)
  <2>1. Finished(r) = Fields!Couple(job, r, d)
    BY <1>6 DEF Finished, Order, Turn, Fields!Evaluated
  <2>2. d.factors = {} /\ d = [power |-> d.power, arrival |-> d.arrival, factors |-> d.factors, wrt |-> d.wrt]
    BY DEF Fields!Discovered
  <2>. HIDE DEF d
  <2>3. /\ Finished(r).power = Fields!UnitExcitation /\ Finished(r).factors = {}
        /\ Finished(r).wrt = Fields!Followed(job, {"frequency", "ends", "material"})
    BY <2>1, <2>2 DEF Fields!Couple
  <2>. QED BY <1>1, <1>6, <2>3
<1>. QED BY <1>0, <1>2, <1>3, <1>4, <1>5, <1>6

LEMMA FieldsEvaluated ==
  ASSUME FieldsInv PROVE Fields!EveryRowIsEvaluated
<1>. SUFFICES ASSUME stage = "done", NEW i \in DOMAIN rows
     PROVE Fields!Cardinality(writer[i]) = 1 /\ column[i].power = Fields!UnitExcitation
  BY DEF Fields!EveryRowIsEvaluated
<1>1. /\ rows[i] \in Kinds /\ writer[i] = {Order[Turn(rows[i])]}
      /\ column[i] = Finished(rows[i])
  BY DoneRows DEF Finished
<1>2. Cardinality(writer[i]) = 1
  BY <1>1, FS_Singleton
<1>3. Fields!Cardinality(writer[i]) = 1
  BY <1>2, FieldsCardinalityIs
<1>. QED BY <1>1, <1>3, EvaluatedIs

LEMMA FieldsReplaced ==
  ASSUME FieldsInv PROVE Fields!ReplacedNeverSummed
<1>. SUFFICES ASSUME stage = "done", NEW i \in DOMAIN rows
     PROVE ("replaced" \in column[i].factors) <=>
             (rows[i].id = 1 /\ rows[i].depth = 1 /\ rows[i].via[1] \in job.realization
               /\ "scattering" \in job.components)
  BY DEF Fields!ReplacedNeverSummed
<1>1. rows[i] \in Kinds
      /\ ("replaced" \in column[i].factors
            <=> rows[i].id = 1 /\ "replaced" \in Fields!RoughFactors(job, rows[i]))
  BY DoneRows, EvaluatedIs DEF Finished
<1>2. rows[i].id = 1 => ("replaced" \in Fields!RoughFactors(job, rows[i])
        <=> rows[i].depth = 1 /\ rows[i].via[1] \in job.realization /\ "scattering" \in job.components)
  <2>1. rows[i].id = 1 => job.depth # 0
    BY <1>1 DEF Kinds, Kind
  <2>2. job.depth # 0 => Fields!Replacing(job) = IF "scattering" \in job.components THEN job.realization ELSE {}
    BY DEF Fields!Replacing, Fields!Components
  <2>. QED BY <2>1, <2>2 DEF Fields!RoughFactors
<1>. QED BY <1>1, <1>2

LEMMA FieldsFollowed ==
  ASSUME FieldsInv PROVE Fields!NothingSilentlyMissing
<1>. SUFFICES ASSUME stage = "done", job.ad # "none", NEW i \in DOMAIN rows
     PROVE column[i].wrt \ {"power"} =
             job.live \ ({"power"} \cup (IF rows[i].id = 0 THEN {"material", "vertices"} ELSE {}))
  BY DEF Fields!NothingSilentlyMissing, Fields!Differentiated
<1>1. job.live \subseteq {"frequency", "ends", "material", "vertices", "power"}
  BY JobIs DEF FieldsInv
<1>2. "vertices" \in job.live => Fields!GeometryAd(job)
  BY DEF Fields!GeometryAd
<1>3. /\ rows[i] \in Kinds
      /\ rows[i].id \in {3, 4, 7} => "vertices" \notin job.live
  BY <1>2, DoneRows
<1>4. column[i].wrt \ {"power"} =
        Fields!Followed(job, IF rows[i].id = 0 THEN {"frequency", "ends"}
                             ELSE IF rows[i].id \in {3, 4, 7} THEN {"frequency", "ends", "material"}
                             ELSE {"frequency", "ends", "material", "vertices"})
  BY DoneRows, EvaluatedIs DEF Finished
<1>5. CASE rows[i].id = 0
  BY <1>1, <1>4, <1>5 DEF Fields!Followed
<1>6. CASE rows[i].id \in {3, 4, 7}
  BY <1>1, <1>3, <1>4, <1>6 DEF Fields!Followed
<1>7. CASE rows[i].id \notin {0, 3, 4, 7}
  BY <1>1, <1>2, <1>4, <1>7 DEF Fields!Followed
<1>. QED BY <1>5, <1>6, <1>7

\* Positions that hold every smaller one are the first ones.
LEMMA FirstOnes ==
  ASSUME NEW n \in Nat, NEW D \in SUBSET (1 .. n), \A i \in D : \A j \in 1 .. n : j < i => j \in D
  PROVE  Cardinality(D) \in 0 .. n /\ D = 1 .. Cardinality(D)
<1>1. \A m \in 0 .. n : Cardinality(1 .. m) = m
  <2>. SUFFICES ASSUME NEW m \in 0 .. n PROVE Cardinality(1 .. m) = m
    OBVIOUS
  <2>1. m \in Int /\ 1 \in Int
    OBVIOUS
  <2>2. Cardinality(1 .. m) = IF 1 > m THEN 0 ELSE m - 1 + 1
    BY <2>1, FS_Interval, Zenon
  <2>. QED BY <2>2
<1>2. \E m \in 0 .. n : D = 1 .. m
  <2>1. CASE D = 1 .. n
    BY <2>1
  <2>2. CASE D # 1 .. n
    <3>. DEFINE Out == {i \in 1 .. n : i \notin D}
    <3>1. Out \subseteq Nat /\ Out # {}
      <4>1. \A U : D \subseteq U /\ D # U => \E i \in U : i \notin D
        OBVIOUS
      <4>2. \E i \in 1 .. n : i \notin D
        BY <2>2, <4>1
      <4>. QED BY <4>2
    <3>2. PICK m \in Out : \A y \in Out : m <= y
      <4>. HIDE DEF Out
      <4>. QED BY <3>1, FirstOfPositions
    <3>3. \A i \in 1 .. n : i \in D <=> i < m
      BY <3>2
    <3>4. D = 1 .. m - 1 /\ m - 1 \in 0 .. n
      <4>1. m \in 1 .. n
        BY <3>2
      <4>2. \A i \in D : i \in 1 .. m - 1
        BY <3>3, <4>1
      <4>3. \A i \in 1 .. m - 1 : i \in D
        BY <3>3, <4>1
      <4>4. m - 1 \in 0 .. n
        BY <4>1
      <4>. QED BY <4>2, <4>3, <4>4
    <3>. QED BY <3>4
  <2>. QED BY <2>1, <2>2
<1>. QED BY <1>1, <1>2

LEMMA FieldsOffsets ==
  ASSUME FieldsInv PROVE Fields!OffsetsCutPairs
<1>. SUFFICES ASSUME stage = "done", NEW k \in 1 .. Transmitters * Receivers
     PROVE {i \in DOMAIN rows : Fields!PairOf(rows[i]) = k - 1} = offsets[k] + 1 .. offsets[k + 1]
  BY DEF Fields!OffsetsCutPairs
<1>. DEFINE Under(m) == {i \in DOMAIN rows : Fields!PairOf(rows[i]) < m}
<1>1. rows \in Lists /\ offsets = Offsets
  BY DEF FieldsInv
<1>2. PICK n \in Nat : DOMAIN rows = 1 .. n
  BY <1>1, RowsAre
<1>3. \A i \in DOMAIN rows : rows[i] \in FieldWorld /\ Fields!PairOf(rows[i]) \in Int
  BY <1>1, RowsAre, WorldIs DEF Kinds
<1>4. \A i, j \in DOMAIN rows : j < i => Fields!PairOf(rows[j]) <= Fields!PairOf(rows[i])
  BY <1>1, <1>3, RowsAre, BeforeIsStrict
<1>5. ASSUME NEW m \in Int PROVE Cardinality(Under(m)) \in 0 .. n /\ Under(m) = 1 .. Cardinality(Under(m))
  <2>1. Under(m) \in SUBSET (1 .. n)
    BY <1>2
  <2>2. \A i \in Under(m) : \A j \in 1 .. n : j < i => j \in Under(m)
    BY <1>2, <1>3, <1>4, <1>5
  <2>. HIDE DEF Under
  <2>. QED BY <2>1, <2>2, FirstOnes
<1>6. k \in Int /\ k - 1 \in Int /\ (k + 1) - 1 = k
  OBVIOUS
<1>7. offsets[k] = Cardinality(Under(k - 1)) /\ offsets[k + 1] = Cardinality(Under(k))
  <2>1. Transmitters \in Nat /\ Receivers \in Nat
    BY DiscoveryAssumption DEF DiscoveryAssumption, Fields!FieldsAssumption
  <2>2. Transmitters * Receivers \in Nat
    BY <2>1
  <2>. DEFINE N == Transmitters * Receivers
  <2>3. k \in 1 .. N + 1 /\ k + 1 \in 1 .. N + 1
    <3>. HIDE DEF N
    <3>. QED BY <2>2 DEF N
  <2>4. offsets = [p \in 1 .. N + 1 |-> Fields!Cardinality(Under(p - 1))]
    BY <1>1 DEF Offsets
  <2>. HIDE DEF N, Under
  <2>. QED BY <1>6, <2>3, <2>4, FieldsCardinalityIs
<1>8. {i \in DOMAIN rows : Fields!PairOf(rows[i]) = k - 1} = Under(k) \ Under(k - 1)
  BY <1>3
<1>9. \A a, b \in Nat : (1 .. b) \ (1 .. a) = a + 1 .. b
  OBVIOUS
<1>. HIDE DEF Under
<1>10. /\ Cardinality(Under(k)) \in Nat /\ Under(k) = 1 .. Cardinality(Under(k))
       /\ Cardinality(Under(k - 1)) \in Nat /\ Under(k - 1) = 1 .. Cardinality(Under(k - 1))
  BY <1>5, <1>6
<1>11. Under(k) \ Under(k - 1) = Cardinality(Under(k - 1)) + 1 .. Cardinality(Under(k))
  BY <1>9, <1>10
<1>. QED BY <1>7, <1>8, <1>11

-----------------------------------------------------------------------------
(* The composition: a behaviour stays in the part it started in.           *)

In(p) == part = p

LEMMA DiscoveryParts ==
  ASSUME [DiscoveryNext]_discoveryVars
  PROVE  /\ part' = part
         /\ IF In("edges") THEN [Next]_vars ELSE UNCHANGED vars
         /\ In("fields") => [Fields!Next]_Fields!vars
<1>1. CASE UNCHANGED discoveryVars
  BY <1>1 DEF discoveryVars, vars, Fields!vars
<1>2. CASE DiscoveryNext
  BY <1>2 DEF DiscoveryNext, In, streamOthers, rowOthers, fieldOthers, chainOthers
<1>. QED BY <1>1, <1>2

LEMMA FieldsPart == DiscoverySpec => [](In("fields") => FieldsInv)
<1>1. DiscoveryInit => (In("fields") => FieldsInv)
  BY FieldsInitInv DEF DiscoveryInit, In
<1>2. (In("fields") => FieldsInv) /\ [DiscoveryNext]_discoveryVars => (In("fields") => FieldsInv)'
  BY DiscoveryParts, FieldsStep DEF In
<1>. QED BY <1>1, <1>2, PTL DEF DiscoverySpec

\* Each row of an enumerated solve has one evaluator, is in one power convention,
\* follows each live leaf and stands between the offsets of its pair, for any
\* rows, jobs, transmitters and receivers (enumerated.py, fields.py).
THEOREM EvaluatedOnce == DiscoverySpec => []RowsAreEvaluatedOnce
<1>1. (In("fields") => FieldsInv) => RowsAreEvaluatedOnce
  BY FieldsTypes, FieldsEvaluated, FieldsReplaced, FieldsFollowed, FieldsOffsets
     DEF In, RowsAreEvaluatedOnce
<1>. QED BY <1>1, FieldsPart, PTL

\* A scene no solve has asked edges of.
LEMMA EdgesPart == DiscoverySpec => [](IF In("edges") THEN IInv ELSE AtRest)
<1>1. DiscoveryInit => IF In("edges") THEN IInv ELSE AtRest
  BY InitInductive DEF DiscoveryInit, In, OnlyStream, OnlyRow, OnlyField, OnlyChain
<1>2. AtRest /\ UNCHANGED vars => AtRest'
  BY DEF AtRest, vars
<1>3. (IF In("edges") THEN IInv ELSE AtRest) /\ [DiscoveryNext]_discoveryVars
        => (IF In("edges") THEN IInv ELSE AtRest)'
  BY <1>2, DiscoveryParts, StepInductive DEF In
<1>. QED BY <1>1, <1>3, PTL DEF DiscoverySpec

LEMMA EdgesPromise == DiscoverySpec => [](TypeOK /\ EachEdgeIsOneWedge)
<1>1. AtRest => TypeOK /\ EachEdgeIsOneWedge
  BY DEF AtRest, TypeOK, EachEdgeIsOneWedge, EachEdgeOnce, MeetingStructuresAreAWedge, Done, Boundaries
<1>2. (IF In("edges") THEN IInv ELSE AtRest) => TypeOK /\ EachEdgeIsOneWedge
  BY <1>1, RefinedTables
<1>. QED BY <1>2, EdgesPart, PTL

\* Every reachable state of a refinement is typed: a pair has a second record
\* for its wedge to take a normal of.
THEOREM DiscoveryTypeCorrect == DiscoverySpec => []TypeOK
BY EdgesPromise, PTL

\* Of the records two or more structures have of an edge one is left, a wedge
\* with a normal of each where two meet at an angle (refine_edge_geometry).
THEOREM DiscoveryOneWedge == DiscoverySpec => []EachEdgeIsOneWedge
BY EdgesPromise, PTL
=============================================================================
