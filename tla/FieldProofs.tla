------------------------------ MODULE FieldProofs ------------------------------
(***************************************************************************)
(* Proofs about the solves of Deterministic, as parts of MCSolvers, for    *)
(* any configurations, scenes, grids and rows; and what is proved of sums  *)
(* over finite sets, which SolversProofs uses too.                         *)
(*                                                                         *)
(* The argument: the rows of a solve whose capacity suffices stay valid    *)
(* rows of searched components, and what is made of them at each stage     *)
(* stays what it was made as; a sum over rows is one over slots, or over   *)
(* exported names, of the sums over the rows of each.  For the derivative  *)
(* companions: each output is a polynomial of degree two or less in the    *)
(* sums of one slot, and a value that moves by one moves one of these by   *)
(* one, so the companions say what the polynomial says.                    *)
(***************************************************************************)
EXTENDS MCSolvers, FiniteSetTheorems, SequenceTheorems, WellFoundedInduction, TLAPS

-----------------------------------------------------------------------------
(* Sums over finite sets.  The library defines a sum by recursion over the *)
(* set; what is proved of it goes by the smaller subsets of a finite set.  *)

\* A set that holds every subset of S it holds without any one of its elements
\* holds S, if S is finite.
LEMMA Shrinking ==
  ASSUME NEW S, IsFiniteSet(S), NEW Good,
         \A T \in SUBSET S : (\A x \in T : T \ {x} \in Good) => T \in Good
  PROVE  S \in Good
<1>. DEFINE Bad == {T \in SUBSET S : T \notin Good}
            R == StrictSubsetOrdering(S)
<1>1. SUFFICES ASSUME S \notin Good PROVE FALSE
  OBVIOUS
<1>2. Bad \subseteq FiniteSubsetsOf(S) /\ Bad # {}
  BY <1>1, FS_FiniteSubsetsOfFinite
<1>3. PICK T \in Bad : \A U \in Bad : <<U, T>> \notin R
  <2>1. IsWellFoundedOn(R, FiniteSubsetsOf(S))
    BY FS_StrictSubsetOrderingWellFounded
  <2>. HIDE DEF Bad, R
  <2>. QED BY <1>2, <2>1, WFMin
<1>4. PICK x \in T : T \ {x} \in Bad
  OBVIOUS
<1>5. <<T \ {x}, T>> \in R
  BY <1>4 DEF StrictSubsetOrdering
<1>. QED BY <1>3, <1>4, <1>5

Pick(s) == CHOOSE x \in s : TRUE

\* g adds up the values of f, for every subset of S.
Adds(g, f, S) ==
  g = [s \in SUBSET S |-> IF s = {} THEN 0 ELSE f[Pick(s)] + g[s \ {Pick(s)}]]

Sum(f, S) == SumFunctionOnSet(f, S)

LEMMA SumIsAdded == \A f, S : Sum(f, S) = (CHOOSE g : Adds(g, f, S))[S]
BY DEF Sum, SumFunctionOnSet, FoldFunctionOnSet, MapThenFoldSet, Adds, Pick

LEMMA AddsStep ==
  ASSUME NEW S, NEW f, NEW g, Adds(g, f, S), NEW T \in SUBSET S
  PROVE  /\ T = {} => g[T] = 0
         /\ T # {} => Pick(T) \in T /\ g[T] = f[Pick(T)] + g[T \ {Pick(T)}]
<1>1. g[T] = IF T = {} THEN 0 ELSE f[Pick(T)] + g[T \ {Pick(T)}]
  BY Zenon DEF Adds
<1>. QED BY <1>1 DEF Pick

LEMMA AddsIntro ==
  ASSUME NEW S, NEW f, NEW g, g = [s \in SUBSET S |-> g[s]],
         \A s \in SUBSET S : g[s] = IF s = {} THEN 0 ELSE f[Pick(s)] + g[s \ {Pick(s)}]
  PROVE  Adds(g, f, S)
<1>1. [s \in SUBSET S |-> g[s]]
        = [s \in SUBSET S |-> IF s = {} THEN 0 ELSE f[Pick(s)] + g[s \ {Pick(s)}]]
  OBVIOUS
<1>. QED BY <1>1 DEF Adds

\* The values of one function over one set have one sum.
LEMMA AddsOnce ==
  ASSUME NEW S, IsFiniteSet(S), NEW U, NEW f, NEW g, NEW h, NEW V, S \subseteq U, S \subseteq V,
         Adds(g, f, U), Adds(h, f, V)
  PROVE  g[S] = h[S]
<1>. DEFINE Good == {T \in SUBSET S : g[T] = h[T]}
<1>1. ASSUME NEW T \in SUBSET S, \A x \in T : T \ {x} \in Good
      PROVE  T \in Good
  <2>1. T \in SUBSET U /\ T \in SUBSET V
    OBVIOUS
  <2>2. CASE T = {}
    BY <2>1, <2>2, AddsStep
  <2>3. CASE T # {}
    <3>1. Pick(T) \in T /\ g[T] = f[Pick(T)] + g[T \ {Pick(T)}] /\ h[T] = f[Pick(T)] + h[T \ {Pick(T)}]
      BY <2>1, <2>3, AddsStep
    <3>. QED BY <1>1, <3>1
  <2>. QED BY <2>2, <2>3
<1>. QED
  <2>. HIDE DEF Good
  <2>1. S \in Good BY <1>1, Shrinking
  <2>. QED BY <2>1 DEF Good

\* They have one.
LEMMA AddsExists ==
  ASSUME NEW S, IsFiniteSet(S), NEW f
  PROVE  \E g : Adds(g, f, S)
<1>. DEFINE Good == {T \in SUBSET S : \E g : Adds(g, f, T)}
<1>1. ASSUME NEW T \in SUBSET S, \A x \in T : T \ {x} \in Good
      PROVE  T \in Good
  <2>. DEFINE H(s) == CHOOSE g : Adds(g, f, s)
              G == [s \in SUBSET T |-> IF s = {} THEN 0
                                       ELSE f[Pick(s)] + H(s \ {Pick(s)})[s \ {Pick(s)}]]
  <2>1. ASSUME NEW s \in SUBSET T, s # T PROVE Adds(H(s), f, s)
    <3>1. PICK x \in T : s \subseteq T \ {x}
      BY <2>1
    <3>2. PICK g : Adds(g, f, T \ {x})
      BY <1>1
    <3>. DEFINE k == [u \in SUBSET s |-> g[u]]
    <3>3. ASSUME NEW u \in SUBSET s
          PROVE  k[u] = IF u = {} THEN 0 ELSE f[Pick(u)] + k[u \ {Pick(u)}]
      <4>1. u \in SUBSET (T \ {x})
        BY <3>1
      <4>. QED BY <4>1, <3>2, AddsStep
    <3>4. k = [u \in SUBSET s |-> k[u]]
      OBVIOUS
    <3>5. Adds(k, f, s)
      <4>. HIDE DEF k
      <4>. QED BY <3>3, <3>4, AddsIntro
    <3>. HIDE DEF k
    <3>. QED BY <3>5
  <2>2. ASSUME NEW s \in SUBSET T, s # T PROVE G[s] = H(s)[s]
    <3>1. Adds(H(s), f, s)
      BY <2>1, <2>2
    <3>2. CASE s = {}
      BY <3>1, <3>2, AddsStep
    <3>3. CASE s # {}
      <4>. DEFINE t == s \ {Pick(s)}
      <4>1. Pick(s) \in s /\ H(s)[s] = f[Pick(s)] + H(s)[t]
        BY <3>1, <3>3, AddsStep, s \in SUBSET s
      <4>2. t \in SUBSET T /\ t # T /\ t \subseteq s
        BY <4>1
      <4>3. Adds(H(t), f, t)
        <5>. HIDE DEF H, t
        <5>. QED BY <4>2, <2>1
      <4>4. IsFiniteSet(t)
        BY FS_Subset
      <4>5. H(s)[t] = H(t)[t]
        <5>. HIDE DEF H, t
        <5>. QED BY <3>1, <4>2, <4>3, <4>4, AddsOnce
      <4>. QED
        <5>. HIDE DEF H
        <5>. QED BY <3>3, <4>1, <4>5
    <3>. QED BY <3>2, <3>3
  <2>3. Adds(G, f, T)
    <3>1. ASSUME NEW s \in SUBSET T
          PROVE  G[s] = IF s = {} THEN 0 ELSE f[Pick(s)] + G[s \ {Pick(s)}]
      <4>1. CASE s # {}
        <5>. DEFINE t == s \ {Pick(s)}
        <5>1. t \in SUBSET T /\ t # T
          BY <4>1 DEF Pick
        <5>2. G[t] = H(t)[t]
          <6>. HIDE DEF G, H, t
          <6>. QED BY <5>1, <2>2
        <5>. QED
          <6>. HIDE DEF H
          <6>. QED BY <4>1, <5>2
      <4>. QED BY <4>1
    <3>2. G = [s \in SUBSET T |-> G[s]]
      OBVIOUS
    <3>. QED
      <4>. HIDE DEF G
      <4>. QED BY <3>1, <3>2, AddsIntro
  <2>. QED
    <3>. HIDE DEF G
    <3>. QED BY <2>3
<1>. QED
  <2>. HIDE DEF Good
  <2>1. S \in Good BY <1>1, Shrinking
  <2>. QED BY <2>1 DEF Good

\* A sum of finitely many values is one of them and the sum of the others.
LEMMA SumPicked ==
  ASSUME NEW S, IsFiniteSet(S), NEW f
  PROVE  /\ Sum(f, {}) = 0
         /\ S # {} => Pick(S) \in S /\ Sum(f, S) = f[Pick(S)] + Sum(f, S \ {Pick(S)})
<1>. DEFINE H(s) == CHOOSE g : Adds(g, f, s)
<1>1. ASSUME NEW s \in SUBSET S PROVE Adds(H(s), f, s) /\ Sum(f, s) = H(s)[s]
  BY AddsExists, SumIsAdded, FS_Subset
<1>2. Sum(f, {}) = 0
  <2>. DEFINE none == {}
  <2>1. none \in SUBSET S /\ none \in SUBSET none /\ none = {}
    OBVIOUS
  <2>. HIDE DEF H, none
  <2>2. Adds(H(none), f, none) /\ Sum(f, none) = H(none)[none]
    BY <1>1, <2>1
  <2>3. H(none)[none] = 0
    BY <2>1, <2>2, AddsStep
  <2>. QED BY <2>1, <2>2, <2>3
<1>3. ASSUME S # {} PROVE Pick(S) \in S /\ Sum(f, S) = f[Pick(S)] + Sum(f, S \ {Pick(S)})
  <2>. DEFINE T == S \ {Pick(S)}
  <2>1. Pick(S) \in S /\ H(S)[S] = f[Pick(S)] + H(S)[T]
    <3>. HIDE DEF H
    <3>. QED BY <1>1, <1>3, AddsStep, S \in SUBSET S
  <2>2. H(S)[T] = H(T)[T]
    <3>1. IsFiniteSet(T) /\ T \subseteq S
      BY FS_Subset
    <3>. HIDE DEF H, T
    <3>. QED BY <3>1, <1>1, AddsOnce
  <2>. HIDE DEF H
  <2>. QED BY <1>1, <2>1, <2>2
<1>. QED BY <1>2, <1>3

\* A sum of integers is one.
LEMMA SumInt ==
  ASSUME NEW S, IsFiniteSet(S), NEW f, \A x \in S : f[x] \in Int
  PROVE  Sum(f, S) \in Int
<1>. DEFINE Good == {T \in SUBSET S : Sum(f, T) \in Int}
<1>1. ASSUME NEW T \in SUBSET S, \A x \in T : T \ {x} \in Good PROVE T \in Good
  <2>1. IsFiniteSet(T)
    BY FS_Subset
  <2>2. T = {} \/ (Pick(T) \in T /\ Sum(f, T) = f[Pick(T)] + Sum(f, T \ {Pick(T)}))
    BY <2>1, SumPicked
  <2>3. T = {} => Sum(f, T) = 0
    BY <2>1, SumPicked
  <2>. QED BY <1>1, <2>2, <2>3
<1>. QED
  <2>. HIDE DEF Good
  <2>1. S \in Good BY <1>1, Shrinking
  <2>. QED BY <2>1 DEF Good

\* It does not matter which one is taken out.
LEMMA SumWithout ==
  ASSUME NEW S, IsFiniteSet(S), NEW f, \A x \in S : f[x] \in Int, NEW z \in S
  PROVE  Sum(f, S) = f[z] + Sum(f, S \ {z})
<1>. DEFINE Good == {T \in SUBSET S : \A x \in T : Sum(f, T) = f[x] + Sum(f, T \ {x})}
<1>1. ASSUME NEW T \in SUBSET S, \A x \in T : T \ {x} \in Good PROVE T \in Good
  <2>1. SUFFICES ASSUME NEW x \in T PROVE Sum(f, T) = f[x] + Sum(f, T \ {x})
    OBVIOUS
  <2>. DEFINE y == Pick(T)
  <2>2. IsFiniteSet(T) /\ IsFiniteSet(T \ {x}) /\ IsFiniteSet((T \ {x}) \ {y})
    BY FS_Subset, FS_RemoveElement
  <2>3. y \in T /\ Sum(f, T) = f[y] + Sum(f, T \ {y})
    BY <2>2, SumPicked
  <2>4. CASE x = y
    BY <2>3, <2>4
  <2>5. CASE x # y
    <3>1. Sum(f, T \ {y}) = f[x] + Sum(f, (T \ {y}) \ {x})
      BY <1>1, <2>3, <2>5
    <3>2. Sum(f, T \ {x}) = f[y] + Sum(f, (T \ {x}) \ {y})
      BY <1>1, <2>3, <2>5
    <3>3. (T \ {x}) \ {y} = (T \ {y}) \ {x}
      OBVIOUS
    <3>4. Sum(f, (T \ {x}) \ {y}) \in Int
      BY <2>2, SumInt
    <3>5. f[x] \in Int /\ f[y] \in Int
      BY <2>3
    <3>. HIDE DEF y
    <3>6. Sum(f, (T \ {y}) \ {x}) = Sum(f, (T \ {x}) \ {y})
      BY Zenon, <3>3
    <3>. QED BY ONLY <2>3, <3>1, <3>2, <3>4, <3>5, <3>6
  <2>. QED BY <2>4, <2>5
<1>. QED
  <2>. HIDE DEF Good
  <2>1. S \in Good BY <1>1, Shrinking
  <2>. QED BY <2>1 DEF Good

\* Equal values have equal sums.
LEMMA SumSame ==
  ASSUME NEW S, IsFiniteSet(S), NEW f, NEW g, \A x \in S : f[x] = g[x]
  PROVE  Sum(f, S) = Sum(g, S)
<1>. DEFINE Good == {T \in SUBSET S : Sum(f, T) = Sum(g, T)}
<1>1. ASSUME NEW T \in SUBSET S, \A x \in T : T \ {x} \in Good PROVE T \in Good
  <2>1. IsFiniteSet(T)
    BY FS_Subset
  <2>2. CASE T = {}
    BY <2>2, <2>1, SumPicked
  <2>3. CASE T # {}
    <3>1. /\ Pick(T) \in T
          /\ Sum(f, T) = f[Pick(T)] + Sum(f, T \ {Pick(T)})
          /\ Sum(g, T) = g[Pick(T)] + Sum(g, T \ {Pick(T)})
      BY <2>1, <2>3, SumPicked
    <3>. QED BY <1>1, <3>1
  <2>. QED BY <2>2, <2>3
<1>. QED
  <2>. HIDE DEF Good
  <2>1. S \in Good BY <1>1, Shrinking
  <2>. QED BY <2>1 DEF Good

\* Nothing adds up to nothing.
LEMMA SumZero ==
  ASSUME NEW S, IsFiniteSet(S), NEW f, \A x \in S : f[x] = 0
  PROVE  Sum(f, S) = 0
<1>. DEFINE Good == {T \in SUBSET S : Sum(f, T) = 0}
<1>1. ASSUME NEW T \in SUBSET S, \A x \in T : T \ {x} \in Good PROVE T \in Good
  <2>1. IsFiniteSet(T)
    BY FS_Subset
  <2>2. T = {} \/ (Pick(T) \in T /\ Sum(f, T) = f[Pick(T)] + Sum(f, T \ {Pick(T)}))
    BY <2>1, SumPicked
  <2>3. T = {} => Sum(f, T) = 0
    BY <2>1, SumPicked
  <2>. QED BY <1>1, <2>2, <2>3
<1>. QED
  <2>. HIDE DEF Good
  <2>1. S \in Good BY <1>1, Shrinking
  <2>. QED BY <2>1 DEF Good

\* The sum of a set in two parts is that of its parts.
LEMMA SumUnion ==
  ASSUME NEW S, IsFiniteSet(S), NEW A, IsFiniteSet(A), A \cap S = {},
         NEW f, \A x \in S \cup A : f[x] \in Int
  PROVE  Sum(f, S \cup A) = Sum(f, S) + Sum(f, A)
<1>. DEFINE Good == {T \in SUBSET S : Sum(f, T \cup A) = Sum(f, T) + Sum(f, A)}
<1>1. ASSUME NEW T \in SUBSET S, \A x \in T : T \ {x} \in Good PROVE T \in Good
  <2>1. IsFiniteSet(T) /\ IsFiniteSet(T \cup A) /\ Sum(f, A) \in Int
    BY FS_Subset, FS_Union, SumInt
  <2>2. CASE T = {}
    <3>1. T \cup A = A
      BY <2>2
    <3>2. Sum(f, T) = 0
      BY <2>2, <2>1, SumPicked
    <3>3. Sum(f, T \cup A) = Sum(f, A)
      BY Zenon, <3>1
    <3>. QED BY <2>1, <3>2, <3>3
  <2>3. CASE T # {}
    <3>1. PICK x \in T : TRUE
      BY <2>3
    <3>2. Sum(f, T) = f[x] + Sum(f, T \ {x})
      BY <2>1, SumWithout
    <3>3. Sum(f, T \cup A) = f[x] + Sum(f, (T \cup A) \ {x})
      BY <2>1, SumWithout
    <3>4. (T \cup A) \ {x} = (T \ {x}) \cup A
      OBVIOUS
    <3>5. Sum(f, (T \ {x}) \cup A) = Sum(f, T \ {x}) + Sum(f, A)
      BY <1>1, <3>1
    <3>6. Sum(f, T \ {x}) \in Int /\ f[x] \in Int
      BY <2>1, FS_RemoveElement, SumInt
    <3>7. Sum(f, (T \cup A) \ {x}) = Sum(f, T \ {x}) + Sum(f, A)
      BY Zenon, <3>4, <3>5
    <3>8. Sum(f, T \cup A) = Sum(f, T) + Sum(f, A)
      BY ONLY <2>1, <3>2, <3>3, <3>7, <3>6
    <3>. QED BY <3>8
  <2>. QED BY <2>2, <2>3
<1>. QED
  <2>. HIDE DEF Good
  <2>1. S \in Good BY <1>1, Shrinking
  <2>. QED BY <2>1 DEF Good

\* Sums are added term by term.
LEMMA SumPlus ==
  ASSUME NEW S, IsFiniteSet(S), NEW f, NEW g, NEW h,
         \A x \in S : f[x] \in Int /\ g[x] \in Int /\ h[x] = f[x] + g[x]
  PROVE  Sum(h, S) = Sum(f, S) + Sum(g, S)
<1>. DEFINE Good == {T \in SUBSET S : Sum(h, T) = Sum(f, T) + Sum(g, T)}
<1>1. ASSUME NEW T \in SUBSET S, \A x \in T : T \ {x} \in Good PROVE T \in Good
  <2>1. IsFiniteSet(T)
    BY FS_Subset
  <2>2. CASE T = {}
    <3>1. Sum(f, T) = 0 /\ Sum(g, T) = 0 /\ Sum(h, T) = 0
      BY <2>2, <2>1, SumPicked
    <3>. QED BY <3>1
  <2>3. CASE T # {}
    <3>. DEFINE x == Pick(T)
    <3>1. /\ x \in T
          /\ Sum(f, T) = f[x] + Sum(f, T \ {x})
          /\ Sum(g, T) = g[x] + Sum(g, T \ {x})
          /\ Sum(h, T) = h[x] + Sum(h, T \ {x})
      BY <2>1, <2>3, SumPicked
    <3>2. Sum(f, T \ {x}) \in Int /\ Sum(g, T \ {x}) \in Int
      BY <2>1, FS_RemoveElement, SumInt
    <3>3. Sum(h, T \ {x}) = Sum(f, T \ {x}) + Sum(g, T \ {x})
      BY <1>1, <3>1
    <3>4. f[x] \in Int /\ g[x] \in Int /\ h[x] = f[x] + g[x]
      BY <3>1
    <3>. HIDE DEF Good, x
    <3>5. Sum(h, T) = Sum(f, T) + Sum(g, T)
      BY <3>1, <3>2, <3>3, <3>4
    <3>. QED BY <3>5 DEF Good
  <2>. QED BY <2>2, <2>3
<1>. QED
  <2>. HIDE DEF Good
  <2>1. S \in Good BY <1>1, Shrinking
  <2>. QED BY <2>1 DEF Good

\* Rows and columns of a table have the same total.
LEMMA SumSwap ==
  ASSUME NEW S, IsFiniteSet(S), NEW T, IsFiniteSet(T), NEW m,
         \A x \in S, y \in T : m[x][y] \in Int
  PROVE  Sum([x \in S |-> Sum(m[x], T)], S) = Sum([y \in T |-> Sum([x \in S |-> m[x][y]], S)], T)
<1>. DEFINE column(U) == [y \in T |-> Sum([x \in U |-> m[x][y]], U)]
            row(U) == [x \in U |-> Sum(m[x], T)]
            Good == {U \in SUBSET S : Sum(row(U), U) = Sum(column(U), T)}
<1>0. ASSUME NEW U \in SUBSET S
      PROVE  IsFiniteSet(U) /\ \A y \in T : column(U)[y] \in Int
  <2>1. IsFiniteSet(U)
    BY FS_Subset
  <2>2. ASSUME NEW y \in T PROVE Sum([x \in U |-> m[x][y]], U) \in Int
    BY <2>1, SumInt
  <2>. QED BY <2>1, <2>2
<1>1. ASSUME NEW U \in SUBSET S, \A x \in U : U \ {x} \in Good PROVE U \in Good
  <2>2. CASE U = {}
    <3>1. Sum(row(U), U) = 0
      <4>. HIDE DEF row
      <4>. QED BY <2>2, <1>0, SumPicked
    <3>2. ASSUME NEW y \in T PROVE column(U)[y] = 0
      <4>. DEFINE f == [x \in U |-> m[x][y]]
      <4>1. Sum(f, U) = 0
        <5>. HIDE DEF f
        <5>. QED BY <2>2, <1>0, SumPicked
      <4>. QED BY <4>1
    <3>3. Sum(column(U), T) = 0
      <4>. HIDE DEF column
      <4>. QED BY <3>2, SumZero
    <3>. QED BY <3>1, <3>3
  <2>3. CASE U # {}
    <3>1. PICK z \in U : TRUE
      BY <2>3
    <3>. DEFINE V == U \ {z}
    <3>2. V \in SUBSET S /\ Sum(row(V), V) = Sum(column(V), T)
      BY <1>1, <3>1
    <3>3. ASSUME NEW x \in U PROVE row(U)[x] \in Int
      <4>1. Sum(m[x], T) \in Int
        BY SumInt
      <4>. QED BY <4>1
    <3>4. Sum(row(U), U) = row(U)[z] + Sum(row(U), V)
      <4>. HIDE DEF row
      <4>. QED BY <1>0, <3>3, SumWithout
    <3>5. Sum(row(U), V) = Sum(row(V), V)
      <4>1. \A x \in V : row(U)[x] = row(V)[x]
        OBVIOUS
      <4>. HIDE DEF row
      <4>. QED BY <4>1, <3>2, <1>0, SumSame
    <3>6. ASSUME NEW y \in T PROVE m[z][y] \in Int /\ column(V)[y] \in Int /\ column(U)[y] = m[z][y] + column(V)[y]
      <4>. DEFINE f == [x \in U |-> m[x][y]]  g == [x \in V |-> m[x][y]]
      <4>1. (\A x \in U : f[x] \in Int) /\ (\A x \in V : f[x] = g[x]) /\ f[z] = m[z][y]
        OBVIOUS
      <4>2. Sum(f, U) = f[z] + Sum(f, V) /\ Sum(f, V) = Sum(g, V)
        <5>. HIDE DEF f, g
        <5>1. Sum(f, U) = f[z] + Sum(f, V)
          BY <1>0, <4>1, SumWithout
        <5>2. IsFiniteSet(V)
          BY <1>0, <3>2
        <5>3. Sum(f, V) = Sum(g, V)
          BY <4>1, <5>2, SumSame
        <5>. QED BY <5>1, <5>3
      <4>. HIDE DEF V
      <4>. QED BY <1>0, <3>2, <4>1, <4>2
    <3>7. Sum(column(U), T) = Sum(m[z], T) + Sum(column(V), T)
      <4>. HIDE DEF column
      <4>. QED BY <3>6, SumPlus
    <3>8. row(U)[z] = Sum(m[z], T)
      OBVIOUS
    <3>. QED
      <4>. HIDE DEF row, column, V
      <4>. QED BY <3>2, <3>4, <3>5, <3>7, <3>8
  <2>. QED BY <2>2, <2>3
<1>. QED
  <2>. HIDE DEF Good
  <2>1. S \in Good BY <1>1, Shrinking
  <2>. QED BY <2>1 DEF Good

\* Values that are nothing outside a part add up to those of the part.
LEMMA SumWithin ==
  ASSUME NEW S, IsFiniteSet(S), NEW A, A \subseteq S, NEW f, NEW g,
         \A x \in A : f[x] \in Int /\ g[x] = f[x], \A x \in S \ A : g[x] = 0
  PROVE  Sum(g, S) = Sum(f, A)
<1>. DEFINE B == S \ A
<1>1. IsFiniteSet(A) /\ IsFiniteSet(B) /\ A \cap B = {} /\ B \cup A = S
  BY FS_Subset
<1>2. \A x \in B : g[x] = 0
  OBVIOUS
<1>3. \A x \in B \cup A : g[x] \in Int
  OBVIOUS
<1>. HIDE DEF B
<1>4. Sum(g, B \cup A) = Sum(g, B) + Sum(g, A)
  BY <1>1, <1>3, SumUnion
<1>5. Sum(g, B) = 0
  BY <1>1, <1>2, SumZero
<1>6. Sum(g, A) = Sum(f, A)
  BY <1>1, SumSame
<1>7. Sum(f, A) \in Int
  BY <1>1, SumInt
<1>8. Sum(g, S) = Sum(g, B) + Sum(g, A)
  BY <1>1, <1>4
<1>. QED BY <1>5, <1>6, <1>7, <1>8

LEMMA SumOne ==
  ASSUME NEW z, NEW f, f[z] \in Int
  PROVE  Sum(f, {z}) = f[z]
<1>. DEFINE one == {z}
<1>1. IsFiniteSet(one) /\ one \ {z} = {} /\ z \in one /\ \A x \in one : f[x] \in Int
  BY FS_Singleton
<1>. HIDE DEF one
<1>2. Sum(f, one) = f[z] + Sum(f, one \ {z})
  BY <1>1, SumWithout
<1>3. Sum(f, one \ {z}) = 0
  BY <1>1, SumPicked
<1>4. Sum(f, one) = f[z]
  BY <1>2, <1>3
<1>. QED BY <1>4 DEF one

\* A sum is that of the sums of its kinds.
LEMMA SumByKind ==
  ASSUME NEW S, IsFiniteSet(S), NEW K, IsFiniteSet(K), NEW kind, \A x \in S : kind[x] \in K,
         NEW f, \A x \in S : f[x] \in Int
  PROVE  Sum(f, S) = Sum([k \in K |-> Sum(f, {x \in S : kind[x] = k})], K)
<1>. DEFINE m == [k \in K |-> [x \in S |-> IF kind[x] = k THEN f[x] ELSE 0]]
            across == [k \in K |-> Sum(m[k], S)]
            down == [x \in S |-> Sum([k \in K |-> m[k][x]], K)]
            kinds == [k \in K |-> Sum(f, {x \in S : kind[x] = k})]
<1>1. \A k \in K, x \in S : m[k][x] \in Int
  OBVIOUS
<1>2. Sum(across, K) = Sum(down, S)
  <2>. HIDE DEF m
  <2>. QED BY <1>1, SumSwap
<1>3. ASSUME NEW k \in K PROVE across[k] = kinds[k]
  <2>. DEFINE A == {x \in S : kind[x] = k}  g == m[k]
  <2>1. A \subseteq S /\ (\A x \in A : f[x] \in Int /\ g[x] = f[x]) /\ \A x \in S \ A : g[x] = 0
    OBVIOUS
  <2>2. across[k] = Sum(g, S) /\ kinds[k] = Sum(f, A)
    OBVIOUS
  <2>. HIDE DEF A, g, across, kinds
  <2>. QED BY <2>1, <2>2, SumWithin
<1>4. ASSUME NEW x \in S PROVE down[x] = f[x]
  <2>. DEFINE g == [k \in K |-> m[k][x]]  z == kind[x]  h == [k \in K |-> f[x]]
  <2>1. z \in K /\ (\A k \in {z} : h[k] \in Int /\ g[k] = h[k]) /\ (\A k \in K \ {z} : g[k] = 0) /\ h[z] = f[x]
    OBVIOUS
  <2>2. down[x] = Sum(g, K)
    OBVIOUS
  <2>. HIDE DEF g, z, h, down
  <2>3. Sum(g, K) = Sum(h, {z})
    BY <2>1, SumWithin
  <2>4. Sum(h, {z}) = h[z]
    BY <2>1, SumOne
  <2>. QED BY <2>1, <2>2, <2>3, <2>4
<1>. HIDE DEF across, down, kinds
<1>5. Sum(across, K) = Sum(kinds, K)
  BY <1>3, SumSame
<1>6. Sum(down, S) = Sum(f, S)
  BY <1>4, SumSame
<1>. QED BY <1>2, <1>5, <1>6 DEF kinds

\* The size of a finite set counts one for each of its elements.
LEMMA SumOfOnes ==
  ASSUME NEW S, IsFiniteSet(S), NEW f, \A x \in S : f[x] = 1
  PROVE  Sum(f, S) = Cardinality(S)
<1>. DEFINE Good == {T \in SUBSET S : Sum(f, T) = Cardinality(T)}
<1>1. ASSUME NEW T \in SUBSET S, \A x \in T : T \ {x} \in Good PROVE T \in Good
  <2>1. IsFiniteSet(T) /\ Cardinality(T) \in Nat
    BY FS_Subset, FS_CardinalityType
  <2>2. T = {} \/ (Pick(T) \in T /\ Sum(f, T) = f[Pick(T)] + Sum(f, T \ {Pick(T)}))
    BY <2>1, SumPicked
  <2>3. T = {} => Sum(f, T) = 0 /\ Cardinality(T) = 0
    BY <2>1, SumPicked, FS_EmptySet
  <2>4. \A x \in T : Cardinality(T \ {x}) = Cardinality(T) - 1
    BY <2>1, FS_RemoveElement
  <2>. QED BY <1>1, <2>1, <2>2, <2>3, <2>4
<1>. QED
  <2>. HIDE DEF Good
  <2>1. S \in Good BY <1>1, Shrinking
  <2>. QED BY <2>1 DEF Good

\* One value more.
LEMMA SumWith ==
  ASSUME NEW S, IsFiniteSet(S), NEW z, z \notin S, NEW f, f[z] \in Int, Sum(f, S) \in Int,
         \A x \in S : f[x] \in Int
  PROVE  /\ IsFiniteSet(S \cup {z}) /\ Sum(f, S \cup {z}) = Sum(f, S) + f[z]
         /\ Sum(f, S \cup {z}) \in Int /\ \A x \in S \cup {z} : f[x] \in Int
<1>. DEFINE T == S \cup {z}
<1>0. IsFiniteSet(T)
  BY FS_AddElement
<1>1. IsFiniteSet(T) /\ z \in T /\ T \ {z} = S /\ \A x \in T : f[x] \in Int
  BY <1>0
<1>. HIDE DEF T
<1>2. Sum(f, T) = f[z] + Sum(f, T \ {z})
  BY <1>1, SumWithout
<1>3. Sum(f, T) = Sum(f, S) + f[z] /\ Sum(f, T) \in Int
  <2>1. Sum(f, T \ {z}) = Sum(f, S)
    BY <1>1
  <2>. QED BY <1>2, <2>1
<1>4. IsFiniteSet(T) /\ Sum(f, T) = Sum(f, S) + f[z] /\ Sum(f, T) \in Int /\ \A x \in T : f[x] \in Int
  BY <1>1, <1>3
<1>. QED BY <1>4, Zenon DEF T

\* Six values that are told apart.
LEMMA SumOfSix ==
  ASSUME NEW e, NEW f, \A k, l \in 1 .. 6 : k # l => e[k] # e[l], \A k \in 1 .. 6 : f[e[k]] \in Int
  PROVE  Sum(f, {e[1], e[2], e[3], e[4], e[5], e[6]}) = f[e[1]] + f[e[2]] + f[e[3]] + f[e[4]] + f[e[5]] + f[e[6]]
<1>0. f[e[1]] \in Int /\ f[e[2]] \in Int /\ f[e[3]] \in Int /\ f[e[4]] \in Int /\ f[e[5]] \in Int /\ f[e[6]] \in Int
  OBVIOUS
<1>1. IsFiniteSet({e[1]}) /\ Sum(f, {e[1]}) = f[e[1]]
  BY <1>0, SumOne, FS_Singleton
<1>. DEFINE S2 == {e[1]} \cup {e[2]}  S3 == S2 \cup {e[3]}  S4 == S3 \cup {e[4]}  S5 == S4 \cup {e[5]}  S6 == S5 \cup {e[6]}
<1>2. IsFiniteSet(S2) /\ Sum(f, S2) = f[e[1]] + f[e[2]] /\ \A x \in S2 : f[x] \in Int
  <2>1. e[2] \notin {e[1]} /\ Sum(f, {e[1]}) \in Int /\ \A x \in {e[1]} : f[x] \in Int
    BY <1>0, <1>1
  <2>2. /\ IsFiniteSet({e[1]} \cup {e[2]}) /\ Sum(f, {e[1]} \cup {e[2]}) = Sum(f, {e[1]}) + f[e[2]]
        /\ \A x \in {e[1]} \cup {e[2]} : f[x] \in Int
    BY <1>0, <1>1, <2>1, SumWith
  <2>. QED BY <1>1, <2>2
<1>3. e[3] \notin S2 /\ e[4] \notin S3 /\ e[5] \notin S4 /\ e[6] \notin S5
  OBVIOUS
<1>4. S6 = {e[1], e[2], e[3], e[4], e[5], e[6]}
  OBVIOUS
<1>. HIDE DEF S2
<1>5. IsFiniteSet(S3) /\ Sum(f, S3) = f[e[1]] + f[e[2]] + f[e[3]] /\ \A x \in S3 : f[x] \in Int
  <2>1. Sum(f, S2) \in Int
    BY <1>0, <1>2
  <2>2. /\ IsFiniteSet(S2 \cup {e[3]}) /\ Sum(f, S2 \cup {e[3]}) = Sum(f, S2) + f[e[3]]
        /\ \A x \in S2 \cup {e[3]} : f[x] \in Int
    BY <1>0, <1>2, <1>3, <2>1, SumWith
  <2>. QED BY <1>2, <2>2
<1>. HIDE DEF S3
<1>6. IsFiniteSet(S4) /\ Sum(f, S4) = f[e[1]] + f[e[2]] + f[e[3]] + f[e[4]] /\ \A x \in S4 : f[x] \in Int
  <2>1. Sum(f, S3) \in Int
    BY <1>0, <1>5
  <2>2. /\ IsFiniteSet(S3 \cup {e[4]}) /\ Sum(f, S3 \cup {e[4]}) = Sum(f, S3) + f[e[4]]
        /\ \A x \in S3 \cup {e[4]} : f[x] \in Int
    BY <1>0, <1>5, <1>3, <2>1, SumWith
  <2>. QED BY <1>5, <2>2
<1>. HIDE DEF S4
<1>7. IsFiniteSet(S5) /\ Sum(f, S5) = f[e[1]] + f[e[2]] + f[e[3]] + f[e[4]] + f[e[5]] /\ \A x \in S5 : f[x] \in Int
  <2>1. Sum(f, S4) \in Int
    BY <1>0, <1>6
  <2>2. /\ IsFiniteSet(S4 \cup {e[5]}) /\ Sum(f, S4 \cup {e[5]}) = Sum(f, S4) + f[e[5]]
        /\ \A x \in S4 \cup {e[5]} : f[x] \in Int
    BY <1>0, <1>6, <1>3, <2>1, SumWith
  <2>. QED BY <1>6, <2>2
<1>. HIDE DEF S5
<1>8. Sum(f, S6) = f[e[1]] + f[e[2]] + f[e[3]] + f[e[4]] + f[e[5]] + f[e[6]]
  <2>1. Sum(f, S5) \in Int
    BY <1>0, <1>7
  <2>2. Sum(f, S5 \cup {e[6]}) = Sum(f, S5) + f[e[6]]
    BY <1>0, <1>3, <1>7, <2>1, SumWith
  <2>. QED BY <1>7, <2>2
<1>. QED BY <1>4, <1>8

-----------------------------------------------------------------------------
(* Rows of a deterministic solve                                           *)

LEMMA FieldSumIsSum == \A f, S : Field!SumFunctionOnSet(f, S) = Sum(f, S)
BY DEF Field!SumFunctionOnSet, Field!FoldFunctionOnSet, Field!MapThenFoldSet,
       Sum, SumFunctionOnSet, FoldFunctionOnSet, MapThenFoldSet

LEMMA FieldSizeIsSize == \A S : Field!Cardinality(S) = Cardinality(S)
BY DEF Field!Cardinality, Cardinality, Field!IsFiniteSet, IsFiniteSet

FieldPaths ==
  [tx : 0 .. Transmitters - 1, rx : 0 .. Receivers - 1, id : 0 .. 7,
   field : Int \X Int, axis : {"x", "y"}]
FieldRows ==
  [valid : BOOLEAN, tx : 0 .. Transmitters - 1, rx : 0 .. Receivers - 1, id : {-1} \cup (0 .. 7),
   re : Int, im : Int, gain : Nat]

\* An id of one of some names.
Named(id, names) == \E n \in names : id \in Field!Ids(n)

\* The configuration and the scene of a solve, differentiated or not.
FieldGiven ==
  /\ settings \in FieldConfigurations \cup DifferentiatedConfigurations
  /\ scene \in FieldScenes \cup DifferentiatedScenes

\* Positions before k.
Before(places, k) == Cardinality({j \in places : j < k})

LEMMA FirstPlaces ==
  ASSUME NEW n \in Nat PROVE IsFiniteSet(1 .. n) /\ Cardinality(1 .. n) = n
<1>1. n \in Int /\ 1 \in Int
  OBVIOUS
<1>2. IsFiniteSet(1 .. n) /\ Cardinality(1 .. n) = IF 1 > n THEN 0 ELSE n - 1 + 1
  BY <1>1, FS_Interval, Zenon
<1>. QED BY <1>2

\* As many positions come before a position as its place says.
LEMMA BeforeGrows ==
  ASSUME NEW n \in Nat, NEW places \in SUBSET (1 .. n)
  PROVE  /\ IsFiniteSet(places) /\ Cardinality(places) \in Nat
         /\ \A k \in places : Before(places, k) \in 0 .. Cardinality(places) - 1
         /\ \A k, j \in places : Before(places, k) = Before(places, j) => k = j
<1>1. IsFiniteSet(places) /\ Cardinality(places) \in Nat
  BY FirstPlaces, FS_Subset, FS_CardinalityType
<1>2. ASSUME NEW k \in places
      PROVE  /\ IsFiniteSet({j \in places : j < k}) /\ Before(places, k) \in Nat
             /\ Before(places, k) < Cardinality(places)
  <2>. DEFINE A == {j \in places : j < k}
  <2>1. A \in SUBSET places /\ k \notin A
    OBVIOUS
  <2>. HIDE DEF A
  <2>2. IsFiniteSet(A) /\ Cardinality(A) <= Cardinality(places) /\ Cardinality(A) # Cardinality(places)
    BY <1>1, <2>1, FS_Subset
  <2>3. Cardinality(A) \in Nat
    BY <2>2, FS_CardinalityType
  <2>4. IsFiniteSet(A) /\ Cardinality(A) \in Nat /\ Cardinality(A) < Cardinality(places)
    BY <1>1, <2>2, <2>3
  <2>. QED BY <2>4, Zenon DEF Before, A
<1>3. ASSUME NEW k \in places, NEW j \in places, k < j PROVE Before(places, k) < Before(places, j)
  <2>. DEFINE A == {l \in places : l < k}  B == {l \in places : l < j}
  <2>1. A \in SUBSET B /\ k \in B /\ k \notin A
    <3>1. \A l \in places : l \in Int
      OBVIOUS
    <3>2. \A l \in A : l \in B
      BY <1>3, <3>1
    <3>3. k \in B /\ k \notin A
      BY <1>3, <3>1
    <3>. QED BY <3>2, <3>3
  <2>2. IsFiniteSet(B) /\ Cardinality(A) \in Nat /\ Cardinality(B) \in Nat
    <3>1. Before(places, k) \in Nat
      BY <1>2
    <3>2. Before(places, j) \in Nat
      BY <1>2
    <3>3. IsFiniteSet({l \in places : l < j})
      BY <1>2, Zenon
    <3>. QED BY <3>1, <3>2, <3>3, Zenon DEF Before
  <2>. HIDE DEF A, B
  <2>3. Cardinality(A) <= Cardinality(B) /\ Cardinality(A) # Cardinality(B)
    BY <2>1, <2>2, FS_Subset
  <2>. QED BY <2>2, <2>3 DEF Before, A, B
<1>4. ASSUME NEW k \in places, NEW j \in places, Before(places, k) = Before(places, j) PROVE k = j
  <2>1. k \in Int /\ j \in Int /\ Before(places, k) \in Nat /\ Before(places, j) \in Nat
    <3>1. Before(places, k) \in Nat
      BY <1>2
    <3>2. Before(places, j) \in Nat
      BY <1>2
    <3>. QED BY <3>1, <3>2
  <2>2. ~(k < j) /\ ~(j < k)
    BY <1>3, <1>4, <2>1
  <2>. QED BY <2>1, <2>2
<1>5. ASSUME NEW k \in places PROVE Before(places, k) \in 0 .. Cardinality(places) - 1
  <2>1. Before(places, k) \in Nat /\ Before(places, k) < Cardinality(places)
    BY <1>2
  <2>. QED BY <1>1, <2>1
<1>. QED BY <1>1, <1>4, <1>5

\* Elements picked are elements, as many as the positions.
LEMMA PickedIs ==
  ASSUME NEW n \in Nat, NEW places \in SUBSET (1 .. n), NEW S, NEW X, \A k \in places : S[k] \in X
  PROVE  /\ Cardinality(places) \in Nat
         /\ Field!Picked(S, places) \in [1 .. Cardinality(places) -> X]
<1>. DEFINE m == Cardinality(places)
            place == [k \in places |-> Before(places, k) + 1]
            s == Field!Picked(S, places)
<1>1. /\ IsFiniteSet(places) /\ m \in Nat
      /\ \A k \in places : Before(places, k) \in 0 .. m - 1
      /\ \A k, j \in places : Before(places, k) = Before(places, j) => k = j
  BY BeforeGrows
<1>2. \A i \in 1 .. m : \E k \in places : Before(places, k) = i - 1
  <2>1. place \in Injection(places, 1 .. m)
    <3>1. place \in [places -> 1 .. m]
      BY <1>1
    <3>2. ASSUME NEW k \in places, NEW j \in places, place[k] = place[j] PROVE k = j
      <4>1. place[k] = Before(places, k) + 1 /\ place[j] = Before(places, j) + 1
        OBVIOUS
      <4>2. Before(places, k) \in Int /\ Before(places, j) \in Int
        BY <1>1
      <4>3. Before(places, k) = Before(places, j)
        BY <3>2, <4>1, <4>2
      <4>. QED BY <1>1, <4>3
    <3>. QED BY <3>1, <3>2 DEF Injection, IsInjective
  <2>2. IsFiniteSet(1 .. m) /\ Cardinality(1 .. m) = m
    BY <1>1, FirstPlaces
  <2>3. place \in Surjection(places, 1 .. m)
    BY <1>1, <2>1, <2>2, FS_Injection
  <2>4. \A i \in 1 .. m : \E k \in places : place[k] = i
    BY <2>3 DEF Surjection
  <2>. QED BY <1>1, <2>4
<1>3. s = [i \in 1 .. m |-> S[CHOOSE k \in places : Field!Cardinality({j \in places : j < k}) = i - 1]]
  <2>1. Field!Cardinality(places) = m
    BY FieldSizeIsSize
  <2>. HIDE DEF m
  <2>. QED BY <2>1 DEF Field!Picked
<1>4. ASSUME NEW i \in 1 .. m
      PROVE  (CHOOSE k \in places : Field!Cardinality({j \in places : j < k}) = i - 1) \in places
  <2>1. \A k : Field!Cardinality({j \in places : j < k}) = Before(places, k)
    BY FieldSizeIsSize DEF Before
  <2>2. \E k \in places : Field!Cardinality({j \in places : j < k}) = i - 1
    BY <1>2, <2>1
  <2>. HIDE DEF m
  <2>. QED BY <2>2
<1>. HIDE DEF s, m, place
<1>5. s \in [1 .. m -> X]
  BY <1>3, <1>4
<1>. QED BY <1>1, <1>5 DEF s, m

LEMMA FieldScene ==
  ASSUME FieldGiven
  PROVE  /\ Transmitters \in Nat /\ Receivers \in Nat
         /\ scene.paths \in Seq(FieldPaths)
         /\ scene.scattering \in Seq({p \in FieldPaths : p.id = 6})
         /\ scene.chains \in Seq({p \in FieldPaths : p.id = 6})
         /\ scene.rejected \in Nat /\ settings.cap \in Nat
<1>. DEFINE Between(ids) == [tx : 0 .. Transmitters - 1, rx : 0 .. Receivers - 1, id : ids,
                             field : Int \X Int, axis : {"x", "y"}]
<1>1. /\ scene.paths \in Seq(Between({0, 1, 2, 3, 4, 5, 7}))
      /\ scene.scattering \in Seq(Between({6})) /\ scene.chains \in Seq(Between({6}))
      /\ scene.rejected \in Nat /\ settings.cap \in Nat
  BY SolversAssumption DEF FieldGiven, SolversAssumption, Field!PathsAssumption
<1>2. Transmitters \in Nat /\ Receivers \in Nat
  BY SolversAssumption DEF SolversAssumption, Field!GridFillsReceivers
<1>3. Between({0, 1, 2, 3, 4, 5, 7}) \subseteq FieldPaths /\ Between({6}) \subseteq {p \in FieldPaths : p.id = 6}
  BY DEF FieldPaths
<1>. HIDE DEF Between
<1>4. /\ scene.paths \in Seq(FieldPaths)
      /\ scene.scattering \in Seq({p \in FieldPaths : p.id = 6})
      /\ scene.chains \in Seq({p \in FieldPaths : p.id = 6})
  BY <1>1, <1>3
<1>. QED BY <1>1, <1>2, <1>4

LEMMA FunctionIsSeq ==
  ASSUME NEW n \in Nat, NEW X, NEW s \in [1 .. n -> X]
  PROVE  s \in Seq(X) /\ Len(s) = n
OBVIOUS

LEMMA SeqIsFunction ==
  ASSUME NEW X, NEW s \in Seq(X)
  PROVE  Len(s) \in Nat /\ DOMAIN s = 1 .. Len(s) /\ \A k \in 1 .. Len(s) : s[k] \in X
OBVIOUS

\* A search finds paths of the components searched.
LEMMA FoundIs ==
  ASSUME FieldGiven
  PROVE  Field!Found(settings, scene) \in Seq({p \in FieldPaths : Named(p.id, Field!Searched(settings))})
<1>. DEFINE n == Len(scene.paths)
            places == {k \in DOMAIN scene.paths :
                        \E m \in Field!Searched(settings) : scene.paths[k].id \in Field!Ids(m)}
            X == {p \in FieldPaths : Named(p.id, Field!Searched(settings))}
<1>1. scene.paths \in Seq(FieldPaths)
  BY FieldScene
<1>2. n \in Nat /\ DOMAIN scene.paths = 1 .. n /\ \A k \in 1 .. n : scene.paths[k] \in FieldPaths
  BY <1>1
<1>3. places \in SUBSET (1 .. n)
  BY <1>2
<1>4. \A k \in places : scene.paths[k] \in X
  BY <1>2 DEF Named
<1>0. Field!Picked(scene.paths, places) = Field!Found(settings, scene)
  BY DEF Field!Found
<1>. HIDE DEF n, places, X
<1>7. /\ Cardinality(places) \in Nat
      /\ Field!Picked(scene.paths, places) \in [1 .. Cardinality(places) -> X]
  BY <1>2, <1>3, <1>4, PickedIs
<1>8. Field!Picked(scene.paths, places) \in Seq(X)
  BY <1>7, FunctionIsSeq
<1>. QED BY <1>0, <1>8 DEF X

\* A cap keeps some of them.
LEMMA CappedIs ==
  ASSUME NEW X, NEW S \in Seq(X)
  PROVE  Field!Capped(settings, S) \in Seq(X)
<1>. DEFINE n == Len(S)
            scope(k) == IF settings.scope = "global" THEN 1 .. k
                        ELSE {j \in 1 .. k : S[j].tx = S[k].tx /\ S[j].rx = S[k].rx}
            places == {k \in DOMAIN S : settings.cap = 0 \/ Field!Cardinality(scope(k)) <= settings.cap}
<1>1. n \in Nat /\ places \in SUBSET (1 .. n) /\ \A k \in 1 .. n : S[k] \in X
  OBVIOUS
<1>2. Field!Picked(S, places) = Field!Capped(settings, S)
  BY DEF Field!Capped
<1>. HIDE DEF places, n
<1>5. /\ Cardinality(places) \in Nat
      /\ Field!Picked(S, places) \in [1 .. Cardinality(places) -> X]
  <2>1. \A k \in places : S[k] \in X
    BY <1>1
  <2>. QED BY <1>1, <2>1, PickedIs
<1>6. Field!Picked(S, places) \in Seq(X)
  BY <1>5, FunctionIsSeq
<1>. QED BY <1>2, <1>6

\* Paths of some components become valid rows of these components.
RowsOf(names) == {r \in FieldRows : r.valid /\ Named(r.id, names)}

LEMMA RowIs ==
  ASSUME NEW p \in FieldPaths
  PROVE  Field!Row(p) \in FieldRows /\ Field!Row(p).valid /\ Field!Row(p).id = p.id
<1>1. p.field[1] \in Int /\ p.field[2] \in Int /\ p.tx \in 0 .. Transmitters - 1 /\ p.rx \in 0 .. Receivers - 1 /\ p.id \in 0 .. 7
  BY DEF FieldPaths
<1>2. p.id \in {-1} \cup (0 .. 7)
  BY <1>1
<1>3. p.field[1] * p.field[1] + p.field[2] * p.field[2] \in Nat
  <2>1. \A z \in Int : z * z \in Nat
    OBVIOUS
  <2>2. p.field[1] * p.field[1] \in Nat /\ p.field[2] * p.field[2] \in Nat
    BY <1>1, <2>1
  <2>. QED BY <2>2
<1>. QED BY <1>1, <1>2, <1>3 DEF Field!Row, FieldRows

LEMMA AsRowsIs ==
  ASSUME NEW names, NEW S \in Seq({p \in FieldPaths : Named(p.id, names)})
  PROVE  Field!AsRows(S) \in Seq(RowsOf(names)) /\ Len(Field!AsRows(S)) = Len(S)
<1>. DEFINE n == Len(S)
<1>1. n \in Nat /\ DOMAIN S = 1 .. n /\ \A k \in 1 .. n : S[k] \in FieldPaths /\ Named(S[k].id, names)
  OBVIOUS
<1>2. \A k \in 1 .. n : Field!Row(S[k]) \in RowsOf(names)
  BY <1>1, RowIs DEF RowsOf
<1>. HIDE DEF n
<1>3. Field!AsRows(S) = [k \in 1 .. n |-> Field!Row(S[k])]
  BY <1>1 DEF Field!AsRows
<1>4. Field!AsRows(S) \in [1 .. n -> RowsOf(names)]
  BY <1>2, <1>3
<1>5. Field!AsRows(S) \in Seq(RowsOf(names)) /\ Len(Field!AsRows(S)) = n
  BY <1>1, <1>4, FunctionIsSeq
<1>. QED BY <1>5 DEF n

FieldVectors == [Field!Cells -> [{"x", "y"} -> Int \X Int]]

LEMMA VectorIs ==
  ASSUME NEW S \in Seq(FieldPaths) PROVE Field!VectorField(S) \in FieldVectors
<1>. DEFINE here(c, a) == {k \in DOMAIN S : S[k].id = 2 /\ <<S[k].tx, S[k].rx>> = c /\ S[k].axis = a}
            added(c, a, i) == Field!SumFunctionOnSet([k \in here(c, a) |-> S[k].field[i]], here(c, a))
<1>1. ASSUME NEW c, NEW a, NEW i \in {1, 2} PROVE added(c, a, i) \in Int
  <2>. DEFINE H == here(c, a)  f == [k \in H |-> S[k].field[i]]
  <2>1. Len(S) \in Nat /\ DOMAIN S = 1 .. Len(S) /\ \A k \in 1 .. Len(S) : S[k] \in FieldPaths
    OBVIOUS
  <2>2. H \subseteq 1 .. Len(S)
    BY <2>1
  <2>3. \A k \in H : f[k] \in Int
    BY <2>1, <2>2 DEF FieldPaths
  <2>4. IsFiniteSet(1 .. Len(S))
    BY <2>1, FirstPlaces
  <2>. HIDE DEF H, f
  <2>5. Sum(f, H) \in Int
    BY <2>2, <2>3, <2>4, FS_Subset, SumInt
  <2>. QED BY <2>5, FieldSumIsSum DEF H, f
<1>2. Field!VectorField(S) = [c \in Field!Cells |-> [a \in {"x", "y"} |-> <<added(c, a, 1), added(c, a, 2)>>]]
  BY DEF Field!VectorField
<1>. HIDE DEF added
<1>. QED BY <1>1, <1>2 DEF FieldVectors

-----------------------------------------------------------------------------
(* What a deterministic solve has made, stage by stage                     *)

FieldIntact == rows \in Seq(RowsOf(Field!Searched(settings)))

FieldAccumulated == step \in {"exact", "assemble", "terminal", "returned", "raised"}
FieldAssembled == step \in {"terminal", "returned", "raised"}

BaseGain == Field!Laid(scene, [c \in Field!Cells |-> totals[c].total])
BasePower(n) == Field!Laid(scene, [c \in Field!Cells |-> totals[c].power[Field!Slot(n)]])
FinalGain ==
  IF Field!HasExact /\ ~settings.coherent
  THEN [x \in DOMAIN BaseGain |-> BaseGain[x] - BasePower("diffraction")[x] + Field!Exact[x]]
  ELSE BaseGain
FinalPower ==
  [n \in Field!Exported(settings) |->
     IF n = "diffraction" /\ Field!HasExact THEN Field!Exact ELSE BasePower(n)]

FieldConfigured ==
  /\ FieldGiven /\ truncated \in BOOLEAN
  /\ step \in {"check", "search", "scatter", "blank", "accumulate", "exact", "assemble",
               "terminal", "returned", "refused", "raised"}
  /\ step \notin {"check", "refused"} => Field!Constructible(settings)
  /\ step = "returned" => scene.suffices

FieldBlanked == \A k \in DOMAIN rows : ~rows[k].valid

FieldRowsInv ==
  /\ rows \in Seq(FieldRows)
  /\ step \in {"scatter", "blank"} => FieldIntact
  /\ step = "accumulate" \/ FieldAccumulated => IF scene.suffices THEN FieldIntact ELSE FieldBlanked

FieldCuts ==
  /\ candidates \in Nat
  /\ (step \in {"scatter", "blank", "accumulate"} \/ FieldAccumulated) /\ ~settings.chains =>
         candidates - Len(rows) =
           Len(Field!Found(settings, scene)) + scene.rejected
             - Len(Field!Capped(settings, Field!Found(settings, scene)))
  /\ FieldAssembled => truncated = (settings.cap > 0 /\ Len(rows) < candidates)

FieldTotals ==
  /\ vector = <<>> \/ vector \in FieldVectors
  /\ FieldAccumulated => totals = Field!Accumulated(rows, Field!Mode(settings))

FieldResult ==
  /\ ~FieldAccumulated => result = <<>>
  /\ step = "exact" =>
       result = [gain |-> BaseGain, power |-> [n \in Field!Exported(settings) |-> BasePower(n)],
                 gainWrt |-> result.gainWrt, powerWrt |-> result.powerWrt]
  /\ FieldAccumulated /\ step # "exact" => result.gain = FinalGain /\ result.power = FinalPower

FieldMetadata == FieldAssembled => metadata = Field!Metadata(settings, rows)

FieldInv ==
  FieldConfigured /\ FieldRowsInv /\ FieldCuts /\ FieldTotals /\ FieldResult /\ FieldMetadata

LEMMA FieldInitInv == Field!Init => FieldInv
<1>. SUFFICES ASSUME Field!Init PROVE FieldInv
  OBVIOUS
<1>1. /\ step = "check" /\ FieldGiven
      /\ rows = <<>> /\ vector = <<>> /\ candidates = 0 /\ result = <<>> /\ truncated = FALSE
  BY DEF Field!Init, Field!None, FieldGiven
<1>2. FieldConfigured
  BY <1>1 DEF FieldConfigured
<1>3. FieldRowsInv
  BY <1>1 DEF FieldRowsInv, FieldAccumulated
<1>4. FieldCuts /\ FieldMetadata
  BY <1>1 DEF FieldCuts, FieldMetadata, FieldAccumulated, FieldAssembled
<1>5. FieldTotals /\ FieldResult
  BY <1>1 DEF FieldTotals, FieldResult, FieldAccumulated
<1>. QED BY <1>2, <1>3, <1>4, <1>5 DEF FieldInv

\* What an action that keeps the configuration and the scene keeps.
LEMMA FieldKept ==
  ASSUME UNCHANGED <<settings, scene>>
  PROVE  /\ FieldGiven' <=> FieldGiven
         /\ Field!Constructible(settings)' <=> Field!Constructible(settings)
         /\ Field!Searched(settings)' = Field!Searched(settings)
         /\ Field!Exported(settings)' = Field!Exported(settings)
         /\ Field!Mode(settings)' = Field!Mode(settings)
         /\ Field!Found(settings, scene)' = Field!Found(settings, scene)
         /\ Field!Capped(settings, Field!Found(settings, scene))' = Field!Capped(settings, Field!Found(settings, scene))
         /\ FieldRows' = FieldRows /\ FieldVectors' = FieldVectors
         /\ RowsOf(Field!Searched(settings))' = RowsOf(Field!Searched(settings))
<1>1. Field!Searched(settings)' = Field!Searched(settings)
  BY DEF Field!Searched
<1>2. /\ FieldGiven' <=> FieldGiven
      /\ Field!Constructible(settings)' <=> Field!Constructible(settings)
      /\ Field!Exported(settings)' = Field!Exported(settings)
      /\ Field!Mode(settings)' = Field!Mode(settings)
  BY DEF FieldGiven, Field!Constructible, Field!Exported, Field!Mode, Field!Components
<1>3. Field!Found(settings, scene)' = Field!Found(settings, scene)
  BY DEF Field!Found, Field!Picked
<1>4. Field!Capped(settings, Field!Found(settings, scene))' = Field!Capped(settings, Field!Found(settings, scene))
  BY DEF Field!Capped, Field!Picked
<1>5. FieldRows' = FieldRows /\ FieldVectors' = FieldVectors
  BY DEF FieldRows, FieldVectors, Field!Cells
<1>6. RowsOf(Field!Searched(settings))' = RowsOf(Field!Searched(settings))
  BY DEF RowsOf, Named, Field!Ids, FieldRows
<1>. QED BY <1>1, <1>2, <1>3, <1>4, <1>5, <1>6

LEMMA FieldCheckInv ==
  ASSUME FieldInv, Field!Check PROVE FieldInv'
<1>1. /\ step = "check" /\ step' \in {"search", "refused"} /\ UNCHANGED <<settings, scene>>
      /\ UNCHANGED <<rows, vector, candidates, totals, result, metadata, truncated>>
      /\ step' = "search" => Field!Constructible(settings)
  BY DEF Field!Check
<1>2. FieldConfigured'
  BY <1>1, FieldKept DEF FieldInv, FieldConfigured
<1>3. FieldRowsInv'
  BY <1>1, FieldKept DEF FieldInv, FieldRowsInv, FieldAccumulated
<1>4. FieldCuts' /\ FieldMetadata'
  BY <1>1 DEF FieldInv, FieldCuts, FieldMetadata, FieldAccumulated, FieldAssembled
<1>5. FieldTotals' /\ FieldResult'
  BY <1>1, FieldKept DEF FieldInv, FieldTotals, FieldResult, FieldAccumulated
<1>. QED BY <1>2, <1>3, <1>4, <1>5 DEF FieldInv

LEMMA FieldSearchInv ==
  ASSUME FieldInv, Field!Search PROVE FieldInv'
<1>. DEFINE S == Field!Found(settings, scene)
            C == Field!Capped(settings, S)
            X == {p \in FieldPaths : Named(p.id, Field!Searched(settings))}
            R == RowsOf(Field!Searched(settings))
<1>1. /\ step = "search" /\ step' = "scatter"
      /\ UNCHANGED <<settings, scene, totals, result, metadata, truncated>>
      /\ rows' = Field!AsRows(C) /\ candidates' = Len(S) + scene.rejected
      /\ vector' = IF "diffraction" \in Field!Searched(settings) THEN Field!VectorField(S) ELSE <<>>
  BY DEF Field!Search, Field!None
<1>2. FieldGiven /\ scene.rejected \in Nat /\ S \in Seq(X) /\ C \in Seq(X)
  <2>1. FieldGiven
    BY DEF FieldInv, FieldConfigured
  <2>2. S \in Seq(X)
    BY <2>1, FoundIs
  <2>. HIDE DEF S, X
  <2>. QED BY <2>1, <2>2, FieldScene, CappedIs
<1>3. rows' \in Seq(R) /\ Len(rows') = Len(C)
  <2>. HIDE DEF C
  <2>. QED BY <1>1, <1>2, AsRowsIs
<1>4. S \in Seq(FieldPaths)
  <2>. HIDE DEF S
  <2>1. X \subseteq FieldPaths
    OBVIOUS
  <2>. HIDE DEF X
  <2>. QED BY <1>2, <2>1
<1>5. vector' = <<>> \/ vector' \in FieldVectors
  <2>. HIDE DEF S
  <2>. QED BY <1>1, <1>4, VectorIs
<1>6. R \subseteq FieldRows
  BY DEF RowsOf
<1>7. rows' \in Seq(FieldRows) /\ Len(S) \in Nat /\ Len(C) \in Nat /\ candidates' \in Nat
  <2>. HIDE DEF S, C, X, R
  <2>. QED BY <1>1, <1>2, <1>3, <1>6
<1>. HIDE DEF S, C, X, R
<1>8. FieldConfigured'
  BY <1>1, FieldKept DEF FieldInv, FieldConfigured
<1>9. FieldRowsInv'
  BY <1>1, <1>3, <1>7, FieldKept DEF FieldRowsInv, FieldIntact, FieldAccumulated, R
<1>10. FieldCuts'
  <2>1. S' = S /\ C' = C
    BY <1>1, FieldKept DEF S, C
  <2>2. candidates' - Len(rows') = Len(S) + scene.rejected - Len(C)
    <3>1. candidates' = Len(S) + scene.rejected /\ Len(rows') = Len(C)
      BY <1>1, <1>3
    <3>2. Len(S) \in Nat /\ Len(C) \in Nat /\ scene.rejected \in Nat
      BY <1>2, <1>7
    <3>. QED BY <3>1, <3>2
  <2>. QED BY <1>1, <1>7, <2>1, <2>2 DEF FieldCuts, FieldAccumulated, FieldAssembled, S, C
<1>11. FieldTotals' /\ FieldResult' /\ FieldMetadata'
  BY <1>1, <1>5, FieldKept DEF FieldInv, FieldTotals, FieldResult, FieldMetadata, FieldAccumulated, FieldAssembled
<1>. QED BY <1>8, <1>9, <1>10, <1>11 DEF FieldInv

\* Rows appended are rows.
LEMMA AppendedIs ==
  ASSUME NEW X, NEW a \in Seq(X), NEW b \in Seq(X), NEW c \in Seq(X)
  PROVE  a \o b \o c \in Seq(X) /\ Len(a \o b \o c) = Len(a) + Len(b) + Len(c)
<1>1. a \o b \in Seq(X) /\ Len(a \o b) = Len(a) + Len(b)
  OBVIOUS
<1>. QED BY <1>1

LEMMA FieldScatterInv ==
  ASSUME FieldInv, Field!AppendScattering PROVE FieldInv'
<1>. DEFINE on == "scattering" \in Field!Searched(settings)
            a == IF on THEN Field!AsRows(scene.scattering) ELSE <<>>
            b == Field!AsRows(IF on /\ settings.chains THEN scene.chains ELSE <<>>)
            R == RowsOf(Field!Searched(settings))
            n == IF on THEN Len(scene.scattering) ELSE 0
<1>1. /\ step = "scatter" /\ step' \in {"refused", "blank"}
      /\ UNCHANGED <<settings, scene, vector, totals, result, metadata, truncated>>
      /\ rows' = rows \o a \o b /\ candidates' = candidates + n
  BY DEF Field!AppendScattering
<1>2. rows \in Seq(R) /\ FieldGiven /\ candidates \in Nat
  BY <1>1 DEF FieldInv, FieldRowsInv, FieldIntact, FieldConfigured, FieldCuts
<1>3. ASSUME NEW S \in Seq({p \in FieldPaths : p.id = 6}), on
      PROVE  Field!AsRows(S) \in Seq(R) /\ Len(Field!AsRows(S)) = Len(S)
  <2>1. {p \in FieldPaths : p.id = 6} \subseteq {p \in FieldPaths : Named(p.id, Field!Searched(settings))}
    BY <1>3 DEF Named, Field!Ids
  <2>2. S \in Seq({p \in FieldPaths : Named(p.id, Field!Searched(settings))})
    BY <2>1
  <2>. QED BY <2>2, AsRowsIs
<1>4. Field!AsRows(<<>>) = <<>>
  BY DEF Field!AsRows
<1>5. /\ a \in Seq(R) /\ Len(a) = n /\ n \in Nat
      /\ b \in Seq(R) /\ (~settings.chains => Len(b) = 0)
  <2>1. CASE on
    <3>1. a \in Seq(R) /\ Len(a) = n /\ n \in Nat
      BY <1>2, <1>3, <2>1, FieldScene
    <3>2. CASE settings.chains
      BY <1>2, <1>3, <2>1, <3>1, <3>2, FieldScene
    <3>3. CASE ~settings.chains
      <4>1. b = <<>>
        BY <1>4, <3>3
      <4>. HIDE DEF a, b, R, n
      <4>. QED BY <3>1, <4>1
    <3>. QED BY <3>2, <3>3
  <2>2. CASE ~on
    <3>1. a = <<>> /\ b = <<>> /\ n = 0
      BY <1>4, <2>2
    <3>. HIDE DEF a, b, R, n
    <3>. QED BY <3>1
  <2>. QED BY <2>1, <2>2
<1>6. R \subseteq FieldRows
  BY DEF RowsOf
<1>. HIDE DEF a, b, R, n
<1>7. rows' \in Seq(R) /\ Len(rows') = Len(rows) + Len(a) + Len(b)
  <2>1. rows \o a \o b \in Seq(R) /\ Len(rows \o a \o b) = Len(rows) + Len(a) + Len(b)
    <3>1. rows \in Seq(R) /\ a \in Seq(R) /\ b \in Seq(R)
      BY <1>2, <1>5
    <3>. HIDE DEF on
    <3>. QED BY <3>1, AppendedIs
  <2>. QED BY <1>1, <2>1
<1>8. rows' \in Seq(FieldRows) /\ candidates' \in Nat
  BY <1>1, <1>2, <1>5, <1>6, <1>7
<1>9. FieldConfigured'
  BY <1>1, FieldKept DEF FieldInv, FieldConfigured
<1>10. FieldRowsInv'
  BY <1>1, <1>7, <1>8, FieldKept DEF FieldRowsInv, FieldIntact, FieldAccumulated, R
<1>11. FieldCuts'
  <2>. DEFINE D == Len(Field!Found(settings, scene)) + scene.rejected
                     - Len(Field!Capped(settings, Field!Found(settings, scene)))
  <2>1. D' = D
    BY <1>1, FieldKept
  <2>2. ~settings.chains => candidates - Len(rows) = D
    BY <1>1 DEF FieldInv, FieldCuts
  <2>3. Len(rows) \in Nat
    BY <1>2
  <2>. HIDE DEF D
  <2>4. ~settings.chains => candidates' - Len(rows') = D
    BY <1>1, <1>2, <1>5, <1>7, <2>2, <2>3
  <2>5. ~settings.chains' => (candidates' - Len(rows') = D')
    BY <1>1, <2>1, <2>4
  <2>. QED BY <1>1, <1>8, <2>5 DEF FieldCuts, FieldAccumulated, FieldAssembled, D
<1>12. FieldTotals' /\ FieldResult' /\ FieldMetadata'
  BY <1>1, FieldKept DEF FieldInv, FieldTotals, FieldResult, FieldMetadata, FieldAccumulated, FieldAssembled
<1>. QED BY <1>9, <1>10, <1>11, <1>12 DEF FieldInv

LEMMA BlankedRow ==
  ASSUME NEW T, NEW R, NEW I, NEW N, NEW G, -1 \in I, 0 \in N, 0 \in G
  PROVE  \A r \in [valid : BOOLEAN, tx : T, rx : R, id : I, re : N, im : N, gain : G] :
           [r EXCEPT !.valid = FALSE, !.id = -1, !.gain = 0, !.re = 0, !.im = 0]
             \in [valid : BOOLEAN, tx : T, rx : R, id : I, re : N, im : N, gain : G]
<1>. DEFINE F == [valid : BOOLEAN, tx : T, rx : R, id : I, re : N, im : N, gain : G]
<1>1. \A r \in F : [r EXCEPT !.valid = FALSE] \in F
  OBVIOUS
<1>2. \A r \in F : [r EXCEPT !.id = -1] \in F
  OBVIOUS
<1>3. \A r \in F : [r EXCEPT !.gain = 0] \in F
  OBVIOUS
<1>4. \A r \in F : [r EXCEPT !.re = 0] \in F
  OBVIOUS
<1>5. \A r \in F : [r EXCEPT !.im = 0] \in F
  OBVIOUS
<1>. HIDE DEF F
<1>6. \A r \in F : [r EXCEPT !.valid = FALSE, !.id = -1, !.gain = 0, !.re = 0, !.im = 0] \in F
  BY <1>1, <1>2, <1>3, <1>4, <1>5
<1>. QED BY <1>6 DEF F

LEMMA BlankedFits ==
  \A r \in FieldRows : [r EXCEPT !.valid = FALSE, !.id = -1, !.gain = 0, !.re = 0, !.im = 0] \in FieldRows
<1>1. -1 \in {-1} \cup (0 .. 7)
  OBVIOUS
<1>2. 0 \in Int /\ 0 \in Nat
  OBVIOUS
<1>. QED BY <1>1, <1>2, BlankedRow DEF FieldRows

LEMMA BlankedRows ==
  ASSUME NEW S \in Seq(FieldRows), NEW B,
         B = [k \in DOMAIN S |-> [S[k] EXCEPT !.valid = FALSE, !.id = -1, !.gain = 0, !.re = 0, !.im = 0]]
  PROVE  B \in Seq(FieldRows) /\ Len(B) = Len(S) /\ \A k \in DOMAIN B : ~B[k].valid
<1>1. Len(S) \in Nat /\ DOMAIN S = 1 .. Len(S) /\ \A k \in 1 .. Len(S) : S[k] \in FieldRows
  BY SeqIsFunction
<1>2. \A r \in FieldRows : [r EXCEPT !.valid = FALSE, !.id = -1, !.gain = 0, !.re = 0, !.im = 0] \in FieldRows
  BY BlankedFits
<1>3. B \in [1 .. Len(S) -> FieldRows]
  BY <1>1, <1>2
<1>4. ASSUME NEW k \in DOMAIN B PROVE ~B[k].valid
  <2>1. \A r \in FieldRows : ~[r EXCEPT !.valid = FALSE, !.id = -1, !.gain = 0, !.re = 0, !.im = 0].valid
    BY DEF FieldRows
  <2>. QED BY <1>1, <2>1
<1>. QED BY <1>1, <1>3, <1>4, FunctionIsSeq

LEMMA FieldBlankInv ==
  ASSUME FieldInv, Field!Blank PROVE FieldInv'
<1>1. /\ step = "blank" /\ step' = "accumulate"
      /\ UNCHANGED <<settings, scene, candidates, totals, result, metadata, truncated>>
      /\ scene.suffices => UNCHANGED <<rows, vector>>
      /\ ~scene.suffices => vector' = IF vector = <<>> THEN <<>> ELSE Field!NoVector
  BY DEF Field!Blank, Field!None
<1>2. rows \in Seq(FieldRows) /\ (vector = <<>> \/ vector \in FieldVectors)
  BY DEF FieldInv, FieldRowsInv, FieldTotals
<1>3. rows' \in Seq(FieldRows) /\ Len(rows') = Len(rows) /\ (~scene.suffices => FieldBlanked')
  <2>1. CASE scene.suffices
    BY <1>1, <1>2, <2>1
  <2>2. CASE ~scene.suffices
    BY <1>2, <2>2, BlankedRows DEF Field!Blank, FieldBlanked
  <2>. QED BY <2>1, <2>2
<1>4. vector' = <<>> \/ vector' \in FieldVectors
  <2>1. Field!NoVector \in FieldVectors
    BY DEF Field!NoVector, FieldVectors
  <2>. QED BY <1>1, <1>2, <2>1
<1>5. FieldConfigured'
  BY <1>1, FieldKept DEF FieldInv, FieldConfigured
<1>6. FieldRowsInv'
  <2>1. FieldIntact
    BY <1>1 DEF FieldInv, FieldRowsInv
  <2>2. scene.suffices => FieldIntact'
    BY <1>1, <2>1, FieldKept DEF FieldIntact
  <2>. QED BY <1>1, <1>3, <2>2, FieldKept DEF FieldRowsInv, FieldAccumulated
<1>7. FieldCuts'
  BY <1>1, <1>3, FieldKept DEF FieldInv, FieldCuts, FieldAccumulated, FieldAssembled
<1>8. FieldTotals' /\ FieldResult' /\ FieldMetadata'
  BY <1>1, <1>4, FieldKept DEF FieldInv, FieldTotals, FieldResult, FieldMetadata, FieldAccumulated, FieldAssembled
<1>. QED BY <1>5, <1>6, <1>7, <1>8 DEF FieldInv

\* What an action after the rows are blanked leaves alone.
LEMMA FieldRowsKept ==
  ASSUME FieldInv, UNCHANGED <<settings, scene, rows, vector, candidates>>,
         step = "accumulate" \/ FieldAccumulated, FieldAccumulated',
         step' = "returned" => scene.suffices,
         truncated' \in BOOLEAN
  PROVE  /\ FieldConfigured' /\ FieldRowsInv'
         /\ (vector' = <<>> \/ vector' \in FieldVectors) /\ candidates' \in Nat
         /\ (~settings.chains)' =>
              (candidates - Len(rows) =
                Len(Field!Found(settings, scene)) + scene.rejected
                  - Len(Field!Capped(settings, Field!Found(settings, scene))))'
<1>1. FieldConfigured'
  BY FieldKept DEF FieldInv, FieldConfigured, FieldAccumulated
<1>2. FieldRowsInv'
  <2>1. IF scene.suffices THEN FieldIntact' ELSE FieldBlanked'
    BY FieldKept DEF FieldInv, FieldRowsInv, FieldIntact, FieldBlanked
  <2>. QED BY <2>1, FieldKept DEF FieldInv, FieldRowsInv, FieldAccumulated
<1>3. vector' = <<>> \/ vector' \in FieldVectors
  BY FieldKept DEF FieldInv, FieldTotals
<1>4. /\ candidates' \in Nat
      /\ (~settings.chains)' =>
           (candidates - Len(rows) =
             Len(Field!Found(settings, scene)) + scene.rejected
               - Len(Field!Capped(settings, Field!Found(settings, scene))))'
  BY FieldKept DEF FieldInv, FieldCuts
<1>. QED BY <1>1, <1>2, <1>3, <1>4

LEMMA FieldTotalsKept ==
  ASSUME UNCHANGED <<settings, scene, rows>>
  PROVE  Field!Accumulated(rows, Field!Mode(settings))' = Field!Accumulated(rows, Field!Mode(settings))
<1>1. Field!Mode(settings)' = Field!Mode(settings)
  BY FieldKept
<1>. QED BY <1>1

LEMMA FieldAccumulateInv ==
  ASSUME FieldInv, Field!Accumulate PROVE FieldInv'
<1>1. /\ step = "accumulate" /\ step' = "exact"
      /\ UNCHANGED <<settings, scene, rows, vector, candidates, metadata, truncated>>
      /\ totals' = Field!Accumulated(rows, Field!Mode(settings))
  BY DEF Field!Accumulate
<1>2. /\ FieldConfigured' /\ FieldRowsInv' /\ (vector' = <<>> \/ vector' \in FieldVectors)
      /\ FieldCuts'
  <2>1. FieldAccumulated' /\ ~FieldAssembled' /\ truncated' \in BOOLEAN
    BY <1>1 DEF FieldAccumulated, FieldAssembled, FieldInv, FieldConfigured
  <2>. QED BY <1>1, <2>1, FieldRowsKept DEF FieldCuts
<1>3. FieldTotals'
  BY <1>1, <1>2, FieldTotalsKept DEF FieldTotals
<1>4. FieldResult'
  <2>1. BaseGain' = Field!Laid(scene, [c \in Field!Cells |-> totals'[c].total])
    BY <1>1 DEF BaseGain, Field!Laid, Field!Cells
  <2>2. \A n : BasePower(n)' = Field!Laid(scene, [c \in Field!Cells |-> totals'[c].power[Field!Slot(n)]])
    BY <1>1 DEF BasePower, Field!Laid, Field!Cells, Field!Slot
  <2>3. Field!Exported(settings)' = Field!Exported(settings)
    BY <1>1, FieldKept
  <2>. DEFINE P == [n \in Field!Exported(settings) |-> BasePower(n)']
              g == IF Field!Differentiated THEN Field!Slots ELSE {}
              h == [n \in Field!Exported(settings) |-> IF Field!Differentiated THEN {Field!Slot(n)} ELSE {}]
  <2>4. result' = [gain |-> BaseGain', power |-> P, gainWrt |-> g, powerWrt |-> h]
    BY <2>1, <2>2 DEF Field!Accumulate
  <2>. HIDE DEF g, h
  <2>5. result' = [gain |-> BaseGain', power |-> [n \in Field!Exported(settings)' |-> BasePower(n)'],
                   gainWrt |-> result'.gainWrt, powerWrt |-> result'.powerWrt]
    BY <2>3, <2>4
  <2>. QED BY <1>1, <2>5 DEF FieldResult, FieldAccumulated
<1>5. FieldMetadata'
  BY <1>1 DEF FieldMetadata, FieldAssembled
<1>. QED BY <1>2, <1>3, <1>4, <1>5 DEF FieldInv

\* What is made of the totals is kept with them.
LEMMA FieldMade ==
  ASSUME UNCHANGED <<settings, scene, vector, totals>>
  PROVE  /\ BaseGain' = BaseGain /\ \A n : BasePower(n)' = BasePower(n)
         /\ Field!Exact' = Field!Exact /\ (Field!HasExact' <=> Field!HasExact)
         /\ FinalGain' = FinalGain /\ FinalPower' = FinalPower
<1>1. BaseGain' = BaseGain
  BY DEF BaseGain, Field!Laid, Field!Cells
<1>2. \A n : BasePower(n)' = BasePower(n)
  BY DEF BasePower, Field!Laid, Field!Cells, Field!Slot
<1>3. Field!Exact' = Field!Exact
  BY DEF Field!Exact, Field!Laid, Field!Cells, Field!Square
<1>4. Field!HasExact' <=> Field!HasExact
  BY DEF Field!HasExact, Field!None
<1>5. FinalGain' = FinalGain
  BY <1>1, <1>2, <1>3, <1>4 DEF FinalGain
<1>6. FinalPower' = FinalPower
  BY <1>2, <1>3, <1>4, FieldKept DEF FinalPower
<1>. QED BY <1>1, <1>2, <1>3, <1>4, <1>5, <1>6

LEMMA FieldExactInv ==
  ASSUME FieldInv, Field!ReplaceDiffraction PROVE FieldInv'
<1>1. /\ step = "exact" /\ step' = "assemble"
      /\ UNCHANGED <<settings, scene, rows, vector, candidates, totals, metadata, truncated>>
      /\ result' = IF Field!HasExact THEN Field!ExactDiffraction ELSE result
  BY DEF Field!ReplaceDiffraction
<1>2. /\ FieldConfigured' /\ FieldRowsInv' /\ (vector' = <<>> \/ vector' \in FieldVectors)
      /\ FieldCuts'
  <2>1. FieldAccumulated' /\ ~FieldAssembled' /\ truncated' \in BOOLEAN
    BY <1>1 DEF FieldAccumulated, FieldAssembled, FieldInv, FieldConfigured
  <2>2. step = "accumulate" \/ FieldAccumulated
    BY <1>1 DEF FieldAccumulated
  <2>. QED BY <1>1, <2>1, <2>2, FieldRowsKept DEF FieldCuts
<1>3. FieldTotals'
  BY <1>1, <1>2, FieldTotalsKept DEF FieldInv, FieldTotals, FieldAccumulated
<1>4. result'.gain = FinalGain /\ result'.power = FinalPower
  <2>. DEFINE P == [n \in Field!Exported(settings) |-> BasePower(n)]  a == result.gainWrt  b == result.powerWrt
  <2>1. result = [gain |-> BaseGain, power |-> P, gainWrt |-> a, powerWrt |-> b]
    BY <1>1 DEF FieldInv, FieldResult
  <2>2. CASE ~Field!HasExact
    <3>1. FinalPower = P
      BY <2>2 DEF FinalPower
    <3>2. FinalGain = BaseGain
      BY <2>2 DEF FinalGain
    <3>3. result' = result
      BY <1>1, <2>2
    <3>. HIDE DEF P, a, b
    <3>. QED BY <2>1, <3>1, <3>2, <3>3
  <2>3. CASE Field!HasExact
    <3>1. "diffraction" \in Field!Exported(settings)
      BY DEF Field!Exported
    <3>2. result.power = P /\ result.gain = BaseGain
      <4>. HIDE DEF P, a, b
      <4>. QED BY <2>1
    <3>3. result' = Field!ExactDiffraction
      BY <1>1, <2>3
    <3>4. result'.power = [P EXCEPT !["diffraction"] = Field!Exact]
      <4>. HIDE DEF P, a, b
      <4>. QED BY <2>1, <3>3 DEF Field!ExactDiffraction
    <3>5. [P EXCEPT !["diffraction"] = Field!Exact] = FinalPower
      BY <2>3, <3>1 DEF FinalPower
    <3>6. P["diffraction"] = BasePower("diffraction")
      BY <3>1
    <3>7. result'.gain = IF settings.coherent THEN BaseGain
                         ELSE [x \in DOMAIN BaseGain |-> BaseGain[x] - P["diffraction"][x] + Field!Exact[x]]
      <4>. HIDE DEF P, a, b
      <4>. QED BY <2>1, <3>2, <3>3 DEF Field!ExactDiffraction
    <3>8. result'.gain = FinalGain
      <4>. HIDE DEF P, a, b
      <4>. QED BY <2>3, <3>6, <3>7 DEF FinalGain
    <3>. QED BY <3>4, <3>5, <3>8
  <2>. QED BY <2>2, <2>3
<1>5. FieldResult'
  BY <1>1, <1>4, FieldMade DEF FieldResult, FieldAccumulated
<1>6. FieldMetadata'
  BY <1>1 DEF FieldMetadata, FieldAssembled
<1>. QED BY <1>2, <1>3, <1>5, <1>6 DEF FieldInv

LEMMA FieldAssembleInv ==
  ASSUME FieldInv, Field!Assemble PROVE FieldInv'
<1>1. /\ step = "assemble" /\ step' = "terminal"
      /\ UNCHANGED <<settings, scene, rows, vector, candidates, totals, result>>
      /\ metadata' = Field!Metadata(settings, rows)
      /\ truncated' = (settings.cap > 0 /\ Len(rows) < candidates)
  BY DEF Field!Assemble
<1>2. /\ FieldConfigured' /\ FieldRowsInv' /\ (vector' = <<>> \/ vector' \in FieldVectors)
      /\ FieldCuts'
  <2>1. FieldAccumulated' /\ truncated' \in BOOLEAN
    BY <1>1 DEF FieldAccumulated
  <2>2. step = "accumulate" \/ FieldAccumulated
    BY <1>1 DEF FieldAccumulated
  <2>3. truncated' = (settings.cap > 0 /\ Len(rows) < candidates)'
    BY <1>1
  <2>. QED BY <1>1, <2>1, <2>2, <2>3, FieldRowsKept DEF FieldCuts
<1>3. FieldTotals'
  BY <1>1, <1>2, FieldTotalsKept DEF FieldInv, FieldTotals, FieldAccumulated
<1>4. FieldResult'
  BY <1>1, FieldMade DEF FieldInv, FieldResult, FieldAccumulated
<1>5. FieldMetadata'
  <2>1. Field!Metadata(settings, rows)' = Field!Metadata(settings, rows)
    BY <1>1, FieldKept DEF Field!Metadata, Field!Counts, Field!Components, Field!Ids
  <2>. QED BY <1>1, <2>1 DEF FieldMetadata
<1>. QED BY <1>2, <1>3, <1>4, <1>5 DEF FieldInv

LEMMA FieldTerminalInv ==
  ASSUME FieldInv, Field!TerminalCheck \/ UNCHANGED Field!vars PROVE FieldInv'
<1>1. /\ UNCHANGED <<settings, scene, rows, vector, candidates, totals, result, metadata, truncated>>
      /\ \/ step = "terminal" /\ step' = (IF scene.suffices THEN "returned" ELSE "raised")
         \/ step' = step
  BY DEF Field!TerminalCheck, Field!vars
<1>2. /\ step' = "returned" => scene.suffices
      /\ step' \in {"check", "search", "scatter", "blank", "accumulate", "exact", "assemble",
                    "terminal", "returned", "refused", "raised"}
      /\ FieldAccumulated' <=> FieldAccumulated
      /\ FieldAssembled' <=> FieldAssembled
      /\ step' = "exact" <=> step = "exact"
      /\ \A s \in {"check", "search", "scatter", "blank", "accumulate", "refused"} : step' = s <=> step = s
  BY <1>1 DEF FieldInv, FieldConfigured, FieldAccumulated, FieldAssembled
<1>3. FieldConfigured'
  BY <1>1, <1>2, FieldKept DEF FieldInv, FieldConfigured
<1>4. FieldRowsInv'
  <2>1. (FieldIntact' <=> FieldIntact) /\ (FieldBlanked' <=> FieldBlanked)
    BY <1>1, FieldKept DEF FieldIntact, FieldBlanked
  <2>. QED BY <1>1, <1>2, <2>1, FieldKept DEF FieldInv, FieldRowsInv
<1>5. FieldCuts'
  BY <1>1, <1>2, FieldKept DEF FieldInv, FieldCuts
<1>6. FieldTotals'
  BY <1>1, <1>2, FieldKept, FieldTotalsKept DEF FieldInv, FieldTotals
<1>7. FieldResult'
  BY <1>1, <1>2, FieldKept, FieldMade DEF FieldInv, FieldResult
<1>8. FieldMetadata'
  <2>1. Field!Metadata(settings, rows)' = Field!Metadata(settings, rows)
    BY <1>1, FieldKept DEF Field!Metadata, Field!Counts, Field!Components, Field!Ids
  <2>. QED BY <1>1, <1>2, <2>1 DEF FieldInv, FieldMetadata
<1>. QED BY <1>3, <1>4, <1>5, <1>6, <1>7, <1>8 DEF FieldInv

LEMMA FieldStep ==
  ASSUME FieldInv, [Field!Next]_Field!vars PROVE FieldInv'
BY FieldCheckInv, FieldSearchInv, FieldScatterInv, FieldBlankInv, FieldAccumulateInv, FieldExactInv,
   FieldAssembleInv, FieldTerminalInv DEF Field!Next, Field!Done

LEMMA FieldTypes ==
  ASSUME FieldInv PROVE Field!TypeOK
<1>1. \A k \in DOMAIN rows : rows[k].valid \in BOOLEAN /\ <<rows[k].tx, rows[k].rx>> \in Field!Cells
  <2>1. \A k \in DOMAIN rows : rows[k] \in FieldRows
    BY SeqIsFunction DEF FieldInv, FieldRowsInv
  <2>2. \A r \in FieldRows : r.valid \in BOOLEAN /\ <<r.tx, r.rx>> \in Field!Cells
    BY DEF FieldRows, Field!Cells
  <2>. QED BY <2>1, <2>2
<1>2. result # <<>> => DOMAIN result.power = Field!Exported(settings)
  <2>1. CASE ~FieldAccumulated
    BY <2>1 DEF FieldInv, FieldResult
  <2>2. CASE step = "exact"
    <3>. DEFINE P == [n \in Field!Exported(settings) |-> BasePower(n)]  a == result.gainWrt  b == result.powerWrt
    <3>1. result = [gain |-> BaseGain, power |-> P, gainWrt |-> a, powerWrt |-> b]
      BY <2>2 DEF FieldInv, FieldResult
    <3>2. DOMAIN P = Field!Exported(settings)
      OBVIOUS
    <3>. HIDE DEF P, a, b
    <3>. QED BY <3>1, <3>2
  <2>3. CASE FieldAccumulated /\ step # "exact"
    BY <2>3 DEF FieldInv, FieldResult, FinalPower
  <2>. QED BY <2>1, <2>2, <2>3
<1>3. step \in {"check", "search", "scatter", "blank", "accumulate", "exact", "assemble",
                 "terminal", "returned", "refused", "raised"} /\ candidates \in Nat /\ truncated \in BOOLEAN
      /\ FieldGiven
  BY DEF FieldInv, FieldConfigured, FieldCuts
<1>. QED BY <1>1, <1>2, <1>3 DEF Field!TypeOK, Field!None, FieldGiven

LEMMA FieldCutsReported ==
  ASSUME FieldInv PROVE Field!CutsAreReported
<1>. DEFINE f == Len(Field!Found(settings, scene))
            c == Len(Field!Capped(settings, Field!Found(settings, scene)))
<1>. SUFFICES ASSUME step = "returned", ~settings.chains, settings.cap > 0, c < f PROVE truncated
  BY DEF Field!CutsAreReported
<1>1. /\ truncated = (settings.cap > 0 /\ Len(rows) < candidates)
      /\ candidates - Len(rows) = f + scene.rejected - c /\ candidates \in Nat
  BY DEF FieldInv, FieldCuts, FieldAccumulated, FieldAssembled
<1>2. f \in Nat /\ c \in Nat /\ scene.rejected \in Nat
  <2>1. FieldGiven
    BY DEF FieldInv, FieldConfigured
  <2>. QED BY <2>1, FoundIs, CappedIs, FieldScene, SeqIsFunction
<1>3. Len(rows) \in Nat
  BY SeqIsFunction DEF FieldInv, FieldRowsInv
<1>. HIDE DEF f, c
<1>4. Len(rows) < candidates
  <2>1. candidates - Len(rows) = f + scene.rejected - c
    BY <1>1
  <2>2. candidates \in Int /\ Len(rows) \in Int /\ f \in Int /\ c \in Int /\ scene.rejected \in Nat /\ c < f
    BY <1>1, <1>2, <1>3
  <2>. QED BY <2>1, <2>2
<1>. QED BY <1>1, <1>4

-----------------------------------------------------------------------------
(* What a cell is made of                                                  *)

\* The cells' rows are rows, and their values integers.
LEMMA AtIs ==
  ASSUME rows \in Seq(FieldRows), NEW s, NEW c, NEW name \in {"gain", "re", "im"}
  PROVE  /\ IsFiniteSet(Field!At(rows, s, c)) /\ Field!At(rows, s, c) \subseteq DOMAIN rows
         /\ \A k \in DOMAIN rows : Field!Column(rows, name)[k] \in Int
         /\ IsFiniteSet(DOMAIN rows)
<1>1. Len(rows) \in Nat /\ DOMAIN rows = 1 .. Len(rows) /\ \A k \in 1 .. Len(rows) : rows[k] \in FieldRows
  BY SeqIsFunction
<1>2. IsFiniteSet(DOMAIN rows)
  BY <1>1, FirstPlaces
<1>3. Field!At(rows, s, c) \subseteq DOMAIN rows
  BY DEF Field!At
<1>4. \A r \in FieldRows : r["gain"] \in Int /\ r["re"] \in Int /\ r["im"] \in Int
  BY DEF FieldRows
<1>5. \A k \in DOMAIN rows : Field!Column(rows, name)[k] \in Int
  BY <1>1, <1>4 DEF Field!Column
<1>. QED BY <1>2, <1>3, <1>5, FS_Subset

LEMMA ScatteredIs ==
  ASSUME rows \in Seq(FieldRows), NEW c, NEW name \in {"gain", "re", "im"}
  PROVE  LET f == Field!Scattered(rows, Field!Column(rows, name), c) IN
         /\ f \in [Field!Slots -> Int]
         /\ \A s \in Field!Slots : f[s] = Sum(Field!Column(rows, name), Field!At(rows, s, c))
         /\ \A s \in Field!Slots : Field!At(rows, s, c) = {} => f[s] = 0
<1>. DEFINE v == Field!Column(rows, name)
            f == Field!Scattered(rows, v, c)
<1>1. f = [s \in Field!Slots |-> Sum(v, Field!At(rows, s, c))]
  <2>. HIDE DEF v
  <2>. QED BY FieldSumIsSum DEF Field!Scattered
<1>2. ASSUME NEW s PROVE Sum(v, Field!At(rows, s, c)) \in Int
  <2>1. IsFiniteSet(Field!At(rows, s, c)) /\ \A k \in Field!At(rows, s, c) : v[k] \in Int
    BY AtIs
  <2>. HIDE DEF v
  <2>. QED BY <2>1, SumInt
<1>3. Sum(v, {}) = 0
  <2>. HIDE DEF v
  <2>. QED BY SumPicked, FS_EmptySet
<1>. HIDE DEF v
<1>4. f \in [Field!Slots -> Int]
  BY <1>1, <1>2
<1>5. \A s \in Field!Slots : f[s] = Sum(v, Field!At(rows, s, c))
  BY <1>1
<1>6. \A s \in Field!Slots : Field!At(rows, s, c) = {} => f[s] = 0
  BY <1>3, <1>5
<1>. QED BY <1>4, <1>5, <1>6 DEF v

LEMMA FinalizedIs ==
  ASSUME NEW gain \in [Field!Slots -> Int], NEW re \in [Field!Slots -> Int], NEW im \in [Field!Slots -> Int],
         NEW mode
  PROVE  LET t == Field!Finalized(gain, re, im, mode) IN
         /\ t.power \in [Field!Slots -> Int]
         /\ \A s \in Field!Slots : gain[s] = 0 /\ re[s] = 0 /\ im[s] = 0 => t.power[s] = 0
         /\ ~mode.coherent => t.total = Sum(t.power, Field!Slots)
         /\ mode.coherent =>
              /\ t.field = <<Sum(re, Field!FieldSlots), Sum(im, Field!FieldSlots)>>
              /\ t.total = Field!Square(t.field) + t.power[4]
<1>. DEFINE t == Field!Finalized(gain, re, im, mode)
            p == [s \in Field!Slots |-> IF s \in Field!SquaredSlots(mode) THEN re[s] * re[s] + im[s] * im[s] ELSE gain[s]]
            sum == <<Sum(re, Field!FieldSlots), Sum(im, Field!FieldSlots)>>
<1>1. /\ t.power = p
      /\ t.total = IF mode.coherent THEN sum[1] * sum[1] + sum[2] * sum[2] + p[4] ELSE Sum(p, Field!Slots)
      /\ t.field = IF mode.coherent THEN sum ELSE <<0, 0>>
  <2>1. \A S, f : Field!OverSlots(S, f) = Sum(f, S)
    BY FieldSumIsSum DEF Field!OverSlots
  <2>. QED BY <2>1 DEF Field!Finalized, Field!ScatteringSlot
<1>2. \A s \in Field!Slots : p[s] \in Int
  <2>1. \A s \in Field!Slots : re[s] \in Int /\ im[s] \in Int /\ gain[s] \in Int
    OBVIOUS
  <2>2. \A x, y \in Int : x * x + y * y \in Int
    OBVIOUS
  <2>. QED BY <2>1, <2>2
<1>3. \A s \in Field!Slots : gain[s] = 0 /\ re[s] = 0 /\ im[s] = 0 => p[s] = 0
  OBVIOUS
<1>4. p \in [Field!Slots -> Int]
  <2>1. p = [s \in Field!Slots |-> p[s]]
    OBVIOUS
  <2>. HIDE DEF p
  <2>. QED BY <1>2, <2>1
<1>. HIDE DEF p, t, sum
<1>5. t.power \in [Field!Slots -> Int]
  BY <1>1, <1>4
<1>6. \A s \in Field!Slots : gain[s] = 0 /\ re[s] = 0 /\ im[s] = 0 => t.power[s] = 0
  BY <1>1, <1>3
<1>7. ~mode.coherent => t.total = Sum(t.power, Field!Slots)
  BY <1>1
<1>8. mode.coherent => t.field = sum /\ t.total = Field!Square(t.field) + t.power[4]
  BY <1>1 DEF Field!Square
<1>. QED BY <1>5, <1>6, <1>7, <1>8 DEF t, sum

LEMMA FieldNumbers ==
  /\ Field!Slots = {0, 1, 2, 3, 4, 5} /\ Field!FieldSlots = {0, 1, 2, 3, 5} /\ Field!ScatteringSlot = 4
BY DEF Field!Slots, Field!FieldSlots, Field!ScatteringSlot

\* A cell, slot by slot.
LEMMA CellIs ==
  ASSUME FieldInv, FieldAccumulated, NEW c \in Field!Cells
  PROVE  /\ totals[c].power \in [Field!Slots -> Int]
         /\ \A s \in Field!Slots : Field!At(rows, s, c) = {} => totals[c].power[s] = 0
         /\ ~settings.coherent => totals[c].total = Sum(totals[c].power, Field!Slots)
         /\ settings.coherent =>
              /\ totals[c].total = Field!Square(totals[c].field) + totals[c].power[4]
              /\ totals[c].field =
                   <<Sum(Field!Scattered(rows, Field!Column(rows, "re"), c), Field!FieldSlots),
                     Sum(Field!Scattered(rows, Field!Column(rows, "im"), c), Field!FieldSlots)>>
<1>. DEFINE g == Field!Scattered(rows, Field!Column(rows, "gain"), c)
            r == Field!Scattered(rows, Field!Column(rows, "re"), c)
            i == Field!Scattered(rows, Field!Column(rows, "im"), c)
            mode == Field!Mode(settings)
<1>1. totals[c] = Field!Finalized(g, r, i, mode)
  BY DEF FieldInv, FieldTotals, Field!Accumulated
<1>2. rows \in Seq(FieldRows)
  BY DEF FieldInv, FieldRowsInv
<1>3. g \in [Field!Slots -> Int] /\ r \in [Field!Slots -> Int] /\ i \in [Field!Slots -> Int]
  BY <1>2, ScatteredIs
<1>4. \A s \in Field!Slots : Field!At(rows, s, c) = {} => g[s] = 0 /\ r[s] = 0 /\ i[s] = 0
  BY <1>2, ScatteredIs
<1>5. mode.coherent = settings.coherent
  BY DEF Field!Mode
<1>. HIDE DEF g, r, i, mode
<1>6. /\ totals[c].power \in [Field!Slots -> Int]
      /\ \A s \in Field!Slots : g[s] = 0 /\ r[s] = 0 /\ i[s] = 0 => totals[c].power[s] = 0
      /\ ~mode.coherent => totals[c].total = Sum(totals[c].power, Field!Slots)
      /\ mode.coherent =>
           /\ totals[c].field = <<Sum(r, Field!FieldSlots), Sum(i, Field!FieldSlots)>>
           /\ totals[c].total = Field!Square(totals[c].field) + totals[c].power[4]
  BY <1>1, <1>3, FinalizedIs
<1>. QED BY <1>4, <1>5, <1>6 DEF r, i

Names == {"los", "reflection", "diffraction", "transmission", "scattering", "coupled"}

LEMMA SlotsOfNames ==
  /\ \A n \in Names : Field!Slot(n) \in Field!Slots
  /\ \A id \in 0 .. 7, n \in Names : id \in Field!Ids(n) => Field!SlotOf(id) = Field!Slot(n)
  /\ \A m, n \in Names : Field!Slot(m) = Field!Slot(n) => m = n
  /\ /\ Field!Slot("los") = 0 /\ Field!Slot("reflection") = 1 /\ Field!Slot("diffraction") = 2
     /\ Field!Slot("transmission") = 3 /\ Field!Slot("scattering") = 4 /\ Field!Slot("coupled") = 5
<1>1. /\ Field!Slot("los") = 0 /\ Field!Slot("reflection") = 1 /\ Field!Slot("diffraction") = 2
      /\ Field!Slot("transmission") = 3 /\ Field!Slot("scattering") = 4 /\ Field!Slot("coupled") = 5
  BY DEF Field!Slot
<1>2. /\ Field!Ids("los") = {0} /\ Field!Ids("reflection") = {1} /\ Field!Ids("diffraction") = {2}
      /\ Field!Ids("transmission") = {5} /\ Field!Ids("scattering") = {6} /\ Field!Ids("coupled") = {3, 4, 7}
  BY DEF Field!Ids
<1>3. /\ Field!SlotOf(0) = 0 /\ Field!SlotOf(1) = 1 /\ Field!SlotOf(2) = 2 /\ Field!SlotOf(5) = 3
      /\ Field!SlotOf(6) = 4 /\ \A id \in {3, 4, 7} : Field!SlotOf(id) = 5
  BY DEF Field!SlotOf, Field!ScatteringSlot
<1>4. \A n \in Names : Field!Slot(n) \in Field!Slots
  BY <1>1 DEF Names, Field!Slots
<1>5. \A id \in 0 .. 7, n \in Names : id \in Field!Ids(n) => Field!SlotOf(id) = Field!Slot(n)
  BY <1>1, <1>2, <1>3 DEF Names
<1>6. \A m, n \in Names : Field!Slot(m) = Field!Slot(n) => m = n
  BY <1>1 DEF Names
<1>. QED BY <1>1, <1>4, <1>5, <1>6

\* What is searched is exported.
LEMMA SearchedIsExported ==
  ASSUME Field!Constructible(settings)
  PROVE  /\ Field!Searched(settings) \subseteq Field!Exported(settings)
         /\ Field!Exported(settings) \subseteq Names
         /\ {"los", "reflection", "diffraction"} \subseteq Field!Exported(settings)
BY DEF Field!Constructible, Field!Searched, Field!Exported, Field!Components, Names

\* Rows of a result that is returned.
LEMMA ReturnedRows ==
  ASSUME FieldInv, step = "returned"
  PROVE  /\ Field!Constructible(settings) /\ rows \in Seq(FieldRows) /\ FieldAccumulated /\ FieldAssembled
         /\ \A k \in DOMAIN rows :
              /\ rows[k].valid /\ rows[k].id \in 0 .. 7
              /\ \E n \in Field!Exported(settings) : rows[k].id \in Field!Ids(n)
<1>1. Field!Constructible(settings) /\ scene.suffices /\ FieldAccumulated /\ FieldAssembled
  BY DEF FieldInv, FieldConfigured, FieldAccumulated, FieldAssembled
<1>2. rows \in Seq(FieldRows) /\ rows \in Seq(RowsOf(Field!Searched(settings)))
  BY <1>1 DEF FieldInv, FieldRowsInv, FieldIntact
<1>3. ASSUME NEW k \in DOMAIN rows
      PROVE  /\ rows[k].valid /\ rows[k].id \in 0 .. 7
             /\ \E n \in Field!Exported(settings) : rows[k].id \in Field!Ids(n)
  <2>1. rows[k] \in RowsOf(Field!Searched(settings))
    BY <1>2, SeqIsFunction
  <2>2. PICK n \in Field!Searched(settings) : rows[k].id \in Field!Ids(n)
    BY <2>1 DEF RowsOf, Named
  <2>3. n \in Field!Exported(settings) /\ n \in Names
    BY <1>1, SearchedIsExported
  <2>4. \A m \in Names : Field!Ids(m) \subseteq 0 .. 7
    BY DEF Names, Field!Ids
  <2>. QED BY <2>1, <2>2, <2>3, <2>4 DEF RowsOf
<1>. QED BY <1>1, <1>2, <1>3

\* A component that is not exported has no row, and so no power.
LEMMA UnexportedIsNothing ==
  ASSUME FieldInv, step = "returned", NEW n \in Names, n \notin Field!Exported(settings), NEW c \in Field!Cells
  PROVE  totals[c].power[Field!Slot(n)] = 0
<1>1. Field!At(rows, Field!Slot(n), c) = {}
  <2>1. SUFFICES ASSUME NEW k \in DOMAIN rows, Field!SlotOf(rows[k].id) = Field!Slot(n) PROVE FALSE
    BY DEF Field!At
  <2>2. PICK m \in Field!Exported(settings) : rows[k].id \in Field!Ids(m)
    BY ReturnedRows
  <2>3. m \in Names /\ rows[k].id \in 0 .. 7
    BY ReturnedRows, SearchedIsExported
  <2>4. Field!SlotOf(rows[k].id) = Field!Slot(m)
    BY <2>2, <2>3, SlotsOfNames
  <2>5. m = n
    BY <2>1, <2>3, <2>4, SlotsOfNames
  <2>. QED BY <2>2, <2>5
<1>2. Field!Slot(n) \in Field!Slots /\ FieldAccumulated
  BY SlotsOfNames, ReturnedRows
<1>. QED BY <1>1, <1>2, CellIs

\* The power of a name, nothing if it is not exported.
PowerIn(g, n) == IF n \in Field!Exported(settings) THEN g[n] ELSE 0

LEMMA SumOverNames ==
  ASSUME Field!Constructible(settings), NEW g, \A n \in Field!Exported(settings) : g[n] \in Int
  PROVE  Sum(g, Field!Exported(settings)) =
           PowerIn(g, "los") + PowerIn(g, "reflection") + PowerIn(g, "diffraction")
           + PowerIn(g, "transmission") + PowerIn(g, "scattering") + PowerIn(g, "coupled")
<1>. DEFINE h == [n \in Names |-> PowerIn(g, n)]
            E == Field!Exported(settings)
<1>1. E \subseteq Names /\ IsFiniteSet(Names)
  <2>1. IsFiniteSet({"los"}) /\ IsFiniteSet({"reflection"}) /\ IsFiniteSet({"diffraction"})
        /\ IsFiniteSet({"transmission"}) /\ IsFiniteSet({"scattering"}) /\ IsFiniteSet({"coupled"})
    BY FS_Singleton
  <2>2. IsFiniteSet({"los"} \cup {"reflection"} \cup {"diffraction"} \cup {"transmission"} \cup {"scattering"} \cup {"coupled"})
    BY <2>1, FS_Union
  <2>3. {"los"} \cup {"reflection"} \cup {"diffraction"} \cup {"transmission"} \cup {"scattering"} \cup {"coupled"} = Names
    BY DEF Names
  <2>. QED BY <2>2, <2>3, SearchedIsExported
<1>2. /\ \A n \in E : g[n] \in Int /\ h[n] = g[n]
      /\ \A n \in Names \ E : h[n] = 0
      /\ \A n \in Names : h[n] \in Int
  BY <1>1 DEF PowerIn
<1>3. \A n \in Names : h[n] = PowerIn(g, n)
  OBVIOUS
<1>. HIDE DEF h, E
<1>4. Sum(h, Names) = Sum(g, E)
  BY <1>1, <1>2, SumWithin
<1>5. Sum(h, Names) = h["los"] + h["reflection"] + h["diffraction"] + h["transmission"] + h["scattering"] + h["coupled"]
  <2>. DEFINE e == <<"los", "reflection", "diffraction", "transmission", "scattering", "coupled">>
  <2>1. /\ e[1] = "los" /\ e[2] = "reflection" /\ e[3] = "diffraction"
        /\ e[4] = "transmission" /\ e[5] = "scattering" /\ e[6] = "coupled"
    OBVIOUS
  <2>2. (\A k, l \in 1 .. 6 : k # l => e[k] # e[l]) /\ (\A k \in 1 .. 6 : e[k] \in Names)
        /\ {e[1], e[2], e[3], e[4], e[5], e[6]} = Names
    BY DEF Names
  <2>. HIDE DEF e
  <2>3. \A k \in 1 .. 6 : h[e[k]] \in Int
    BY <1>2, <2>2
  <2>4. Sum(h, {e[1], e[2], e[3], e[4], e[5], e[6]})
          = h[e[1]] + h[e[2]] + h[e[3]] + h[e[4]] + h[e[5]] + h[e[6]]
    BY <2>2, <2>3, SumOfSix, Zenon
  <2>. QED BY <2>1, <2>2, <2>4
<1>6. {"los", "reflection", "diffraction", "transmission", "scattering", "coupled"} \subseteq Names
  BY DEF Names
<1>. QED BY <1>3, <1>4, <1>5, <1>6 DEF E

\* The sum of the slots of a cell.
LEMMA SumOverSlots ==
  ASSUME NEW p \in [Field!Slots -> Int]
  PROVE  Sum(p, Field!Slots) = p[0] + p[1] + p[2] + p[3] + p[4] + p[5]
<1>. DEFINE e == <<0, 1, 2, 3, 4, 5>>
<1>1. e[1] = 0 /\ e[2] = 1 /\ e[3] = 2 /\ e[4] = 3 /\ e[5] = 4 /\ e[6] = 5
  OBVIOUS
<1>2. /\ \A k, l \in 1 .. 6 : k # l => e[k] # e[l]
      /\ \A k \in 1 .. 6 : e[k] \in Field!Slots
      /\ {e[1], e[2], e[3], e[4], e[5], e[6]} = Field!Slots
  BY FieldNumbers
<1>. HIDE DEF e
<1>3. \A k \in 1 .. 6 : p[e[k]] \in Int
  BY <1>2
<1>4. Sum(p, {e[1], e[2], e[3], e[4], e[5], e[6]})
        = p[e[1]] + p[e[2]] + p[e[3]] + p[e[4]] + p[e[5]] + p[e[6]]
  BY <1>2, <1>3, SumOfSix, Zenon
<1>. QED BY <1>1, <1>2, <1>4

-----------------------------------------------------------------------------
(* What a deterministic solve returns                                      *)

\* The cell of a place of the result.
CellOf(x) == IF scene.receivers = "grid" THEN <<x[1], x[3] * GridShape[2] + x[2]>> ELSE x
Places ==
  IF scene.receivers = "grid"
  THEN (0 .. Transmitters - 1) \X (0 .. GridShape[2] - 1) \X (0 .. GridShape[1] - 1)
  ELSE Field!Cells

LEMMA InGrid ==
  ASSUME NEW m \in Nat, NEW n \in Nat, NEW a \in 0 .. n - 1, NEW b \in 0 .. m - 1
  PROVE  b * n + a \in 0 .. m * n - 1
<1>. DEFINE d == m - b - 1  u == b * n  v == d * n  w == m * n
<1>1. d \in Nat /\ b \in Nat /\ a \in Nat /\ a < n
  OBVIOUS
<1>2. u \in Nat /\ v \in Nat /\ w \in Int
  <2>1. \A i, j \in Nat : i * j \in Nat
    OBVIOUS
  <2>. HIDE DEF d
  <2>. QED BY <1>1, <2>1
<1>3. w = u + v + n
  <2>1. m = b + d + 1
    OBVIOUS
  <2>. HIDE DEF d
  <2>2. (b + d + 1) * n = b * n + d * n + n
    BY <1>1
  <2>. QED BY <2>1, <2>2
<1>. HIDE DEF d, u, v, w
<1>4. u + a \in 0 .. w - 1
  BY <1>1, <1>2, <1>3
<1>. QED BY <1>4 DEF u, w

LEMMA CellIsCell ==
  ASSUME NEW x \in Places PROVE CellOf(x) \in Field!Cells
<1>1. CASE scene.receivers = "grid"
  <2>1. /\ GridShape[1] \in Nat /\ GridShape[2] \in Nat /\ GridShape[1] * GridShape[2] = Receivers
    BY SolversAssumption DEF SolversAssumption, Field!GridFillsReceivers
  <2>2. x[1] \in 0 .. Transmitters - 1 /\ x[2] \in 0 .. GridShape[2] - 1 /\ x[3] \in 0 .. GridShape[1] - 1
    BY <1>1 DEF Places
  <2>3. x[3] * GridShape[2] + x[2] \in 0 .. Receivers - 1
    BY <2>1, <2>2, InGrid
  <2>. QED BY <1>1, <2>2, <2>3 DEF CellOf, Field!Cells
<1>2. CASE scene.receivers # "grid"
  BY <1>2 DEF CellOf, Places
<1>. QED BY <1>1, <1>2

LEMMA LaidIs ==
  ASSUME NEW f, DOMAIN f = Field!Cells
  PROVE  /\ DOMAIN Field!Laid(scene, f) = Places
         /\ \A x \in Places : Field!Laid(scene, f)[x] = f[CellOf(x)]
BY DEF Field!Laid, Places, CellOf

LEMMA ExactIs ==
  ASSUME FieldInv, Field!HasExact
  PROVE  \A x \in Places : Field!Exact[x] \in Int
<1>. DEFINE e == [c \in Field!Cells |-> Field!Square(vector[c]["x"]) + Field!Square(vector[c]["y"])]
<1>1. vector \in FieldVectors
  BY DEF FieldInv, FieldTotals, Field!HasExact, Field!None
<1>2. ASSUME NEW c \in Field!Cells PROVE e[c] \in Int
  <2>1. vector[c]["x"] \in Int \X Int /\ vector[c]["y"] \in Int \X Int
    BY <1>1 DEF FieldVectors
  <2>2. \A z \in Int \X Int : Field!Square(z) \in Int
    <3>1. \A y, z \in Int : y * y + z * z \in Int
      OBVIOUS
    <3>. QED BY <3>1 DEF Field!Square
  <2>3. \A y, z \in Int : y + z \in Int
    OBVIOUS
  <2>4. Field!Square(vector[c]["x"]) \in Int /\ Field!Square(vector[c]["y"]) \in Int
    BY <2>1, <2>2
  <2>. QED BY <2>3, <2>4
<1>3. DOMAIN e = Field!Cells /\ Field!Exact = Field!Laid(scene, e)
  BY DEF Field!Exact
<1>. HIDE DEF e
<1>. QED BY <1>2, <1>3, LaidIs, CellIsCell

\* The totals and powers of a result, place by place.
LEMMA PlacesOfResult ==
  ASSUME FieldInv, step = "returned"
  PROVE  /\ DOMAIN result.gain = Places /\ DOMAIN result.power = Field!Exported(settings)
         /\ \A x \in Places :
              /\ result.gain[x] =
                   IF Field!HasExact /\ ~settings.coherent
                   THEN totals[CellOf(x)].total - totals[CellOf(x)].power[2] + Field!Exact[x]
                   ELSE totals[CellOf(x)].total
              /\ \A n \in Field!Exported(settings) :
                   result.power[n][x] = IF n = "diffraction" /\ Field!HasExact THEN Field!Exact[x]
                                        ELSE totals[CellOf(x)].power[Field!Slot(n)]
<1>1. result.gain = FinalGain /\ result.power = FinalPower
  BY ReturnedRows DEF FieldInv, FieldResult
<1>2. DOMAIN BaseGain = Places /\ \A x \in Places : BaseGain[x] = totals[CellOf(x)].total
  <2>. DEFINE f == [c \in Field!Cells |-> totals[c].total]
  <2>1. DOMAIN f = Field!Cells /\ \A c \in Field!Cells : f[c] = totals[c].total
    OBVIOUS
  <2>2. BaseGain = Field!Laid(scene, f)
    BY DEF BaseGain
  <2>. HIDE DEF f
  <2>. QED BY <2>1, <2>2, LaidIs, CellIsCell
<1>3. ASSUME NEW n PROVE \A x \in Places : BasePower(n)[x] = totals[CellOf(x)].power[Field!Slot(n)]
  <2>. DEFINE f == [c \in Field!Cells |-> totals[c].power[Field!Slot(n)]]
  <2>1. DOMAIN f = Field!Cells /\ \A c \in Field!Cells : f[c] = totals[c].power[Field!Slot(n)]
    OBVIOUS
  <2>2. BasePower(n) = Field!Laid(scene, f)
    BY DEF BasePower
  <2>. HIDE DEF f
  <2>. QED BY <2>1, <2>2, LaidIs, CellIsCell
<1>4. Field!Slot("diffraction") = 2
  BY SlotsOfNames
<1>5. DOMAIN FinalGain = Places /\ DOMAIN FinalPower = Field!Exported(settings)
  BY <1>2 DEF FinalGain, FinalPower
<1>6. ASSUME NEW x \in Places
      PROVE  FinalGain[x] = IF Field!HasExact /\ ~settings.coherent
                            THEN totals[CellOf(x)].total - totals[CellOf(x)].power[2] + Field!Exact[x]
                            ELSE totals[CellOf(x)].total
  <2>1. BaseGain[x] = totals[CellOf(x)].total /\ BasePower("diffraction")[x] = totals[CellOf(x)].power[2]
    BY <1>2, <1>3, <1>4
  <2>. QED BY <1>2, <2>1 DEF FinalGain
<1>7. ASSUME NEW x \in Places, NEW n \in Field!Exported(settings)
      PROVE  FinalPower[n][x] = IF n = "diffraction" /\ Field!HasExact THEN Field!Exact[x]
                                ELSE totals[CellOf(x)].power[Field!Slot(n)]
  BY <1>3 DEF FinalPower
<1>. QED BY <1>1, <1>5, <1>6, <1>7

\* The power of a component at a place, nothing for one that is not exported.
LEMMA PowerOfName ==
  ASSUME FieldInv, step = "returned", NEW x \in Places, NEW n \in Names,
         NEW g, \A m \in Field!Exported(settings) : g[m] = result.power[m][x]
  PROVE  PowerIn(g, n) = IF n = "diffraction" /\ Field!HasExact THEN Field!Exact[x]
                         ELSE totals[CellOf(x)].power[Field!Slot(n)]
<1>1. CASE n \in Field!Exported(settings)
  BY <1>1, PlacesOfResult DEF PowerIn
<1>2. CASE n \notin Field!Exported(settings)
  <2>1. n # "diffraction"
    BY <1>2, ReturnedRows, SearchedIsExported
  <2>2. totals[CellOf(x)].power[Field!Slot(n)] = 0
    BY <1>2, CellIsCell, UnexportedIsNothing
  <2>. QED BY <1>2, <2>1, <2>2 DEF PowerIn
<1>. QED BY <1>1, <1>2

LEMMA FieldIncoherent ==
  ASSUME FieldInv PROVE Field!IncoherentTotalsAreSums
<1>. DEFINE g(x) == [n \in DOMAIN result.power |-> result.power[n][x]]
<1>. SUFFICES ASSUME step = "returned", ~settings.coherent, NEW x \in DOMAIN result.gain
              PROVE  result.gain[x] = Field!SumFunctionOnSet(g(x), DOMAIN result.power)
  BY DEF Field!IncoherentTotalsAreSums
<1>. DEFINE E == Field!Exported(settings)
            p == totals[CellOf(x)].power
            e == IF Field!HasExact THEN Field!Exact[x] ELSE p[2]
            h == g(x)
            t == totals[CellOf(x)].total
            s == Sum(h, E)
<1>1. x \in Places /\ DOMAIN result.power = E /\ FieldAccumulated /\ Field!Constructible(settings)
  BY PlacesOfResult, ReturnedRows
<1>2. CellOf(x) \in Field!Cells
  BY <1>1, CellIsCell
<1>3. p \in [Field!Slots -> Int] /\ t = Sum(p, Field!Slots)
  BY <1>1, <1>2, CellIs
<1>4. p[0] \in Int /\ p[1] \in Int /\ p[2] \in Int /\ p[3] \in Int /\ p[4] \in Int /\ p[5] \in Int
  BY <1>3 DEF Field!Slots
<1>5. t = p[0] + p[1] + p[2] + p[3] + p[4] + p[5]
  BY <1>3, SumOverSlots
<1>6. e \in Int
  BY <1>1, <1>4, ExactIs
<1>7. \A n \in E : h[n] = result.power[n][x]
  BY <1>1
<1>8. ASSUME NEW n \in E PROVE h[n] \in Int
  <2>1. h[n] = IF n = "diffraction" /\ Field!HasExact THEN Field!Exact[x] ELSE p[Field!Slot(n)]
    BY <1>1, <1>7, PlacesOfResult
  <2>2. p[Field!Slot(n)] \in Int
    <3>1. Field!Slot(n) \in Field!Slots
      BY <1>1, SearchedIsExported, SlotsOfNames
    <3>. QED BY <1>3, <3>1
  <2>. QED BY <1>6, <2>1, <2>2
<1>9. /\ PowerIn(h, "los") = p[0] /\ PowerIn(h, "reflection") = p[1] /\ PowerIn(h, "diffraction") = e
      /\ PowerIn(h, "transmission") = p[3] /\ PowerIn(h, "scattering") = p[4] /\ PowerIn(h, "coupled") = p[5]
  <2>1. {"los", "reflection", "diffraction", "transmission", "scattering", "coupled"} \subseteq Names
    BY DEF Names
  <2>. HIDE DEF h
  <2>2. \A n \in Names : PowerIn(h, n) = IF n = "diffraction" /\ Field!HasExact THEN Field!Exact[x]
                                         ELSE totals[CellOf(x)].power[Field!Slot(n)]
    BY <1>1, <1>7, PowerOfName
  <2>. QED BY <2>1, <2>2, SlotsOfNames
<1>10. s = p[0] + p[1] + e + p[3] + p[4] + p[5]
  <2>. HIDE DEF h, e, p
  <2>1. s = PowerIn(h, "los") + PowerIn(h, "reflection") + PowerIn(h, "diffraction")
             + PowerIn(h, "transmission") + PowerIn(h, "scattering") + PowerIn(h, "coupled")
    BY <1>1, <1>8, SumOverNames
  <2>. QED BY <1>9, <2>1
<1>11. result.gain[x] = IF Field!HasExact THEN t - p[2] + e ELSE t
  BY <1>1, PlacesOfResult
<1>12. ~Field!HasExact => e = p[2]
  OBVIOUS
<1>13. Field!SumFunctionOnSet(h, DOMAIN result.power) = s
  BY <1>1, FieldSumIsSum
<1>. HIDE DEF h, e, p, t, s
<1>14. result.gain[x] = s
  <2>1. CASE Field!HasExact
    BY <1>4, <1>5, <1>6, <1>10, <1>11, <2>1
  <2>2. CASE ~Field!HasExact
    BY <1>5, <1>10, <1>11, <1>12, <2>2
  <2>. QED BY <2>1, <2>2
<1>. QED BY <1>13, <1>14 DEF h

LEMMA FieldCoherent ==
  ASSUME FieldInv PROVE Field!ScatteringFoldsAsPower
<1>. DEFINE f == [c \in Field!Cells |-> Field!Square(totals[c].field)]
            w(x) == IF "scattering" \in DOMAIN result.power THEN result.power["scattering"][x] ELSE 0
<1>. SUFFICES ASSUME step = "returned", settings.coherent, NEW x \in DOMAIN result.gain
              PROVE  result.gain[x] = Field!Laid(scene, f)[x] + w(x)
  BY DEF Field!ScatteringFoldsAsPower
<1>1. x \in Places /\ DOMAIN result.power = Field!Exported(settings) /\ FieldAccumulated
  BY PlacesOfResult, ReturnedRows
<1>2. CellOf(x) \in Field!Cells
  BY <1>1, CellIsCell
<1>3. totals[CellOf(x)].total = Field!Square(totals[CellOf(x)].field) + totals[CellOf(x)].power[4]
  BY <1>1, <1>2, CellIs
<1>4. result.gain[x] = totals[CellOf(x)].total
  BY <1>1, PlacesOfResult
<1>5. Field!Laid(scene, f)[x] = Field!Square(totals[CellOf(x)].field)
  <2>1. DOMAIN f = Field!Cells /\ \A c \in Field!Cells : f[c] = Field!Square(totals[c].field)
    OBVIOUS
  <2>. HIDE DEF f
  <2>. QED BY <1>1, <1>2, <2>1, LaidIs
<1>6. w(x) = totals[CellOf(x)].power[4]
  <2>1. CASE "scattering" \in Field!Exported(settings)
    <3>1. result.power["scattering"][x] = totals[CellOf(x)].power[Field!Slot("scattering")]
      BY <1>1, <2>1, PlacesOfResult
    <3>. QED BY <1>1, <2>1, <3>1, SlotsOfNames
  <2>2. CASE "scattering" \notin Field!Exported(settings)
    <3>1. "scattering" \in Names
      BY DEF Names
    <3>2. totals[CellOf(x)].power[Field!Slot("scattering")] = 0
      BY <1>2, <2>2, <3>1, UnexportedIsNothing
    <3>. QED BY <1>1, <2>2, <3>2, SlotsOfNames
  <2>. QED BY <2>1, <2>2
<1>. QED BY <1>3, <1>4, <1>5, <1>6

LEMMA FieldOfItsPaths ==
  ASSUME FieldInv PROVE Field!FieldIsOfItsPaths
<1>. DEFINE here(c) == {k \in DOMAIN rows : <<rows[k].tx, rows[k].rx>> = c /\ rows[k].id # 6}
<1>. SUFFICES ASSUME step = "returned", settings.coherent, NEW c \in Field!Cells
              PROVE  totals[c].field =
                       <<Field!SumFunctionOnSet(Field!Column(rows, "re"), here(c)),
                         Field!SumFunctionOnSet(Field!Column(rows, "im"), here(c))>>
  BY DEF Field!FieldIsOfItsPaths
<1>1. rows \in Seq(FieldRows) /\ FieldAccumulated /\ \A k \in DOMAIN rows : rows[k].valid /\ rows[k].id \in 0 .. 7
  BY ReturnedRows
<1>2. totals[c].field =
        <<Sum(Field!Scattered(rows, Field!Column(rows, "re"), c), Field!FieldSlots),
          Sum(Field!Scattered(rows, Field!Column(rows, "im"), c), Field!FieldSlots)>>
  BY <1>1, CellIs
<1>. DEFINE H == here(c)  kind == [k \in H |-> Field!SlotOf(rows[k].id)]
<1>3. \A i \in 0 .. 7 : /\ i # 6 => Field!SlotOf(i) \in Field!FieldSlots
                        /\ Field!SlotOf(i) \in Field!FieldSlots => i # 6
  BY FieldNumbers DEF Field!SlotOf, Field!ScatteringSlot
<1>4. /\ \A k \in H : kind[k] \in Field!FieldSlots
      /\ \A s \in Field!FieldSlots : {k \in H : kind[k] = s} = Field!At(rows, s, c)
  BY <1>1, <1>3 DEF Field!At
<1>5. H \subseteq DOMAIN rows
  OBVIOUS
<1>6. IsFiniteSet(Field!FieldSlots) /\ Field!FieldSlots \subseteq Field!Slots
  <2>1. Field!FieldSlots \subseteq 0 .. 5 /\ Field!FieldSlots \subseteq Field!Slots
    BY FieldNumbers
  <2>2. 0 \in Int /\ 5 \in Int
    OBVIOUS
  <2>3. IsFiniteSet(0 .. 5)
    BY <2>2, FS_Interval, Zenon
  <2>. QED BY <2>1, <2>3, FS_Subset
<1>. HIDE DEF H, kind
<1>7. ASSUME NEW name \in {"re", "im"}
      PROVE  Sum(Field!Scattered(rows, Field!Column(rows, name), c), Field!FieldSlots)
               = Sum(Field!Column(rows, name), H)
  <2>. DEFINE v == Field!Column(rows, name)
              f == Field!Scattered(rows, v, c)
              kinds == [s \in Field!FieldSlots |-> Sum(v, {k \in H : kind[k] = s})]
  <2>1. IsFiniteSet(H) /\ \A k \in H : v[k] \in Int
    BY <1>1, <1>5, AtIs, FS_Subset
  <2>2. \A s \in Field!Slots : f[s] = Sum(v, Field!At(rows, s, c))
    BY <1>1, ScatteredIs
  <2>. HIDE DEF v, f
  <2>3. \A s \in Field!FieldSlots : f[s] = kinds[s]
    BY <1>4, <1>6, <2>2
  <2>4. Sum(v, H) = Sum(kinds, Field!FieldSlots)
    BY <1>4, <1>6, <2>1, SumByKind
  <2>. HIDE DEF kinds
  <2>5. Sum(f, Field!FieldSlots) = Sum(kinds, Field!FieldSlots)
    BY <1>6, <2>3, SumSame
  <2>. QED BY <2>4, <2>5 DEF f, v
<1>8. \A f : Field!SumFunctionOnSet(f, H) = Sum(f, H)
  BY FieldSumIsSum
<1>. QED BY <1>2, <1>7, <1>8 DEF H

LEMMA FieldCounts ==
  ASSUME FieldInv PROVE Field!CountsCoverTheRows
<1>. SUFFICES ASSUME step = "returned"
              PROVE  metadata.count = Field!SumFunctionOnSet(metadata.components, DOMAIN metadata.components)
  BY DEF Field!CountsCoverTheRows
<1>. DEFINE E == Field!Exported(settings)
            D == DOMAIN rows
            of(n) == {k \in D : rows[k].id \in Field!Ids(n)}
            kind == [k \in D |-> CHOOSE n \in E : rows[k].id \in Field!Ids(n)]
            one == [k \in D |-> 1]
            kinds == [n \in E |-> Sum(one, {k \in D : kind[k] = n})]
            counts == Field!Counts(settings, rows)
<1>1. /\ rows \in Seq(FieldRows) /\ FieldAssembled /\ E \subseteq Names
      /\ \A k \in D : rows[k].id \in 0 .. 7 /\ \E n \in E : rows[k].id \in Field!Ids(n)
  BY ReturnedRows, SearchedIsExported
<1>2. metadata.count = Len(rows) /\ metadata.components = counts
  <2>. HIDE DEF counts
  <2>1. metadata = Field!Metadata(settings, rows)
    BY <1>1 DEF FieldInv, FieldMetadata
  <2>. QED BY <2>1 DEF Field!Metadata, counts
<1>3. DOMAIN counts = E /\ \A n \in E : counts[n] = Cardinality(of(n))
  BY FieldSizeIsSize DEF Field!Counts
<1>4. ASSUME NEW k \in D, NEW m \in E, NEW n \in E, rows[k].id \in Field!Ids(m), rows[k].id \in Field!Ids(n)
      PROVE  m = n
  BY <1>1, <1>4, SlotsOfNames
<1>5. \A k \in D : kind[k] \in E /\ rows[k].id \in Field!Ids(kind[k])
  BY <1>1
<1>6. \A n \in E : {k \in D : kind[k] = n} = of(n)
  <2>. HIDE DEF kind
  <2>. QED BY <1>4, <1>5
<1>7. Len(rows) \in Nat /\ D = 1 .. Len(rows)
  BY <1>1, SeqIsFunction
<1>8. IsFiniteSet(D) /\ Cardinality(D) = Len(rows)
  BY <1>7, FirstPlaces
<1>9. IsFiniteSet(E)
  <2>1. IsFiniteSet({"los"}) /\ IsFiniteSet({"reflection"}) /\ IsFiniteSet({"diffraction"})
        /\ IsFiniteSet({"transmission"}) /\ IsFiniteSet({"scattering"}) /\ IsFiniteSet({"coupled"})
    BY FS_Singleton
  <2>2. IsFiniteSet({"los"} \cup {"reflection"} \cup {"diffraction"} \cup {"transmission"} \cup {"scattering"} \cup {"coupled"})
    BY <2>1, FS_Union
  <2>3. {"los"} \cup {"reflection"} \cup {"diffraction"} \cup {"transmission"} \cup {"scattering"} \cup {"coupled"} = Names
    BY DEF Names
  <2>. QED BY <1>1, <2>2, <2>3, FS_Subset
<1>10. \A k \in D : one[k] = 1 /\ one[k] \in Int
  OBVIOUS
<1>11. \A n \in E : kinds[n] = Sum(one, {k \in D : kind[k] = n})
  OBVIOUS
<1>. HIDE DEF E, kind, one, D, counts
<1>12. Sum(one, D) = Sum(kinds, E)
  BY <1>5, <1>8, <1>9, <1>10, SumByKind
<1>13. Sum(one, D) = Len(rows)
  BY <1>8, <1>10, SumOfOnes
<1>14. \A n \in E : kinds[n] = counts[n]
  <2>1. ASSUME NEW n \in E PROVE Sum(one, of(n)) = Cardinality(of(n))
    <3>1. IsFiniteSet(of(n)) /\ \A k \in of(n) : one[k] = 1
      <4>1. of(n) \subseteq D
        OBVIOUS
      <4>. HIDE DEF of
      <4>. QED BY <1>8, <1>10, <4>1, FS_Subset
    <3>. HIDE DEF of
    <3>. QED BY <3>1, SumOfOnes
  <2>. HIDE DEF kinds, of
  <2>. QED BY <1>3, <1>6, <1>11, <2>1
<1>. HIDE DEF kinds
<1>15. Sum(kinds, E) = Sum(counts, E)
  BY <1>9, <1>14, SumSame
<1>16. Field!SumFunctionOnSet(counts, E) = Sum(counts, E)
  BY FieldSumIsSum
<1>. QED BY <1>2, <1>3, <1>12, <1>13, <1>15, <1>16

-----------------------------------------------------------------------------
(* One value of one row moved                                              *)

RowValues == {"gain", "re", "im"}

\* One for the value that is moved, zero for every other.
Unit(x, j, name) == IF j = x[1] /\ name = x[2] THEN 1 ELSE 0

LEMMA MovedIs ==
  ASSUME rows \in Seq(FieldRows), NEW x \in Field!Inputs(rows), NEW d \in Int
  PROVE  LET M == Field!Moved(rows, x, d) IN
         /\ DOMAIN M = DOMAIN rows
         /\ \A j \in DOMAIN rows :
              /\ M[j].valid = rows[j].valid /\ M[j].tx = rows[j].tx /\ M[j].rx = rows[j].rx /\ M[j].id = rows[j].id
              /\ \A name \in RowValues : M[j][name] = rows[j][name] + d * Unit(x, j, name)
<1>. DEFINE k == x[1]  n == x[2]
            M == Field!Moved(rows, x, d)
<1>1. k \in DOMAIN rows /\ n \in RowValues
  BY DEF Field!Inputs, RowValues
<1>2. \A j \in DOMAIN rows : rows[j] \in FieldRows
  BY SeqIsFunction
<1>3. M = [rows EXCEPT ![k] = [rows[k] EXCEPT ![n] = @ + d]]
  BY Zenon DEF Field!Moved
<1>4. DOMAIN M = DOMAIN rows
  BY <1>3
<1>5. \A j \in DOMAIN rows : M[j] = IF j = k THEN [rows[k] EXCEPT ![n] = @ + d] ELSE rows[j]
  BY <1>1, <1>3
<1>6. \A j, name : Unit(x, j, name) = IF j = k /\ name = n THEN 1 ELSE 0
  BY DEF Unit
<1>. HIDE DEF k, n, M
<1>7. ASSUME NEW j \in DOMAIN rows
      PROVE  /\ M[j].valid = rows[j].valid /\ M[j].tx = rows[j].tx /\ M[j].rx = rows[j].rx /\ M[j].id = rows[j].id
             /\ \A name \in RowValues : M[j][name] = rows[j][name] + d * Unit(x, j, name)
  <2>1. \A name \in RowValues : rows[j][name] \in Int
    BY <1>2 DEF FieldRows, RowValues
  <2>2. CASE j # k
    <3>1. M[j] = rows[j]
      BY <1>5, <2>2
    <3>2. \A name : Unit(x, j, name) = 0
      BY <1>6, <2>2
    <3>. QED BY <2>1, <3>1, <3>2
  <2>3. CASE j = k
    <3>1. M[j] = [rows[j] EXCEPT ![n] = @ + d]
      BY <1>5, <2>3
    <3>2. rows[j] \in FieldRows
      BY <1>2
    <3>3. /\ M[j].valid = rows[j].valid /\ M[j].tx = rows[j].tx /\ M[j].rx = rows[j].rx /\ M[j].id = rows[j].id
          /\ \A name \in RowValues : M[j][name] = IF name = n THEN rows[j][name] + d ELSE rows[j][name]
      BY <1>1, <3>1, <3>2 DEF FieldRows, RowValues
    <3>4. ASSUME NEW name \in RowValues PROVE M[j][name] = rows[j][name] + d * Unit(x, j, name)
      <4>1. CASE name = n
        BY <1>6, <2>1, <2>3, <3>3, <4>1
      <4>2. CASE name # n
        BY <1>6, <2>1, <2>3, <3>3, <4>2
      <4>. QED BY <4>1, <4>2
    <3>. QED BY <3>3, <3>4
  <2>. QED BY <2>2, <2>3
<1>. QED BY <1>4, <1>7 DEF M

LEMMA UnitTangentIs ==
  ASSUME NEW x \in Field!Inputs(rows)
  PROVE  \A j \in DOMAIN rows, name \in RowValues :
           Field!Column(Field!UnitTangent(rows, x), name)[j] = Unit(x, j, name)
<1>. DEFINE k == x[1]  n == x[2]
            z == [gain |-> 0, re |-> 0, im |-> 0]
            U == Field!UnitTangent(rows, x)
<1>1. k \in DOMAIN rows /\ n \in RowValues
  BY DEF Field!Inputs, RowValues
<1>2. U = [Field!NoTangent(rows) EXCEPT ![k] = [Field!NoTangent(rows)[k] EXCEPT ![n] = 1]]
  BY Zenon DEF Field!UnitTangent
<1>3. DOMAIN Field!NoTangent(rows) = DOMAIN rows /\ \A j \in DOMAIN rows : Field!NoTangent(rows)[j] = z
  BY DEF Field!NoTangent
<1>4. \A j, name : Unit(x, j, name) = IF j = k /\ name = n THEN 1 ELSE 0
  BY DEF Unit
<1>5. \A name \in RowValues : z[name] = 0 /\ [z EXCEPT ![n] = 1][name] = IF name = n THEN 1 ELSE 0
  BY <1>1 DEF RowValues
<1>. HIDE DEF k, n, U, z
<1>6. DOMAIN U = DOMAIN rows /\ \A j \in DOMAIN rows : U[j] = IF j = k THEN [z EXCEPT ![n] = 1] ELSE z
  BY <1>1, <1>2, <1>3
<1>7. \A j \in DOMAIN rows, name \in RowValues : U[j][name] = Unit(x, j, name)
  BY <1>4, <1>5, <1>6
<1>. QED BY <1>6, <1>7 DEF U, Field!Column

\* The slot and the value that is moved, in its own cell.
UnitSlots(x, c, name) ==
  [s \in Field!Slots |-> IF name = x[2] /\ x[1] \in Field!At(rows, s, c) THEN 1 ELSE 0]

LEMMA ScatteredUnit ==
  ASSUME rows \in Seq(FieldRows), NEW x \in Field!Inputs(rows), NEW c, NEW name \in RowValues
  PROVE  /\ Field!Scattered(rows, Field!Column(Field!UnitTangent(rows, x), name), c) = UnitSlots(x, c, name)
         /\ \A s : Sum(Field!Column(Field!UnitTangent(rows, x), name), Field!At(rows, s, c))
                     = IF name = x[2] /\ x[1] \in Field!At(rows, s, c) THEN 1 ELSE 0
<1>. DEFINE v == Field!Column(Field!UnitTangent(rows, x), name)
<1>1. \A j \in DOMAIN rows : v[j] = Unit(x, j, name)
  BY UnitTangentIs
<1>. HIDE DEF v
<1>2. ASSUME NEW s
      PROVE  Sum(v, Field!At(rows, s, c)) = IF name = x[2] /\ x[1] \in Field!At(rows, s, c) THEN 1 ELSE 0
  <2>. DEFINE A == Field!At(rows, s, c)  k == x[1]
  <2>1. IsFiniteSet(A) /\ A \subseteq DOMAIN rows
    BY AtIs DEF RowValues
  <2>2. \A j \in A : v[j] = IF j = k /\ name = x[2] THEN 1 ELSE 0
    BY <1>1, <2>1 DEF Unit
  <2>. HIDE DEF A, k
  <2>3. CASE name = x[2] /\ k \in A
    <3>1. v[k] = 1 /\ \A j \in A \ {k} : v[j] = 0
      BY <2>2, <2>3
    <3>2. {k} \subseteq A /\ (\A j \in {k} : v[j] \in Int /\ v[j] = v[j]) /\ \A j \in A \ {k} : v[j] = 0
      BY <2>3, <3>1
    <3>3. Sum(v, A) = Sum(v, {k})
      BY <2>1, <3>2, SumWithin
    <3>4. Sum(v, {k}) = 1
      BY <3>1, SumOne
    <3>. QED BY <2>3, <3>3, <3>4 DEF A, k
  <2>4. CASE ~(name = x[2] /\ k \in A)
    <3>1. \A j \in A : v[j] = 0
      BY <2>2, <2>4
    <3>2. Sum(v, A) = 0
      BY <2>1, <3>1, SumZero
    <3>. QED BY <2>4, <3>2 DEF A, k
  <2>. QED BY <2>3, <2>4
<1>3. Field!Scattered(rows, v, c) = UnitSlots(x, c, name)
  <2>1. Field!Scattered(rows, v, c) = [s \in Field!Slots |-> Sum(v, Field!At(rows, s, c))]
    BY FieldSumIsSum DEF Field!Scattered
  <2>. QED BY <1>2, <2>1 DEF UnitSlots
<1>. QED BY <1>2, <1>3 DEF v

\* A moved row stays where it was, and its cell has the value moved.
LEMMA ScatteredMoved ==
  ASSUME rows \in Seq(FieldRows), NEW x \in Field!Inputs(rows), NEW d \in {1, -1}, NEW c, NEW name \in RowValues
  PROVE  LET M == Field!Moved(rows, x, d)
             f == Field!Scattered(M, Field!Column(M, name), c)
         IN /\ DOMAIN f = Field!Slots
            /\ \A s \in Field!Slots :
                 f[s] = Field!Scattered(rows, Field!Column(rows, name), c)[s] + d * UnitSlots(x, c, name)[s]
<1>. DEFINE M == Field!Moved(rows, x, d)
            m == Field!Column(M, name)
            v == Field!Column(rows, name)
            u == Field!Column(Field!UnitTangent(rows, x), name)
<1>1. /\ DOMAIN M = DOMAIN rows
      /\ \A j \in DOMAIN rows :
           /\ M[j].valid = rows[j].valid /\ M[j].tx = rows[j].tx /\ M[j].rx = rows[j].rx /\ M[j].id = rows[j].id
           /\ M[j][name] = rows[j][name] + d * Unit(x, j, name)
  <2>1. d \in Int
    OBVIOUS
  <2>. HIDE DEF M
  <2>. QED BY <2>1, MovedIs DEF M
<1>2. \A j \in DOMAIN rows : u[j] = Unit(x, j, name) /\ u[j] \in Int /\ v[j] \in Int
  BY UnitTangentIs, AtIs DEF Unit, RowValues
<1>3. \A j \in DOMAIN rows : v[j] = rows[j][name]
  BY DEF Field!Column
<1>4. \A j \in DOMAIN rows : m[j] = v[j] + d * u[j]
  <2>. HIDE DEF M
  <2>1. \A j \in DOMAIN rows : m[j] = M[j][name]
    BY <1>1 DEF Field!Column
  <2>. HIDE DEF m, u, v
  <2>. QED BY <1>1, <1>2, <1>3, <2>1
<1>5. \A s : Field!At(M, s, c) = Field!At(rows, s, c)
  <2>. HIDE DEF M
  <2>. QED BY <1>1 DEF Field!At
<1>. HIDE DEF M, m, v, u
<1>6. ASSUME NEW s
      PROVE  Sum(m, Field!At(rows, s, c)) = Sum(v, Field!At(rows, s, c)) + d * Sum(u, Field!At(rows, s, c))
  <2>. DEFINE A == Field!At(rows, s, c)
  <2>1. IsFiniteSet(A) /\ A \subseteq DOMAIN rows
    BY AtIs DEF RowValues
  <2>. HIDE DEF A
  <2>2. \A j \in A : v[j] \in Int /\ u[j] \in Int /\ m[j] = v[j] + d * u[j]
    BY <1>2, <1>4, <2>1
  <2>3. Sum(v, A) \in Int /\ Sum(u, A) \in Int
    BY <2>1, <2>2, SumInt
  <2>4. CASE d = 1
    <3>1. \A j \in A : v[j] \in Int /\ u[j] \in Int /\ m[j] = v[j] + u[j]
      BY <2>2, <2>4
    <3>2. Sum(m, A) = Sum(v, A) + Sum(u, A)
      BY <2>1, <3>1, SumPlus
    <3>. QED BY <2>3, <2>4, <3>2 DEF A
  <2>5. CASE d = -1
    <3>1. \A j \in A : m[j] \in Int /\ u[j] \in Int /\ v[j] = m[j] + u[j]
      BY <2>2, <2>5
    <3>2. Sum(v, A) = Sum(m, A) + Sum(u, A)
      BY <2>1, <3>1, SumPlus
    <3>3. Sum(m, A) \in Int
      BY <2>1, <3>1, SumInt
    <3>. QED BY <2>3, <2>5, <3>2, <3>3 DEF A
  <2>. QED BY <2>4, <2>5
<1>7. \A T, w : Field!Scattered(T, w, c) = [s \in Field!Slots |-> Sum(w, Field!At(T, s, c))]
  BY FieldSumIsSum DEF Field!Scattered
<1>8. \A s \in Field!Slots : Sum(u, Field!At(rows, s, c)) = UnitSlots(x, c, name)[s]
  BY ScatteredUnit DEF UnitSlots, u
<1>9. \A s \in Field!Slots :
        Field!Scattered(M, m, c)[s] = Field!Scattered(rows, v, c)[s] + d * UnitSlots(x, c, name)[s]
  <2>1. \A s \in Field!Slots : Field!Scattered(M, m, c)[s] = Sum(m, Field!At(rows, s, c))
    BY <1>5, <1>7
  <2>2. \A s \in Field!Slots : Field!Scattered(rows, v, c)[s] = Sum(v, Field!At(rows, s, c))
    BY <1>7
  <2>. QED BY <1>6, <1>8, <2>1, <2>2
<1>10. DOMAIN Field!Scattered(M, m, c) = Field!Slots
  BY <1>7
<1>. QED BY <1>9, <1>10 DEF M, m, v

-----------------------------------------------------------------------------
(* The slots of a cell, combined and differentiated                        *)

SlotFunctions == [Field!Slots -> Int]
Six(f) == f[0] + f[1] + f[2] + f[3] + f[4] + f[5]
Five(f) == f[0] + f[1] + f[2] + f[3] + f[5]

LEMMA FiveIs ==
  ASSUME NEW f \in SlotFunctions
  PROVE  /\ Field!OverSlots(Field!Slots, f) = Six(f) /\ Field!OverSlots(Field!FieldSlots, f) = Five(f)
         /\ Six(f) \in Int /\ Five(f) \in Int /\ Six(f) = Five(f) + f[4]
         /\ f[0] \in Int /\ f[1] \in Int /\ f[2] \in Int /\ f[3] \in Int /\ f[4] \in Int /\ f[5] \in Int
<1>1. f[0] \in Int /\ f[1] \in Int /\ f[2] \in Int /\ f[3] \in Int /\ f[4] \in Int /\ f[5] \in Int
  BY FieldNumbers DEF SlotFunctions
<1>2. Sum(f, Field!Slots) = Six(f)
  BY SumOverSlots DEF SlotFunctions, Six
<1>3. /\ IsFiniteSet(Field!Slots) /\ 4 \in Field!Slots /\ Field!Slots \ {4} = Field!FieldSlots
      /\ \A s \in Field!Slots : f[s] \in Int
  <2>1. 0 \in Int /\ 5 \in Int
    OBVIOUS
  <2>2. IsFiniteSet(0 .. 5)
    BY <2>1, FS_Interval, Zenon
  <2>. QED BY <2>2, FieldNumbers DEF Field!Slots, SlotFunctions
<1>4. Sum(f, Field!Slots) = f[4] + Sum(f, Field!FieldSlots) /\ Sum(f, Field!FieldSlots) \in Int
  <2>1. Sum(f, Field!Slots) = f[4] + Sum(f, Field!Slots \ {4})
    BY <1>3, SumWithout
  <2>2. IsFiniteSet(Field!FieldSlots) /\ \A s \in Field!FieldSlots : f[s] \in Int
    BY <1>3, FS_Subset
  <2>3. Sum(f, Field!FieldSlots) \in Int
    BY <2>2, SumInt
  <2>. QED BY <1>3, <2>1, <2>3
<1>5. Sum(f, Field!FieldSlots) = Five(f)
  <2>. DEFINE most == Sum(f, Field!FieldSlots)
  <2>1. f[0] + f[1] + f[2] + f[3] + f[4] + f[5] = f[4] + most /\ most \in Int
    BY <1>2, <1>4 DEF Six
  <2>. HIDE DEF most
  <2>2. ASSUME NEW a \in Int, NEW b \in Int, NEW c \in Int, NEW d \in Int, NEW e \in Int, NEW g \in Int, NEW m \in Int,
               a + b + c + d + e + g = e + m
        PROVE  m = a + b + c + d + g
    BY <2>2
  <2>. DEFINE v0 == f[0]  v1 == f[1]  v2 == f[2]  v3 == f[3]  v4 == f[4]  v5 == f[5]
  <2>3. /\ v0 \in Int /\ v1 \in Int /\ v2 \in Int /\ v3 \in Int /\ v4 \in Int /\ v5 \in Int
        /\ v0 + v1 + v2 + v3 + v4 + v5 = v4 + most
    BY <1>1, <2>1
  <2>. HIDE DEF v0, v1, v2, v3, v4, v5
  <2>4. most = v0 + v1 + v2 + v3 + v5
    BY <2>1, <2>2, <2>3
  <2>. QED BY <2>4 DEF Five, most, v0, v1, v2, v3, v5
<1>6. Six(f) \in Int /\ Five(f) \in Int /\ Six(f) = Five(f) + f[4]
  BY <1>1 DEF Six, Five
<1>7. \A S : Field!OverSlots(S, f) = Sum(f, S)
  BY FieldSumIsSum DEF Field!OverSlots
<1>. QED BY <1>1, <1>2, <1>5, <1>6, <1>7

\* The powers of the slots, and their tangents.
PowerOf(g, r, i, mode) ==
  [s \in Field!Slots |-> IF s \in Field!SquaredSlots(mode) THEN r[s] * r[s] + i[s] * i[s] ELSE g[s]]
TangentOf(r, i, ug, ur, ui, mode) ==
  [s \in Field!Slots |-> IF s \in Field!SquaredSlots(mode) THEN 2 * (r[s] * ur[s] + i[s] * ui[s]) ELSE ug[s]]

LEMMA SlotAlgebra ==
  ASSUME NEW a \in Int, NEW b \in Int, NEW u \in Int, NEW v \in Int
  PROVE  /\ a * a + b * b \in Nat /\ 2 * (a * u + b * v) \in Int
         /\ ((a + u) * (a + u) + (b + v) * (b + v)) - ((a - u) * (a - u) + (b - v) * (b - v))
              = 2 * (2 * (a * u + b * v))
<1>1. \A z \in Int : z * z \in Nat
  OBVIOUS
<1>2. a * a \in Nat /\ b * b \in Nat
  BY <1>1
<1>3. \A y, z \in Int : y * z \in Int
  OBVIOUS
<1>4. a * u \in Int /\ b * v \in Int
  BY <1>3
<1>5. ((a + u) * (a + u) + (b + v) * (b + v)) - ((a - u) * (a - u) + (b - v) * (b - v))
        = 2 * (2 * (a * u + b * v))
  OBVIOUS
<1>. QED BY <1>2, <1>4, <1>5

LEMMA PowersAre ==
  ASSUME NEW g \in SlotFunctions, NEW r \in SlotFunctions, NEW i \in SlotFunctions, NEW mode
  PROVE  PowerOf(g, r, i, mode) \in SlotFunctions
<1>1. ASSUME NEW s \in Field!Slots PROVE PowerOf(g, r, i, mode)[s] \in Int
  <2>1. g[s] \in Int /\ r[s] \in Int /\ i[s] \in Int
    BY DEF SlotFunctions
  <2>2. r[s] * r[s] + i[s] * i[s] \in Int
    BY <2>1, SlotAlgebra
  <2>. QED BY <2>1, <2>2 DEF PowerOf
<1>. QED BY <1>1 DEF SlotFunctions, PowerOf

LEMMA TangentsAre ==
  ASSUME NEW r \in SlotFunctions, NEW i \in SlotFunctions, NEW mode,
         NEW ug \in SlotFunctions, NEW ur \in SlotFunctions, NEW ui \in SlotFunctions
  PROVE  TangentOf(r, i, ug, ur, ui, mode) \in SlotFunctions
<1>1. ASSUME NEW s \in Field!Slots PROVE TangentOf(r, i, ug, ur, ui, mode)[s] \in Int
  <2>1. /\ r[s] \in Int /\ i[s] \in Int /\ ug[s] \in Int /\ ur[s] \in Int /\ ui[s] \in Int
    BY DEF SlotFunctions
  <2>2. 2 * (r[s] * ur[s] + i[s] * ui[s]) \in Int
    BY <2>1, SlotAlgebra
  <2>. QED BY <2>1, <2>2 DEF TangentOf
<1>. QED BY <1>1 DEF SlotFunctions, TangentOf

\* A cell, combined.
Combined(t, r, i, p, mode) ==
  /\ t.power = p /\ t.re = r /\ t.im = i
  /\ t.total = IF mode.coherent THEN Five(r) * Five(r) + Five(i) * Five(i) + p[4] ELSE Six(p)
  /\ t.field = IF mode.coherent THEN <<Five(r), Five(i)>> ELSE <<0, 0>>
  /\ t.square = IF mode.coherent \/ Six(p) < 0 THEN 0 ELSE Six(p)

LEMMA CombinedIs ==
  ASSUME NEW g \in SlotFunctions, NEW r \in SlotFunctions, NEW i \in SlotFunctions, NEW mode
  PROVE  Combined(Field!Finalized(g, r, i, mode), r, i, PowerOf(g, r, i, mode), mode)
<1>. DEFINE t == Field!Finalized(g, r, i, mode)
            p == PowerOf(g, r, i, mode)
            z == <<Field!OverSlots(Field!FieldSlots, r), Field!OverSlots(Field!FieldSlots, i)>>
            all == Field!OverSlots(Field!Slots, p)
            root == Field!Max({0, all})
<1>1. t = [power |-> p, re |-> r, im |-> i,
           total |-> IF mode.coherent THEN z[1] * z[1] + z[2] * z[2] + p[Field!ScatteringSlot] ELSE all,
           field |-> IF mode.coherent THEN z ELSE <<0, 0>>,
           square |-> IF mode.coherent THEN 0 ELSE root]
  BY Zenon DEF Field!Finalized, PowerOf
<1>2. p \in SlotFunctions
  BY PowersAre
<1>. HIDE DEF p
<1>3. all = Six(p) /\ z[1] = Five(r) /\ z[2] = Five(i) /\ z = <<Five(r), Five(i)>> /\ Six(p) \in Int
  BY <1>2, FiveIs
<1>4. root = IF Six(p) < 0 THEN 0 ELSE Six(p)
  <2>1. \A n \in Int : Field!Max({0, n}) = IF n < 0 THEN 0 ELSE n
    <3>1. SUFFICES ASSUME NEW n \in Int PROVE Field!Max({0, n}) = IF n < 0 THEN 0 ELSE n
      OBVIOUS
    <3>. DEFINE S == {0, n}  m == IF n < 0 THEN 0 ELSE n
    <3>2. m \in S /\ \A y \in S : m >= y
      OBVIOUS
    <3>3. \A y \in S : (\A w \in S : y >= w) => y = m
      <4>1. \A y \in S : y \in Int
        OBVIOUS
      <4>. QED BY <3>2, <4>1
    <3>. HIDE DEF S, m
    <3>4. Field!Max(S) = m
      BY <3>2, <3>3 DEF Field!Max
    <3>. QED BY <3>4 DEF S, m
  <2>. HIDE DEF all
  <2>. QED BY <1>3, <2>1
<1>. HIDE DEF t, z, all, root
<1>5. /\ t.power = p /\ t.re = r /\ t.im = i
      /\ t.total = IF mode.coherent THEN z[1] * z[1] + z[2] * z[2] + p[Field!ScatteringSlot] ELSE all
      /\ t.field = IF mode.coherent THEN z ELSE <<0, 0>>
      /\ t.square = IF mode.coherent THEN 0 ELSE root
  BY <1>1
<1>6. Field!ScatteringSlot = 4
  BY FieldNumbers
<1>7. t.total = IF mode.coherent THEN Five(r) * Five(r) + Five(i) * Five(i) + p[4] ELSE Six(p)
  BY <1>3, <1>5, <1>6
<1>8. t.square = IF mode.coherent \/ Six(p) < 0 THEN 0 ELSE Six(p)
  BY <1>4, <1>5
<1>. QED BY <1>3, <1>5, <1>7, <1>8 DEF t, p, Combined

LEMMA ScattersIsSquared ==
  ASSUME NEW mode, NEW s \in Field!Slots
  PROVE  Field!TangentScatters(s, mode) <=> s \notin Field!SquaredSlots(mode)
BY FieldNumbers DEF Field!TangentScatters, Field!SquaredSlots

\* A cell, pushed forward, where the total saved is positive or not.
PushedTo(t, r, i, ur, ui, q, mode, positive) ==
  /\ t.power = q /\ t.re = ur /\ t.im = ui
  /\ t.total = IF mode.coherent THEN 2 * (Five(r) * Five(ur) + Five(i) * Five(ui)) + q[4] ELSE Six(q)
  /\ t.field = IF mode.coherent THEN <<Five(ur), Five(ui)>> ELSE <<0, 0>>
  /\ t.square = IF ~mode.coherent /\ positive THEN Six(q) ELSE 0

LEMMA PushedIs ==
  ASSUME NEW r \in SlotFunctions, NEW i \in SlotFunctions, NEW mode,
         NEW ug \in SlotFunctions, NEW ur \in SlotFunctions, NEW ui \in SlotFunctions,
         NEW T, NEW V, NEW out, NEW c, out[c].re = r, out[c].im = i,
         Field!Scattered(T, Field!Column(V, "gain"), c) = ug,
         Field!Scattered(T, Field!Column(V, "re"), c) = ur,
         Field!Scattered(T, Field!Column(V, "im"), c) = ui
  PROVE  PushedTo(Field!Pushed(T, out, V, mode, c), r, i, ur, ui, TangentOf(r, i, ug, ur, ui, mode), mode,
                  out[c].total > 0)
<1>. DEFINE t == Field!Pushed(T, out, V, mode, c)
            q == TangentOf(r, i, ug, ur, ui, mode)
            p == [s \in Field!Slots |->
                    IF s \in Field!SquaredSlots(mode) THEN 2 * (r[s] * ur[s] + i[s] * ui[s])
                    ELSE IF Field!TangentScatters(s, mode) THEN ug[s] ELSE 0]
            z == <<Field!OverSlots(Field!FieldSlots, ur), Field!OverSlots(Field!FieldSlots, ui)>>
            w == <<Field!OverSlots(Field!FieldSlots, r), Field!OverSlots(Field!FieldSlots, i)>>
            all == Field!OverSlots(Field!Slots, p)
<1>. DEFINE g0 == Field!Scattered(T, Field!Column(V, "gain"), c)
            r0 == Field!Scattered(T, Field!Column(V, "re"), c)
            i0 == Field!Scattered(T, Field!Column(V, "im"), c)
            at == out[c]
            p0 == [s \in Field!Slots |->
                     IF s \in Field!SquaredSlots(mode) THEN 2 * (at.re[s] * r0[s] + at.im[s] * i0[s])
                     ELSE IF Field!TangentScatters(s, mode) THEN g0[s] ELSE 0]
            z0 == <<Field!OverSlots(Field!FieldSlots, r0), Field!OverSlots(Field!FieldSlots, i0)>>
            w0 == <<Field!OverSlots(Field!FieldSlots, at.re), Field!OverSlots(Field!FieldSlots, at.im)>>
<1>0. t = [power |-> p0, re |-> r0, im |-> i0,
           total |-> IF mode.coherent THEN 2 * (w0[1] * z0[1] + w0[2] * z0[2]) + p0[Field!ScatteringSlot]
                                      ELSE Field!OverSlots(Field!Slots, p0),
           field |-> IF mode.coherent THEN z0 ELSE <<0, 0>>,
           square |-> IF ~mode.coherent /\ at.total > 0 THEN Field!OverSlots(Field!Slots, p0) ELSE 0]
  BY Zenon DEF Field!Pushed
<1>1. t = [power |-> p, re |-> ur, im |-> ui,
           total |-> IF mode.coherent THEN 2 * (w[1] * z[1] + w[2] * z[2]) + p[Field!ScatteringSlot] ELSE all,
           field |-> IF mode.coherent THEN z ELSE <<0, 0>>,
           square |-> IF ~mode.coherent /\ out[c].total > 0 THEN all ELSE 0]
  <2>1. g0 = ug /\ r0 = ur /\ i0 = ui /\ at.re = r /\ at.im = i /\ at = out[c]
    OBVIOUS
  <2>. HIDE DEF g0, r0, i0, at, t
  <2>2. p0 = p
    BY <2>1
  <2>3. z0 = z /\ w0 = w
    BY <2>1
  <2>. HIDE DEF p0, p, z0, z, w0, w
  <2>. QED BY <1>0, <2>1, <2>2, <2>3
<1>2. p = q
  <2>1. \A s \in Field!Slots : p[s] = q[s]
    BY ScattersIsSquared DEF TangentOf
  <2>. QED BY <2>1 DEF TangentOf
<1>3. q \in SlotFunctions
  BY TangentsAre
<1>. HIDE DEF p, q
<1>4. /\ all = Six(q) /\ z[1] = Five(ur) /\ z[2] = Five(ui) /\ z = <<Five(ur), Five(ui)>>
      /\ w[1] = Five(r) /\ w[2] = Five(i)
  BY <1>2, <1>3, FiveIs
<1>5. Field!ScatteringSlot = 4
  BY FieldNumbers
<1>. HIDE DEF t, z, w, all
<1>6. /\ t.power = p /\ t.re = ur /\ t.im = ui
      /\ t.total = IF mode.coherent THEN 2 * (w[1] * z[1] + w[2] * z[2]) + p[Field!ScatteringSlot] ELSE all
      /\ t.field = IF mode.coherent THEN z ELSE <<0, 0>>
      /\ t.square = IF ~mode.coherent /\ out[c].total > 0 THEN all ELSE 0
  BY <1>1
<1>7. t.total = IF mode.coherent THEN 2 * (Five(r) * Five(ur) + Five(i) * Five(ui)) + q[4] ELSE Six(q)
  BY <1>2, <1>4, <1>5, <1>6
<1>. QED BY <1>2, <1>4, <1>6, <1>7 DEF t, q, PushedTo

-----------------------------------------------------------------------------
(* Forward mode                                                            *)

\* The slots of a cell when one value has moved, up and down.
Shifted(f, u, d) == [s \in Field!Slots |-> f[s] + d * u[s]]

LEMMA ShiftedIs ==
  ASSUME NEW f \in SlotFunctions, NEW u \in SlotFunctions, NEW d \in {1, -1}
  PROVE  /\ Shifted(f, u, d) \in SlotFunctions
         /\ Five(Shifted(f, u, d)) = Five(f) + d * Five(u)
         /\ Six(Shifted(f, u, d)) = Six(f) + d * Six(u)
<1>. DEFINE h == Shifted(f, u, d)
<1>1. \A s \in Field!Slots : h[s] = f[s] + d * u[s]
  BY DEF Shifted
<1>2. \A s \in Field!Slots : f[s] \in Int /\ u[s] \in Int
  BY DEF SlotFunctions
<1>3. h \in SlotFunctions
  <2>1. \A s \in Field!Slots : h[s] \in Int
    <3>. HIDE DEF h
    <3>. QED BY <1>1, <1>2
  <2>2. h = [s \in Field!Slots |-> h[s]]
    BY DEF Shifted
  <2>. HIDE DEF h
  <2>. QED BY <2>1, <2>2 DEF SlotFunctions
<1>4. /\ h[0] = f[0] + d * u[0] /\ h[1] = f[1] + d * u[1] /\ h[2] = f[2] + d * u[2]
      /\ h[3] = f[3] + d * u[3] /\ h[4] = f[4] + d * u[4] /\ h[5] = f[5] + d * u[5]
  <2>. HIDE DEF h
  <2>. QED BY <1>1, FieldNumbers
<1>5. /\ f[0] \in Int /\ f[1] \in Int /\ f[2] \in Int /\ f[3] \in Int /\ f[4] \in Int /\ f[5] \in Int
      /\ u[0] \in Int /\ u[1] \in Int /\ u[2] \in Int /\ u[3] \in Int /\ u[4] \in Int /\ u[5] \in Int
  BY FiveIs
<1>. HIDE DEF h
<1>6. Five(h) = Five(f) + d * Five(u) /\ Six(h) = Six(f) + d * Six(u)
  <2>1. CASE d = 1
    BY <1>4, <1>5, <2>1 DEF Five, Six
  <2>2. CASE d = -1
    BY <1>4, <1>5, <2>2 DEF Five, Six
  <2>. QED BY <2>1, <2>2
<1>. QED BY <1>3, <1>6 DEF h

\* Twice the tangent of a power is the difference of the powers up and down.
Halves(q, up, down) ==
  /\ \A s \in Field!Slots : 2 * q[s] = up[s] - down[s]
  /\ 2 * Six(q) = Six(up) - Six(down)

LEMMA PowersDiffer ==
  ASSUME NEW g \in SlotFunctions, NEW r \in SlotFunctions, NEW i \in SlotFunctions, NEW mode,
         NEW ug \in SlotFunctions, NEW ur \in SlotFunctions, NEW ui \in SlotFunctions
  PROVE  Halves(TangentOf(r, i, ug, ur, ui, mode),
                PowerOf(Shifted(g, ug, 1), Shifted(r, ur, 1), Shifted(i, ui, 1), mode),
                PowerOf(Shifted(g, ug, -1), Shifted(r, ur, -1), Shifted(i, ui, -1), mode))
<1>. DEFINE q == TangentOf(r, i, ug, ur, ui, mode)
            up == PowerOf(Shifted(g, ug, 1), Shifted(r, ur, 1), Shifted(i, ui, 1), mode)
            down == PowerOf(Shifted(g, ug, -1), Shifted(r, ur, -1), Shifted(i, ui, -1), mode)
<1>1. q \in SlotFunctions /\ up \in SlotFunctions /\ down \in SlotFunctions
  BY TangentsAre, ShiftedIs, PowersAre
<1>2. ASSUME NEW s \in Field!Slots PROVE 2 * q[s] = up[s] - down[s]
  <2>. DEFINE a == r[s]  b == i[s]  u == ur[s]  v == ui[s]  p == g[s]  w == ug[s]
  <2>1. a \in Int /\ b \in Int /\ u \in Int /\ v \in Int /\ p \in Int /\ w \in Int
    BY DEF SlotFunctions
  <2>2. /\ Shifted(r, ur, 1)[s] = a + 1 * u /\ Shifted(i, ui, 1)[s] = b + 1 * v /\ Shifted(g, ug, 1)[s] = p + 1 * w
        /\ Shifted(r, ur, -1)[s] = a + (-1) * u /\ Shifted(i, ui, -1)[s] = b + (-1) * v
        /\ Shifted(g, ug, -1)[s] = p + (-1) * w
    BY DEF Shifted
  <2>3. /\ q[s] = IF s \in Field!SquaredSlots(mode) THEN 2 * (a * u + b * v) ELSE w
        /\ up[s] = IF s \in Field!SquaredSlots(mode)
                   THEN Shifted(r, ur, 1)[s] * Shifted(r, ur, 1)[s] + Shifted(i, ui, 1)[s] * Shifted(i, ui, 1)[s]
                   ELSE Shifted(g, ug, 1)[s]
        /\ down[s] = IF s \in Field!SquaredSlots(mode)
                     THEN Shifted(r, ur, -1)[s] * Shifted(r, ur, -1)[s] + Shifted(i, ui, -1)[s] * Shifted(i, ui, -1)[s]
                     ELSE Shifted(g, ug, -1)[s]
    BY DEF TangentOf, PowerOf
  <2>. HIDE DEF a, b, u, v, p, w, q, up, down
  <2>4. /\ a + 1 * u = a + u /\ b + 1 * v = b + v /\ p + 1 * w = p + w
        /\ a + (-1) * u = a - u /\ b + (-1) * v = b - v /\ p + (-1) * w = p - w
    BY <2>1
  <2>5. CASE s \in Field!SquaredSlots(mode)
    <3>1. /\ up[s] = (a + u) * (a + u) + (b + v) * (b + v) /\ down[s] = (a - u) * (a - u) + (b - v) * (b - v)
          /\ q[s] = 2 * (a * u + b * v)
      BY <2>2, <2>3, <2>4, <2>5
    <3>. QED BY <2>1, <3>1, SlotAlgebra
  <2>6. CASE s \notin Field!SquaredSlots(mode)
    <3>1. up[s] = p + w /\ down[s] = p - w /\ q[s] = w
      BY <2>2, <2>3, <2>4, <2>6
    <3>. QED BY <2>1, <3>1
  <2>. QED BY <2>5, <2>6
<1>. HIDE DEF q, up, down
<1>3. /\ 2 * q[0] = up[0] - down[0] /\ 2 * q[1] = up[1] - down[1] /\ 2 * q[2] = up[2] - down[2]
      /\ 2 * q[3] = up[3] - down[3] /\ 2 * q[4] = up[4] - down[4] /\ 2 * q[5] = up[5] - down[5]
  BY <1>2, FieldNumbers
<1>4. \A f \in {q, up, down} :
         f[0] \in Int /\ f[1] \in Int /\ f[2] \in Int /\ f[3] \in Int /\ f[4] \in Int /\ f[5] \in Int
  BY <1>1, FiveIs
<1>5. 2 * Six(q) = Six(up) - Six(down)
  BY <1>3, <1>4 DEF Six
<1>6. Halves(q, up, down)
  BY <1>2, <1>5 DEF Halves
<1>. QED BY <1>6 DEF q, up, down

\* The combined field of a coherent cell likewise.
LEMMA FieldsDiffer ==
  ASSUME NEW a \in Int, NEW b \in Int, NEW u \in Int, NEW v \in Int, NEW q \in Int, NEW p \in Int, NEW w \in Int,
         2 * q = p - w
  PROVE  2 * (2 * (a * u + b * v) + q)
           = ((a + 1 * u) * (a + 1 * u) + (b + 1 * v) * (b + 1 * v) + p)
               - ((a + (-1) * u) * (a + (-1) * u) + (b + (-1) * v) * (b + (-1) * v) + w)
<1>. DEFINE x == 2 * (a * u + b * v)
            y == (a + u) * (a + u) + (b + v) * (b + v)
            z == (a - u) * (a - u) + (b - v) * (b - v)
<1>1. a + 1 * u = a + u /\ b + 1 * v = b + v /\ a + (-1) * u = a - u /\ b + (-1) * v = b - v
  OBVIOUS
<1>2. y - z = 2 * x /\ x \in Int
  BY SlotAlgebra
<1>3. y \in Int /\ z \in Int
  <2>1. a + u \in Int /\ b + v \in Int /\ a - u \in Int /\ b - v \in Int
    OBVIOUS
  <2>2. \A m, n \in Int : m * m + n * n \in Int
    OBVIOUS
  <2>. HIDE DEF x
  <2>. QED BY <2>1, <2>2
<1>4. 2 * (x + q) = (y + p) - (z + w)
  <2>. HIDE DEF x, y, z
  <2>. QED BY <1>2, <1>3
<1>. QED BY <1>1, <1>4

\* The sum of powers that are not negative is not.
LEMMA SixIsNat ==
  ASSUME NEW p \in SlotFunctions, \A s \in Field!Slots : p[s] >= 0
  PROVE  Six(p) >= 0
<1>1. p[0] >= 0 /\ p[1] >= 0 /\ p[2] >= 0 /\ p[3] >= 0 /\ p[4] >= 0 /\ p[5] >= 0
  BY FieldNumbers
<1>2. p[0] \in Int /\ p[1] \in Int /\ p[2] \in Int /\ p[3] \in Int /\ p[4] \in Int /\ p[5] \in Int
  BY FiveIs
<1>. QED BY <1>1, <1>2 DEF Six

\* A direction in which one value of one slot moves, or none.
Direction(ug, ur, ui) ==
  /\ ug \in [Field!Slots -> {0, 1}] /\ ur \in [Field!Slots -> {0, 1}] /\ ui \in [Field!Slots -> {0, 1}]
  /\ \A s, t \in Field!Slots : ug[s] = 1 /\ ug[t] = 1 => s = t
  /\ (\A s \in Field!Slots : ug[s] = 0) \/ \A s \in Field!Slots : ur[s] = 0 /\ ui[s] = 0

\* Where the power is positive, one step keeps it from being negative.
LEMMA StepKeepsSign ==
  ASSUME NEW g \in [Field!Slots -> Nat], NEW r \in SlotFunctions, NEW i \in SlotFunctions, NEW mode,
         NEW ug, NEW ur, NEW ui, Direction(ug, ur, ui), NEW d \in {1, -1},
         Six(PowerOf(g, r, i, mode)) # 0
  PROVE  Six(PowerOf(Shifted(g, ug, d), Shifted(r, ur, d), Shifted(i, ui, d), mode)) >= 0
<1>. DEFINE p == PowerOf(g, r, i, mode)
            h == PowerOf(Shifted(g, ug, d), Shifted(r, ur, d), Shifted(i, ui, d), mode)
<1>0. g \in SlotFunctions /\ ug \in SlotFunctions /\ ur \in SlotFunctions /\ ui \in SlotFunctions
  BY DEF Direction, SlotFunctions
<1>1. p \in SlotFunctions /\ h \in SlotFunctions
  BY <1>0, ShiftedIs, PowersAre
<1>2. ASSUME NEW s \in Field!Slots
      PROVE  /\ p[s] >= 0
             /\ s \in Field!SquaredSlots(mode) => h[s] >= 0
             /\ s \notin Field!SquaredSlots(mode) => p[s] = g[s] /\ h[s] = g[s] + d * ug[s]
  <2>. DEFINE a == Shifted(r, ur, d)[s]  b == Shifted(i, ui, d)[s]
  <2>1. r[s] \in Int /\ i[s] \in Int /\ g[s] \in Nat /\ a \in Int /\ b \in Int
    <3>1. r[s] \in Int /\ i[s] \in Int /\ g[s] \in Nat
      BY DEF SlotFunctions
    <3>2. Shifted(r, ur, d) \in SlotFunctions /\ Shifted(i, ui, d) \in SlotFunctions
      BY <1>0, ShiftedIs
    <3>. QED BY <3>1, <3>2 DEF SlotFunctions
  <2>2. /\ p[s] = IF s \in Field!SquaredSlots(mode) THEN r[s] * r[s] + i[s] * i[s] ELSE g[s]
        /\ h[s] = IF s \in Field!SquaredSlots(mode) THEN a * a + b * b ELSE g[s] + d * ug[s]
    BY DEF PowerOf, Shifted
  <2>. HIDE DEF a, b, p, h
  <2>3. r[s] * r[s] + i[s] * i[s] \in Nat /\ a * a + b * b \in Nat
    BY <2>1, SlotAlgebra
  <2>. QED BY <2>1, <2>2, <2>3
<1>. HIDE DEF p, h
<1>3. CASE \A s \in Field!Slots : ug[s] = 0
  <2>1. \A s \in Field!Slots : g[s] \in Nat
    OBVIOUS
  <2>2. \A s \in Field!Slots : h[s] >= 0
    BY <1>2, <1>3, <2>1
  <2>3. Six(h) >= 0
    BY <1>1, <2>2, SixIsNat
  <2>. QED BY <2>3 DEF h
<1>4. CASE \A s \in Field!Slots : ur[s] = 0 /\ ui[s] = 0
  <2>1. ASSUME NEW s \in Field!Slots PROVE h[s] = p[s] \/ (ug[s] = 1 /\ (h[s] = p[s] + 1 \/ h[s] = p[s] - 1))
    <3>1. Shifted(r, ur, d)[s] = r[s] + d * 0 /\ Shifted(i, ui, d)[s] = i[s] + d * 0
      BY <1>4 DEF Shifted
    <3>2. r[s] \in Int /\ i[s] \in Int /\ g[s] \in Nat /\ ug[s] \in {0, 1}
      BY DEF SlotFunctions, Direction
    <3>3. Shifted(r, ur, d)[s] = r[s] /\ Shifted(i, ui, d)[s] = i[s]
      BY <3>1, <3>2
    <3>4. CASE s \in Field!SquaredSlots(mode)
      BY <3>3, <3>4 DEF h, p, PowerOf
    <3>5. CASE s \notin Field!SquaredSlots(mode)
      BY <1>2, <3>2, <3>5
    <3>. QED BY <3>4, <3>5
  <2>2. ASSUME NEW s \in Field!Slots, NEW t \in Field!Slots, h[s] # p[s], h[t] # p[t] PROVE s = t
    BY <2>1, <2>2 DEF Direction
  <2>3. \A s \in Field!Slots : h[s] = p[s] \/ h[s] = p[s] + 1 \/ h[s] = p[s] - 1
    BY <2>1
  <2>4. \A s \in Field!Slots : p[s] \in Int /\ h[s] \in Int /\ p[s] >= 0
    BY <1>1, <1>2 DEF SlotFunctions
  <2>5. Six(h) >= Six(p) - 1
    BY <2>2, <2>3, <2>4, FieldNumbers DEF Six
  <2>6. Six(p) >= 0 /\ Six(p) # 0
    BY <1>1, <1>2, SixIsNat DEF p
  <2>7. Six(p) \in Int /\ Six(h) \in Int
    BY <1>1, FiveIs
  <2>8. Six(h) >= 0
    BY <2>5, <2>6, <2>7
  <2>. QED BY <2>8 DEF h
<1>. QED BY <1>3, <1>4 DEF Direction

\* A sum of natural numbers is one.
LEMMA SumNat ==
  ASSUME NEW S, IsFiniteSet(S), NEW f, \A x \in S : f[x] \in Nat
  PROVE  Sum(f, S) \in Nat
<1>. DEFINE Good == {T \in SUBSET S : Sum(f, T) \in Nat}
<1>1. ASSUME NEW T \in SUBSET S, \A x \in T : T \ {x} \in Good PROVE T \in Good
  <2>1. IsFiniteSet(T)
    BY FS_Subset
  <2>2. T = {} \/ (Pick(T) \in T /\ Sum(f, T) = f[Pick(T)] + Sum(f, T \ {Pick(T)}))
    BY <2>1, SumPicked
  <2>3. T = {} => Sum(f, T) = 0
    BY <2>1, SumPicked
  <2>. QED BY <1>1, <2>2, <2>3
<1>. QED
  <2>. HIDE DEF Good
  <2>1. S \in Good BY <1>1, Shrinking
  <2>. QED BY <2>1 DEF Good

\* What an output is read from.
LEMMA ReadIs ==
  ASSUME NEW o \in Field!Outputs
  PROVE  \/ o[1] = "power" /\ o[2] \in Field!Slots /\ \A cell : Field!Read(cell, o) = cell.power[o[2]]
         \/ o[1] = "re" /\ o[2] \in Field!Slots /\ \A cell : Field!Read(cell, o) = cell.re[o[2]]
         \/ o[1] = "im" /\ o[2] \in Field!Slots /\ \A cell : Field!Read(cell, o) = cell.im[o[2]]
         \/ o[1] = "field" /\ o[2] \in {1, 2} /\ \A cell : Field!Read(cell, o) = cell.field[o[2]]
         \/ o[1] = "total" /\ \A cell : Field!Read(cell, o) = cell.total
         \/ o[1] = "square" /\ \A cell : Field!Read(cell, o) = cell.square
<1>1. /\ o[1] \in {"power", "re", "im", "field", "total", "square"}
      /\ o[1] \in {"power", "re", "im"} => o[2] \in Field!Slots
      /\ o[1] = "field" => o[2] \in {1, 2}
  BY DEF Field!Outputs
<1>. QED BY <1>1 DEF Field!Read

\* The cell of a moved value: as it is, moved up, moved down, and pushed forward.
LEMMA CellsOfMove ==
  ASSUME rows \in Seq(FieldRows), NEW x \in Field!Inputs(rows), NEW mode, NEW c \in Field!Cells
  PROVE  LET G == Field!Scattered(rows, Field!Column(rows, "gain"), c)
             R == Field!Scattered(rows, Field!Column(rows, "re"), c)
             I == Field!Scattered(rows, Field!Column(rows, "im"), c)
             ug == UnitSlots(x, c, "gain")  ur == UnitSlots(x, c, "re")  ui == UnitSlots(x, c, "im")
         IN /\ G \in [Field!Slots -> Nat] /\ R \in SlotFunctions /\ I \in SlotFunctions /\ G \in SlotFunctions
            /\ Direction(ug, ur, ui)
            /\ ug \in SlotFunctions /\ ur \in SlotFunctions /\ ui \in SlotFunctions
            /\ Field!Accumulated(rows, mode)[c] = Field!Finalized(G, R, I, mode)
            /\ \A d \in {1, -1} :
                 Field!Accumulated(Field!Moved(rows, x, d), mode)[c]
                   = Field!Finalized(Shifted(G, ug, d), Shifted(R, ur, d), Shifted(I, ui, d), mode)
<1>. DEFINE V(name) == Field!Scattered(rows, Field!Column(rows, name), c)
            U(name) == UnitSlots(x, c, name)
<1>1. V("gain") \in SlotFunctions /\ V("re") \in SlotFunctions /\ V("im") \in SlotFunctions
  BY ScatteredIs DEF SlotFunctions
<1>2. V("gain") \in [Field!Slots -> Nat]
  <2>. DEFINE v == Field!Column(rows, "gain")
  <2>1. \A k \in DOMAIN rows : v[k] \in Nat
    <3>1. \A k \in DOMAIN rows : rows[k] \in FieldRows
      BY SeqIsFunction
    <3>2. \A r \in FieldRows : r["gain"] \in Nat
      BY DEF FieldRows
    <3>. QED BY <3>1, <3>2 DEF Field!Column
  <2>2. ASSUME NEW s \in Field!Slots PROVE V("gain")[s] \in Nat
    <3>1. V("gain")[s] = Sum(v, Field!At(rows, s, c))
      BY ScatteredIs
    <3>2. IsFiniteSet(Field!At(rows, s, c)) /\ Field!At(rows, s, c) \subseteq DOMAIN rows
      BY AtIs
    <3>. HIDE DEF v, V
    <3>. QED BY <2>1, <3>1, <3>2, SumNat
  <2>. HIDE DEF V, v
  <2>. QED BY <1>1, <2>2 DEF SlotFunctions
<1>3. Direction(U("gain"), U("re"), U("im"))
  <2>1. \A name : U(name) \in [Field!Slots -> {0, 1}]
    BY DEF UnitSlots
  <2>2. \A name : \A s \in Field!Slots : U(name)[s] = 1 => name = x[2] /\ x[1] \in Field!At(rows, s, c)
    BY DEF UnitSlots
  <2>3. \A s, t : x[1] \in Field!At(rows, s, c) /\ x[1] \in Field!At(rows, t, c) => s = t
    BY DEF Field!At
  <2>4. \A name : \A s \in Field!Slots : name # x[2] => U(name)[s] = 0
    BY DEF UnitSlots
  <2>. HIDE DEF U
  <2>5. \A s, t \in Field!Slots : U("gain")[s] = 1 /\ U("gain")[t] = 1 => s = t
    BY <2>2, <2>3
  <2>6. (\A s \in Field!Slots : U("gain")[s] = 0) \/ (\A s \in Field!Slots : U("re")[s] = 0 /\ U("im")[s] = 0)
    <3>1. CASE x[2] = "gain"
      BY <2>4, <3>1
    <3>2. CASE x[2] # "gain"
      BY <2>4, <3>2
    <3>. QED BY <3>1, <3>2
  <2>. QED BY <2>1, <2>5, <2>6 DEF Direction
<1>4. U("gain") \in SlotFunctions /\ U("re") \in SlotFunctions /\ U("im") \in SlotFunctions
  BY DEF UnitSlots, SlotFunctions
<1>5. Field!Accumulated(rows, mode)[c] = Field!Finalized(V("gain"), V("re"), V("im"), mode)
  BY DEF Field!Accumulated
<1>6. ASSUME NEW d \in {1, -1}
      PROVE  Field!Accumulated(Field!Moved(rows, x, d), mode)[c]
               = Field!Finalized(Shifted(V("gain"), U("gain"), d), Shifted(V("re"), U("re"), d),
                                  Shifted(V("im"), U("im"), d), mode)
  <2>. DEFINE M == Field!Moved(rows, x, d)
              W(name) == Field!Scattered(M, Field!Column(M, name), c)
  <2>1. Field!Accumulated(M, mode)[c] = Field!Finalized(W("gain"), W("re"), W("im"), mode)
    BY DEF Field!Accumulated
  <2>2. ASSUME NEW name \in RowValues PROVE W(name) = Shifted(V(name), U(name), d)
    <3>1. /\ DOMAIN W(name) = Field!Slots
          /\ \A s \in Field!Slots : W(name)[s] = V(name)[s] + d * U(name)[s]
      BY ScatteredMoved
    <3>2. W(name) = [s \in Field!Slots |-> Sum(Field!Column(M, name), Field!At(M, s, c))]
      BY FieldSumIsSum DEF Field!Scattered
    <3>3. W(name) = [s \in DOMAIN W(name) |-> W(name)[s]]
      <4>. HIDE DEF M
      <4>. QED BY <3>2
    <3>. HIDE DEF M, W, V, U
    <3>. QED BY <3>1, <3>3 DEF Shifted
  <2>3. W("gain") = Shifted(V("gain"), U("gain"), d) /\ W("re") = Shifted(V("re"), U("re"), d)
        /\ W("im") = Shifted(V("im"), U("im"), d)
    <3>. HIDE DEF W, V, U
    <3>. QED BY <2>2 DEF RowValues
  <2>. HIDE DEF W, V, U
  <2>. QED BY <2>1, <2>3
<1>. QED BY <1>1, <1>2, <1>3, <1>4, <1>5, <1>6

LEMMA JvpIs ==
  ASSUME rows \in Seq(FieldRows), NEW x \in Field!Inputs(rows), NEW mode, NEW c \in Field!Cells
  PROVE  LET G == Field!Scattered(rows, Field!Column(rows, "gain"), c)
             R == Field!Scattered(rows, Field!Column(rows, "re"), c)
             I == Field!Scattered(rows, Field!Column(rows, "im"), c)
             ug == UnitSlots(x, c, "gain")  ur == UnitSlots(x, c, "re")  ui == UnitSlots(x, c, "im")
             out == Field!Accumulated(rows, mode)
         IN PushedTo(Field!Jvp(rows, out, Field!UnitTangent(rows, x), mode)[c], R, I, ur, ui,
                     TangentOf(R, I, ug, ur, ui, mode), mode, out[c].total > 0)
<1>. DEFINE G == Field!Scattered(rows, Field!Column(rows, "gain"), c)
            R == Field!Scattered(rows, Field!Column(rows, "re"), c)
            I == Field!Scattered(rows, Field!Column(rows, "im"), c)
            ug == UnitSlots(x, c, "gain")  ur == UnitSlots(x, c, "re")  ui == UnitSlots(x, c, "im")
            out == Field!Accumulated(rows, mode)
            V == Field!UnitTangent(rows, x)
            t == Field!Jvp(rows, out, V, mode)[c]
<1>1. /\ G \in SlotFunctions /\ R \in SlotFunctions /\ I \in SlotFunctions
      /\ ug \in SlotFunctions /\ ur \in SlotFunctions /\ ui \in SlotFunctions
      /\ out[c] = Field!Finalized(G, R, I, mode)
  BY CellsOfMove
<1>2. /\ Field!Scattered(rows, Field!Column(V, "gain"), c) = ug
      /\ Field!Scattered(rows, Field!Column(V, "re"), c) = ur
      /\ Field!Scattered(rows, Field!Column(V, "im"), c) = ui
  BY ScatteredUnit DEF RowValues
<1>3. t = Field!Pushed(rows, out, V, mode, c)
  <2>. HIDE DEF out, V
  <2>. QED BY DEF Field!Jvp
<1>. HIDE DEF G, R, I, ug, ur, ui, out, V, t
<1>4. out[c].re = R /\ out[c].im = I
  <2>1. Combined(out[c], R, I, PowerOf(G, R, I, mode), mode)
    BY <1>1, CombinedIs
  <2>. QED BY <2>1 DEF Combined
<1>5. PushedTo(t, R, I, ur, ui, TangentOf(R, I, ug, ur, ui, mode), mode, out[c].total > 0)
  BY <1>1, <1>2, <1>3, <1>4, PushedIs
<1>. QED BY <1>5 DEF G, R, I, ug, ur, ui, out, V, t

\* The tangent of an output is half its centred difference.
LEMMA HalfTheDifference ==
  ASSUME NEW G \in [Field!Slots -> Nat], NEW R \in SlotFunctions, NEW I \in SlotFunctions, NEW mode,
         NEW ug, NEW ur, NEW ui, Direction(ug, ur, ui),
         NEW at, Combined(at, R, I, PowerOf(G, R, I, mode), mode),
         NEW up, Combined(up, Shifted(R, ur, 1), Shifted(I, ui, 1),
                          PowerOf(Shifted(G, ug, 1), Shifted(R, ur, 1), Shifted(I, ui, 1), mode), mode),
         NEW down, Combined(down, Shifted(R, ur, -1), Shifted(I, ui, -1),
                            PowerOf(Shifted(G, ug, -1), Shifted(R, ur, -1), Shifted(I, ui, -1), mode), mode),
         NEW t, PushedTo(t, R, I, ur, ui, TangentOf(R, I, ug, ur, ui, mode), mode, at.total > 0),
         NEW o \in Field!Outputs, o[1] = "square" => at.total # 0
  PROVE  2 * Field!Read(t, o) = Field!Read(up, o) - Field!Read(down, o)
<1>. DEFINE p == PowerOf(G, R, I, mode)
            pu == PowerOf(Shifted(G, ug, 1), Shifted(R, ur, 1), Shifted(I, ui, 1), mode)
            pd == PowerOf(Shifted(G, ug, -1), Shifted(R, ur, -1), Shifted(I, ui, -1), mode)
            q == TangentOf(R, I, ug, ur, ui, mode)
<1>1. G \in SlotFunctions /\ ug \in SlotFunctions /\ ur \in SlotFunctions /\ ui \in SlotFunctions
  BY DEF Direction, SlotFunctions
<1>2. p \in SlotFunctions /\ pu \in SlotFunctions /\ pd \in SlotFunctions /\ q \in SlotFunctions
  BY <1>1, ShiftedIs, PowersAre, TangentsAre
<1>3. (\A s \in Field!Slots : 2 * q[s] = pu[s] - pd[s]) /\ 2 * Six(q) = Six(pu) - Six(pd)
  <2>1. Halves(q, pu, pd)
    BY <1>1, PowersDiffer
  <2>. HIDE DEF q, pu, pd
  <2>. QED BY <2>1 DEF Halves
<1>4. Combined(at, R, I, p, mode) /\ PushedTo(t, R, I, ur, ui, q, mode, at.total > 0)
  OBVIOUS
<1>5. /\ Combined(up, Shifted(R, ur, 1), Shifted(I, ui, 1), pu, mode)
      /\ Combined(down, Shifted(R, ur, -1), Shifted(I, ui, -1), pd, mode)
  OBVIOUS
<1>6. Six(p) # 0 => Six(pu) >= 0 /\ Six(pd) >= 0
  BY StepKeepsSign
<1>7. Six(p) >= 0
  <2>1. \A s \in Field!Slots : p[s] >= 0
    <3>1. SUFFICES ASSUME NEW s \in Field!Slots PROVE p[s] >= 0
      OBVIOUS
    <3>2. R[s] \in Int /\ I[s] \in Int /\ G[s] \in Nat
      BY DEF SlotFunctions
    <3>3. R[s] * R[s] + I[s] * I[s] \in Nat
      BY <3>2, SlotAlgebra
    <3>. QED BY <3>2, <3>3 DEF PowerOf
  <2>. HIDE DEF p
  <2>. QED BY <1>2, <2>1, SixIsNat
<1>. HIDE DEF p, pu, pd, q
<1>8. /\ Five(R) \in Int /\ Five(I) \in Int /\ Five(ur) \in Int /\ Five(ui) \in Int
      /\ Six(p) \in Int /\ Six(pu) \in Int /\ Six(pd) \in Int /\ Six(q) \in Int
      /\ q[4] \in Int /\ pu[4] \in Int /\ pd[4] \in Int /\ 4 \in Field!Slots
  BY <1>1, <1>2, FiveIs, FieldNumbers
<1>9. /\ Five(Shifted(R, ur, 1)) = Five(R) + 1 * Five(ur) /\ Five(Shifted(I, ui, 1)) = Five(I) + 1 * Five(ui)
      /\ Five(Shifted(R, ur, -1)) = Five(R) + (-1) * Five(ur) /\ Five(Shifted(I, ui, -1)) = Five(I) + (-1) * Five(ui)
  BY <1>1, ShiftedIs
<1>10. CASE o[1] = "power" /\ o[2] \in Field!Slots /\ \A cell : Field!Read(cell, o) = cell.power[o[2]]
  <2>1. t.power = q /\ up.power = pu /\ down.power = pd
    BY <1>4, <1>5 DEF Combined, PushedTo
  <2>. QED BY <1>3, <1>10, <2>1
<1>11. ASSUME NEW s \in Field!Slots, NEW f \in SlotFunctions, NEW u \in SlotFunctions
       PROVE  2 * u[s] = Shifted(f, u, 1)[s] - Shifted(f, u, -1)[s]
  <2>1. f[s] \in Int /\ u[s] \in Int
    BY DEF SlotFunctions
  <2>. QED BY <2>1 DEF Shifted
<1>12. CASE o[1] = "re" /\ o[2] \in Field!Slots /\ \A cell : Field!Read(cell, o) = cell.re[o[2]]
  <2>1. t.re = ur /\ up.re = Shifted(R, ur, 1) /\ down.re = Shifted(R, ur, -1)
    BY <1>4, <1>5 DEF Combined, PushedTo
  <2>. QED BY <1>1, <1>11, <1>12, <2>1
<1>13. CASE o[1] = "im" /\ o[2] \in Field!Slots /\ \A cell : Field!Read(cell, o) = cell.im[o[2]]
  <2>1. t.im = ui /\ up.im = Shifted(I, ui, 1) /\ down.im = Shifted(I, ui, -1)
    BY <1>4, <1>5 DEF Combined, PushedTo
  <2>. QED BY <1>1, <1>11, <1>13, <2>1
<1>14. CASE o[1] = "field" /\ o[2] \in {1, 2} /\ \A cell : Field!Read(cell, o) = cell.field[o[2]]
  <2>1. CASE mode.coherent
    <3>1. /\ t.field = <<Five(ur), Five(ui)>>
          /\ up.field = <<Five(Shifted(R, ur, 1)), Five(Shifted(I, ui, 1))>>
          /\ down.field = <<Five(Shifted(R, ur, -1)), Five(Shifted(I, ui, -1))>>
      BY <1>4, <1>5, <2>1 DEF Combined, PushedTo
    <3>2. /\ t.field[1] = Five(ur) /\ t.field[2] = Five(ui)
          /\ up.field[1] = Five(R) + 1 * Five(ur) /\ up.field[2] = Five(I) + 1 * Five(ui)
          /\ down.field[1] = Five(R) + (-1) * Five(ur) /\ down.field[2] = Five(I) + (-1) * Five(ui)
      BY <1>9, <3>1
    <3>3. 2 * t.field[1] = up.field[1] - down.field[1] /\ 2 * t.field[2] = up.field[2] - down.field[2]
      BY <1>8, <3>2
    <3>. QED BY <1>14, <3>3
  <2>2. CASE ~mode.coherent
    <3>1. t.field = <<0, 0>> /\ up.field = <<0, 0>> /\ down.field = <<0, 0>>
      BY <1>4, <1>5, <2>2 DEF Combined, PushedTo
    <3>2. t.field[o[2]] = 0 /\ up.field[o[2]] = 0 /\ down.field[o[2]] = 0
      BY <1>14, <3>1
    <3>. QED BY <1>14, <3>2
  <2>. QED BY <2>1, <2>2
<1>15. CASE o[1] = "total" /\ \A cell : Field!Read(cell, o) = cell.total
  <2>1. CASE mode.coherent
    <3>1. /\ t.total = 2 * (Five(R) * Five(ur) + Five(I) * Five(ui)) + q[4]
          /\ up.total = Five(Shifted(R, ur, 1)) * Five(Shifted(R, ur, 1))
                          + Five(Shifted(I, ui, 1)) * Five(Shifted(I, ui, 1)) + pu[4]
          /\ down.total = Five(Shifted(R, ur, -1)) * Five(Shifted(R, ur, -1))
                            + Five(Shifted(I, ui, -1)) * Five(Shifted(I, ui, -1)) + pd[4]
      BY <1>4, <1>5, <2>1 DEF Combined, PushedTo
    <3>. DEFINE a == Five(R)  b == Five(I)  u == Five(ur)  v == Five(ui)
    <3>2. a \in Int /\ b \in Int /\ u \in Int /\ v \in Int /\ 2 * q[4] = pu[4] - pd[4]
      BY <1>3, <1>8
    <3>3. /\ t.total = 2 * (a * u + b * v) + q[4]
          /\ up.total = (a + 1 * u) * (a + 1 * u) + (b + 1 * v) * (b + 1 * v) + pu[4]
          /\ down.total = (a + (-1) * u) * (a + (-1) * u) + (b + (-1) * v) * (b + (-1) * v) + pd[4]
      BY Zenon, <1>9, <3>1
    <3>. HIDE DEF a, b, u, v
    <3>4. 2 * (2 * (a * u + b * v) + q[4])
            = ((a + 1 * u) * (a + 1 * u) + (b + 1 * v) * (b + 1 * v) + pu[4])
                - ((a + (-1) * u) * (a + (-1) * u) + (b + (-1) * v) * (b + (-1) * v) + pd[4])
      BY <1>8, <3>2, FieldsDiffer
    <3>5. 2 * t.total = up.total - down.total
      BY Zenon, <3>3, <3>4
    <3>. QED BY <1>15, <3>5
  <2>2. CASE ~mode.coherent
    <3>1. t.total = Six(q) /\ up.total = Six(pu) /\ down.total = Six(pd)
      BY <1>4, <1>5, <2>2 DEF Combined, PushedTo
    <3>. QED BY <1>3, <1>15, <3>1
  <2>. QED BY <2>1, <2>2
<1>16. CASE o[1] = "square" /\ \A cell : Field!Read(cell, o) = cell.square
  <2>1. CASE mode.coherent
    <3>1. t.square = 0 /\ up.square = 0 /\ down.square = 0
      BY <1>4, <1>5, <2>1 DEF Combined, PushedTo
    <3>. QED BY <1>16, <3>1
  <2>2. CASE ~mode.coherent
    <3>1. at.total = Six(p) /\ at.total # 0
      BY <1>4, <1>16, <2>2 DEF Combined
    <3>2. at.total > 0 /\ ~(Six(pu) < 0) /\ ~(Six(pd) < 0)
      BY <1>6, <1>7, <1>8, <3>1
    <3>3. t.square = Six(q)
      BY <1>4, <2>2, <3>2 DEF PushedTo
    <3>4. up.square = Six(pu) /\ down.square = Six(pd)
      BY <1>5, <2>2, <3>2 DEF Combined
    <3>. QED BY <1>3, <1>16, <3>3, <3>4
  <2>. QED BY <2>1, <2>2
<1>. QED BY <1>10, <1>12, <1>13, <1>14, <1>15, <1>16, ReadIs

LEMMA ForwardIs ==
  ASSUME rows \in Seq(FieldRows), NEW mode
  PROVE  Field!TangentsAreDerivatives(rows, mode)
<1>. DEFINE out == Field!Accumulated(rows, mode)
            cell(x) == <<rows[x[1]].tx, rows[x[1]].rx>>
            up(x) == Field!Accumulated(Field!Moved(rows, x, 1), mode)[cell(x)]
            down(x) == Field!Accumulated(Field!Moved(rows, x, -1), mode)[cell(x)]
            t(x) == Field!Jvp(rows, out, Field!UnitTangent(rows, x), mode)[cell(x)]
<1>1. ASSUME NEW x \in Field!Inputs(rows), NEW o \in Field!Outputs, o[1] = "square" => out[cell(x)].total # 0
      PROVE  2 * Field!Read(t(x), o) = Field!Read(up(x), o) - Field!Read(down(x), o)
  <2>. DEFINE c == cell(x)
              G == Field!Scattered(rows, Field!Column(rows, "gain"), c)
              R == Field!Scattered(rows, Field!Column(rows, "re"), c)
              I == Field!Scattered(rows, Field!Column(rows, "im"), c)
              ug == UnitSlots(x, c, "gain")  ur == UnitSlots(x, c, "re")  ui == UnitSlots(x, c, "im")
  <2>1. c \in Field!Cells
    <3>1. rows[x[1]] \in FieldRows
      BY SeqIsFunction DEF Field!Inputs
    <3>. QED BY <3>1 DEF FieldRows, Field!Cells
  <2>. HIDE DEF c
  <2>2. /\ G \in [Field!Slots -> Nat] /\ R \in SlotFunctions /\ I \in SlotFunctions /\ G \in SlotFunctions
        /\ Direction(ug, ur, ui)
        /\ ug \in SlotFunctions /\ ur \in SlotFunctions /\ ui \in SlotFunctions
        /\ out[c] = Field!Finalized(G, R, I, mode)
        /\ \A d \in {1, -1} :
             Field!Accumulated(Field!Moved(rows, x, d), mode)[c]
               = Field!Finalized(Shifted(G, ug, d), Shifted(R, ur, d), Shifted(I, ui, d), mode)
    BY <2>1, CellsOfMove
  <2>3. PushedTo(t(x), R, I, ur, ui, TangentOf(R, I, ug, ur, ui, mode), mode, out[c].total > 0)
    BY <2>1, JvpIs DEF c
  <2>4. /\ up(x) = Field!Finalized(Shifted(G, ug, 1), Shifted(R, ur, 1), Shifted(I, ui, 1), mode)
        /\ down(x) = Field!Finalized(Shifted(G, ug, -1), Shifted(R, ur, -1), Shifted(I, ui, -1), mode)
    BY <2>2 DEF c
  <2>. HIDE DEF G, R, I, ug, ur, ui, out, up, down, t
  <2>5. Combined(out[c], R, I, PowerOf(G, R, I, mode), mode)
    BY <2>2, CombinedIs
  <2>6. ASSUME NEW d \in {1, -1}
        PROVE  Combined(Field!Finalized(Shifted(G, ug, d), Shifted(R, ur, d), Shifted(I, ui, d), mode),
                        Shifted(R, ur, d), Shifted(I, ui, d),
                        PowerOf(Shifted(G, ug, d), Shifted(R, ur, d), Shifted(I, ui, d), mode), mode)
    <3>1. Shifted(G, ug, d) \in SlotFunctions /\ Shifted(R, ur, d) \in SlotFunctions /\ Shifted(I, ui, d) \in SlotFunctions
      BY <2>2, ShiftedIs
    <3>. QED BY <3>1, CombinedIs
  <2>7. /\ Combined(up(x), Shifted(R, ur, 1), Shifted(I, ui, 1),
                    PowerOf(Shifted(G, ug, 1), Shifted(R, ur, 1), Shifted(I, ui, 1), mode), mode)
        /\ Combined(down(x), Shifted(R, ur, -1), Shifted(I, ui, -1),
                    PowerOf(Shifted(G, ug, -1), Shifted(R, ur, -1), Shifted(I, ui, -1), mode), mode)
    BY <2>4, <2>6
  <2>8. o[1] = "square" => out[c].total # 0
    BY <1>1 DEF c
  <2>. QED BY <2>2, <2>3, <2>5, <2>7, <2>8, HalfTheDifference
<1>. QED
  <2>. HIDE DEF out
  <2>. QED BY <1>1, Zenon DEF Field!TangentsAreDerivatives, out

-----------------------------------------------------------------------------
(* One output, sent back                                                   *)

Hot(p) == IF p THEN 1 ELSE 0

\* A cotangent of a cell that is one at one output, and zero at every other.
OneAt(g, o) ==
  /\ \A s \in Field!Slots :
       /\ g.power[s] = Hot(o[1] = "power" /\ o[2] = s)
       /\ g.re[s] = Hot(o[1] = "re" /\ o[2] = s)
       /\ g.im[s] = Hot(o[1] = "im" /\ o[2] = s)
  /\ g.field[1] = Hot(o[1] = "field" /\ o[2] = 1) /\ g.field[2] = Hot(o[1] = "field" /\ o[2] = 2)
  /\ g.total = Hot(o[1] = "total") /\ g.square = Hot(o[1] = "square")

LEMMA CotangentIs ==
  ASSUME NEW c \in Field!Cells, NEW o \in Field!Outputs
  PROVE  OneAt(Field!UnitCotangent(c, o)[c], o)
<1>. DEFINE n == [s \in Field!Slots |-> 0]
            z == [power |-> n, re |-> n, im |-> n, total |-> 0, field |-> <<0, 0>>, square |-> 0]
            g == Field!UnitCotangent(c, o)[c]
            a == o[1]  b == o[2]
<1>1. /\ a \in {"power", "re", "im", "field", "total", "square"}
      /\ a \in {"power", "re", "im"} => b \in Field!Slots
      /\ a = "field" => b \in {1, 2}
  BY DEF Field!Outputs
<1>2. g = IF a \in {"total", "square"} THEN [z EXCEPT ![a] = 1] ELSE [z EXCEPT ![a] = [z[a] EXCEPT ![b] = 1]]
  <2>1. Field!NoCotangent = [k \in Field!Cells |-> z]
    BY Zenon DEF Field!NoCotangent
  <2>2. Field!UnitCotangent(c, o) =
          IF a \in {"total", "square"} THEN [Field!NoCotangent EXCEPT ![c][a] = 1]
          ELSE [Field!NoCotangent EXCEPT ![c][a][b] = 1]
    BY Zenon DEF Field!UnitCotangent
  <2>. HIDE DEF z, a, b
  <2>3. Field!NoCotangent[c] = z /\ c \in DOMAIN Field!NoCotangent
    BY <2>1
  <2>. DEFINE N == Field!NoCotangent
  <2>4. [N EXCEPT ![c][a] = 1][c] = [N[c] EXCEPT ![a] = 1]
    <3>. HIDE DEF N
    <3>1. c \in DOMAIN N
      BY <2>3 DEF N
    <3>. QED BY <3>1
  <2>5. [N EXCEPT ![c][a][b] = 1][c] = [N[c] EXCEPT ![a] = [N[c][a] EXCEPT ![b] = 1]]
    <3>. HIDE DEF N
    <3>1. c \in DOMAIN N
      BY <2>3 DEF N
    <3>. QED BY <3>1
  <2>. QED BY <2>2, <2>3, <2>4, <2>5
<1>3. \A s \in Field!Slots : n[s] = 0
  OBVIOUS
<1>4. \A s, t \in Field!Slots : [n EXCEPT ![s] = 1][t] = Hot(s = t)
  BY DEF Hot
<1>5. Hot(FALSE) = 0 /\ Hot(TRUE) = 1
  BY DEF Hot
<1>. HIDE DEF n, g, a, b
<1>6. CASE a = "power"
  <2>1. g = [z EXCEPT !.power = [n EXCEPT ![b] = 1]]
    BY <1>2, <1>6
  <2>2. /\ g.power = [n EXCEPT ![b] = 1] /\ g.re = n /\ g.im = n
        /\ g.field = <<0, 0>> /\ g.total = 0 /\ g.square = 0
    BY <2>1
  <2>. QED BY <1>1, <1>3, <1>4, <1>5, <1>6, <2>2 DEF OneAt, a, b, g, Hot
<1>7. CASE a = "re"
  <2>1. g = [z EXCEPT !.re = [n EXCEPT ![b] = 1]]
    BY <1>2, <1>7
  <2>2. /\ g.re = [n EXCEPT ![b] = 1] /\ g.power = n /\ g.im = n
        /\ g.field = <<0, 0>> /\ g.total = 0 /\ g.square = 0
    BY <2>1
  <2>. QED BY <1>1, <1>3, <1>4, <1>5, <1>7, <2>2 DEF OneAt, a, b, g, Hot
<1>8. CASE a = "im"
  <2>1. g = [z EXCEPT !.im = [n EXCEPT ![b] = 1]]
    BY <1>2, <1>8
  <2>2. /\ g.im = [n EXCEPT ![b] = 1] /\ g.power = n /\ g.re = n
        /\ g.field = <<0, 0>> /\ g.total = 0 /\ g.square = 0
    BY <2>1
  <2>. QED BY <1>1, <1>3, <1>4, <1>5, <1>8, <2>2 DEF OneAt, a, b, g, Hot
<1>9. CASE a = "field"
  <2>1. g = [z EXCEPT !.field = [<<0, 0>> EXCEPT ![b] = 1]]
    BY <1>2, <1>9
  <2>2. /\ g.field = [<<0, 0>> EXCEPT ![b] = 1] /\ g.power = n /\ g.re = n /\ g.im = n
        /\ g.total = 0 /\ g.square = 0
    BY <2>1
  <2>. QED BY <1>1, <1>3, <1>5, <1>9, <2>2 DEF OneAt, a, b, g, Hot
<1>10. CASE a = "total"
  <2>1. /\ g.field = <<0, 0>> /\ g.power = n /\ g.re = n /\ g.im = n /\ g.total = 1 /\ g.square = 0
    BY <1>2, <1>10
  <2>. QED BY <1>3, <1>5, <1>10, <2>1 DEF OneAt, a, b, g, Hot
<1>11. CASE a = "square"
  <2>1. /\ g.field = <<0, 0>> /\ g.power = n /\ g.re = n /\ g.im = n /\ g.total = 0 /\ g.square = 1
    BY <1>2, <1>11
  <2>. QED BY <1>3, <1>5, <1>11, <2>1 DEF OneAt, a, b, g, Hot
<1>. QED BY <1>1, <1>6, <1>7, <1>8, <1>9, <1>10, <1>11

\* What the power of a row's slot, and the field of its cell, are asked for.
OwnOf(g, s, mode, positive) ==
  g.power[s] + (IF s \in Field!FieldSlots /\ mode.coherent THEN 0
                ELSE g.total + (IF ~mode.coherent /\ positive THEN g.square ELSE 0))
FieldOf(g, s, mode) == IF s \in Field!FieldSlots /\ mode.coherent THEN g.total ELSE 0

\* What a valid row receives.
Received(b, at, g, s, mode, positive) ==
  /\ b.gain = IF s \in Field!SquaredSlots(mode) THEN 0 ELSE OwnOf(g, s, mode, positive)
  /\ b.re = IF s \in Field!SquaredSlots(mode)
            THEN g.re[s] + 2 * at.re[s] * OwnOf(g, s, mode, positive) + 2 * at.field[1] * FieldOf(g, s, mode)
                   + (IF s \in Field!FieldSlots THEN g.field[1] ELSE 0)
            ELSE g.re[s]
  /\ b.im = IF s \in Field!SquaredSlots(mode)
            THEN g.im[s] + 2 * at.im[s] * OwnOf(g, s, mode, positive) + 2 * at.field[2] * FieldOf(g, s, mode)
                   + (IF s \in Field!FieldSlots THEN g.field[2] ELSE 0)
            ELSE g.im[s]

LEMMA GatheredIs ==
  ASSUME NEW row, NEW out, NEW cotangent, NEW mode, NEW s, NEW c,
         s = Field!SlotOf(row.id), c = <<row.tx, row.rx>>
  PROVE  /\ row.valid => Received(Field!Gathered(row, out, cotangent, mode), out[c], cotangent[c], s, mode, out[c].total > 0)
         /\ ~row.valid => Field!Gathered(row, out, cotangent, mode) = [gain |-> 0, re |-> 0, im |-> 0]
<1>. DEFINE at == out[c]  g == cotangent[c]
            own == OwnOf(g, s, mode, at.total > 0)  total == FieldOf(g, s, mode)
            b == Field!Gathered(row, out, cotangent, mode)
<1>1. b = IF ~row.valid THEN [gain |-> 0, re |-> 0, im |-> 0]
          ELSE IF s \in Field!SquaredSlots(mode)
          THEN [gain |-> 0,
                re |-> g.re[s] + 2 * at.re[s] * own + 2 * at.field[1] * total + (IF s \in Field!FieldSlots THEN g.field[1] ELSE 0),
                im |-> g.im[s] + 2 * at.im[s] * own + 2 * at.field[2] * total + (IF s \in Field!FieldSlots THEN g.field[2] ELSE 0)]
          ELSE [gain |-> own, re |-> g.re[s], im |-> g.im[s]]
  BY Zenon DEF Field!Gathered, OwnOf, FieldOf
<1>. HIDE DEF at, g, own, total, b
<1>2. ~row.valid => b = [gain |-> 0, re |-> 0, im |-> 0]
  BY <1>1
<1>3. row.valid =>
        /\ b.gain = IF s \in Field!SquaredSlots(mode) THEN 0 ELSE own
        /\ b.re = IF s \in Field!SquaredSlots(mode)
                  THEN g.re[s] + 2 * at.re[s] * own + 2 * at.field[1] * total + (IF s \in Field!FieldSlots THEN g.field[1] ELSE 0)
                  ELSE g.re[s]
        /\ b.im = IF s \in Field!SquaredSlots(mode)
                  THEN g.im[s] + 2 * at.im[s] * own + 2 * at.field[2] * total + (IF s \in Field!FieldSlots THEN g.field[2] ELSE 0)
                  ELSE g.im[s]
  BY <1>1
<1>. QED BY Zenon, <1>2, <1>3 DEF Received, at, g, own, total, b

\* The derivative of the power of slot s by value n of a row of it.
Weight(r, i, s, n, mode) ==
  IF s \in Field!SquaredSlots(mode) THEN (IF n = "re" THEN 2 * r[s] ELSE IF n = "im" THEN 2 * i[s] ELSE 0)
  ELSE Hot(n = "gain")

\* The derivative of output o by value n of a valid row of slot s.
Entry(r, i, s, n, o, mode, positive) ==
  CASE o[1] = "power" -> IF o[2] = s THEN Weight(r, i, s, n, mode) ELSE 0
    [] o[1] = "re" -> Hot(n = "re" /\ o[2] = s)
    [] o[1] = "im" -> Hot(n = "im" /\ o[2] = s)
    [] o[1] = "field" -> Hot(s # 4 /\ n = IF o[2] = 1 THEN "re" ELSE "im")
    [] o[1] = "total" -> IF mode.coherent /\ s # 4
                         THEN IF n = "re" THEN 2 * Five(r) ELSE IF n = "im" THEN 2 * Five(i) ELSE 0
                         ELSE Weight(r, i, s, n, mode)
    [] o[1] = "square" -> IF ~mode.coherent /\ positive THEN Weight(r, i, s, n, mode) ELSE 0

LEMMA ReceivedIsEntry ==
  ASSUME NEW r \in SlotFunctions, NEW i \in SlotFunctions, NEW s \in Field!Slots, NEW n \in RowValues,
         NEW mode, NEW positive, NEW at, at.re = r, at.im = i,
         at.field = IF mode.coherent THEN <<Five(r), Five(i)>> ELSE <<0, 0>>,
         NEW o \in Field!Outputs, o[1] = "field" => mode.coherent,
         NEW g, OneAt(g, o), NEW b, Received(b, at, g, s, mode, positive)
  PROVE  b[n] = Entry(r, i, s, n, o, mode, positive)
<1>. DEFINE own == OwnOf(g, s, mode, positive)
            total == FieldOf(g, s, mode)
            both == s # 4 /\ mode.coherent
            W == Weight(r, i, s, n, mode)
            a == o[1]  k == o[2]
            fr == Five(r)  fi == Five(i)  rs == r[s]  is == i[s]
            G == g.power[s]  GR == g.re[s]  GI == g.im[s]  G1 == g.field[1]  G2 == g.field[2]
            T == g.total  Q == g.square
            F1 == at.field[1]  F2 == at.field[2]
<1>1. rs \in Int /\ is \in Int /\ fr \in Int /\ fi \in Int
  BY FiveIs DEF SlotFunctions
<1>2. F1 \in Int /\ F2 \in Int /\ (both => F1 = fr /\ F2 = fi)
  BY <1>1
<1>3. /\ G = (IF a = "power" /\ k = s THEN 1 ELSE 0) /\ GR = (IF a = "re" /\ k = s THEN 1 ELSE 0)
      /\ GI = (IF a = "im" /\ k = s THEN 1 ELSE 0)
      /\ G1 = (IF a = "field" /\ k = 1 THEN 1 ELSE 0) /\ G2 = (IF a = "field" /\ k = 2 THEN 1 ELSE 0)
      /\ T = (IF a = "total" THEN 1 ELSE 0) /\ Q = (IF a = "square" THEN 1 ELSE 0)
  BY DEF OneAt, Hot
<1>5. s \in Field!FieldSlots <=> s # 4
  BY FieldNumbers
<1>6. s \in Field!SquaredSlots(mode) /\ s # 4 <=> both
  BY <1>5, FieldNumbers DEF Field!SquaredSlots
<1>7. /\ own = G + (IF both THEN 0 ELSE T + (IF ~mode.coherent /\ positive THEN Q ELSE 0))
      /\ total = IF both THEN T ELSE 0
  BY <1>5 DEF OwnOf, FieldOf
<1>8. /\ b.gain = IF s \in Field!SquaredSlots(mode) THEN 0 ELSE own
      /\ b.re = IF s \in Field!SquaredSlots(mode)
                THEN GR + 2 * rs * own + 2 * F1 * total + (IF s # 4 THEN G1 ELSE 0) ELSE GR
      /\ b.im = IF s \in Field!SquaredSlots(mode)
                THEN GI + 2 * is * own + 2 * F2 * total + (IF s # 4 THEN G2 ELSE 0) ELSE GI
  BY <1>5, Zenon DEF Received
<1>9. W = IF s \in Field!SquaredSlots(mode) THEN (IF n = "re" THEN 2 * rs ELSE IF n = "im" THEN 2 * is ELSE 0)
          ELSE IF n = "gain" THEN 1 ELSE 0
  BY DEF Weight, Hot
<1>10. Field!SquaredSlots(mode) = Field!SquaredSlots(mode) /\ n \in {"gain", "re", "im"}
  BY DEF RowValues
<1>11. Entry(r, i, s, n, o, mode, positive) =
         CASE a = "power" -> IF k = s THEN W ELSE 0
           [] a = "re" -> Hot(n = "re" /\ k = s)
           [] a = "im" -> Hot(n = "im" /\ k = s)
           [] a = "field" -> Hot(s # 4 /\ n = IF k = 1 THEN "re" ELSE "im")
           [] a = "total" -> IF mode.coherent /\ s # 4
                             THEN IF n = "re" THEN 2 * fr ELSE IF n = "im" THEN 2 * fi ELSE 0
                             ELSE W
           [] a = "square" -> IF ~mode.coherent /\ positive THEN W ELSE 0
  BY Zenon DEF Entry
<1>12. a = "field" => k \in {1, 2} /\ mode.coherent
  BY DEF Field!Outputs
<1>13. a \in {"power", "re", "im", "field", "total", "square"}
  BY DEF Field!Outputs
<1>. DEFINE squared == s \in Field!SquaredSlots(mode)  E == Entry(r, i, s, n, o, mode, positive)
<1>. HIDE DEF own, total, W, a, k, fr, fi, rs, is, G, GR, GI, G1, G2, T, Q, F1, F2, squared, E
<1>14. own \in {0, 1} /\ total \in {0, 1} /\ (total = 1 => both)
  BY <1>3, <1>7, <1>13
<1>15. /\ 2 * rs * own = IF own = 1 THEN 2 * rs ELSE 0
       /\ 2 * is * own = IF own = 1 THEN 2 * is ELSE 0
  BY <1>1, <1>14
<1>16. /\ 2 * F1 * total = IF total = 1 THEN 2 * fr ELSE 0
       /\ 2 * F2 * total = IF total = 1 THEN 2 * fi ELSE 0
  BY <1>1, <1>2, <1>14
<1>17. /\ b.gain = IF squared THEN 0 ELSE own
       /\ b.re = IF squared THEN GR + (IF own = 1 THEN 2 * rs ELSE 0) + (IF total = 1 THEN 2 * fr ELSE 0) + (IF s # 4 THEN G1 ELSE 0)
                            ELSE GR
       /\ b.im = IF squared THEN GI + (IF own = 1 THEN 2 * is ELSE 0) + (IF total = 1 THEN 2 * fi ELSE 0) + (IF s # 4 THEN G2 ELSE 0)
                            ELSE GI
  BY <1>8, <1>15, <1>16 DEF squared
<1>18. /\ W = IF squared THEN (IF n = "re" THEN 2 * rs ELSE IF n = "im" THEN 2 * is ELSE 0)
              ELSE IF n = "gain" THEN 1 ELSE 0
       /\ squared /\ s # 4 <=> both
  BY <1>6, <1>9 DEF squared
<1>. DEFINE x == b[n]
<1>19. /\ n = "gain" => x = b.gain
       /\ n = "re" => x = b.re
       /\ n = "im" => x = b.im
  OBVIOUS
<1>. HIDE DEF x
<1>20. x = (IF own = 1 THEN W ELSE 0)
             + (IF n = "re" THEN GR + (IF total = 1 THEN 2 * fr ELSE 0) + (IF both THEN G1 ELSE 0)
                ELSE IF n = "im" THEN GI + (IF total = 1 THEN 2 * fi ELSE 0) + (IF both THEN G2 ELSE 0) ELSE 0)
  <2>1. GR \in Int /\ GI \in Int /\ G1 \in Int /\ G2 \in Int
    BY <1>3
  <2>2. ~squared => ~both
    BY <1>18
  <2>3. CASE n = "gain"
    <3>1. x = IF squared THEN 0 ELSE own
      BY <1>17, <1>19, <2>3
    <3>. QED BY <1>14, <1>18, <2>3, <3>1
  <2>4. CASE n = "re"
    <3>1. x = IF squared THEN GR + (IF own = 1 THEN 2 * rs ELSE 0) + (IF total = 1 THEN 2 * fr ELSE 0) + (IF s # 4 THEN G1 ELSE 0)
              ELSE GR
      BY <1>17, <1>19, <2>4
    <3>. QED BY <1>1, <1>14, <1>18, <2>1, <2>4, <3>1
  <2>5. CASE n = "im"
    <3>1. x = IF squared THEN GI + (IF own = 1 THEN 2 * is ELSE 0) + (IF total = 1 THEN 2 * fi ELSE 0) + (IF s # 4 THEN G2 ELSE 0)
              ELSE GI
      BY <1>17, <1>19, <2>5
    <3>. QED BY <1>1, <1>14, <1>18, <2>1, <2>5, <3>1
  <2>. QED BY <1>10, <2>3, <2>4, <2>5
<1>21. W \in Int
  BY <1>1, <1>18
<1>22. CASE a = "power"
  <2>1. GR = 0 /\ GI = 0 /\ G1 = 0 /\ G2 = 0 /\ total = 0 /\ own = IF k = s THEN 1 ELSE 0
    BY <1>3, <1>7, <1>22
  <2>2. E = IF k = s THEN W ELSE 0
    BY <1>11, <1>22 DEF E
  <2>3. x = E
    BY <1>10, <1>20, <1>21, <2>1, <2>2
  <2>. QED BY <2>3 DEF x, E
<1>23. CASE a = "re"
  <2>1. GR = (IF k = s THEN 1 ELSE 0) /\ GI = 0 /\ G1 = 0 /\ G2 = 0 /\ total = 0 /\ own = 0
    BY <1>3, <1>7, <1>23
  <2>2. E = Hot(n = "re" /\ k = s)
    BY <1>11, <1>23 DEF E
  <2>3. x = E
    BY <1>10, <1>20, <2>1, <2>2 DEF Hot
  <2>. QED BY <2>3 DEF x, E
<1>24. CASE a = "im"
  <2>1. GI = (IF k = s THEN 1 ELSE 0) /\ GR = 0 /\ G1 = 0 /\ G2 = 0 /\ total = 0 /\ own = 0
    BY <1>3, <1>7, <1>24
  <2>2. E = Hot(n = "im" /\ k = s)
    BY <1>11, <1>24 DEF E
  <2>3. x = E
    BY <1>10, <1>20, <2>1, <2>2 DEF Hot
  <2>. QED BY <2>3 DEF x, E
<1>25. CASE a = "field"
  <2>1. /\ GI = 0 /\ GR = 0 /\ total = 0 /\ own = 0
        /\ G1 = (IF k = 1 THEN 1 ELSE 0) /\ G2 = (IF k = 2 THEN 1 ELSE 0)
    BY <1>3, <1>7, <1>25
  <2>2. E = Hot(s # 4 /\ n = IF k = 1 THEN "re" ELSE "im")
    BY <1>11, <1>25 DEF E
  <2>3. both <=> s # 4
    BY <1>12, <1>25
  <2>4. k = 1 \/ k = 2
    BY <1>12, <1>25
  <2>5. x = E
    <3>1. CASE k = 1
      BY <1>10, <1>20, <2>1, <2>2, <2>3, <3>1 DEF Hot
    <3>2. CASE k = 2
      BY <1>10, <1>20, <2>1, <2>2, <2>3, <3>2 DEF Hot
    <3>. QED BY <2>4, <3>1, <3>2
  <2>. QED BY <2>5 DEF x, E
<1>26. CASE a = "total"
  <2>1. /\ GI = 0 /\ GR = 0 /\ G1 = 0 /\ G2 = 0 /\ total = (IF both THEN 1 ELSE 0)
        /\ own = (IF both THEN 0 ELSE 1)
    BY <1>3, <1>7, <1>26
  <2>2. E = IF mode.coherent /\ s # 4 THEN IF n = "re" THEN 2 * fr ELSE IF n = "im" THEN 2 * fi ELSE 0 ELSE W
    BY <1>11, <1>26 DEF E
  <2>3. x = E
    BY <1>1, <1>10, <1>20, <1>21, <2>1, <2>2
  <2>. QED BY <2>3 DEF x, E
<1>27. CASE a = "square"
  <2>1. /\ GI = 0 /\ GR = 0 /\ G1 = 0 /\ G2 = 0 /\ total = 0
        /\ own = IF ~mode.coherent /\ positive THEN 1 ELSE 0
    BY <1>3, <1>7, <1>27
  <2>2. E = IF ~mode.coherent /\ positive THEN W ELSE 0
    BY <1>11, <1>27 DEF E
  <2>3. x = E
    BY <1>10, <1>20, <1>21, <2>1, <2>2
  <2>. QED BY <2>3 DEF x, E
<1>. QED BY <1>13, <1>22, <1>23, <1>24, <1>25, <1>26, <1>27

\* What reaches the outputs of the cell of a valid row from one of its values.
LEMMA PushedIsEntry ==
  ASSUME NEW r \in SlotFunctions, NEW i \in SlotFunctions, NEW s \in Field!Slots, NEW n \in RowValues,
         NEW mode, NEW positive,
         NEW ug \in SlotFunctions, NEW ur \in SlotFunctions, NEW ui \in SlotFunctions,
         \A t \in Field!Slots : /\ ug[t] = Hot(n = "gain" /\ t = s)
                               /\ ur[t] = Hot(n = "re" /\ t = s) /\ ui[t] = Hot(n = "im" /\ t = s),
         NEW t, PushedTo(t, r, i, ur, ui, TangentOf(r, i, ug, ur, ui, mode), mode, positive),
         NEW o \in Field!Outputs, o[1] = "field" => mode.coherent
  PROVE  Field!Read(t, o) = Entry(r, i, s, n, o, mode, positive)
<1>. DEFINE q == TangentOf(r, i, ug, ur, ui, mode)
            W == Weight(r, i, s, n, mode)
<1>1. q \in SlotFunctions
  BY TangentsAre
<1>2. W \in Int
  <2>1. r[s] \in Int /\ i[s] \in Int
    BY DEF SlotFunctions
  <2>. QED BY <2>1 DEF Weight, Hot
<1>3. ASSUME NEW p \in Field!Slots PROVE q[p] = IF p = s THEN W ELSE 0
  <2>. DEFINE a == r[p]  b == i[p]  u == ur[p]  v == ui[p]  w == ug[p]
  <2>1. a \in Int /\ b \in Int
    BY DEF SlotFunctions
  <2>2. q[p] = IF p \in Field!SquaredSlots(mode) THEN 2 * (a * u + b * v) ELSE w
    BY DEF TangentOf
  <2>3. /\ u = (IF n = "re" /\ p = s THEN 1 ELSE 0) /\ v = (IF n = "im" /\ p = s THEN 1 ELSE 0)
        /\ w = (IF n = "gain" /\ p = s THEN 1 ELSE 0)
    BY DEF Hot
  <2>. HIDE DEF a, b, u, v, w, q
  <2>4. 2 * (a * u + b * v) = IF p # s THEN 0 ELSE IF n = "re" THEN 2 * a ELSE IF n = "im" THEN 2 * b ELSE 0
    <3>1. (u = 0 \/ u = 1) /\ (v = 0 \/ v = 1) /\ (u = 0 \/ v = 0)
      BY <2>3
    <3>2. a * 0 = 0 /\ b * 0 = 0 /\ a * 1 = a /\ b * 1 = b
      BY <2>1
    <3>. QED BY <2>1, <2>3, <3>1, <3>2
  <2>5. CASE p = s
    <3>1. W = IF p \in Field!SquaredSlots(mode) THEN (IF n = "re" THEN 2 * a ELSE IF n = "im" THEN 2 * b ELSE 0)
              ELSE Hot(n = "gain")
      BY <2>5 DEF Weight, a, b
    <3>. QED BY <2>2, <2>3, <2>4, <2>5, <3>1 DEF Hot
  <2>6. CASE p # s
    BY <2>2, <2>3, <2>4, <2>6
  <2>. QED BY <2>5, <2>6
<1>. HIDE DEF q, W
<1>4. PushedTo(t, r, i, ur, ui, q, mode, positive)
  BY DEF q
<1>5. Six(q) = W /\ q[4] = IF s = 4 THEN W ELSE 0
  BY <1>2, <1>3, FieldNumbers DEF Six
<1>6. Five(ur) = Hot(n = "re" /\ s # 4) /\ Five(ui) = Hot(n = "im" /\ s # 4)
  BY FieldNumbers DEF Five, Hot
<1>7. Five(r) \in Int /\ Five(i) \in Int
  BY FiveIs
<1>. DEFINE E == Entry(r, i, s, n, o, mode, positive)
<1>8. E =
         CASE o[1] = "power" -> IF o[2] = s THEN W ELSE 0
           [] o[1] = "re" -> Hot(n = "re" /\ o[2] = s)
           [] o[1] = "im" -> Hot(n = "im" /\ o[2] = s)
           [] o[1] = "field" -> Hot(s # 4 /\ n = IF o[2] = 1 THEN "re" ELSE "im")
           [] o[1] = "total" -> IF mode.coherent /\ s # 4
                             THEN IF n = "re" THEN 2 * Five(r) ELSE IF n = "im" THEN 2 * Five(i) ELSE 0
                             ELSE W
           [] o[1] = "square" -> IF ~mode.coherent /\ positive THEN W ELSE 0
  BY Zenon DEF Entry, W
<1>. HIDE DEF E
<1>10. CASE o[1] = "power" /\ o[2] \in Field!Slots /\ \A cell : Field!Read(cell, o) = cell.power[o[2]]
  <2>1. t.power = q
    BY <1>4 DEF PushedTo
  <2>. QED BY <1>3, <1>8, <1>10, <2>1 DEF E
<1>11. CASE o[1] = "re" /\ o[2] \in Field!Slots /\ \A cell : Field!Read(cell, o) = cell.re[o[2]]
  <2>1. t.re = ur
    BY <1>4 DEF PushedTo
  <2>. QED BY <1>8, <1>11, <2>1 DEF E
<1>12. CASE o[1] = "im" /\ o[2] \in Field!Slots /\ \A cell : Field!Read(cell, o) = cell.im[o[2]]
  <2>1. t.im = ui
    BY <1>4 DEF PushedTo
  <2>. QED BY <1>8, <1>12, <2>1 DEF E
<1>13. CASE o[1] = "field" /\ o[2] \in {1, 2} /\ \A cell : Field!Read(cell, o) = cell.field[o[2]]
  <2>1. t.field = <<Five(ur), Five(ui)>>
    BY <1>4, <1>13 DEF PushedTo
  <2>2. E = Hot(s # 4 /\ n = IF o[2] = 1 THEN "re" ELSE "im")
    BY <1>8, <1>13
  <2>3. CASE o[2] = 1
    BY <1>6, <1>13, <2>1, <2>2, <2>3 DEF E, Hot
  <2>4. CASE o[2] = 2
    BY <1>6, <1>13, <2>1, <2>2, <2>4 DEF E, Hot
  <2>. QED BY <1>13, <2>3, <2>4
<1>14. CASE o[1] = "total" /\ \A cell : Field!Read(cell, o) = cell.total
  <2>1. E = IF mode.coherent /\ s # 4
            THEN IF n = "re" THEN 2 * Five(r) ELSE IF n = "im" THEN 2 * Five(i) ELSE 0
            ELSE W
    BY <1>8, <1>14
  <2>2. CASE mode.coherent
    <3>1. t.total = 2 * (Five(r) * Five(ur) + Five(i) * Five(ui)) + q[4]
      BY <1>4, <2>2 DEF PushedTo
    <3>. DEFINE a == Five(r)  b == Five(i)  u == Five(ur)  v == Five(ui)
    <3>2. /\ u = (IF n = "re" /\ s # 4 THEN 1 ELSE 0) /\ v = (IF n = "im" /\ s # 4 THEN 1 ELSE 0)
          /\ a \in Int /\ b \in Int
      BY <1>6, <1>7 DEF Hot
    <3>3. a * 0 = 0 /\ b * 0 = 0 /\ a * 1 = a /\ b * 1 = b
      BY <3>2
    <3>4. t.total = 2 * (a * u + b * v) + q[4]
      BY <3>1
    <3>5. E = IF s # 4 THEN IF n = "re" THEN 2 * a ELSE IF n = "im" THEN 2 * b ELSE 0 ELSE W
      BY <2>1, <2>2
    <3>. HIDE DEF a, b, u, v
    <3>6. t.total = E
      BY <1>2, <1>5, <3>2, <3>3, <3>4, <3>5
    <3>. QED BY <1>14, <3>6 DEF E
  <2>3. CASE ~mode.coherent
    <3>1. t.total = Six(q)
      BY <1>4, <2>3 DEF PushedTo
    <3>. QED BY <1>5, <1>14, <2>1, <2>3, <3>1 DEF E
  <2>. QED BY <2>2, <2>3
<1>15. CASE o[1] = "square" /\ \A cell : Field!Read(cell, o) = cell.square
  <2>1. E = IF ~mode.coherent /\ positive THEN W ELSE 0
    BY <1>8, <1>15
  <2>2. t.square = IF ~mode.coherent /\ positive THEN Six(q) ELSE 0
    BY <1>4 DEF PushedTo
  <2>. QED BY <1>5, <1>15, <2>1, <2>2 DEF E
<1>. QED BY <1>10, <1>11, <1>12, <1>13, <1>14, <1>15, ReadIs

\* Nothing reaches the outputs from a direction in which nothing moves.
LEMMA PushedIsNothing ==
  ASSUME NEW r \in SlotFunctions, NEW i \in SlotFunctions, NEW mode, NEW positive,
         NEW ug \in SlotFunctions, NEW ur \in SlotFunctions, NEW ui \in SlotFunctions,
         \A t \in Field!Slots : ug[t] = 0 /\ ur[t] = 0 /\ ui[t] = 0,
         NEW t, PushedTo(t, r, i, ur, ui, TangentOf(r, i, ug, ur, ui, mode), mode, positive),
         NEW o \in Field!Outputs
  PROVE  Field!Read(t, o) = 0
<1>. DEFINE q == TangentOf(r, i, ug, ur, ui, mode)
<1>1. ASSUME NEW p \in Field!Slots PROVE q[p] = 0
  <2>1. r[p] \in Int /\ i[p] \in Int
    BY DEF SlotFunctions
  <2>2. q[p] = IF p \in Field!SquaredSlots(mode) THEN 2 * (r[p] * 0 + i[p] * 0) ELSE 0
    BY DEF TangentOf
  <2>3. 2 * (r[p] * 0 + i[p] * 0) = 0
    BY <2>1
  <2>. QED BY <2>2, <2>3
<1>. HIDE DEF q
<1>2. PushedTo(t, r, i, ur, ui, q, mode, positive)
  BY DEF q
<1>3. Six(q) = 0 /\ q[4] = 0
  BY <1>1, FieldNumbers DEF Six
<1>4. Five(ur) = 0 /\ Five(ui) = 0
  BY FieldNumbers DEF Five
<1>5. Five(r) \in Int /\ Five(i) \in Int
  BY FiveIs
<1>6. t.power = q /\ t.re = ur /\ t.im = ui /\ t.field = <<0, 0>> /\ t.square = 0
  BY <1>2, <1>3, <1>4 DEF PushedTo
<1>7. t.total = 0
  <2>1. Five(r) * 0 = 0 /\ Five(i) * 0 = 0
    BY <1>5
  <2>2. t.total = IF mode.coherent THEN 2 * (Five(r) * 0 + Five(i) * 0) + 0 ELSE 0
    BY <1>2, <1>3, <1>4 DEF PushedTo
  <2>. QED BY <2>1, <2>2
<1>8. t.field[1] = 0 /\ t.field[2] = 0
  BY <1>6
<1>. QED BY <1>1, <1>6, <1>7, <1>8, ReadIs

LEMMA ReverseIs ==
  ASSUME rows \in Seq(FieldRows), \A k \in DOMAIN rows : rows[k].valid => rows[k].id \in 0 .. 7, NEW mode
  PROVE  Field!GradientsAreTransposed(rows, mode)
<1>. DEFINE out == Field!Accumulated(rows, mode)
            cell(x) == <<rows[x[1]].tx, rows[x[1]].rx>>
            t(x) == Field!Jvp(rows, out, Field!UnitTangent(rows, x), mode)[cell(x)]
            b(x, o) == Field!Backward(rows, out, Field!UnitCotangent(cell(x), o), mode)[x[1]]
<1>1. ASSUME NEW x \in Field!Inputs(rows), NEW o \in Field!Outputs, o[1] = "field" => mode.coherent
      PROVE  b(x, o)[x[2]] = Field!Read(t(x), o)
  <2>. DEFINE c == cell(x)
              row == rows[x[1]]
              n == x[2]
              s == Field!SlotOf(row.id)
              G == Field!Scattered(rows, Field!Column(rows, "gain"), c)
              R == Field!Scattered(rows, Field!Column(rows, "re"), c)
              I == Field!Scattered(rows, Field!Column(rows, "im"), c)
              ug == UnitSlots(x, c, "gain")  ur == UnitSlots(x, c, "re")  ui == UnitSlots(x, c, "im")
              cot == Field!UnitCotangent(c, o)
              at == out[c]
              g == cot[c]
              positive == at.total > 0
  <2>1. x[1] \in DOMAIN rows /\ n \in RowValues /\ row \in FieldRows
    BY SeqIsFunction DEF Field!Inputs, RowValues
  <2>2. c \in Field!Cells
    BY <2>1 DEF FieldRows, Field!Cells
  <2>3. /\ R \in SlotFunctions /\ I \in SlotFunctions /\ G \in SlotFunctions
        /\ ug \in SlotFunctions /\ ur \in SlotFunctions /\ ui \in SlotFunctions
        /\ at = Field!Finalized(G, R, I, mode)
    <3>. HIDE DEF c
    <3>. QED BY <2>2, CellsOfMove
  <2>4. PushedTo(t(x), R, I, ur, ui, TangentOf(R, I, ug, ur, ui, mode), mode, positive)
    BY <2>2, JvpIs
  <2>5. Combined(at, R, I, PowerOf(G, R, I, mode), mode)
    <3>. HIDE DEF at, G, R, I
    <3>. QED BY <2>3, CombinedIs
  <2>6. at.re = R /\ at.im = I /\ at.field = IF mode.coherent THEN <<Five(R), Five(I)>> ELSE <<0, 0>>
    <3>. HIDE DEF at, G, R, I
    <3>. QED BY <2>5 DEF Combined
  <2>7. OneAt(g, o)
    <3>. HIDE DEF c
    <3>. QED BY <2>2, CotangentIs
  <2>8. b(x, o) = Field!Gathered(row, out, cot, mode)
    <3>. HIDE DEF out, cot
    <3>. QED BY <2>1 DEF Field!Backward, cot
  <2>9. /\ row.valid => Received(b(x, o), at, g, s, mode, positive)
        /\ ~row.valid => b(x, o) = [gain |-> 0, re |-> 0, im |-> 0]
    <3>1. s = Field!SlotOf(row.id) /\ c = <<row.tx, row.rx>>
      OBVIOUS
    <3>. HIDE DEF out, cot, row, b, s, c
    <3>. QED BY <2>8, <3>1, GatheredIs
  <2>10. \A p \in Field!Slots : x[1] \in Field!At(rows, p, c) <=> row.valid /\ p = s
    BY <2>1 DEF Field!At
  <2>11. \A name : \A p \in Field!Slots :
           UnitSlots(x, c, name)[p] = IF name = n /\ row.valid /\ p = s THEN 1 ELSE 0
    <3>. HIDE DEF c, row, s
    <3>. QED BY <2>10 DEF UnitSlots
  <2>12. CASE row.valid
    <3>1. s \in Field!Slots
      <4>1. row.id \in 0 .. 7
        BY <2>1, <2>12
      <4>. QED BY <4>1 DEF Field!SlotOf, Field!Slots, Field!ScatteringSlot
    <3>2. \A p \in Field!Slots : /\ ug[p] = Hot(n = "gain" /\ p = s)
                                  /\ ur[p] = Hot(n = "re" /\ p = s) /\ ui[p] = Hot(n = "im" /\ p = s)
      BY <2>11, <2>12 DEF Hot
    <3>. HIDE DEF R, I, ug, ur, ui, at, g, row, s, n, positive, t, b, c, out
    <3>3. Received(b(x, o), at, g, s, mode, positive)
      BY <2>9, <2>12
    <3>4. b(x, o)[n] = Entry(R, I, s, n, o, mode, positive)
      BY <1>1, <2>1, <2>3, <2>6, <2>7, <3>1, <3>3, ReceivedIsEntry
    <3>5. Field!Read(t(x), o) = Entry(R, I, s, n, o, mode, positive)
      BY <1>1, <2>1, <2>3, <2>4, <3>1, <3>2, PushedIsEntry
    <3>. QED BY <3>4, <3>5 DEF n
  <2>13. CASE ~row.valid
    <3>1. b(x, o)[n] = 0
      BY <2>1, <2>9, <2>13 DEF RowValues
    <3>2. \A p \in Field!Slots : ug[p] = 0 /\ ur[p] = 0 /\ ui[p] = 0
      BY <2>11, <2>13
    <3>. HIDE DEF R, I, ug, ur, ui, at, g, row, s, n, positive, t, b, c, out
    <3>3. Field!Read(t(x), o) = 0
      BY <2>3, <2>4, <3>2, PushedIsNothing
    <3>. QED BY <3>1, <3>3 DEF n
  <2>. QED BY <2>12, <2>13
<1>. QED
  <2>. HIDE DEF out
  <2>. QED BY <1>1, Zenon DEF Field!GradientsAreTransposed, out

\* The valid rows that are accumulated are rows of components.
LEMMA AccumulatedIds ==
  ASSUME FieldInv, step = "exact"
  PROVE  \A k \in DOMAIN rows : rows[k].valid => rows[k].id \in 0 .. 7
<1>1. CASE scene.suffices
  <2>1. \A k \in DOMAIN rows : rows[k] \in RowsOf(Field!Searched(settings))
    BY <1>1, SeqIsFunction DEF FieldInv, FieldRowsInv, FieldAccumulated, FieldIntact
  <2>2. Field!Searched(settings) \subseteq Names
    BY DEF FieldInv, FieldConfigured, Field!Constructible, Field!Components, Field!Searched, Names
  <2>3. \A n \in Names : Field!Ids(n) \subseteq 0 .. 7
    BY DEF Names, Field!Ids
  <2>. QED BY <2>1, <2>2, <2>3 DEF RowsOf, Named
<1>2. CASE ~scene.suffices
  BY <1>2 DEF FieldInv, FieldRowsInv, FieldAccumulated, FieldBlanked
<1>. QED BY <1>1, <1>2

\* The companions, of the rows a solve accumulates.
LEMMA FieldCompanions ==
  ASSUME FieldInv PROVE Field!ForwardIsTheDerivative /\ Field!ReverseIsTheTranspose
<1>. SUFFICES ASSUME step = "exact"
              PROVE  /\ Field!TangentsAreDerivatives(rows, Field!Mode(settings))
                     /\ Field!GradientsAreTransposed(rows, Field!Mode(settings))
  BY Zenon DEF Field!ForwardIsTheDerivative, Field!ReverseIsTheTranspose
<1>1. rows \in Seq(FieldRows)
  BY DEF FieldInv, FieldRowsInv
<1>. QED BY <1>1, AccumulatedIds, ForwardIs, ReverseIs

=============================================================================
