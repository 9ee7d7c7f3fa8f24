---------------------------- MODULE WidebandGrid ----------------------------
(***************************************************************************)
(* A frequency grid on a fixed-topology replay (propagation/consumer.py).  *)
(* The caller declares offsets from a reference frequency; the preflight   *)
(* refuses grids the native launch cannot tell apart; each column is then  *)
(* launched at reference + offset, which the native bridge rounds to       *)
(* float32. Frequencies are integers of a unit finer than the coarsest     *)
(* float; a float keeps Precision significant bits, rounded to nearest,    *)
(* ties to even.                                                           *)
(***************************************************************************)
EXTENDS Integers, Sequences, Functions

CONSTANTS
  Precision,     \* significant bits of a launched frequency (float32: 24)
  Exponents,     \* exponents of the floats in range
  References,    \* reference frequencies a caller may compile at
  Offsets,       \* offsets a caller may declare
  MaxColumns     \* bound on the length of a grid

PrecisionAssumption == Precision \in Nat \ {0, 1} /\ Exponents \subseteq Nat
GridAssumption == References \subseteq Nat \ {0} /\ Offsets \subseteq Int /\ MaxColumns \in Nat

VARIABLES
  reference,   \* compiled.materials.frequency_hz
  grid,        \* frequency_offsets_hz, in the declared order
  stage,       \* "declared", "admitted", "refused", "published"
  launches     \* frequencies launched: the reference, then one per column

vars == <<reference, grid, stage, launches>>

Magnitude(x) == IF x < 0 THEN -x ELSE x

PowerOfTwo[n \in Nat] == IF n = 0 THEN 1 ELSE 2 * PowerOfTwo[n - 1]
Binade(e) == PowerOfTwo[e + Precision - 1] .. PowerOfTwo[e + Precision] - 1

\* One unit in the last place of the binade that holds x.
Ulp(x) == PowerOfTwo[CHOOSE e \in Exponents : x \in Binade(e)]

\* static_cast<float>.
Launch(x) ==
  LET u == Ulp(x)
      below == x - (x % u)
      up == \/ 2 * (x % u) > u
            \/ 2 * (x % u) = u /\ (x \div u) % 2 = 1
  IN IF up THEN below + u ELSE below

\* The frequencies asked for, and the references as launched, are in range.
InRange(x) == \E e \in Exponents : x \in Binade(e)
RangeAssumption ==
  \A r \in References : InRange(Launch(r)) /\ \A o \in Offsets \cup {0} : InRange(r + o)

\* native_frequency_resolution_hz: read after rounding, so that a value rounded
\* up across a power of two has the resolution of its launch.
Resolution == Ulp(Launch(reference))

WellFormed(g) == g # <<>> /\ IsInjective(g)

\* Mutant of Resolvable: neighbours are compared as declared, not sorted.
UnsortedResolvable(g) ==
  /\ \A j \in DOMAIN g : g[j] = 0 \/ Magnitude(g[j]) >= Resolution
  /\ \A j \in 1..Len(g) - 1 : Magnitude(g[j + 1] - g[j]) >= Resolution

Resolvable(g) ==
  /\ \A j \in DOMAIN g : g[j] = 0 \/ Magnitude(g[j]) >= Resolution
  /\ \A i, j \in DOMAIN g : g[i] < g[j] => g[j] - g[i] >= Resolution

Declare ==
  /\ stage = "idle"
  /\ \E g \in UNION {[1..n -> Offsets] : n \in 0..MaxColumns} :
       /\ WellFormed(g)
       /\ grid' = g
  /\ stage' = "declared"
  /\ UNCHANGED <<reference, launches>>

Preflight ==
  /\ stage = "declared"
  /\ stage' = IF Resolvable(grid) THEN "admitted" ELSE "refused"
  /\ UNCHANGED <<reference, grid, launches>>

\* Mutant of LaunchReference: the reference is launched for every column.
LaunchReferenceAgain ==
  /\ stage = "admitted"
  /\ launches' = Append(launches, Launch(reference))
  /\ UNCHANGED <<reference, grid, stage>>

\* column(0.0) produces the reference response and the shared geometry.
LaunchReference ==
  /\ stage = "admitted" /\ launches = <<>>
  /\ launches' = <<Launch(reference)>>
  /\ UNCHANGED <<reference, grid, stage>>

LaunchColumn ==
  /\ stage = "admitted" /\ Len(launches) \in 1..Len(grid)
  /\ launches' = Append(launches, Launch(reference + grid[Len(launches)]))
  /\ UNCHANGED <<reference, grid, stage>>

Publish ==
  /\ stage = "admitted" /\ Len(launches) = 1 + Len(grid)
  /\ stage' = "published"
  /\ UNCHANGED <<reference, grid, launches>>

Init ==
  /\ reference \in References
  /\ grid = <<>> /\ stage = "idle" /\ launches = <<>>

Next == Declare \/ Preflight \/ LaunchReference \/ LaunchColumn \/ Publish

Spec == Init /\ [][Next]_vars

-----------------------------------------------------------------------------
\* Columns of the answer, 0 being the reference response.
Columns == 0..Len(grid)
Requested(j) == reference + (IF j = 0 THEN 0 ELSE grid[j])
Launched(j) == launches[j + 1]

TypeOK ==
  /\ reference \in References
  /\ grid \in Seq(Offsets) /\ Len(grid) <= MaxColumns
  /\ stage \in {"idle", "declared", "admitted", "refused", "published"}
  /\ launches \in Seq(Nat) /\ Len(launches) <= 1 + Len(grid)

InReferenceBinade(j) == Ulp(Requested(j)) <= Resolution

\* Within the binade of the reference, or below it, no two columns of different
\* offsets (the reference being the column of offset 0) are one launch, unless
\* they are exactly one resolution apart and both half-way between two floats:
\* what _require_resolvable_offsets leaves, and no more.
ColumnsAreDistinctOffTies ==
  stage = "published" =>
    \A i, j \in Columns :
      /\ Requested(i) # Requested(j) /\ Launched(i) = Launched(j)
      /\ InReferenceBinade(i) /\ InReferenceBinade(j)
      => /\ Magnitude(Requested(i) - Requested(j)) = Resolution
         /\ 2 * (Requested(i) % Resolution) = Resolution
=============================================================================
