--------------------------- MODULE EdgeRefinement ---------------------------
(***************************************************************************)
(* Which diffraction edges of a RayD scene survive the edge policy         *)
(* (scene/resources.py).  The native table has one record per edge of each *)
(* structure; where two structures share a boundary edge it is there twice,*)
(* and refinement merges the two into one wedge, so that its field is not  *)
(* counted twice.  Endpoints stand for their cell of 0.1 mm, normals for   *)
(* the directions the comparisons tell apart.                              *)
(***************************************************************************)
EXTENDS Naturals, FiniteSets, FiniteSetsExt

CONSTANTS
  MaxRecords,  \* bound: edge records of the scene
  Points       \* cells an edge can end in

PointsAssumption == Points \subseteq Nat

VARIABLES records, policy, refined

vars == <<records, policy, refined>>

Normals == {"up", "down", "side"}
Coplanar(a, b) == a = b \/ {a, b} = {"up", "down"}

\* One edge record: where it runs from and to, whether a single face has it,
\* the normals of its faces, whether it is steep, whether the native kernel
\* selected it as a wedge or a half plane.
Records == [from : Points, to : Points, boundary : BOOLEAN,
            n0 : Normals, n1 : Normals, steep : BOOLEAN, selected : BOOLEAN]

\* A policy says how boundary edges count and which edges do.
Modes == {"vertical_only", "all_edges"}
Boundaries == {"exclude", "half_plane"}

\* Mutant of Resolve: a boundary that was not given is kept as it is.
ResolveGiven(requested, boundary) ==
  IF requested # "unset" /\ (requested = "yes") # (boundary = "half_plane")
  THEN "conflict" ELSE boundary

\* What a policy resolves to; asking for diffraction and excluding boundaries,
\* or the reverse, is refused.
Resolve(requested, boundary) ==
  LET b == IF boundary # "unset" THEN boundary
           ELSE IF requested = "no" THEN "exclude" ELSE "half_plane"
  IN IF requested # "unset" /\ (requested = "yes") # (b = "half_plane")
     THEN "conflict" ELSE b

Policies ==
  {[mode |-> m, boundary |-> Resolve(r, b)] :
     m \in Modes, r \in {"unset", "yes", "no"}, b \in Boundaries \cup {"unset"}}

-----------------------------------------------------------------------------
\* The edge whichever way it runs.
Key(r) == IF r.from <= r.to THEN <<r.from, r.to>> ELSE <<r.to, r.from>>

\* Boundary records that share both endpoints, in the order of the table.
SameEdge(t, i) ==
  {j \in DOMAIN t : t[j].selected /\ t[j].boundary /\ Key(t[j]) = Key(t[i])}

Candidate(t, i) == t[i].selected /\ t[i].boundary
First(t, i) == Candidate(t, i) /\ i = Min(SameEdge(t, i))
                 /\ Cardinality(SameEdge(t, i)) >= 2
Second(t, i) == Candidate(t, i) /\ Cardinality({j \in SameEdge(t, i) : j < i}) = 1
Extra(t, i) == Candidate(t, i) /\ Cardinality({j \in SameEdge(t, i) : j < i}) >= 2
PartnerOf(t, i) == CHOOSE j \in SameEdge(t, i) : Second(t, j)

\* Mutant of Merged: coplanar neighbours are kept as a wedge.
MergedFlat(t, i) ==
  LET j == PartnerOf(t, i) IN
  IF First(t, i)
  THEN [t[i] EXCEPT !.boundary = FALSE, !.n1 = t[j].n0, !.selected = TRUE]
  ELSE IF Second(t, i) \/ Extra(t, i) THEN [t[i] EXCEPT !.selected = FALSE] ELSE t[i]

\* Mutant of Merged: third and later records of an edge are left as they are.
MergedPairs(t, i) ==
  LET j == PartnerOf(t, i) IN
  IF First(t, i)
  THEN [t[i] EXCEPT !.boundary = FALSE, !.n1 = t[j].n0,
                    !.selected = ~Coplanar(t[i].n0, t[j].n0)]
  ELSE IF Second(t, i) THEN [t[i] EXCEPT !.selected = FALSE] ELSE t[i]

\* The first of a pair becomes the wedge between the two faces unless they lie
\* in a plane; the second and any further record are deselected.
Merged(t, i) ==
  LET j == PartnerOf(t, i) IN
  IF First(t, i)
  THEN [t[i] EXCEPT !.boundary = FALSE, !.n1 = t[j].n0,
                    !.selected = ~Coplanar(t[i].n0, t[j].n0)]
  ELSE IF Second(t, i) \/ Extra(t, i) THEN [t[i] EXCEPT !.selected = FALSE] ELSE t[i]

\* What the policy leaves selected, after the merge.
Admits(p, r) ==
  /\ p.boundary # "half_plane" => ~r.boundary
  /\ p.mode = "vertical_only" => r.steep

Refined(t, p) ==
  [i \in DOMAIN t |->
     LET r == Merged(t, i) IN [r EXCEPT !.selected = @ /\ Admits(p, r)]]

Refine ==
  /\ policy.boundary # "conflict"
  /\ refined = <<>>
  /\ refined' = Refined(records, policy)
  /\ UNCHANGED <<records, policy>>

\* The native kernel's table: a flat interior edge is never selected, a
\* boundary edge always, with the two sides of its one face for normals.
Native(r) ==
  /\ r.selected = (r.boundary \/ ~Coplanar(r.n0, r.n1))
  /\ r.boundary => r.n1 = r.n0
  /\ r.from # r.to

Init ==
  /\ \E n \in 1..MaxRecords :
       records \in [1..n -> {r \in Records : Native(r)}]
  /\ policy \in Policies
  /\ refined = <<>>

Next == Refine
Spec == Init /\ [][Next]_vars

-----------------------------------------------------------------------------
(* Properties. *)

Done == refined # <<>>

TypeOK ==
  /\ policy.boundary \in Boundaries \cup {"conflict"}
  /\ Done => DOMAIN refined = DOMAIN records /\ \A i \in DOMAIN refined : refined[i] \in Records

Was(i) == SameEdge(records, i)

\* No boundary edge is counted twice: of the boundary records between the same
\* endpoints, whichever way each structure runs along them, at most one stays.
EachEdgeOnce ==
  Done => \A i, j \in DOMAIN records :
    /\ Candidate(records, i) /\ Candidate(records, j) /\ Key(records[i]) = Key(records[j])
    /\ refined[i].selected /\ refined[j].selected
    => i = j

\* Where exactly two structures meet at an angle a wedge stays, with a normal
\* of each, whatever the policy says of boundaries; where they continue one
\* another nothing does.
MeetingStructuresAreAWedge ==
  Done => \A i \in DOMAIN records :
    Candidate(records, i) /\ Cardinality(Was(i)) = 2 =>
      LET a == Min(Was(i)) b == Max(Was(i)) IN
      /\ refined[a].selected <=>
           /\ ~Coplanar(records[a].n0, records[b].n0)
           /\ policy.mode = "vertical_only" => records[a].steep
      /\ refined[a].selected =>
           {refined[a].n0, refined[a].n1} = {records[a].n0, records[b].n0}

\* An edge a ray can be diffracted at is one record after refinement, one wedge
\* also where two structures meet in it.
EachEdgeIsOneWedge == EachEdgeOnce /\ MeetingStructuresAreAWedge
=============================================================================
