-------------------------- MODULE EnumeratedFields --------------------------
(***************************************************************************)
(* One enumerated solve (propagation/enumerated.py, propagation/fields.py):*)
(* each component asked for appends a block of discovered rows, the blocks *)
(* are merged, and every selected row is evaluated by the evaluator of its *)
(* component, which writes some of the shared output columns in place.     *)
(* A column is followed by the power of the transmitter's amplitude it     *)
(* carries, the factors multiplied into it and the leaves it is            *)
(* differentiated by; numbers are not.                                     *)
(***************************************************************************)
EXTENDS Integers, Sequences, FiniteSets, FiniteSetsExt, SequencesExt, Functions

CONSTANTS
  Transmitters,   \* transmitters of the scene, numbered from 0
  Receivers,      \* receivers, numbered from 0
  Jobs,           \* solves tried: configuration, live leaves, surfaces of the scene
  World           \* the rows the scene has, whatever the configuration asks

Leaves == {"frequency", "ends", "material", "vertices", "power"}

DepthLimit == 5   \* deepest specular chain a configuration may ask for

VARIABLES
  job,        \* the solve
  stage,      \* "prepare", "discover", "merge", "evaluate", "finish", "done", "refused"
  todo,       \* blocks to discover, then evaluators to run
  blocks,     \* discovered rows, block by block
  rows,       \* selected rows, in result order
  column,     \* of each selected row, its output columns
  writer,     \* of each selected row, the evaluators that wrote it
  offsets     \* pair offsets of the result

vars == <<job, stage, todo, blocks, rows, column, writer, offsets>>

Fields == {"field_xyz", "coefficient", "path_field", "path_gain"}
Unset == -1       \* NaN until an evaluator writes it
Preview == 9      \* an estimate of the search, in no convention
Coupled == {3, 4, 7}
Differentiated == job.ad # "none"

-----------------------------------------------------------------------------
(* What is discovered *)

\* A solve without bounces keeps direct paths only.
Components(j) ==
  j.components \
    ((IF j.order = 0 THEN {"diffraction"} ELSE {}) \cup
     (IF j.depth = 0 THEN {"reflection", "diffraction", "transmission", "scattering"} ELSE {}))

\* The searches of a solve, in order, with the components and depths each lists.
Blocks(j) ==
  LET c == Components(j) IN
  (IF "los" \in c THEN <<[ids |-> {0}, depths |-> {0}]>> ELSE <<>>)
  \o (IF "reflection" \in c THEN <<[ids |-> {1}, depths |-> {1}]>> ELSE <<>>)
  \o (IF "reflection" \in c /\ j.depth >= 2 THEN <<[ids |-> {1}, depths |-> 2..j.depth]>> ELSE <<>>)
  \o (IF "diffraction" \in c THEN <<[ids |-> {2}, depths |-> {1}]>> ELSE <<>>)
  \o (IF "transmission" \in c THEN <<[ids |-> {5}, depths |-> 1..j.depth]>> ELSE <<>>)
  \o (IF j.coupled /\ j.depth >= 2 /\ {"reflection", "diffraction"} \subseteq c
        THEN <<[ids |-> Coupled, depths |-> {2}]>> ELSE <<>>)

\* The columns a search leaves in a row of a component. The wedge kernel of the
\* search has applied the amplitude to its field; coupled rows have no gain yet.
Discovered(id) ==
  [power |-> [c \in Fields |->
     IF id \in Coupled /\ c \in {"path_field", "path_gain"} THEN Unset
     ELSE IF id = 2 /\ c = "field_xyz" THEN 1 ELSE Preview],
   arrival |-> "search", factors |-> {}, wrt |-> {}]

PairOf(r) == r.rx * Transmitters + r.tx

\* The order of the rows of a result: pair, depth, component; n stands for the
\* columns of lower rank and the arrival.
Before(x, r) ==
  \/ PairOf(x) < PairOf(r)
  \/ PairOf(x) = PairOf(r) /\ x.depth < r.depth
  \/ PairOf(x) = PairOf(r) /\ x.depth = r.depth /\ x.id < r.id
  \/ PairOf(x) = PairOf(r) /\ x.depth = r.depth /\ x.id = r.id /\ x.n < r.n

InOrder(S) == [i \in 1..Cardinality(S) |->
  CHOOSE r \in S : Cardinality({x \in S : Before(x, r)}) = i - 1]

\* Rows are told apart by what they are sorted by, as paths found once are (what
\* becomes of duplicates is CanonicalSelect's), and solves name leaves.
FieldsAssumption ==
  /\ IsFiniteSet(World) /\ Transmitters \in Nat /\ Receivers \in Nat
  /\ \A r \in World : {r.tx, r.rx, r.id, r.depth, r.n} \subseteq Nat
  /\ \A x, r \in World : x = r \/ Before(x, r) \/ Before(r, x)
  /\ \A j \in Jobs : /\ j.live \subseteq Leaves /\ j.depth \in Nat
                     /\ j.scope \in {"global", "per_pair"}

\* Lines of sight behind a box stay while the taper gives them a part.
Lit(r) == r.id # 0 \/ r.clear \in {"lit"} \cup (IF job.taper THEN {"edge"} ELSE {})

Listed(b) == {r \in World : r.id \in b.ids /\ r.depth \in b.depths /\ Lit(r)}

\* Nothing but direct paths, all of them: the block is the result.
FastPath == Len(blocks) = 1 /\ Components(job) = {"los"} /\ job.cap = 0

-----------------------------------------------------------------------------
(* What an evaluator writes *)

\* Hit points and normals are solved again on the graph.
GeometryAd(j) ==
  /\ j.ad # "none"
  /\ \/ j.explicit /\ "ends" \in j.live
     \/ "vertices" \in j.live
     \/ ~j.explicit /\ j.live \cap {"ends", "vertices"} # {}

\* The leaves a field companion of a component follows.
Followed(j, leaves) ==
  IF j.ad = "none" THEN {}
  ELSE j.live \cap (leaves \ (IF GeometryAd(j) THEN {} ELSE {"vertices"}))

\* Field and coefficient are of unit excitation, path field and gain powered.
UnitExcitation == [field_xyz |-> 0, coefficient |-> 0, path_field |-> 1, path_gain |-> 2]

\* Surfaces whose coherent patch integral takes the place of the reflection.
Replacing(j) == IF "scattering" \in Components(j) THEN j.realization ELSE {}

\* Mutant of RoughFactors: a replaced surface is left out at every depth.
RoughFactorsAtAnyDepth(j, r) ==
  (IF \E k \in DOMAIN r.via : r.via[k] \in j.rough THEN {"rough"} ELSE {})
  \cup (IF \E k \in DOMAIN r.via : r.via[k] \in Replacing(j) THEN {"replaced"} ELSE {})

RoughFactors(j, r) ==
  (IF \E k \in DOMAIN r.via : r.via[k] \in j.rough THEN {"rough"} ELSE {})
  \cup (IF r.depth = 1 /\ r.via[1] \in Replacing(j) THEN {"replaced"} ELSE {})

Los(j, r, c) ==
  [power |-> UnitExcitation, arrival |-> "field",
   factors |-> IF j.taper THEN {"taper"} ELSE {},
   wrt |-> Followed(j, {"frequency", "ends"})]

Reflect(j, r, c) ==
  [power |-> UnitExcitation, arrival |-> "field", factors |-> RoughFactors(j, r),
   wrt |-> Followed(j, {"frequency", "ends", "material", "vertices"})]

Transmit(j, r, c) ==
  [power |-> UnitExcitation, arrival |-> "field", factors |-> {},
   wrt |-> Followed(j, {"frequency", "ends", "material", "vertices"})]

\* Mutant of Diffract: the search's field is published as it stands.
DiffractPowered(j, r, c) ==
  [c EXCEPT !.power = [UnitExcitation EXCEPT !["field_xyz"] = c.power["field_xyz"]]]

\* The powered field, of the search or of the wedge companion, is projected and
\* divided by the amplitude. Length and delay stay the search's.
Diffract(j, r, c) ==
  LET powered == IF j.ad # "none" THEN 1 ELSE c.power["field_xyz"] IN
  [c EXCEPT
    !.power = [field_xyz |-> powered - 1, coefficient |-> powered - 1,
               path_field |-> powered, path_gain |-> 2 * powered],
    !.wrt = Followed(j, {"frequency", "ends", "material", "vertices"})
              \cup (IF j.detach THEN {} ELSE j.live \cap {"power"})]

Couple(j, r, c) ==
  [c EXCEPT !.power = UnitExcitation, !.wrt = Followed(j, {"frequency", "ends", "material"})]

Evaluated(e, j, r, c) ==
  CASE e = "los" -> Los(j, r, c)
    [] e = "reflection" -> Reflect(j, r, c)
    [] e = "transmission" -> Transmit(j, r, c)
    [] e = "diffraction" -> Diffract(j, r, c)
    [] OTHER -> Couple(j, r, c)

\* The rows an evaluator takes up.
Takes(e, r) ==
  CASE e = "los" -> r.id = 0
    [] e = "reflection" -> r.id = 1 /\ r.depth \in 1..DepthLimit
    [] e = "transmission" -> r.id = 5
    [] e = "diffraction" -> r.id = 2
    [] e = "coupled" -> r.id \in {3, 4}
    [] e = "double" -> r.id = 7

Taken(e) == {i \in DOMAIN rows : Takes(e, rows[i])}

-----------------------------------------------------------------------------
(* The solve *)

Init ==
  /\ job \in Jobs
  /\ stage = "prepare" /\ todo = <<>> /\ blocks = <<>> /\ rows = <<>> /\ column = <<>>
  /\ writer = <<>> /\ offsets = <<>>

\* A configuration is refused before anything is launched: chains too deep, a
\* taper with derivatives, a frequency derivative through dispersive materials.
Refusable ==
  \/ job.depth > DepthLimit /\ job.components \cap {"reflection", "transmission"} # {}
  \/ job.taper /\ job.ad # "none"
  \/ job.dispersive /\ job.ad # "none" /\ "frequency" \in job.live

Refuse ==
  /\ stage = "prepare" /\ Refusable
  /\ stage' = "refused"
  /\ UNCHANGED <<job, todo, blocks, rows, column, writer, offsets>>

Prepare ==
  /\ stage = "prepare" /\ ~Refusable
  /\ todo' = Blocks(job) /\ stage' = "discover"
  /\ UNCHANGED <<job, blocks, rows, column, writer, offsets>>

Discover ==
  /\ stage = "discover" /\ todo # <<>>
  /\ blocks' = Append(blocks, InOrder(Listed(Head(todo)))) /\ todo' = Tail(todo)
  /\ UNCHANGED <<job, stage, rows, column, writer, offsets>>

\* Mutant of Selected: the blocks are joined in the order they were listed.
SelectedAsListed == FlattenSeq(blocks)

\* The rows of the result: the one block as it is listed, receiver by receiver,
\* or all blocks in canonical order, the first ones of the solve or, on demand,
\* of each pair when capped.
Selected ==
  IF FastPath THEN blocks[1]
  ELSE LET all == UNION {Range(blocks[b]) : b \in DOMAIN blocks}
           before(r) == {x \in all : Before(x, r) /\ (job.scope = "per_pair" => PairOf(x) = PairOf(r))}
       IN InOrder({r \in all : job.cap = 0 \/ Cardinality(before(r)) < job.cap})

Merge ==
  /\ stage = "discover" /\ todo = <<>>
  /\ rows' = Selected
  /\ offsets' = [k \in 1..Transmitters * Receivers + 1 |->
                   Cardinality({i \in DOMAIN rows' : PairOf(rows'[i]) < k - 1})]
  /\ column' = [i \in DOMAIN rows' |-> Discovered(rows'[i].id)]
  /\ writer' = [i \in DOMAIN rows' |-> {}]
  /\ todo' = IF rows' = <<>> THEN <<>>
             ELSE <<"los", "reflection", "transmission", "diffraction", "coupled", "double">>
  /\ stage' = "evaluate"
  /\ UNCHANGED <<job, blocks>>

\* Mutant of Winner: gradients of vertices are let through the coupled rows.
WinnerUnguarded(e) ==
  e \in {"reflection", "coupled"} /\ Taken(e) # {} /\ GeometryAd(job) => ~job.moved

\* An evaluator that differentiates the geometry of coupled rows refuses the
\* vertices, and one that solves a winner again refuses one that moved.
Winner(e) ==
  /\ (e = "coupled" /\ \E i \in DOMAIN rows : rows[i].id \in Coupled) =>
       ~(GeometryAd(job) /\ "vertices" \in job.live)
  /\ e \in {"reflection", "coupled"} /\ Taken(e) # {} /\ GeometryAd(job) => ~job.moved

EvaluatorFails ==
  /\ stage = "evaluate" /\ todo # <<>>
  /\ ~Winner(Head(todo))
  /\ stage' = "refused"
  /\ UNCHANGED <<job, todo, blocks, rows, column, writer, offsets>>

Evaluate ==
  /\ stage = "evaluate" /\ todo # <<>>
  /\ Winner(Head(todo))
  /\ LET e == Head(todo) IN
     /\ column' = [i \in DOMAIN rows |->
                     IF i \in Taken(e) THEN Evaluated(e, job, rows[i], column[i]) ELSE column[i]]
     /\ writer' = [i \in DOMAIN rows |-> writer[i] \cup (IF i \in Taken(e) THEN {e} ELSE {})]
  /\ todo' = Tail(todo)
  /\ UNCHANGED <<job, stage, blocks, rows, offsets>>

Finish ==
  /\ stage = "evaluate" /\ todo = <<>>
  /\ stage' = "done"
  /\ UNCHANGED <<job, todo, blocks, rows, column, writer, offsets>>

Next == Refuse \/ Prepare \/ Discover \/ Merge \/ EvaluatorFails \/ Evaluate \/ Finish

Spec == Init /\ [][Next]_vars

-----------------------------------------------------------------------------
(* Properties *)

\* A solve publishes rows once each, with one writer at most.
TypeOK ==
  /\ stage \in {"prepare", "discover", "evaluate", "done", "refused"}
  /\ IsInjective(rows)
  /\ DOMAIN column = DOMAIN rows /\ DOMAIN writer = DOMAIN rows
  /\ \A i \in DOMAIN writer : Cardinality(writer[i]) <= 1

\* Every row of a finished solve was evaluated by the evaluator of its component:
\* no NaN and no estimate of the search is published, and every row is in one
\* convention, field and coefficient of unit excitation, path field and gain
\* carrying the transmitter's power (fields.py:1063-1216).
EveryRowIsEvaluated ==
  stage = "done" =>
    \A i \in DOMAIN rows : Cardinality(writer[i]) = 1 /\ column[i].power = UnitExcitation

\* The specular path of a single bounce on a surface whose phase screen is
\* integrated coherently is left out exactly when scattering is asked for, so
\* it is neither summed with the integral nor lost without it (fields.py:314-317).
ReplacedNeverSummed ==
  stage = "done" =>
    \A i \in DOMAIN rows :
      ("replaced" \in column[i].factors) <=>
        (rows[i].id = 1 /\ rows[i].depth = 1 /\ rows[i].via[1] \in job.realization
           /\ "scattering" \in job.components)

\* A differentiated solve that finishes follows every leaf the field of a row
\* depends on: a row that cannot be followed fails the solve (fields.py:783-797).
\* The power multiplies what the companions return and is left aside.
NothingSilentlyMissing ==
  stage = "done" /\ Differentiated =>
    \A i \in DOMAIN rows :
      column[i].wrt \ {"power"} =
        job.live \ ({"power"} \cup (IF rows[i].id = 0 THEN {"material", "vertices"} ELSE {}))

\* The offsets cut the result into the rows of each pair, in both ways of
\* assembling it (enumerated.py:719-770, 784-806).
OffsetsCutPairs ==
  stage = "done" =>
    \A k \in 1..Transmitters * Receivers :
      {i \in DOMAIN rows : PairOf(rows[i]) = k - 1} = offsets[k] + 1..offsets[k + 1]
=============================================================================
