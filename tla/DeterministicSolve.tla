------------------------- MODULE DeterministicSolve -------------------------
(***************************************************************************)
(* One solve of the deterministic solver (deterministic.py): the           *)
(* configuration is checked, paths are searched and capped, scattering     *)
(* rows are appended, a failed solve is blanked, the rows are accumulated, *)
(* a grid gets its exact diffraction power, the result is laid out, and    *)
(* the capacity of the search is checked before anything is returned.      *)
(***************************************************************************)
EXTENDS FieldAccumulation, SequencesExt

CONSTANTS
  GridShape,       \* rows and columns of a receiver grid
  Configurations,  \* configurations tried
  Scenes           \* what the searches of a scene find

GridFillsReceivers ==
  /\ {Transmitters, Receivers, GridShape[1], GridShape[2]} \subseteq Nat
  /\ GridShape[1] * GridShape[2] = Receivers

\* A search finds paths of its own kind, between the ends there are.
PathsAssumption ==
  LET Between(ids) == [tx : 0..Transmitters - 1, rx : 0..Receivers - 1, id : ids,
                       field : Int \X Int, axis : {"x", "y"}]
  IN /\ \A s \in Scenes :
          /\ s.paths \in Seq(Between({0, 1, 2, 3, 4, 5, 7}))
          /\ s.scattering \in Seq(Between({6})) /\ s.chains \in Seq(Between({6}))
          /\ s.rejected \in Nat
     /\ \A c \in Configurations : c.cap \in Nat

VARIABLES
  stage,      \* "check", "search", "scatter", "blank", "accumulate", "exact", "assemble",
              \* "terminal", "returned", "refused" or "raised"
  config,     \* the configuration
  scene,      \* the scene
  rows,       \* evaluated rows, in result order
  vector,     \* of each cell, the diffracted vector field added up during the search
  candidates, \* rows the searches looked at
  totals,     \* accumulated cells
  result,     \* path_gain and component_power, laid out, with the slots each is differentiated by
  metadata,   \* counts and statuses of the result
  paths,      \* exported path table
  truncated   \* diagnostics: was the result cut

vars == <<stage, config, scene, rows, vector, candidates, totals, result, metadata, paths, truncated>>

None == <<>>
Ids(name) ==
  CASE name = "los" -> {0} [] name = "reflection" -> {1} [] name = "diffraction" -> {2}
    [] name = "transmission" -> {5} [] name = "scattering" -> {6} [] name = "coupled" -> {3, 4, 7}
Slot(name) ==
  CASE name = "los" -> 0 [] name = "reflection" -> 1 [] name = "diffraction" -> 2
    [] name = "transmission" -> 3 [] name = "scattering" -> 4 [] name = "coupled" -> 5

-----------------------------------------------------------------------------
(* The configuration *)

Components == {"los", "reflection", "diffraction", "transmission", "scattering"}

\* What the constructor of a configuration takes.
Constructible(c) ==
  /\ c.depth >= 0
  /\ c.order \in {0, 1}
  /\ c.components # {} /\ c.components \subseteq Components
  /\ c.scatteringCoherent => "scattering" \in c.components
  /\ c.chains => "scattering" \in c.components
  /\ c.components \cap {"reflection", "transmission"} # {} => c.depth <= 5
  /\ c.coupled => c.depth >= 2 /\ {"reflection", "diffraction"} \subseteq c.components
  /\ c.cap >= 0
  /\ c.scope \in {"global", "per_pair"}
  /\ c.ad \in {"none", "jvp", "vjp"}

\* What a solve takes of it, for its receivers.
Solvable(c, s) ==
  /\ c.taper => c.ad = "none"
  /\ "reflection" \in c.components => c.depth >= 1
  /\ "diffraction" \in c.components => c.depth >= 1 /\ c.order >= 1
  /\ s.receivers = "mixed" => c.export

\* Components searched: a solve without bounces looks for direct paths alone.
Searched(c) ==
  (IF c.depth = 0 THEN c.components \cap {"los"} ELSE c.components)
  \cup (IF c.coupled THEN {"coupled"} ELSE {})

\* Names of the power maps of the result.
Exported(c) ==
  {"los", "reflection", "diffraction"} \cup (c.components \cap {"transmission", "scattering"})
  \cup (IF c.coupled THEN {"coupled"} ELSE {})

Mode(c) == [coherent |-> c.coherent, scattering |-> c.scatteringCoherent]

-----------------------------------------------------------------------------
(* Rows *)

\* A path of a scene as a row: its field along one axis, its power.
Row(p) ==
  [valid |-> TRUE, tx |-> p.tx, rx |-> p.rx, id |-> p.id, re |-> p.field[1], im |-> p.field[2],
   gain |-> p.field[1] * p.field[1] + p.field[2] * p.field[2]]
AsRows(S) == [k \in DOMAIN S |-> Row(S[k])]

\* The rows at some positions, in their order.
Picked(S, places) ==
  [i \in 1..Cardinality(places) |->
     S[CHOOSE k \in places : Cardinality({j \in places : j < k}) = i - 1]]

Found(c, s) ==
  Picked(s.paths, {k \in DOMAIN s.paths : \E n \in Searched(c) : s.paths[k].id \in Ids(n)})

\* The rows a cap keeps, of all rows or of each pair.
Capped(c, S) ==
  LET scope(k) == IF c.scope = "global" THEN 1..k
                  ELSE {j \in 1..k : S[j].tx = S[k].tx /\ S[j].rx = S[k].rx}
  IN Picked(S, {k \in DOMAIN S : c.cap = 0 \/ Cardinality(scope(k)) <= c.cap})

\* The vector field is added up edge by edge, before any row is dropped.
VectorField(S) ==
  [c \in Cells |-> [a \in {"x", "y"} |->
     LET here == {k \in DOMAIN S : S[k].id = 2 /\ <<S[k].tx, S[k].rx>> = c /\ S[k].axis = a}
     IN <<SumFunctionOnSet([k \in here |-> S[k].field[1]], here), SumFunctionOnSet([k \in here |-> S[k].field[2]], here)>>]]
NoVector == [c \in Cells |-> [a \in {"x", "y"} |-> <<0, 0>>]]

Square(z) == z[1] * z[1] + z[2] * z[2]

-----------------------------------------------------------------------------
Init ==
  /\ stage = "check" /\ config \in Configurations /\ scene \in Scenes
  /\ rows = <<>> /\ vector = None /\ candidates = 0 /\ totals = None
  /\ result = None /\ metadata = None /\ paths = None /\ truncated = FALSE

Check ==
  /\ stage = "check"
  /\ stage' = IF Constructible(config) /\ Solvable(config, scene) THEN "search" ELSE "refused"
  /\ UNCHANGED <<config, scene, rows, vector, candidates, totals, result, metadata, paths, truncated>>

Search ==
  /\ stage = "search"
  /\ LET S == Found(config, scene) IN
     /\ rows' = AsRows(Capped(config, S))
     /\ candidates' = Len(S) + scene.rejected
     /\ vector' = IF "diffraction" \in Searched(config) THEN VectorField(S) ELSE None
  /\ stage' = "scatter"
  /\ UNCHANGED <<config, scene, totals, result, metadata, paths, truncated>>

\* Fields that are to be combined must be fields of screens, and there must be one.
Combinable(on, s) == on /\ s.ensemble = 0 /\ s.screens > 0

\* Mutant of AppendScattering: scattering rows are no candidates.
AppendScatteringUncounted ==
  /\ stage = "scatter"
  /\ LET on == "scattering" \in Searched(config)
         chains == IF on /\ config.chains THEN scene.chains ELSE <<>>
     IN /\ rows' = rows \o (IF on THEN AsRows(scene.scattering) ELSE <<>>) \o AsRows(chains)
        /\ stage' = IF config.scatteringCoherent /\ ~Combinable(on, scene) THEN "refused" ELSE "blank"
  /\ UNCHANGED <<config, scene, vector, candidates, totals, result, metadata, paths, truncated>>

\* Scattering rows are appended behind the capped rows, chain rows behind these;
\* the rows of a chain are not counted as candidates.
AppendScattering ==
  /\ stage = "scatter"
  /\ LET on == "scattering" \in Searched(config)
         chains == IF on /\ config.chains THEN scene.chains ELSE <<>>
     IN /\ rows' = rows \o (IF on THEN AsRows(scene.scattering) ELSE <<>>) \o AsRows(chains)
        /\ candidates' = candidates + (IF on THEN Len(scene.scattering) ELSE 0)
        /\ stage' = IF config.scatteringCoherent /\ ~Combinable(on, scene) THEN "refused" ELSE "blank"
  /\ UNCHANGED <<config, scene, vector, totals, result, metadata, paths, truncated>>

\* Rows and vector field of a solve that ran out of capacity are blanked.
Blank ==
  /\ stage = "blank"
  /\ IF scene.suffices THEN UNCHANGED <<rows, vector>>
     ELSE /\ rows' = [k \in DOMAIN rows |-> [rows[k] EXCEPT !.valid = FALSE, !.id = -1, !.gain = 0, !.re = 0, !.im = 0]]
          /\ vector' = IF vector = None THEN None ELSE NoVector
  /\ stage' = "accumulate"
  /\ UNCHANGED <<config, scene, candidates, totals, result, metadata, paths, truncated>>

\* Places of the result: a cell is laid out column by column of a grid.
Laid(s, f) ==
  IF s.receivers = "grid"
  THEN [x \in (0..Transmitters - 1) \X (0..GridShape[2] - 1) \X (0..GridShape[1] - 1) |->
          f[<<x[1], x[3] * GridShape[2] + x[2]>>]]
  ELSE f

Differentiated == config.ad # "none"

Accumulate ==
  /\ stage = "accumulate"
  /\ totals' = Accumulated(rows, Mode(config))
  /\ result' =
       [gain |-> Laid(scene, [c \in Cells |-> totals'[c].total]),
        power |-> [n \in Exported(config) |-> Laid(scene, [c \in Cells |-> totals'[c].power[Slot(n)]])],
        gainWrt |-> IF Differentiated THEN Slots ELSE {},
        powerWrt |-> [n \in Exported(config) |-> IF Differentiated THEN {Slot(n)} ELSE {}]]
  /\ stage' = "exact"
  /\ UNCHANGED <<config, scene, rows, vector, candidates, metadata, paths, truncated>>

Exact == Laid(scene, [c \in Cells |-> Square(vector[c]["x"]) + Square(vector[c]["y"])])
HasExact == vector # None /\ scene.receivers = "grid"

\* Mutant of ExactDiffraction: the power of the rows is not taken out of the total.
ExactDiffractionAdded ==
  [result EXCEPT
     !.power["diffraction"] = Exact,
     !.powerWrt["diffraction"] = {},
     !.gain = IF config.coherent THEN @ ELSE [x \in DOMAIN @ |-> @[x] + Exact[x]],
     !.gainWrt = IF config.coherent THEN @ ELSE @ \ {2}]

\* A grid's diffraction power is that of its vector field, a constant for
\* differentiation; a total of powers has the power of the rows replaced in it.
ExactDiffraction ==
  [result EXCEPT
     !.power["diffraction"] = Exact,
     !.powerWrt["diffraction"] = {},
     !.gain = IF config.coherent THEN @
              ELSE [x \in DOMAIN @ |-> @[x] - result.power["diffraction"][x] + Exact[x]],
     !.gainWrt = IF config.coherent THEN @ ELSE @ \ {2}]

ReplaceDiffraction ==
  /\ stage = "exact"
  /\ result' = IF HasExact THEN ExactDiffraction ELSE result
  /\ stage' = "assemble"
  /\ UNCHANGED <<config, scene, rows, vector, candidates, totals, metadata, paths, truncated>>

\* Mutant of Counts: the coupled rows of two diffractions are left out.
CountsWithoutDoubles(c, S) ==
  [n \in Exported(c) |-> Cardinality({k \in DOMAIN S : S[k].id \in Ids(n) \ {7}})]

\* Rows of each component; the status of a requested component without rows.
Counts(c, S) == [n \in Exported(c) |-> Cardinality({k \in DOMAIN S : S[k].id \in Ids(n)})]
Metadata(c, S) ==
  [count |-> Len(S), components |-> Counts(c, S),
   status |-> [n \in Components |->
     IF n \notin c.components THEN "not_requested"
     ELSE IF n \in {"transmission", "scattering"} /\ Counts(c, S)[n] = 0 THEN "enabled_no_paths"
     ELSE "enabled"]]

\* The exported table; fields are blanked when they were not asked for.
Table(c, S) ==
  [k \in DOMAIN S |-> IF c.field THEN S[k] ELSE [S[k] EXCEPT !.re = 0, !.im = 0]]

Assemble ==
  /\ stage = "assemble"
  /\ metadata' = Metadata(config, rows)
  /\ truncated' = (config.cap > 0 /\ Len(rows) < candidates)
  /\ paths' = IF config.export THEN Table(config, rows) ELSE None
  /\ stage' = "terminal"
  /\ UNCHANGED <<config, scene, rows, vector, candidates, totals, result>>

TerminalCheck ==
  /\ stage = "terminal"
  /\ stage' = IF scene.suffices THEN "returned" ELSE "raised"
  /\ UNCHANGED <<config, scene, rows, vector, candidates, totals, result, metadata, paths, truncated>>

Done == stage \in {"returned", "refused", "raised"} /\ UNCHANGED vars

Next ==
  Check \/ Search \/ AppendScattering \/ Blank \/ Accumulate \/ ReplaceDiffraction \/ Assemble
  \/ TerminalCheck \/ Done

Spec == Init /\ [][Next]_vars

-----------------------------------------------------------------------------
TypeOK ==
  /\ stage \in {"check", "search", "scatter", "blank", "accumulate", "exact", "assemble",
                "terminal", "returned", "refused", "raised"}
  /\ config \in Configurations /\ scene \in Scenes
  /\ \A k \in DOMAIN rows : rows[k].valid \in BOOLEAN /\ <<rows[k].tx, rows[k].rx>> \in Cells
  /\ candidates \in Nat /\ truncated \in BOOLEAN
  /\ result # None => DOMAIN result.power = Exported(config)

\* "path_gain == sum(component_power.values()) when coherent=False"
\* (docs/dev/plans/03-channel-native-deterministic-solver-migration-plan.md:90),
\* with scattered fields combined, coupled rows and exact diffraction counted in.
IncoherentTotalsAreSums ==
  stage = "returned" /\ ~config.coherent =>
    \A x \in DOMAIN result.gain :
      result.gain[x] = SumFunctionOnSet([n \in DOMAIN result.power |-> result.power[n][x]], DOMAIN result.power)

\* "Scattering folds as power: total = |coherent field|^2 + scattering"
\* (tests/deterministic/test_scattering.py:230).
ScatteringFoldsAsPower ==
  stage = "returned" /\ config.coherent =>
    LET field == Laid(scene, [c \in Cells |-> Square(totals[c].field)]) IN
    \A x \in DOMAIN result.gain :
      result.gain[x] = field[x] + (IF "scattering" \in DOMAIN result.power THEN result.power["scattering"][x] ELSE 0)

\* The coherent field of a cell is the field of its paths, the scattered ones left
\* out (deterministic.cu:807-816).
FieldIsOfItsPaths ==
  stage = "returned" /\ config.coherent =>
    \A c \in Cells :
      LET here == {k \in DOMAIN rows : <<rows[k].tx, rows[k].rx>> = c /\ rows[k].id # 6}
      IN totals[c].field =
           <<SumFunctionOnSet(Column(rows, "re"), here), SumFunctionOnSet(Column(rows, "im"), here)>>

\* Forward mode gives the derivative of every output of the accumulator
\* (deterministic.cu:1120-1262).
ForwardIsTheDerivative == stage = "exact" /\ Differentiated => TangentsAreDerivatives(rows, Mode(config))

\* Reverse mode gives back what forward mode pushes through
\* (deterministic.cu:972-1118).
ReverseIsTheTranspose == stage = "exact" /\ Differentiated => GradientsAreTransposed(rows, Mode(config))

\* Nothing of a solve that ran out of capacity is returned
\* ("Native contract, overflow, allocation, or CUDA failure never returns a usable
\* partial or silently truncated result", docs/dev/deterministic/README.md:36).
NothingOfAFailedSolve == stage = "returned" => scene.suffices

\* Every row is counted under exactly one component of the result (deterministic.py:833-848).
CountsCoverTheRows ==
  stage = "returned" =>
    metadata.count = SumFunctionOnSet(metadata.components, DOMAIN metadata.components)

\* Without chains, a result a cap dropped rows from says so (deterministic.py:927).
CutsAreReported ==
  stage = "returned" /\ ~config.chains /\ config.cap > 0
    /\ Len(Capped(config, Found(config, scene))) < Len(Found(config, scene)) => truncated

-----------------------------------------------------------------------------
(* What the documents say and the code does not do *)
=============================================================================
