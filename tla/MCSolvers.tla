----------------------------- MODULE MCSolvers ------------------------------
(***************************************************************************)
(* Instances for TLC of the solvers. Two solves share no state, so a       *)
(* behaviour is of one part, chosen at the start; the solve of Bdpt is     *)
(* not configured in the others, and the variables of a part not chosen    *)
(* stay empty.                                                             *)
(*                                                                         *)
(*   paths           up to two transmitters and three receivers with       *)
(*                   arrays, results packed and filtered twice             *)
(*   fields          one transmitter and a two by two grid, or four        *)
(*                   points, every kind of row in every configuration      *)
(*   differentiated  the same, every combination of rows, perturbed        *)
(*   sampler         one light subpath, up to four bounces, order three    *)
(*   bdpt            a BDPT solve of every set of components and switch    *)
(*   basic           a Monte Carlo Basic solve of every set of components, *)
(*                   derivatives and limit, of a grid and of points        *)
(*   routes          a differentiation of every route of companions, for   *)
(*                   every set of up to three leaves, in both modes        *)
(***************************************************************************)
EXTENDS Bdpt, AdCompanions, Integers

CONSTANTS
  Parts,   \* the parts a run starts in
  \* PathResult
  PathScenes, PathConfigs, PathWorlds, PathRequests, MaxFilters,
  PathFound(_, _, _), PathScatters(_, _, _),
  \* DeterministicSolve
  Transmitters, Receivers, GridShape, FieldScenes, FieldConfigurations,
  DifferentiatedScenes, DifferentiatedConfigurations,
  \* BasicSolve
  BasicScenes, BasicConfigurations, MaxBytes, PathBytes, PairBytes, ReflectionCap, ChunkRows,
  \* AdPass
  RouteNames, Skipped, MaxSeeds, Compositions

VARIABLES
  part,   \* the part this behaviour is of
  \* PathResult, DeterministicSolve, BasicSolve and (step alone) AdPass
  step, settings, scene, rows, result,
  \* PathResult
  found, solved, asked,
  \* DeterministicSolve
  vector, candidates, totals, metadata, paths, truncated,
  \* BasicSolve
  matrix, wedges, maps, failed,
  \* AdPass
  subject, seeds, wanted, follow, order, applied, graph, tape, owed, flow, launches, reverse, forward

Path == INSTANCE PathResult WITH
  stage <- step, config <- settings, world <- found,
  Scenes <- PathScenes, Configs <- PathConfigs, Worlds <- PathWorlds,
  Found <- PathFound, Scatters <- PathScatters, Requests <- PathRequests

Field == INSTANCE DeterministicSolve WITH
  stage <- step, config <- settings,
  Configurations <- FieldConfigurations \cup DifferentiatedConfigurations,
  Scenes <- FieldScenes \cup DifferentiatedScenes

Basic == INSTANCE BasicSolve WITH
  stage <- step, config <- settings,
  Configurations <- BasicConfigurations, Scenes <- BasicScenes

Pass == INSTANCE AdPass WITH
  route <- subject, stage <- step, at <- applied, live <- graph, Orders <- Compositions

ASSUME SolversAssumption ==
  /\ Path!PathAssumption
  /\ Field!GridFillsReceivers /\ Field!PathsAssumption
  /\ BoundsAssumption /\ ConfigAssumption
  /\ Basic!BytesAssumption /\ Basic!InputsAssumption

-----------------------------------------------------------------------------
(* The instances *)

PathData == INSTANCE MCPathResult
MCPathScenes == PathData!MCScenes
MCPathConfigs == PathData!MCConfigs
MCPathWorlds == PathData!MCWorlds
MCPathRequests == PathData!MCRequests
MCPathFound(w, t, r) == PathData!MCFound(w, t, r)
MCPathScatters(w, t, r) == PathData!MCScatters(w, t, r)

FieldData == INSTANCE MCDeterministicSolve
MCGridShape == <<2, 2>>
MCFieldScenes == FieldData!MCScenes
MCFieldConfigurations == FieldData!MCConfigurations
MCDifferentiatedScenes == FieldData!MCDifferentiatedScenes
MCDifferentiatedConfigurations == FieldData!MCDifferentiated

\* Open space, a scene whose direct path is free, scenes with one and with two
\* walls in the way, smooth and rough, with frozen and with live vertices.
MCWorlds ==
  {[structures |-> FALSE, walls |-> 0, rough |-> FALSE, liveVertices |-> FALSE]}
    \cup [structures : {TRUE}, walls : 0 .. 2, rough : BOOLEAN, liveVertices : BOOLEAN]

BasicData == INSTANCE MCBasicSolve
MCBasicScenes == BasicData!MCScenes
MCBasicConfigurations == BasicData!MCConfigurations

MCRoutes == DOMAIN Routes

\* The lengths of diffraction, coupled and (forward) transmission rows carry no
\* derivative; every other pair of a listed route and an output is asked for.
MCSkipped == {"diffraction", "coupled", "coupledDd", "transmission"} \X {"length"}

-----------------------------------------------------------------------------
\* What is of AdPass alone.
passVars == <<subject, seeds, wanted, follow, order, applied, graph, tape, owed, flow, launches,
     reverse, forward>>
\* What a behaviour of PathResult leaves alone.
pathOthers == <<vars, passVars, vector, candidates, totals, metadata, paths, truncated,
     matrix, wedges, maps, failed>>
\* What a behaviour of DeterministicSolve leaves alone.
fieldOthers == <<vars, passVars, found, solved, asked, matrix, wedges, maps, failed>>
\* What a behaviour of BasicSolve leaves alone.
basicOthers == <<vars, passVars, rows, found, solved, asked, vector, candidates, totals,
     metadata, paths, truncated>>
\* What a differentiation leaves alone.
passOthers == <<vars, settings, scene, rows, result, found, solved, asked, vector, candidates,
     totals, metadata, paths, truncated, matrix, wedges, maps, failed>>
\* What a behaviour of Bdpt leaves alone.
solveOthers == <<step, settings, scene, rows, result, found, solved, asked, vector, candidates,
     totals, metadata, paths, truncated, matrix, wedges, maps, failed, passVars>>
\* What a behaviour of its sampler leaves alone.
samplerOthers == <<stage, config, world, samples, power>>

\* No solve of Bdpt is configured.
AtRest == Init /\ world = CHOOSE w \in Worlds : TRUE

Off(v) == v = <<>>
NoPass ==
  /\ Off(subject) /\ Off(seeds) /\ Off(wanted) /\ Off(follow) /\ Off(order) /\ Off(applied)
  /\ Off(graph) /\ Off(tape) /\ Off(owed) /\ Off(flow) /\ Off(launches) /\ Off(reverse)
  /\ Off(forward)
OnlyPath ==
  /\ AtRest /\ NoPass /\ Off(vector) /\ Off(candidates) /\ Off(totals) /\ Off(metadata) /\ Off(paths)
  /\ Off(truncated) /\ Off(matrix) /\ Off(wedges) /\ Off(maps) /\ Off(failed)
OnlyField ==
  /\ AtRest /\ NoPass /\ Off(found) /\ Off(solved) /\ Off(asked)
  /\ Off(matrix) /\ Off(wedges) /\ Off(maps) /\ Off(failed)
OnlyBasic ==
  /\ AtRest /\ NoPass /\ Off(rows) /\ Off(found) /\ Off(solved) /\ Off(asked) /\ Off(vector)
  /\ Off(candidates) /\ Off(totals) /\ Off(metadata) /\ Off(paths) /\ Off(truncated)
OnlyPass ==
  /\ AtRest /\ Off(settings) /\ Off(scene) /\ Off(rows) /\ Off(result) /\ Off(found)
  /\ Off(solved) /\ Off(asked) /\ Off(vector) /\ Off(candidates) /\ Off(totals)
  /\ Off(metadata) /\ Off(paths) /\ Off(truncated)
  /\ Off(matrix) /\ Off(wedges) /\ Off(maps) /\ Off(failed)
OnlySolve ==
  /\ NoPass /\ Off(step) /\ Off(settings) /\ Off(scene) /\ Off(rows) /\ Off(result) /\ Off(found)
  /\ Off(solved) /\ Off(asked) /\ Off(vector) /\ Off(candidates) /\ Off(totals)
  /\ Off(metadata) /\ Off(paths) /\ Off(truncated)
  /\ Off(matrix) /\ Off(wedges) /\ Off(maps) /\ Off(failed)

\* The parts that are solves of DeterministicSolve.
OfDeterministic == part \in {"fields", "differentiated"}

SolversInit ==
  /\ part \in Parts
  /\ \/ part = "paths" /\ Path!Init /\ OnlyPath
     \/ /\ part = "fields" /\ settings \in FieldConfigurations /\ scene \in FieldScenes
        /\ Field!Init /\ OnlyField
     \/ /\ part = "differentiated"
        /\ settings \in DifferentiatedConfigurations /\ scene \in DifferentiatedScenes
        /\ Field!Init /\ OnlyField
     \/ part = "sampler" /\ AtRest /\ OnlySolve
     \/ part = "bdpt" /\ Init /\ OnlySolve
     \/ part = "basic" /\ Basic!Init /\ OnlyBasic
     \/ part = "routes" /\ Pass!Init /\ OnlyPass

SolversNext ==
  \/ part = "paths" /\ Path!Next /\ UNCHANGED <<part, pathOthers>>
  \/ OfDeterministic /\ Field!Next /\ UNCHANGED <<part, fieldOthers>>
  \/ part = "sampler" /\ SamplerNext /\ UNCHANGED <<part, samplerOthers, solveOthers>>
  \/ part = "bdpt" /\ Next /\ UNCHANGED <<part, solveOthers>>
  \/ part = "basic" /\ Basic!Next /\ UNCHANGED <<part, basicOthers>>
  \/ part = "routes" /\ Pass!Next /\ UNCHANGED <<part, passOthers>>

solversVars == <<part, vars, solveOthers>>
SolversSpec == SolversInit /\ [][SolversNext]_solversVars
-----------------------------------------------------------------------------
(* TypeOK, SubpathsArePaidOnce and EachPathByOneRoute are Bdpt's.          *)

\* A path reaches the caller in the cell of its own pair of antennas, whatever
\* arrays, scattering rows, packing, beams and filters did to the rows between.
EachPairKeepsItsPaths ==
  part = "paths" =>
    /\ Path!TypeOK
    /\ Path!CellsAreTheirPair           \* reshaped by endpoint, then antenna
    /\ Path!VectorsStayWithTheirPaths   \* laid out by the validity mask
    /\ Path!BeamsCombineTheirPair       \* every antenna of a pair, once
    /\ Path!FiltersAreExact             \* the types asked, and no other
    /\ Path!RefusedBeforeTracing        \* an array the result could not hold

\* No caller is handed anything of a solve that ran out of capacity.
NothingOfAFailedSolve ==
  /\ part = "paths" => Path!NothingOfAFailedSolve
  /\ OfDeterministic => Field!NothingOfAFailedSolve
  /\ part = "basic" => Basic!NothingOfAFailedSolve

\* Totals, component powers, counts and the cut flag of a deterministic result
\* all speak of the rows it used, although each is made at another moment.
TotalsFollowTheRows ==
  OfDeterministic =>
    /\ Field!TypeOK
    /\ Field!IncoherentTotalsAreSums   \* each row's power once
    /\ Field!ScatteringFoldsAsPower    \* beside the coherent rows, no interference
    /\ Field!FieldIsOfItsPaths         \* of the coherent rows
    /\ Field!CountsCoverTheRows        \* of the appended ones too
    /\ Field!CutsAreReported           \* by the cap of any search

\* The hand-written companions of the accumulator are its derivative and the
\* transpose of that, slot by slot, under every switch.
CompanionsAreTheDerivative ==
  part = "differentiated" =>
    /\ Field!TypeOK
    /\ Field!ForwardIsTheDerivative
    /\ Field!ReverseIsTheTranspose

\* The gain of a cell of Monte Carlo Basic is each requested contribution once,
\* in the row of its own transmitter, and a solve fits the limit it started in.
EachContributionOnce ==
  part = "basic" =>
    /\ Basic!TypeOK
    /\ Basic!StraightLineOnce          \* by line of sight or by transmission
    /\ Basic!UnrequestedAddsNothing    \* though reflection is traced for wedges
    /\ Basic!GainIsThePowers           \* of the components reported
    /\ Basic!RowsAreTheirTransmitters  \* diffraction and scattering
    /\ Basic!StartsWithinItsLimit      \* in bytes, computed without a bound

\* A reverse pass of a listed route that is not refused sums a gradient over every
\* chain of companions along which the output depends on a leaf: nothing is
\* silently detached on the way. The coherent collection of BDPT is not listed.
NothingDropped == part = "routes" => Pass!TypeOK /\ Pass!NothingDropped

\* The two modes, written by hand in each companion, give the same derivative or
\* the same refusal, and a composition of them is never attempted.
ModesAnswerAlike ==
  part = "routes" =>
    /\ Pass!ForwardAsReverse      \* duals that require no gradient
    /\ Pass!RefusedInBothModes
    /\ Pass!CompositionsRefused   \* before any native launch

=============================================================================
