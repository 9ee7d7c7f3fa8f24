---------------------------- MODULE MCDiscovery -----------------------------
(***************************************************************************)
(* Instances for TLC of what finds the paths of a scene: the edges of its  *)
(* geometry, the candidates asked of the ray tracer, the selection among   *)
(* the rows they leave, their fields, and the scattering rows behind them. *)
(* Each runs on the finished answer of the one before, so a behaviour is   *)
(* of one part, chosen at the start; the one scene of EdgeRefinement stays *)
(* unrefined in the others, and the variables of a part not chosen empty.  *)
(*                                                                         *)
(*   edges        up to three edge records on two points                   *)
(*   reflections  sequences of up to three planes, three receivers         *)
(*   coupled      up to three planes and edges, within and past the limits *)
(*   mixed rows   three rows of one pair, of every kind, some twice        *)
(*   pairs        three rows of two transmitters and two receivers, capped *)
(*   fields       fourteen rows of every kind, in every configuration      *)
(*   chains       two rough faces, up to six legs, every cap               *)
(***************************************************************************)
EXTENDS EdgeRefinement, Integers

CONSTANTS
  Parts,   \* the parts a run starts in
  Transmitters, Receivers, FieldJobs, FieldWorld   \* EnumeratedFields

VARIABLES
  part,   \* the part this behaviour is of
  \* CandidateStreams
  job, status, queue, found,
  \* CanonicalSelect
  rows, cap, scope, stage, pass, fail, order, starts, winner, thread, index, out,
  \* EnumeratedFields
  todo, blocks, column, writer, offsets,
  \* ScatterChains
  world, at, bounces, paths, width, tables, chains, verdict

StreamData == INSTANCE MCCandidateStreams
ReflectionJobs == StreamData!ReflectionJobs
CoupledJobs == StreamData!CoupledJobs

Reflections == INSTANCE CandidateStreams WITH
  Jobs <- ReflectionJobs, PairChunk <- 5, SequenceChunk <- 3, Order1Limit <- 2,
  SequenceLimit <- 6, HardLimit <- 100
Coupled == INSTANCE CandidateStreams WITH
  Jobs <- CoupledJobs, PairChunk <- 5, SequenceChunk <- 7, Order1Limit <- 2,
  SequenceLimit <- 6, HardLimit <- 100

RowData == INSTANCE MCCanonicalSelect
MixedRows == RowData!MixedRows
PairRows == RowData!PairRows

Mixed == INSTANCE CanonicalSelect WITH
  Blocks <- MixedRows, MaxRows <- 3, NumTx <- 1, NumRx <- 1, Width <- 2,
  Caps <- {0}, NaN <- -1
Pairs == INSTANCE CanonicalSelect WITH
  Blocks <- PairRows, MaxRows <- 3, NumTx <- 2, NumRx <- 2, Width <- 2,
  Caps <- {0, 1, 2}, NaN <- -1

FieldData == INSTANCE MCEnumeratedFields
MCFieldWorld == FieldData!MCWorld
MCFieldJobs == FieldData!MCJobs

Fields == INSTANCE EnumeratedFields WITH Jobs <- FieldJobs, World <- FieldWorld

ChainData == INSTANCE MCScatterChains
ChainJobs == ChainData!MCJobs
ChainWorlds == ChainData!MCWorlds

Chains == INSTANCE ScatterChains WITH
  Transmitters <- 2, Receivers <- 2, KMax <- 2, Chunk <- 3,
  Jobs <- ChainJobs, Worlds <- ChainWorlds, Gain <- ChainData!MCGain

ASSUME DiscoveryAssumption ==
  /\ PointsAssumption /\ Fields!FieldsAssumption
  /\ Reflections!StreamsAssumption /\ Coupled!StreamsAssumption
  /\ Mixed!SelectAssumption /\ Pairs!SelectAssumption /\ Chains!ChainAssumption

\* What a behaviour of EdgeRefinement leaves alone.
edgeOthers == <<job, status, queue, found, rows, cap, scope, stage, pass, fail, order, starts,
     winner, thread, index, out, todo, blocks, column, writer, offsets, world, at, bounces, paths,
     width, tables, chains, verdict>>
\* What a behaviour of CandidateStreams leaves alone.
streamOthers == <<vars, rows, cap, scope, stage, pass, fail, order, starts, winner,
     thread, index, out, todo, blocks, column, writer, offsets, world, at, bounces, paths,
     width, tables, chains, verdict>>
\* What a behaviour of CanonicalSelect leaves alone.
rowOthers == <<vars, job, status, queue, found, todo, blocks, column, writer,
     offsets, world, at, bounces, paths, width, tables, chains, verdict>>
\* What a behaviour of EnumeratedFields leaves alone.
fieldOthers == <<vars, status, queue, found, cap, scope, pass, fail, order,
     starts, winner, thread, index, out, world, at, bounces, paths, width, tables, chains, verdict>>
\* What a behaviour of ScatterChains leaves alone.
chainOthers == <<vars, status, queue, found, rows, cap, scope, pass, fail, order,
     starts, winner, thread, index, out, todo, blocks, column, writer, offsets>>

\* A scene whose edges no solve has asked for.
AtRest ==
  /\ records = <<[from |-> 1, to |-> 2, boundary |-> TRUE, n0 |-> "up", n1 |-> "up",
                  steep |-> TRUE, selected |-> TRUE]>>
  /\ policy = [mode |-> "all_edges", boundary |-> "half_plane"]
  /\ refined = <<>>

Off(v) == v = <<>>
OnlyEdge ==
  /\ Off(job) /\ Off(status) /\ Off(queue) /\ Off(found) /\ Off(rows) /\ Off(cap)
  /\ Off(scope) /\ Off(stage) /\ Off(pass) /\ Off(fail) /\ Off(order) /\ Off(starts)
  /\ Off(winner) /\ Off(thread) /\ Off(index) /\ Off(out) /\ Off(todo) /\ Off(blocks)
  /\ Off(column) /\ Off(writer) /\ Off(offsets) /\ Off(world) /\ Off(at) /\ Off(bounces) /\ Off(paths) /\ Off(width)
  /\ Off(tables) /\ Off(chains) /\ Off(verdict)
OnlyStream ==
  /\ AtRest /\ Off(rows) /\ Off(cap) /\ Off(scope)
  /\ Off(stage) /\ Off(pass) /\ Off(fail) /\ Off(order) /\ Off(starts) /\ Off(winner)
  /\ Off(thread) /\ Off(index) /\ Off(out) /\ Off(todo) /\ Off(blocks) /\ Off(column) /\ Off(writer) /\ Off(offsets)
  /\ Off(world) /\ Off(at) /\ Off(bounces) /\ Off(paths) /\ Off(width) /\ Off(tables)
  /\ Off(chains) /\ Off(verdict)
OnlyRow ==
  /\ AtRest /\ Off(job) /\ Off(status)
  /\ Off(queue) /\ Off(found) /\ Off(todo) /\ Off(blocks) /\ Off(column) /\ Off(writer)
  /\ Off(offsets) /\ Off(world) /\ Off(at) /\ Off(bounces) /\ Off(paths) /\ Off(width)
  /\ Off(tables) /\ Off(chains) /\ Off(verdict)
OnlyField ==
  /\ AtRest /\ Off(status) /\ Off(queue)
  /\ Off(found) /\ Off(cap) /\ Off(scope) /\ Off(pass) /\ Off(fail) /\ Off(order)
  /\ Off(starts) /\ Off(winner) /\ Off(thread) /\ Off(index) /\ Off(out) /\ Off(world) /\ Off(at) /\ Off(bounces)
  /\ Off(paths) /\ Off(width) /\ Off(tables) /\ Off(chains) /\ Off(verdict)
OnlyChain ==
  /\ AtRest /\ Off(status) /\ Off(queue)
  /\ Off(found) /\ Off(rows) /\ Off(cap) /\ Off(scope) /\ Off(pass) /\ Off(fail)
  /\ Off(order) /\ Off(starts) /\ Off(winner) /\ Off(thread) /\ Off(index) /\ Off(out)
  /\ Off(todo) /\ Off(blocks)
  /\ Off(column) /\ Off(writer) /\ Off(offsets)

DiscoveryInit ==
  /\ part \in Parts
  /\ \/ part = "edges" /\ Init /\ OnlyEdge
     \/ part = "reflections" /\ Reflections!Init /\ OnlyStream
     \/ part = "coupled" /\ Coupled!Init /\ OnlyStream
     \/ part = "mixed rows" /\ Mixed!Init /\ OnlyRow
     \/ part = "pairs" /\ Pairs!Init /\ OnlyRow
     \/ part = "fields" /\ Fields!Init /\ OnlyField
     \/ part = "chains" /\ Chains!Init /\ OnlyChain

DiscoveryNext ==
  \/ part = "edges" /\ Next /\ UNCHANGED <<part, edgeOthers>>
  \/ part = "reflections" /\ Reflections!Next /\ UNCHANGED <<part, streamOthers>>
  \/ part = "coupled" /\ Coupled!Next /\ UNCHANGED <<part, streamOthers>>
  \/ part = "mixed rows" /\ Mixed!Next /\ UNCHANGED <<part, rowOthers>>
  \/ part = "pairs" /\ Pairs!Next /\ UNCHANGED <<part, rowOthers>>
  \/ part = "fields" /\ Fields!Next /\ UNCHANGED <<part, fieldOthers>>
  \/ part = "chains" /\ Chains!Next /\ UNCHANGED <<part, chainOthers>>

discoveryVars ==
  <<part, vars, job, status, queue, found, rows, cap, scope, stage, pass, fail, order,
    starts, winner, thread, index, out, todo, blocks, column, writer, offsets, world, at, bounces, paths,
    width, tables, chains, verdict>>
DiscoverySpec == DiscoveryInit /\ [][DiscoveryNext]_discoveryVars
-----------------------------------------------------------------------------
(* TypeOK and EachEdgeIsOneWedge are EdgeRefinement's.                     *)

\* A search that ends has asked every candidate of its space once, however the
\* space was cut into chunks and blocks, and one past its limit asked none.
EachCandidateOnce ==
  /\ part = "reflections" =>
       /\ Reflections!TypeOK
       /\ Reflections!NoneAskedTwice /\ Reflections!AllAskedWhenDone
       /\ Reflections!RequestsFit
  /\ part = "coupled" =>
       /\ Coupled!TypeOK
       /\ Coupled!NoneAskedTwice /\ Coupled!AllAskedWhenDone
       /\ Coupled!RefusedAtOnce

\* Of the rows of one path only the shortest is returned, and the gradient of
\* its columns comes back to it; a path whose shortest row sorts first is never
\* lost, in whatever order the rows arrived and the threads ran; a cap keeps the
\* first paths of each pair, by the kernels as by the tensor operations.
ShortestOfEachPath ==
  /\ part = "mixed rows" =>
       /\ Mixed!TypeOK
       /\ Mixed!EachPathOnce /\ Mixed!ShortestIsKept
       /\ Mixed!ArrivalIsForgotten /\ Mixed!GradientsComeBack
  /\ part = "pairs" =>
       /\ Pairs!TypeOK
       /\ Pairs!EachPathOnce /\ Pairs!ShortestIsKept
       /\ Pairs!ArrivalIsForgotten /\ Pairs!GradientsComeBack
       /\ Pairs!CapCountsThePair
       /\ Pairs!KernelsAgree           \* though they sort on other keys

\* The paths kept of a table are those kept of the same rows in reverse: "order and
\* dedup are invariant to input shuffle" (test_path_canonical_selection.py).
ShuffleKeepsThePaths == part = "mixed rows" => Mixed!InvariantToInputShuffle

\* Each row of a result was evaluated once, by the evaluator of its kind, and is
\* found between the offsets of its pair; what cannot be evaluated with a live
\* gradient is refused.
RowsAreEvaluatedOnce ==
  part = "fields" =>
    /\ Fields!TypeOK
    /\ Fields!EveryRowIsEvaluated
    /\ Fields!ReplacedNeverSummed       \* the corrected specular row
    /\ Fields!NothingSilentlyMissing
    /\ Fields!OffsetsCutPairs

\* Every way over a rough face is one row, of its own endpoints and events,
\* evaluated before it is published; a cap drops the weakest.
EachRoughWayOnce ==
  part = "chains" =>
    /\ Chains!TypeOK
    /\ Chains!EachWayOnce
    /\ Chains!RowsAreTheirReceivers
    /\ Chains!CapsDropTheWeakest
    /\ Chains!EveryChainIsEvaluated
    /\ Chains!SlotsSpellTheChain
    /\ Chains!ScreensScatterOnce        \* not also as a rough face

=============================================================================
