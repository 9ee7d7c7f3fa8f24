----------------------------- MODULE MCConsumer -----------------------------
(***************************************************************************)
(* Instances for TLC of the fixed-topology consumer. Its parts meet only   *)
(* in the calls of one caller, so a behaviour is of one of them, chosen at *)
(* the start.  The world of FixedTopology stays at rest in the others, and *)
(* the variables of a part not chosen stay empty.                          *)
(*                                                                         *)
(*   world     one scene compiled and edited, two frozen topologies        *)
(*   slots     rows discovered, or made by hand without interaction        *)
(*             sequences, replayed raw, prepared, over three slots         *)
(*   wideband  three significant bits, references on and off the           *)
(*             float grid, offsets that cross into other binades           *)
(***************************************************************************)
EXTENDS FixedTopology, Integers, TLC

CONSTANTS
  Parts,   \* the parts a run starts in
  Topologies, Sources, Sinks, MaxSlots, MaxPerSlot,         \* SlotReplay
  Precision, Exponents, References, Offsets, MaxColumns,    \* WidebandGrid
  c1, c2

VARIABLES
  part,   \* the part this behaviour is of
  \* SlotReplay
  stage, width, frozen, rows, buckets, tiled, request, pairs, offsets, out, replayed,
  \* WidebandGrid
  reference, grid, launches

Slots == INSTANCE SlotReplay WITH SourceBatches <- Sources, SinkBatches <- Sinks
Grids == INSTANCE WidebandGrid

Data == INSTANCE MCSlotReplay
MCTopologies == Data!MCTopologies
MCSources == Data!MCSourceBatches
MCSinks == Data!MCSinkBatches
MCOffsets == {-12, -6, -4, -2, -1, 0, 3, 4, 5, 6, 8, 10, 12, 16}

ContentSymmetry == Permutations({c1, c2})

ASSUME ConsumerAssumption ==
  /\ DomainsAssumption /\ NoneAssumption /\ BoundsAssumption
  /\ Slots!BoundsAssumption /\ Slots!TopologiesAssumption /\ Slots!BatchesAssumption
  /\ Grids!PrecisionAssumption /\ Grids!GridAssumption /\ Grids!RangeAssumption

\* What a behaviour of FixedTopology leaves alone.
worldOthers == <<stage, width, frozen, rows, buckets, tiled, request, pairs, offsets, out, replayed,
     reference, grid, launches>>
\* What a behaviour of SlotReplay leaves alone.
slotOthers == <<vars, reference, grid, launches>>
\* What a behaviour of WidebandGrid leaves alone.
gridOthers == <<vars, width, frozen, rows, buckets, tiled, request, pairs, offsets, out, replayed>>

\* No caller holds anything of the world.
AtRest ==
  /\ \E c \in Contents : live = [w \in Worlds |-> [d \in Domains |-> c]]
  /\ building = None /\ scenes = {} /\ handles = {} /\ quiet = None /\ answer = None

Off(v) == v = <<>>
OnlyWorld ==
  /\ Off(stage) /\ Off(width) /\ Off(frozen) /\ Off(rows) /\ Off(buckets) /\ Off(tiled)
  /\ Off(request) /\ Off(pairs) /\ Off(offsets) /\ Off(out) /\ Off(replayed)
  /\ Off(reference) /\ Off(grid) /\ Off(launches)
OnlySlot == AtRest /\ Off(reference) /\ Off(grid) /\ Off(launches)
OnlyGrid ==
  /\ AtRest /\ Off(width) /\ Off(frozen) /\ Off(rows) /\ Off(buckets) /\ Off(tiled)
  /\ Off(request) /\ Off(pairs) /\ Off(offsets) /\ Off(out) /\ Off(replayed)

ConsumerInit ==
  /\ part \in Parts
  /\ \/ part = "world" /\ Init /\ OnlyWorld
     \/ part = "slots" /\ Slots!Init /\ OnlySlot
     \/ part = "wideband" /\ Grids!Init /\ OnlyGrid

ConsumerNext ==
  \/ part = "world" /\ Next /\ UNCHANGED <<part, worldOthers>>
  \/ part = "slots" /\ Slots!Next /\ UNCHANGED <<part, slotOthers>>
  \/ part = "wideband" /\ Grids!Next /\ UNCHANGED <<part, gridOthers>>

consumerVars ==
  <<part, vars, stage, width, frozen, rows, buckets, tiled, request, pairs, offsets, out, replayed,
    reference, grid, launches>>
ConsumerSpec == ConsumerInit /\ [][ConsumerNext]_consumerVars
-----------------------------------------------------------------------------
(* TypeOK, LabelsNameTheSameWorld and PollsAreHonest are FixedTopology's.   *)

\* A topology tiled over slots answers as one call for each of its instants
\* would: each copy of a row in its slot, between the offsets of its pair, and
\* valid only when the bucket of its kind published it.
TiledReplayIsExact ==
  part = "slots" =>
    /\ Slots!TypeOK
    /\ Slots!RowsKeepTheirSlots /\ Slots!OffsetsSegmentTheRows
    /\ Slots!AsOneCallPerInstant /\ Slots!ValidRowsWerePublished

\* No two columns of an admitted frequency grid are one launch, but for the
\* ties the check leaves.
ColumnsAreDistinctOffTies == part = "wideband" => Grids!TypeOK /\ Grids!ColumnsAreDistinctOffTies

=============================================================================
