----------------------------- MODULE SlotReplay -----------------------------
(***************************************************************************)
(* Replaying a frozen topology against endpoints stacked slot by slot      *)
(* (propagation/consumer.py). The rows are partitioned once into buckets   *)
(* of one component and depth, tiled over the slots by index arithmetic,   *)
(* bound to the endpoint batches of a request, and replayed one bucket at  *)
(* a time into row-aligned outputs. Positions in a sequence count from 1;  *)
(* row, endpoint and pair numbers count from 0 as in the code.             *)
(***************************************************************************)
EXTENDS Integers, Sequences, FiniteSets, Functions, FiniteSetsExt

CONSTANTS
  Topologies,     \* topologies to freeze: [width, rows]
  SourceBatches,  \* stable ids of the sources of a request
  SinkBatches,    \* stable ids of its sinks
  MaxSlots,       \* bound on slot counts
  MaxPerSlot      \* bound on the per-slot counts a caller declares

BoundsAssumption == MaxSlots \in Nat \ {0} /\ MaxPerSlot \in Nat

Rows ==
  [source : Int, sink : Int, sourceId : Int, sinkId : Int, component : Int, depth : Int,
   filled : SUBSET Nat]
TopologiesAssumption == Topologies \subseteq [width : Nat, rows : Seq(Rows)]
BatchesAssumption == SourceBatches \cup SinkBatches \subseteq Seq(Int)

VARIABLES
  stage,     \* "frozen", "prepared", "replicated", "bound", "done" or "refused"
  width,     \* columns of the interaction sequences
  frozen,    \* the rows as discovered
  rows,      \* the rows replayed
  buckets,   \* their partition
  tiled,     \* slots the rows were tiled over
  request,   \* the request being served
  pairs,     \* pair of each row
  offsets,   \* where the rows of each pair begin
  out,       \* what is published of each row
  replayed   \* buckets replayed

vars == <<stage, width, frozen, rows, buckets, tiled, request, pairs, offsets, out, replayed>>

Components == 0 .. 1   \* los, reflection

Blank == [valid |-> TRUE, by |-> {}]

-----------------------------------------------------------------------------
\* prepare_fixed_topology

\* _malformed_rows: "filled" are the slots of the sequence that hold a primitive.
Malformed(r) == r.depth < 0 \/ r.depth > width \/ r.filled # 1 .. r.depth

Key(r) == r.component * (width + 1) + r.depth

Supported(component, depth) ==
  /\ component \in Components
  /\ component = 0 => depth = 0
  /\ component = 1 => depth >= 1

\* The members of a set of integers in ascending order, as torch.unique and
\* torch.nonzero list them.
InOrder(S) ==
  [j \in 1 .. Cardinality(S) |-> CHOOSE x \in S : Cardinality({y \in S : y < x}) = j - 1]

Bucket(value) ==
  [component |-> value \div (width + 1), depth |-> value % (width + 1),
   rows |-> InOrder({i \in DOMAIN frozen : Key(frozen[i]) = value})]

Prepare ==
  /\ stage = "frozen"
  /\ LET keys == InOrder({Key(frozen[i]) : i \in DOMAIN frozen})
         parts == [b \in DOMAIN keys |-> Bucket(keys[b])]
         accepted == /\ \A i \in DOMAIN frozen : ~Malformed(frozen[i])
                     /\ \A b \in DOMAIN parts : Supported(parts[b].component, parts[b].depth)
     IN /\ stage' = IF accepted THEN "prepared" ELSE "refused"
        /\ buckets' = IF accepted THEN parts ELSE <<>>
  /\ UNCHANGED <<width, frozen, rows, tiled, request, pairs, offsets, out, replayed>>

-----------------------------------------------------------------------------
\* replicate_over_slots

\* Tensor.repeat: the i-th entry of s tiled, and how often s went by before.
Tiled(s, i) == s[((i - 1) % Len(s)) + 1]
Lap(s, i) == (i - 1) \div Len(s)

\* Row t*K + r is row r, shifted into slot t.
TiledRows(slots, perSource, perSink) ==
  [i \in 1 .. slots * Len(rows) |->
     LET t == Lap(rows, i)  r == Tiled(rows, i)
     IN [r EXCEPT !.source = @ + t * perSource, !.sink = @ + t * perSink]]

\* Mutant of TiledBuckets: later slots repeat the rows of the first.
UnshiftedBuckets(slots) ==
  [b \in DOMAIN buckets |->
     [buckets[b] EXCEPT !.rows = [i \in 1 .. slots * Len(@) |-> Tiled(@, i)]]]

TiledBuckets(slots) ==
  [b \in DOMAIN buckets |->
     [buckets[b] EXCEPT !.rows =
        [i \in 1 .. slots * Len(@) |->
           Tiled(@, i) + Lap(@, i) * Len(rows)]]]

\* The caller states the per-slot counts; nothing checks them here.
Replicate(slots, perSource, perSink) ==
  /\ stage = "prepared" /\ tiled = 1 /\ perSource > 0 /\ perSink > 0 /\ slots > 1
  /\ stage' = "replicated" /\ tiled' = slots
  /\ rows' = TiledRows(slots, perSource, perSink)
  /\ buckets' = TiledBuckets(slots)
  /\ UNCHANGED <<width, frozen, request, pairs, offsets, out, replayed>>

-----------------------------------------------------------------------------
\* prepared_row_gather, over given rows and endpoints.

InBounds(r, sources, sinks) ==
  r.source \in 0 .. Len(sources) - 1 /\ r.sink \in 0 .. Len(sinks) - 1

\* _slot_pairing; with one slot, the outer product.
PairOf(r, perSource, perSink) ==
  LET slot == r.source \div perSource
  IN slot * perSource * perSink + (r.sink - slot * perSink) * perSource
       + (r.source - slot * perSource)

SlotBroken(r, perSource, perSink) ==
  r.sink - (r.source \div perSource) * perSink \notin 0 .. perSink - 1

\* Mutant of Identified: only the raw route compares stable ids.
Unidentified(r, sources, sinks) == TRUE

Identified(r, sources, sinks) ==
  sources[r.source + 1] = r.sourceId /\ sinks[r.sink + 1] = r.sinkId

\* Mutant of Ordered: rows are compared by source only.
OrderedBySource(p, table) ==
  \A i \in 2 .. Len(p) : table[i].source = table[i - 1].source => p[i] >= p[i - 1]

Ordered(p, table) == \A i \in 2 .. Len(p) : p[i] >= p[i - 1]

PairsOf(table, perSource, perSink) ==
  [i \in DOMAIN table |-> PairOf(table[i], perSource, perSink)]

\* _contract_error = 0
Accepted(table, sources, sinks, slots) ==
  LET perSource == Len(sources) \div slots  perSink == Len(sinks) \div slots
  IN table # <<>> =>
       /\ sources # <<>> /\ sinks # <<>>
       /\ \A i \in DOMAIN table :
            /\ InBounds(table[i], sources, sinks)
            /\ Identified(table[i], sources, sinks)
            /\ slots > 1 => ~SlotBroken(table[i], perSource, perSink)
       /\ Ordered(PairsOf(table, perSource, perSink), table)

\* _pair_segmentation: counts of the pairs, summed up.
Segmentation(p, count) == [q \in 1 .. count + 1 |-> Cardinality({i \in DOMAIN p : p[i] < q - 1})]

\* The request is refused, or its rows are bound and the outputs allocated.
Bind(kind, sources, sinks, slots) ==
  LET perSource == Len(sources) \div slots  perSink == Len(sinks) \div slots
      accepted == Accepted(rows', sources, sinks, slots)
      p == PairsOf(rows', perSource, perSink)
  IN /\ request' = [kind |-> kind, sources |-> sources, sinks |-> sinks, slots |-> slots]
     /\ stage' = IF accepted THEN "bound" ELSE "refused"
     /\ pairs' = IF accepted THEN p ELSE <<>>
     /\ offsets' = IF accepted THEN Segmentation(p, slots * perSource * perSink) ELSE <<>>
     /\ out' = IF accepted THEN [i \in DOMAIN rows' |-> Blank] ELSE <<>>
     /\ UNCHANGED <<width, frozen, replayed>>

\* _require_slots: the request's own slot count must divide what it is given.
Divides(slots, sources, sinks, count) ==
  slots > 1 => \A n \in {Len(sources), Len(sinks), count} : n % slots = 0

Reevaluate(sources, sinks, slots) ==
  /\ stage \in {"prepared", "replicated"}
  /\ Divides(slots, sources, sinks, Len(rows))
  /\ UNCHANGED <<rows, buckets, tiled>>
  /\ Bind("reevaluate", sources, sinks, slots)

\* Mutant of PerSlotCounts: the counts are read off the topology.
InferredCounts(sources, sinks, slots) ==
  IF rows = <<>> THEN <<1, 1>>
  ELSE <<1 + Max({rows[i].source : i \in DOMAIN rows}), 1 + Max({rows[i].sink : i \in DOMAIN rows})>>

PerSlotCounts(sources, sinks, slots) == <<Len(sources) \div slots, Len(sinks) \div slots>>

\* evaluate_time_varying: one slot per instant, counts taken from the batches.
EvaluateTimeVarying(sources, sinks, slots) ==
  /\ stage \in {"prepared", "replicated"}
  /\ Len(sources) % slots = 0 /\ Len(sinks) % slots = 0
  /\ sources # <<>> /\ sinks # <<>>
  /\ LET per == PerSlotCounts(sources, sinks, slots)
     IN /\ rows' = IF slots = 1 THEN rows ELSE TiledRows(slots, per[1], per[2])
        /\ buckets' = IF slots = 1 THEN buckets ELSE TiledBuckets(slots)
        /\ tiled' = tiled * slots
  /\ Bind("time_varying", sources, sinks, slots)

\* reevaluate of a raw topology: the native gather checks the same contract
\* over one slot, and that every row is line of sight; nothing re-tests
\* visibility, every row is published.
ReevaluateRaw(sources, sinks) ==
  /\ stage = "frozen" /\ width = 0
  /\ UNCHANGED <<width, frozen, rows, buckets, tiled, replayed>>
  /\ request' = [kind |-> "raw", sources |-> sources, sinks |-> sinks, slots |-> 1]
  /\ LET accepted == /\ Accepted(rows, sources, sinks, 1)
                     /\ \A i \in DOMAIN rows : rows[i].depth = 0 /\ rows[i].component = 0
         p == PairsOf(rows, Len(sources), Len(sinks))
     IN /\ stage' = IF accepted THEN "done" ELSE "refused"
        /\ pairs' = IF accepted THEN p ELSE <<>>
        /\ offsets' = IF accepted THEN Segmentation(p, Len(sources) * Len(sinks)) ELSE <<>>
        /\ out' = IF accepted
                  THEN [i \in DOMAIN rows |-> [valid |-> TRUE, by |-> {<<0, 0>>}]] ELSE <<>>

-----------------------------------------------------------------------------
\* evaluate_prepared, one bucket: the visibility or the stationary point of
\* each row is tested again, and the outputs are copied to the bucket's rows.
ReplayBucket ==
  /\ stage = "bound" /\ replayed < Len(buckets)
  /\ LET b == buckets[replayed + 1]
         mine == Range(b.rows)
     IN \E alive \in SUBSET mine :
          out' = [i \in DOMAIN out |->
                    IF i \in mine
                    THEN [valid |-> i \in alive,
                          by |-> IF i \in alive THEN {<<b.component, b.depth>>} ELSE {}]
                    ELSE out[i]]
  /\ replayed' = replayed + 1
  /\ UNCHANGED <<stage, width, frozen, rows, buckets, tiled, request, pairs, offsets>>

Publish ==
  /\ stage = "bound" /\ replayed = Len(buckets)
  /\ stage' = "done"
  /\ UNCHANGED <<width, frozen, rows, buckets, tiled, request, pairs, offsets, out, replayed>>

-----------------------------------------------------------------------------
NoRequest == [kind |-> "none", sources |-> <<>>, sinks |-> <<>>, slots |-> 1]

Init ==
  /\ \E t \in Topologies : width = t.width /\ frozen = t.rows
  /\ stage = "frozen" /\ rows = frozen
  /\ buckets = <<>> /\ tiled = 1 /\ request = NoRequest
  /\ pairs = <<>> /\ offsets = <<>> /\ out = <<>> /\ replayed = 0

Next ==
  \/ Prepare \/ ReplayBucket \/ Publish
  \/ \E slots \in 1 .. MaxSlots, s, k \in 1 .. MaxPerSlot : Replicate(slots, s, k)
  \/ \E sources \in SourceBatches, sinks \in SinkBatches :
       \/ ReevaluateRaw(sources, sinks)
       \/ \E slots \in 1 .. MaxSlots :
            Reevaluate(sources, sinks, slots) \/ EvaluateTimeVarying(sources, sinks, slots)

Spec == Init /\ [][Next]_vars

-----------------------------------------------------------------------------
Bound == stage \in {"bound", "done"}

TypeOK ==
  /\ stage \in {"frozen", "prepared", "replicated", "bound", "done", "refused"}
  /\ [width |-> width, rows |-> frozen] \in Topologies /\ tiled \in 1 .. MaxSlots * MaxSlots
  /\ \A b \in DOMAIN buckets : Range(buckets[b].rows) \subseteq DOMAIN rows
  /\ replayed \in 0 .. Len(buckets)
  /\ Bound => /\ DOMAIN pairs = DOMAIN rows /\ DOMAIN out = DOMAIN rows
              /\ \A i \in DOMAIN offsets : offsets[i] \in 0 .. Len(rows)

\* Within each of the request's slots no two endpoints share a stable id.
DistinctIn(ids, slots) ==
  LET per == Len(ids) \div slots
  IN \A i, j \in DOMAIN ids :
       i # j /\ (i - 1) \div per = (j - 1) \div per => ids[i] # ids[j]

\* However wrong the per-slot counts given to replicate_over_slots, a request
\* over as many slots that is accepted has every copy of a row in the slot it
\* was tiled for, source and sink, once the ids of a slot tell its endpoints apart.
RowsKeepTheirSlots ==
  Bound /\ tiled > 1 /\ tiled = request.slots /\ Len(frozen) * tiled = Len(rows)
    /\ DistinctIn(request.sources, tiled) /\ DistinctIn(request.sinks, tiled) =>
    \A i \in DOMAIN rows :
      LET slot == (i - 1) \div Len(frozen)
      IN /\ rows[i].source \div (Len(request.sources) \div tiled) = slot
         /\ rows[i].sink \div (Len(request.sinks) \div tiled) = slot

\* The rows between two offsets are those of one pair, and there are as many
\* pairs as the slots have, empty ones included.
OffsetsSegmentTheRows ==
  Bound =>
    /\ offsets[1] = 0 /\ offsets[Len(offsets)] = Len(rows)
    /\ \A i \in DOMAIN rows :
         /\ pairs[i] + 1 \in 1 .. Len(offsets) - 1
         /\ i \in offsets[pairs[i] + 1] + 1 .. offsets[pairs[i] + 2]

SlotOf(ids, t, slots) ==
  LET per == Len(ids) \div slots IN SubSeq(ids, t * per + 1, (t + 1) * per)

\* A time-varying call is accepted exactly when a call for each of its instants
\* alone would be, and gives each instant the pairs and the segmentation that
\* call would give it; in particular every slot repeats the leading one.
AsOneCallPerInstant ==
  request.kind = "time_varying" =>
    LET T == request.slots
        before == IF T = 1 THEN rows ELSE SubSeq(rows, 1, Len(rows) \div T)
        alone(t) == Accepted(before, SlotOf(request.sources, t, T), SlotOf(request.sinks, t, T), 1)
        s == Len(request.sources) \div T  k == Len(request.sinks) \div T
    IN /\ Bound <=> \A t \in 0 .. T - 1 : alone(t)
       /\ Bound =>
            \A t \in 0 .. T - 1 :
              /\ \A r \in DOMAIN before :
                   pairs[t * Len(before) + r] = t * s * k + PairOf(before[r], s, k)
              /\ \A q \in 1 .. s * k + 1 :
                   offsets[t * s * k + q] = t * Len(before) + offsets[q]

\* A row is called valid only if the bucket of its own component and depth
\* published it: the outputs are allocated valid and blank.
ValidRowsWerePublished ==
  stage = "done" =>
    \A i \in DOMAIN out :
      out[i].by = IF out[i].valid THEN {<<rows[i].component, rows[i].depth>>} ELSE {}
=============================================================================
