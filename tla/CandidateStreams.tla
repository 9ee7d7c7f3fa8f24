-------------------------- MODULE CandidateStreams --------------------------
(***************************************************************************)
(* How the enumerated interactions walk their candidates                   *)
(* (interactions/reflection.py, diffraction.py, coupled.py).  A space of   *)
(* transmitters, receivers and plane or edge sequences is counted, decoded *)
(* from linear indices and asked of the ray tracer in requests of bounded  *)
(* size.  Reflection lists every sequence of planes or, where there are    *)
(* too many, the ones rays from the transmitter ran into; the coupled      *)
(* search refuses a space beyond its limit or, on a grid, takes receivers  *)
(* in blocks that fit.                                                     *)
(***************************************************************************)
EXTENDS Integers, FiniteSets, FiniteSetsExt, SequencesExt

CONSTANTS
  Jobs,             \* searches tried
  PairChunk,        \* (sequence, receiver) pairs of a request
  SequenceChunk,    \* sequences of a request
  Order1Limit,      \* groups listed one by one at depth 1
  SequenceLimit,    \* sequences listed one by one at a depth
  HardLimit         \* coupled candidates no caller may exceed

StreamsAssumption ==
  /\ PairChunk \in Nat \ {0} /\ SequenceChunk \in Nat \ {0}
  /\ Order1Limit \in Nat /\ SequenceLimit \in Nat /\ HardLimit \in Nat

VARIABLES
  job,      \* the search
  status,   \* "plan", "walk", "refused", "done"
  queue,    \* requests still to make, in order
  found     \* candidates asked of the ray tracer, request by request

vars == <<job, status, queue, found>>

SmallerOf(a, b) == IF a < b THEN a ELSE b
LargerOf(a, b) == IF a > b THEN a ELSE b

\* Mutant of Starts: an incomplete last chunk is left out.
StartsWhole(total, size) == [k \in 1..total \div size |-> (k - 1) * size]

\* The starts of the chunks of 0..total-1, in order.
Starts(total, size) == [k \in 1..(total + size - 1) \div size |-> (k - 1) * size]
ChunkOf(start, size, total) == start..SmallerOf(start + size, total) - 1

-----------------------------------------------------------------------------
(* Plane sequences *)

\* Sequences in which no plane follows itself.
SequenceCount(groups, depth) ==
  IF depth = 1 THEN groups
  ELSE IF groups <= 1 THEN 0 ELSE groups * (groups - 1) ^ (depth - 1)

\* The sequence of a linear index: its first digit names the plane, each later
\* one the plane among those that are not the one before.
Digits(groups, depth, value) ==
  LET base == IF depth > 1 THEN groups - 1 ELSE groups
      raw(c) == (value \div base ^ (depth - c)) % base
      d[c \in 1..depth] ==
        IF c = 1 THEN value \div base ^ (depth - 1)
        ELSE IF raw(c) < d[c - 1] THEN raw(c) ELSE raw(c) + 1
  IN [c \in 1..depth |-> d[c]]

\* Prefixes of that depth of the chains traced from a transmitter; -1 ends one.
TracedTo(rays, depth) ==
  {SubSeq(r, 1, depth) : r \in {x \in rays : x[depth] >= 0}}

-----------------------------------------------------------------------------
(* Requests: what one call of the ray tracer is given *)

Ask(tx, rxs, seqs) == [tx |-> tx, rxs |-> rxs, seqs |-> seqs]

\* Mutant of RxChunk: rounded up.
RxChunkUp(n) == (PairChunk + n - 1) \div n

\* Receivers in chunks, so that sequences and receivers stay under PairChunk.
RxChunk(n) == LargerOf(1, PairChunk \div n)

\* Order 1: every plane, or those a ray met first.
Order1Exhaustive(j) == j.groups <= Order1Limit
Order1Sequences(j, tx) ==
  IF Order1Exhaustive(j) THEN {<<g>> : g \in 0..j.groups - 1} ELSE TracedTo(j.rays[tx], 1)

Order1Requests(j) ==
  LET ForTx(tx) ==
        LET s == Order1Sequences(j, tx)
            n == RxChunk(Cardinality(s))
            starts == Starts(j.rx, n)
        IN IF s = {} THEN <<>>
           ELSE [k \in DOMAIN starts |-> Ask(tx, ChunkOf(starts[k], n, j.rx), s)]
  IN IF j.groups = 0 THEN <<>> ELSE FlattenSeq([t \in 1..j.tx |-> ForTx(t - 1)])

\* Beyond: all depths are listed, or all are traced.
MultiExhaustive(j) ==
  \A d \in 2..j.depth : SequenceCount(j.groups, d) <= SequenceLimit

ListedRequests(j) ==
  LET AtDepth(d) ==
        LET total == SequenceCount(j.groups, d)
            size == SmallerOf(SequenceChunk, LargerOf(total, 1))
            starts == Starts(total, size)
            OfChunk(s) ==
              LET seqs == {Digits(j.groups, d, v) : v \in ChunkOf(s, size, total)}
                  n == RxChunk(Cardinality(ChunkOf(s, size, total)))
                  rxs == Starts(j.rx, n)
              IN FlattenSeq([k \in DOMAIN rxs |->
                   [t \in 1..j.tx |-> Ask(t - 1, ChunkOf(rxs[k], n, j.rx), seqs)]])
        IN FlattenSeq([k \in DOMAIN starts |-> OfChunk(starts[k])])
  IN FlattenSeq([d \in 1..j.depth - 1 |-> AtDepth(d + 1)])

\* Mutant of TracedRequests: chains are cut into chunks per depth as they were
\* traced, not once each.
TracedRequestsRaw(j) ==
  LET ForTx(tx) ==
        LET OfChain(c) == Ask(tx, 0..j.rx - 1, {c})
            all == SetToSeq({x \in j.rays[tx] \X (2..j.depth) : x[1][x[2]] >= 0})
        IN [k \in DOMAIN all |-> OfChain(SubSeq(all[k][1], 1, all[k][2]))]
  IN FlattenSeq([t \in 1..j.tx |-> ForTx(t - 1)])

TracedRequests(j) ==
  LET AtDepth(tx, d) ==
        LET seqs == SetToSeq(TracedTo(j.rays[tx], d))
            starts == Starts(Len(seqs), SequenceChunk)
            OfChunk(s) ==
              LET part == {seqs[k + 1] : k \in ChunkOf(s, SequenceChunk, Len(seqs))}
                  n == RxChunk(Cardinality(part))
                  rxs == Starts(j.rx, n)
              IN [k \in DOMAIN rxs |-> Ask(tx, ChunkOf(rxs[k], n, j.rx), part)]
        IN FlattenSeq([k \in DOMAIN starts |-> OfChunk(starts[k])])
  IN FlattenSeq([t \in 1..j.tx |->
       FlattenSeq([d \in 1..j.depth - 1 |-> AtDepth(t - 1, d + 1)])])

MultiRequests(j) ==
  IF MultiExhaustive(j) THEN ListedRequests(j) ELSE TracedRequests(j)

\* Diffraction: the edges selected for a transmitter, receivers in chunks.
DiffractionRequests(j) ==
  LET ForTx(tx) ==
        LET n == RxChunk(j.edges)
            starts == Starts(j.rx, n)
        IN IF j.edges = 0 THEN <<>>
           ELSE [k \in DOMAIN starts |->
                   Ask(tx, ChunkOf(starts[k], n, j.rx), {<<e>> : e \in 0..j.edges - 1})]
  IN FlattenSeq([t \in 1..j.tx |-> ForTx(t - 1)])

-----------------------------------------------------------------------------
(* Coupled search: a plane and an edge in either order, or two edges *)

PerPair(j) == j.groups * j.edges
TwoEdges(j) == j.edges * (j.edges - 1)
Limit(j) == SmallerOf(j.limit, HardLimit)

\* Candidates of a plan over n receivers.
Planned(j, n) == j.tx * n * PerPair(j) * 2 + j.tx * n * TwoEdges(j)

\* A linear index is a pair, transmitter first, then a place within it.
PairTx(linear, n, per) == (linear \div per) \div n
PairRx(linear, n, per) == (linear \div per) % n

CoupledAt(j, n, first, linear, comp) ==
  LET local == linear % PerPair(j) IN
  <<comp, PairTx(linear, n, PerPair(j)), first + PairRx(linear, n, PerPair(j)),
    local \div j.edges, local % j.edges>>

\* Two different edges: the second is the rest, past the first.
DoubleAt(j, n, first, linear) ==
  LET local == linear % TwoEdges(j)
      e1 == local \div (j.edges - 1)
      rest == local % (j.edges - 1)
  IN <<7, PairTx(linear, n, TwoEdges(j)), first + PairRx(linear, n, TwoEdges(j)),
       e1, IF rest < e1 THEN rest ELSE rest + 1>>

\* The requests of one plan over receivers first..first+n-1.
PlanRequests(j, first, n) ==
  LET base == j.tx * n * PerPair(j)
      dd == j.tx * n * TwoEdges(j)
      cs == Starts(base, SequenceChunk)
      ds == Starts(dd, SequenceChunk)
      Coupled(s, comp) ==
        {CoupledAt(j, n, first, v, comp) : v \in ChunkOf(s, SequenceChunk, base)}
  IN FlattenSeq([k \in DOMAIN cs |-> <<Coupled(cs[k], 3), Coupled(cs[k], 4)>>])
       \o [k \in DOMAIN ds |->
             {DoubleAt(j, n, first, v) : v \in ChunkOf(ds[k], SequenceChunk, dd)}]

\* Mutant of BlockRx: the block is sized by the couplings, not the edge pairs.
BlockRxCoupled(j) == LargerOf(1, Limit(j) \div LargerOf(j.tx * PerPair(j) * 2, 1))

\* Receivers of a block of the streamed search.
BlockRx(j) ==
  LargerOf(1, Limit(j) \div LargerOf(j.tx * (PerPair(j) * 2 + TwoEdges(j)), 1))

-----------------------------------------------------------------------------
(* The walk *)

\* One entry of the queue: a request, or the plan of a block of receivers.
Request(r) == [plan |-> FALSE, ask |-> r, first |-> 0, n |-> 0]
Plan(first, n) == [plan |-> TRUE, ask |-> {}, first |-> first, n |-> n]
Requests(s) == [k \in DOMAIN s |-> Request(s[k])]

Triples(asks) ==
  [k \in DOMAIN asks |-> {<<asks[k].tx, rx, s>> : rx \in asks[k].rxs, s \in asks[k].seqs}]

\* No structure, no endpoint or no plane or edge: nothing is asked.
Idle(j) == j.tx = 0 \/ j.rx = 0

Blocks(j) ==
  IF j.kind = "coupled" THEN <<Plan(0, j.rx)>>
  ELSE LET starts == Starts(j.rx, BlockRx(j))
       IN [k \in DOMAIN starts |->
             Plan(starts[k], Cardinality(ChunkOf(starts[k], BlockRx(j), j.rx)))]

Init ==
  /\ job \in Jobs /\ status = "plan" /\ queue = <<>> /\ found = <<>>

Prepare ==
  /\ status = "plan" /\ status' = "walk"
  /\ queue' =
       IF Idle(job) THEN <<>>
       ELSE CASE job.kind = "order1" -> Requests(Triples(Order1Requests(job)))
              [] job.kind = "multi" -> Requests(Triples(MultiRequests(job)))
              [] job.kind = "diffraction" -> Requests(Triples(DiffractionRequests(job)))
              [] OTHER -> IF PerPair(job) = 0 THEN <<>> ELSE Blocks(job)
  /\ UNCHANGED <<job, found>>

\* A plan beyond the limit ends the search, whatever was found before it.
Refuse ==
  /\ status = "walk" /\ queue # <<>> /\ Head(queue).plan
  /\ Planned(job, Head(queue).n) > Limit(job)
  /\ status' = "refused"
  /\ UNCHANGED <<job, queue, found>>

PlanBlock ==
  /\ status = "walk" /\ queue # <<>> /\ Head(queue).plan
  /\ Planned(job, Head(queue).n) <= Limit(job)
  /\ queue' = Requests(PlanRequests(job, Head(queue).first, Head(queue).n)) \o Tail(queue)
  /\ UNCHANGED <<job, status, found>>

\* The next request of a search: one call of the ray tracer, whose visible
\* candidates become rows.
Asking(kinds) == status = "walk" /\ job.kind \in kinds /\ queue # <<>> /\ ~Head(queue).plan
Traced ==
  /\ found' = Append(found, Head(queue).ask)
  /\ queue' = Tail(queue)
  /\ UNCHANGED <<job, status>>

\* Each search has a loop of its own; the coupled one has two, for a plane and
\* an edge and for two edges.
OfTwoEdges(candidates) == \E c \in candidates : c[1] = 7
TraceOrder1 == Asking({"order1"}) /\ Traced
TraceMultibounce == Asking({"multi"}) /\ Traced
TraceDiffraction == Asking({"diffraction"}) /\ Traced
TraceCoupled ==
  Asking({"coupled", "streamed"}) /\ ~OfTwoEdges(Head(queue).ask) /\ Traced
TraceDouble ==
  Asking({"coupled", "streamed"}) /\ OfTwoEdges(Head(queue).ask) /\ Traced

Finish ==
  /\ status = "walk" /\ queue = <<>> /\ status' = "done"
  /\ UNCHANGED <<job, queue, found>>

Next ==
  \/ Prepare \/ Refuse \/ PlanBlock \/ Finish
  \/ TraceOrder1 \/ TraceMultibounce \/ TraceDiffraction \/ TraceCoupled \/ TraceDouble

Spec == Init /\ [][Next]_vars

-----------------------------------------------------------------------------
(* What a search is for *)

Planes(j) == 0..j.groups - 1
Edges(j) == 0..j.edges - 1
Ends(j) == (0..j.tx - 1) \X (0..j.rx - 1)

\* Sequences of planes in which none follows itself.
Sequences(j, depth) ==
  {s \in [1..depth -> Planes(j)] : \A c \in 2..depth : s[c] # s[c - 1]}

Wanted(j) ==
  CASE j.kind = "order1" /\ Order1Exhaustive(j) ->
         {<<e[1], e[2], <<g>>>> : e \in Ends(j), g \in Planes(j)}
    [] j.kind = "order1" ->
         UNION {{<<e[1], e[2], c>> : c \in TracedTo(j.rays[e[1]], 1)} : e \in Ends(j)}
    [] j.kind = "multi" /\ MultiExhaustive(j) ->
         {<<e[1], e[2], s>> : e \in Ends(j), s \in UNION {Sequences(j, d) : d \in 2..j.depth}}
    [] j.kind = "multi" ->
         UNION {{<<e[1], e[2], c>> : c \in UNION {TracedTo(j.rays[e[1]], d) : d \in 2..j.depth}}
                  : e \in Ends(j)}
    [] j.kind = "diffraction" -> {<<e[1], e[2], <<w>>>> : e \in Ends(j), w \in Edges(j)}
    [] OTHER ->
         {<<c, e[1], e[2], g, w>> : c \in {3, 4}, e \in Ends(j), g \in Planes(j), w \in Edges(j)}
           \cup {<<7, e[1], e[2], w[1], w[2]>> : e \in Ends(j),
                    w \in {x \in Edges(j) \X Edges(j) : x[1] # x[2]}}

Asked == UNION {found[k] : k \in DOMAIN found}

-----------------------------------------------------------------------------
(* Properties *)

TypeOK ==
  /\ job \in Jobs /\ status \in {"plan", "walk", "refused", "done"}
  /\ Asked \subseteq Wanted(job)

\* No candidate is asked twice, within a request or by two of them, however
\* the space was cut: its field would be counted twice or the first occurrence
\* left to the deduplication.
NoneAskedTwice ==
  \A k, m \in DOMAIN found : k # m => found[k] \cap found[m] = {}

\* A search that ends has asked every candidate of its space.
AllAskedWhenDone == status = "done" => Asked = Wanted(job)

\* A request over more than one receiver stays within the chunk.
RequestsFit ==
  \A k \in DOMAIN found :
    job.kind \in {"order1", "multi", "diffraction"} =>
      \/ Cardinality(found[k]) <= PairChunk
      \/ Cardinality({c[2] : c \in found[k]}) = 1

\* A search is refused before anything was traced, and the streamed one only
\* where one receiver alone exceeds the limit.
RefusedAtOnce ==
  status = "refused" =>
    /\ found = <<>>
    /\ job.kind = "streamed" => Planned(job, 1) > Limit(job)
    /\ Planned(job, job.rx) > Limit(job)
=============================================================================
