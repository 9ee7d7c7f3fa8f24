---------------------------- MODULE ScatterChains ----------------------------
(***************************************************************************)
(* Paths over rough surfaces (interactions/scattering.py).  After the      *)
(* specular paths of a solve come its scattering rows: samples of faces    *)
(* without a phase screen, one coherent integral for each structure with   *)
(* one, and, when asked for, chains of reflections around a sample, joined *)
(* from legs found separately from its transmitter and its receiver.       *)
(* Radiometry is the kernels': a world says how long a leg is, how strong  *)
(* a bounce, and which faces are too weak to keep.                         *)
(***************************************************************************)
EXTENDS Integers, Sequences, FiniteSets, FiniteSetsExt, SequencesExt, Functions

CONSTANTS
  Transmitters, Receivers,   \* how many; endpoints are numbered from 0
  Jobs,           \* configurations of a solve with scattering, and its specular paths
  Worlds,         \* scenes: rough faces, screens, lines of sight, reflection legs
  KMax,           \* most reflections of a leg
  Chunk,          \* (receiver, sample) pairs of one evaluation
  Gain(_, _, _)   \* of a bounce, by transmitter, receiver and face

ChainAssumption == {Transmitters, Receivers, KMax, Chunk} \subseteq Nat

VARIABLES
  job, world,
  stage,    \* what runs next
  at,       \* where its loop stands
  bounces,  \* rows collected without chains
  paths,    \* the rows of the result so far
  width,    \* columns of their sequences
  tables,   \* legs of each endpoint
  chains,   \* joined rows
  verdict   \* what the kernel was told of the validity of each chain

vars == <<job, world, stage, at, bounces, paths, width, tables, chains, verdict>>

Tx(t) == <<"tx", t>>
Rx(r) == <<"rx", r>>
Nothing == <<0, -1>>       \* an empty slot: no interaction at no primitive
PairOf(row) == row.tx * Receivers + row.rx

\* The members of a set, by a rank without ties.
Ranked(S, Rank(_)) ==
  SortSeq(FoldSet(LAMBDA x, rest : Append(rest, x), <<>>, S), LAMBDA x, y : Rank(x) < Rank(y))

\* Stable sort of a sequence by a key.
SortedBy(s, Key(_)) ==
  LET order == SortSeq([i \in DOMAIN s |-> <<Key(s[i]), i>>],
                       LAMBDA x, y : x[1] < y[1] \/ (x[1] = y[1] /\ x[2] < y[2]))
  IN SelectSeq([k \in DOMAIN s |-> s[order[k][2]]], LAMBDA x : TRUE)

Padded(slots, n) == slots \o [k \in 1..n - Len(slots) |-> Nothing]

-----------------------------------------------------------------------------
(* Bounces *)

\* Mutant of EnsembleFaces: a screen does not take its faces out.
EnsembleFacesAll == world.rough

\* Rough faces scatter incoherently, unless their structure has a phase screen.
EnsembleFaces == world.rough \ world.screens

\* At least one sample on each face, the faces in order.
Samples ==
  LET points == {[face |-> f, n |-> n] : f \in EnsembleFaces, n \in 1..2}
  IN Ranked({p \in points : p.n <= world.density[p.face]}, LAMBDA p : 2 * p.face + p.n)

Sight(e, f) == {s \in world.sight : s.end = e /\ s.face = f}
SideOf(e, f) == (CHOOSE s \in Sight(e, f) : TRUE).side

\* The side the transmitter sees is the rough one; the receiver must see it too.
Lit(t, r, f) ==
  Sight(Tx(t), f) # {} /\ Sight(Rx(r), f) # {} /\ SideOf(Tx(t), f) = SideOf(Rx(r), f)

Bounce(t, r, f, sample, pol) ==
  [tx |-> t, rx |-> r, face |-> f, sample |-> sample, pol |-> pol, gain |-> Gain(t, r, f)]

RxChunk == Max({1, Chunk \div Max({1, Len(Samples)})})

\* Mutant of ChunkRows: receivers keep the number they have in their chunk.
ChunkRowsLocal(t, first) ==
  LET size == Min({RxChunk, Receivers - first})
      lit == {x \in (0..size - 1) \X (DOMAIN Samples) :
                /\ Lit(t, first + x[1], Samples[x[2]].face)
                /\ Samples[x[2]].face \notin world.weak}
      list == Ranked(lit, LAMBDA x : x[1] * 100 + x[2])
  IN [k \in DOMAIN list |->
        Bounce(t, list[k][1], Samples[list[k][2]].face, list[k][2], first + list[k][1])]

\* The bounces from one transmitter to a chunk of receivers: the receiver of a
\* row counts from the first of its chunk, so do the polarizations.
ChunkRows(t, first) ==
  LET size == Min({RxChunk, Receivers - first})
      lit == {x \in (0..size - 1) \X (DOMAIN Samples) :
                /\ Lit(t, first + x[1], Samples[x[2]].face)
                /\ Samples[x[2]].face \notin world.weak}
      list == Ranked(lit, LAMBDA x : x[1] * 100 + x[2])
  IN [k \in DOMAIN list |->
        Bounce(t, first + list[k][1], Samples[list[k][2]].face, list[k][2], first + list[k][1])]

\* One row for all patches of a structure that both ends see.
CoherentRows(f) ==
  LET lit == {x \in (0..Transmitters - 1) \X (0..Receivers - 1) : Lit(x[1], x[2], f)}
      list == Ranked(lit, LAMBDA x : x[1] * Receivers + x[2])
  IN [k \in DOMAIN list |-> Bounce(list[k][1], list[k][2], f, 0, list[k][2])]

\* Mutant of KeepStrongest: the strongest rows of the whole solve.
KeepStrongestOverall(rows, cap) ==
  LET order == SortedBy(rows, LAMBDA x : -x.gain)
  IN IF Len(rows) <= cap THEN rows
     ELSE SortedBy(SubSeq(order, 1, cap), LAMBDA x : PairOf(x))

\* The strongest rows of each pair, by strength first and then by pair: both
\* sorts are stable.
KeepStrongest(rows, cap) ==
  LET order == SortedBy(SortedBy(rows, LAMBDA x : -x.gain), LAMBDA x : PairOf(x))
      first(i) == Min({j \in DOMAIN order : PairOf(order[j]) = PairOf(order[i])})
      ranks == {i \in DOMAIN order : i - first(i) < cap}
      list == Ranked(ranks, LAMBDA i : i)
  IN [k \in DOMAIN list |-> order[list[k]]]

-----------------------------------------------------------------------------
(* Legs and their join *)

\* The reflections of a leg, kept in the order the chain runs through them.
\* Mutant of HopsInOrder: the receiver's leg as it was traced.
HopsAsTraced(e, hops) == hops

HopsInOrder(e, hops) == IF e[1] = "rx" THEN Reverse(hops) ELSE hops

\* The legs of an endpoint: lines of sight, from either side of a face, then
\* reflection legs by depth.
LegTable(e) ==
  LET deepest == Min({job.chain, KMax})
      direct == {[sample |-> y[1], d |-> 0, hops |-> <<>>, len |-> y[2].len] :
                   y \in {x \in (DOMAIN Samples) \X world.sight :
                                   x[2].end = e /\ x[2].face = Samples[x[1]].face}}
      traced == {[sample |-> y[1], d |-> Len(y[2].hops), hops |-> HopsInOrder(e, y[2].hops),
                  len |-> y[2].len] :
                   y \in {x \in (DOMAIN Samples) \X world.legs :
                                   /\ x[2].end = e /\ x[2].face = Samples[x[1]].face
                                   /\ Len(x[2].hops) <= deepest}}
  IN Ranked(direct \cup traced, LAMBDA l : (l.d * 100 + l.sample) * 100 + l.len)

\* All pairs of rows of two tables with one sample: sample by sample, a running
\* number split by the other table's count of that sample.
EquiJoin(a, b) ==
  LET keys == Ranked({a[i].sample : i \in DOMAIN a} \cup {b[i].sample : i \in DOMAIN b},
                     LAMBDA k : k)
      Of(t, k) == SelectSeq([i \in DOMAIN t |-> i], LAMBDA i : t[i].sample = keys[k])
      pairs(k) == Len(Of(a, k)) * Len(Of(b, k))
      block(k) == [n \in 1..pairs(k) |->
                     <<Of(a, k)[(n - 1) \div Len(Of(b, k)) + 1],
                       Of(b, k)[((n - 1) % Len(Of(b, k))) + 1]>>]
  IN FlattenSeq([k \in DOMAIN keys |-> block(k)])

\* Short legs are strong ones.
Chain(t, r, a, b) ==
  [tx |-> t, rx |-> r, sample |-> a.sample, face |-> Samples[a.sample].face,
   c1 |-> a.hops, c2 |-> b.hops, gain |-> -(a.len * b.len)]

\* Mutant of JoinedPair: a sample seen by both ends makes a chain.
JoinedPairWithBounces(t, r) ==
  LET a == tables[Tx(t)]  b == tables[Rx(r)]
      join == EquiJoin(a, b)
      all == [k \in DOMAIN join |-> Chain(t, r, a[join[k][1]], b[join[k][2]])]
  IN SelectSeq(all, LAMBDA c : Len(c.c1) + Len(c.c2) <= job.chain)

\* The chains of one pair: at least one reflection, no more than asked for.
JoinedPair(t, r) ==
  LET a == tables[Tx(t)]  b == tables[Rx(r)]
      join == EquiJoin(a, b)
      all == [k \in DOMAIN join |-> Chain(t, r, a[join[k][1]], b[join[k][2]])]
  IN SelectSeq(all, LAMBDA c : Len(c.c1) + Len(c.c2) \in 1..job.chain)

\* Mixed radix key: each field's radix is one more than its largest value.
Radix(rows, Field(_)) == 1 + Max({Field(rows[i]) : i \in DOMAIN rows})

SortedByFields(rows, Major(_), Minor(_)) ==
  LET m == Radix(rows, Minor)  s == Radix(rows, LAMBDA x : x.sample)
      c1 == Radix(rows, LAMBDA x : Len(x.c1))  c2 == Radix(rows, LAMBDA x : Len(x.c2))
  IN SortedBy(rows, LAMBDA c :
       (((Major(c) * m + Minor(c)) * s + c.sample) * c1 + Len(c.c1)) * c2 + Len(c.c2))

\* Mutant of ChainOrder: the receiver outranks the transmitter.
ChainOrderByReceiver(rows) == SortedByFields(rows, LAMBDA c : c.rx, LAMBDA c : c.tx)

ChainOrder(rows) == SortedByFields(rows, LAMBDA c : c.tx, LAMBDA c : c.rx)

-----------------------------------------------------------------------------
(* The rows of the result *)

\* A bounce is one interaction, at the face, or at the first of a structure.
BouncePath(b) ==
  [tx |-> b.tx, rx |-> b.rx, depth |-> 1, slots |-> <<<<8, b.face>>>>, of |-> b]

\* First leg, vertex, second leg.
Slots(c, n) ==
  [k \in 1..n |->
     IF k <= Len(c.c1) THEN <<1, c.c1[k]>>
     ELSE IF k = Len(c.c1) + 1 THEN <<8, c.face>>
     ELSE IF k - Len(c.c1) - 1 <= Len(c.c2) THEN <<1, c.c2[k - Len(c.c1) - 1]>>
     ELSE Nothing]

ChainPath(c, n) ==
  [tx |-> c.tx, rx |-> c.rx, depth |-> Len(c.c1) + 1 + Len(c.c2), slots |-> Slots(c, n), of |-> c]

\* Rows so far and new ones, all as wide as the widest.
Extended(new, n) ==
  [i \in DOMAIN (paths \o new) |->
     [(paths \o new)[i] EXCEPT !.slots = Padded(@, n)]]

-----------------------------------------------------------------------------
(* The append *)

Init ==
  /\ job \in Jobs /\ world \in Worlds
  /\ stage = "collect" /\ at = <<0, 0>>
  /\ bounces = <<>> /\ paths = job.base /\ width = job.width
  /\ tables = <<>> /\ chains = <<>> /\ verdict = <<>>

Afterwards == IF job.chain >= 1 THEN "discover" ELSE "done"

\* Nothing rough: no bounces. Rays are needed before anything is sampled.
Collect ==
  /\ stage = "collect"
  /\ stage' = IF EnsembleFaces \cup world.screens = {} THEN Afterwards
              ELSE IF ~job.rays THEN "refused" ELSE "sample"
  /\ UNCHANGED <<job, world, at, bounces, paths, width, tables, chains, verdict>>

\* One transmitter and one chunk of receivers.
SampleChunk ==
  /\ stage = "sample" /\ EnsembleFaces # {}
  /\ at[1] < Transmitters
  /\ bounces' = bounces \o ChunkRows(at[1], at[2])
  /\ at' = IF at[2] + RxChunk < Receivers THEN <<at[1], at[2] + RxChunk>> ELSE <<at[1] + 1, 0>>
  /\ UNCHANGED <<job, world, stage, paths, width, tables, chains, verdict>>

IntegrateScreens ==
  /\ stage = "sample" /\ (at[1] = Transmitters \/ EnsembleFaces = {})
  /\ LET structures == Ranked(world.screens, LAMBDA f : f)
     IN bounces' = bounces \o FlattenSeq([k \in DOMAIN structures |-> CoherentRows(structures[k])])
  /\ stage' = "append" /\ at' = <<0, 0>>
  /\ UNCHANGED <<job, world, paths, width, tables, chains, verdict>>

\* A cap that drops nothing leaves the rows in the order they were collected.
AppendBounces ==
  /\ stage = "append"
  /\ LET kept == KeepStrongest(bounces, job.cap)
         rows == IF Len(kept) < Len(bounces) THEN kept ELSE bounces
         n == Max({width, 1})
     IN IF bounces = <<>> THEN UNCHANGED <<paths, width>>
        ELSE /\ paths' = Extended([i \in DOMAIN rows |-> BouncePath(rows[i])], n)
             /\ width' = n
  /\ stage' = Afterwards
  /\ UNCHANGED <<job, world, at, bounces, tables, chains, verdict>>

Discover ==
  /\ stage = "discover"
  /\ stage' = IF ~job.rays THEN "refused" ELSE IF Samples = <<>> THEN "done" ELSE "join"
  /\ at' = <<0, 0>>
  /\ tables' = IF ~job.rays \/ Samples = <<>> THEN tables
               ELSE [e \in {Tx(t) : t \in 0..Transmitters - 1} \cup
                           {Rx(r) : r \in 0..Receivers - 1} |-> LegTable(e)]
  /\ UNCHANGED <<job, world, bounces, paths, width, chains, verdict>>

JoinPair ==
  /\ stage = "join" /\ at[1] < Transmitters
  /\ chains' = chains \o JoinedPair(at[1], at[2])
  /\ at' = IF at[2] + 1 < Receivers THEN <<at[1], at[2] + 1>> ELSE <<at[1] + 1, 0>>
  /\ UNCHANGED <<job, world, stage, bounces, paths, width, tables, verdict>>

\* The strongest chains of each pair, short ones first, in their frozen order.
\* The kernel has no derivatives: chains there are refuse a solve with them.
FreezeChains ==
  /\ stage = "join" /\ at[1] = Transmitters
  /\ chains' = IF chains = <<>> THEN <<>>
               ELSE ChainOrder(KeepStrongest(chains, job.rows))
  /\ verdict' = [i \in DOMAIN chains' |-> FALSE]
  /\ stage' = IF chains' = <<>> THEN "done" ELSE IF job.ad THEN "refused" ELSE "evaluate"
  /\ at' = <<0, 0>>
  /\ UNCHANGED <<job, world, bounces, paths, width, tables>>

\* One transmitter after the other: its rows are picked by a mask, and what the
\* kernel takes for their validity is a piece of that mask, cut out where the
\* rows of the transmitters before it end.
EvaluateTransmitter ==
  /\ stage = "evaluate" /\ at[1] < Transmitters
  /\ LET mask == [i \in DOMAIN chains |-> chains[i].tx = at[1]]
         idx == Ranked({i \in DOMAIN chains : mask[i]}, LAMBDA i : i)
         cut == SubSeq(mask, at[2] + 1, at[2] + Len(idx))
     IN /\ verdict' = [i \in DOMAIN chains |->
                         IF mask[i] THEN \E k \in DOMAIN idx : idx[k] = i /\ cut[k] ELSE verdict[i]]
        /\ at' = <<at[1] + 1, at[2] + Len(idx)>>
  /\ UNCHANGED <<job, world, stage, bounces, paths, width, tables, chains>>

\* Rows the kernel keeps: valid ones over a face that is not too weak.
AppendChains ==
  /\ stage = "evaluate" /\ at[1] = Transmitters
  /\ LET idx == Ranked({i \in DOMAIN chains : verdict[i] /\ chains[i].face \notin world.weak},
                       LAMBDA i : i)
         rows == [k \in DOMAIN idx |-> chains[idx[k]]]
         n == Max({width, 1} \cup {Len(rows[k].c1) + 1 + Len(rows[k].c2) : k \in DOMAIN rows})
     IN IF rows = <<>> THEN UNCHANGED <<paths, width>>
        ELSE /\ paths' = Extended([k \in DOMAIN rows |-> ChainPath(rows[k], n)], n)
             /\ width' = n
  /\ stage' = "done"
  /\ UNCHANGED <<job, world, at, bounces, tables, chains, verdict>>

Next ==
  \/ Collect \/ SampleChunk \/ IntegrateScreens \/ AppendBounces
  \/ Discover \/ JoinPair \/ FreezeChains \/ EvaluateTransmitter \/ AppendChains

Spec == Init /\ [][Next]_vars

-----------------------------------------------------------------------------
(* Properties *)

Active(p) == {k \in DOMAIN p.slots : p.slots[k] # Nothing}

\* Rows of one width, with as many interactions as they are deep, in front.
TypeOK ==
  /\ stage \in {"collect", "sample", "append", "discover", "join", "evaluate", "done", "refused"}
  /\ DOMAIN verdict \subseteq DOMAIN chains
  /\ \A i \in DOMAIN paths :
       Len(paths[i].slots) = width /\ Active(paths[i]) = 1..paths[i].depth

Scattered == {i \in DOMAIN paths : i > Len(job.base)}
Vertices(i) == {k \in DOMAIN paths[i].slots : paths[i].slots[k][1] = 8}

\* What can be scattered between two ends at all: over a sample both see from
\* one side, over a screen, or over a sample reached by legs short enough.
Bouncing(t, r) ==
  {x \in (world.rough \ world.screens) \X (1..2) :
     x[2] <= world.density[x[1]] /\ Lit(t, r, x[1]) /\ x[1] \notin world.weak}
Integrated(t, r) == {f \in world.screens : Lit(t, r, f)}

LegsTo(e, f) ==
  {[hops |-> <<>>, len |-> s.len] : s \in Sight(e, f)}
  \cup {[hops |-> l.hops, len |-> l.len] :
          l \in {x \in world.legs : x.end = e /\ x.face = f /\ Len(x.hops) <= Min({job.chain, KMax})}}
Chaining(t, r) ==
  {x \in UNION {{f} \X (1..world.density[f]) \X LegsTo(Tx(t), f) \X LegsTo(Rx(r), f) :
                  f \in world.rough \ world.screens} :
     Len(x[3].hops) + Len(x[4].hops) \in 1..job.chain}

\* Every way over a rough surface is a row once: never as a bounce and again as
\* a chain without reflections, never twice by the join, none lost by a chunk
\* (scattering.py:2102-2104, 1389-1432, 466-530).
EachWayOnce ==
  stage = "done" =>
    \A t \in 0..Transmitters - 1, r \in 0..Receivers - 1 :
      LET mine == {i \in Scattered : paths[i].tx = t /\ paths[i].rx = r}
          single == {i \in mine : paths[i].depth = 1}
          possible == Cardinality(Bouncing(t, r)) + Cardinality(Integrated(t, r))
          chained == IF job.chain = 0 THEN {} ELSE Chaining(t, r)
          loud == {x \in chained : x[1] \notin world.weak}
      IN /\ Cardinality(single) = Min({job.cap, possible})
         /\ Cardinality(chained) <= job.rows => Cardinality(mine \ single) = Cardinality(loud)
         /\ \A i, j \in mine : i # j => paths[i].of # paths[j].of

\* A row belongs to the receiver it was evaluated for (scattering.py:500-530).
RowsAreTheirReceivers ==
  \A i \in Scattered : paths[i].depth = 1 => paths[i].of.pol = paths[i].rx

\* What a cap drops is never stronger than a row it keeps of that pair, and no
\* pair pays for another (scattering.py:314-328, 1474-1494).
CapsDropTheWeakest ==
  /\ stage \in {"discover", "join", "evaluate", "done"} =>
       \A k \in DOMAIN bounces :
         LET kept == {i \in Scattered : paths[i].depth = 1 /\ PairOf(paths[i]) = PairOf(bounces[k])}
         IN \/ \E j \in kept : paths[j].of = bounces[k]
            \/ /\ Cardinality(kept) = job.cap
               /\ \A i \in kept : bounces[k].gain <= paths[i].of.gain
  /\ stage = "evaluate" =>
       \A i \in DOMAIN chains :
         \A c \in Chaining(chains[i].tx, chains[i].rx) :
           LET mine == {j \in DOMAIN chains : PairOf(chains[j]) = PairOf(chains[i])}
           IN c[3].len * c[4].len < -chains[i].gain =>
                \E j \in mine : /\ chains[j].face = c[1] /\ chains[j].c1 = c[3].hops
                                /\ chains[j].c2 = Reverse(c[4].hops)

\* Every frozen chain reaches the kernel as valid, though its validity is read
\* off another transmitter's rows when the order is not by transmitter
\* (scattering.py:2385-2396).
EveryChainIsEvaluated ==
  stage = "evaluate" =>
    \A i \in DOMAIN chains : chains[i].tx < at[1] => verdict[i]

\* Read from slot to slot, a chain is a way through the scene: as traced from
\* its transmitter, the vertex, and as traced from its receiver backwards
\* (scattering.py:2471-2537).
SlotsSpellTheChain ==
  stage = "done" =>
    \A i \in Scattered : paths[i].depth > 1 =>
      \E v \in Vertices(i) :
        LET hop(k) == paths[i].slots[k][2]
            to == [k \in 1..v - 1 |-> hop(k)]
            from == [k \in 1..paths[i].depth - v |-> hop(paths[i].depth + 1 - k)]
        IN /\ Vertices(i) = {v}
           /\ to \in {l.hops : l \in LegsTo(Tx(paths[i].tx), hop(v))}
           /\ from \in {l.hops : l \in LegsTo(Rx(paths[i].rx), hop(v))}

\* A structure with a phase screen is integrated coherently, one row a pair; no
\* sample of it adds power again, in a bounce or a chain (scattering.py:1053-1069).
ScreensScatterOnce ==
  \A i \in Scattered : \A v \in Vertices(i) :
    paths[i].slots[v][2] \in world.screens =>
      /\ paths[i].depth = 1
      /\ \A j \in Scattered :
           j # i /\ PairOf(paths[j]) = PairOf(paths[i]) =>
             \A u \in Vertices(j) : paths[j].slots[u][2] # paths[i].slots[v][2]
=============================================================================
