----------------------------- MODULE PathResult -----------------------------
(***************************************************************************)
(* The path solver around the shared propagation (path.py): evaluated rows *)
(* are put in pair order, padded into tensors over (receiver, antenna,     *)
(* transmitter, antenna, path), expanded over antenna arrays and only then *)
(* checked for capacity; a result can be filtered and beamformed.          *)
(* A tensor is its elements in row-major order, as in memory.              *)
(***************************************************************************)
EXTENDS Integers, Sequences, FiniteSets, FiniteSetsExt, SequencesExt

CONSTANTS
  Scenes,      \* transmitters and receivers: antennas, synthetic, weights, cells
  Configs,     \* the path cap of a pair (0: none), scattering, capacity suffices
  Found(_, _, _),   \* world, transmitter, receiver: interactions of each canonical path
  Scatters(_, _, _),\* ... and how many scattering rows
  Worlds,
  Requests,    \* sets of interaction types to filter by
  MaxFilters

PathAssumption == MaxFilters \in Nat

VARIABLES scene, config, world,
  stage,
  rows,      \* evaluated rows in the order the solver holds them
  result,    \* what is packed so far
  solved,    \* the result the solve returned
  asked      \* the filters applied since

vars == <<scene, config, world, stage, rows, result, solved, asked>>

None == [none |-> TRUE]

-----------------------------------------------------------------------------
(* Endpoints *)

Antennas(ends) == {e.ants : e \in ToSet(ends)}
ArraySize(ends) == IF ends = <<>> THEN 1 ELSE (CHOOSE n \in Antennas(ends) : TRUE)
Explicit == \E e \in ToSet(scene.tx) \cup ToSet(scene.rx) : ~e.synthetic

\* Every cell of a grid is a receiver.
Cells(ends) == FlattenSeq([i \in DOMAIN ends |-> [c \in 1..ends[i].cells |-> <<i, c>>]])

\* Mutant of Elements: first elements of all endpoints, then second ones.
ElementsByNumber(ends) ==
  FlattenSeq([k \in 1..ArraySize(ends) |-> [i \in DOMAIN ends |-> <<i, k>>]])

\* Every element of an explicit array is an endpoint.
Elements(ends) == FlattenSeq([i \in DOMAIN ends |-> [k \in 1..ends[i].ants |-> <<i, k>>]])

Traced(ends) == IF Explicit THEN Elements(ends) ELSE Cells(ends)

Mixed(ends) == Cardinality({e.weights : e \in ToSet(ends)}) > 1

\* Mutant of Layout: nobody asks whether all endpoints have weights.
LayoutOfAntennas ==
  /\ \A ends \in {scene.tx, scene.rx} : Cardinality(Antennas(ends)) <= 1
  /\ Explicit => \A e \in ToSet(scene.rx) : ~e.grid

\* Refused before anything is traced: different arrays on one side, weights on
\* some endpoints only, explicit elements of grids.
Layout ==
  /\ \A ends \in {scene.tx, scene.rx} : Cardinality(Antennas(ends)) <= 1 /\ ~Mixed(ends)
  /\ Explicit => \A e \in ToSet(scene.rx) : ~e.grid

-----------------------------------------------------------------------------
(* Rows *)

Path(t, r, types, n) == [tx |-> t, rx |-> r, types |-> types, n |-> n]

\* Canonical rows: receivers first, capped for each pair.
BaseRows(T, R) ==
  LET pair(r, t) == [n \in DOMAIN Found(world, t, r) |-> Path(t, r, Found(world, t, r)[n], n)]
      cut(s) == IF config.cap = 0 THEN s ELSE SubSeq(s, 1, Min({Len(s), config.cap}))
  IN FlattenSeq([k \in 1..R * T |-> cut(pair((k - 1) \div T, (k - 1) % T))])

\* Scattering rows: transmitters first.
ScatterRows(T, R) ==
  FlattenSeq([k \in 1..T * R |->
    [n \in 1..Scatters(world, (k - 1) \div R, (k - 1) % R) |->
       Path((k - 1) \div R, (k - 1) % R, <<8>>, 10 + n)]])

\* Stable order by a pair number.
ByPair(s, Pair(_)) ==
  LET order == SortSeq([i \in DOMAIN s |-> <<Pair(s[i]), i>>],
                       LAMBDA x, y : x[1] < y[1] \/ (x[1] = y[1] /\ x[2] < y[2]))
  IN [k \in DOMAIN s |-> s[order[k][2]]]

\* Mutant of Compacted: the rows as they were appended.
CompactedNot(T) == rows

\* After scattering the pair order is made again.
Compacted(T) == ByPair(rows, LAMBDA x : x.rx * T + x.tx)

-----------------------------------------------------------------------------
(* Tensors *)

Pair(d, r, ra, t, ta) == ((r * d[2] + ra) * d[3] + t) * d[4] + ta
Pairs(d) == d[1] * d[2] * d[3] * d[4]
At(x, d, w, r, ra, t, ta, p) == x[Pair(d, r, ra, t, ta) * w + p + 1]

\* Where an element of a tensor stands: receiver, antenna, transmitter, antenna, path.
Where(i, d, w) ==
  LET q == (i - 1) \div w
  IN <<q \div (d[2] * d[3] * d[4]), (q \div (d[3] * d[4])) % d[2], (q \div d[4]) % d[3],
       q % d[4], (i - 1) % w>>

\* Rows in stable pair order, and how many each pair has.
Ragged(d, list) ==
  LET index(x) == Pair(d, x.at[1], x.at[2], x.at[3], x.at[4])
      order == ByPair(list, index)
  IN [dims |-> d, rows |-> order,
      counts |-> [q \in 1..Pairs(d) |-> Cardinality({i \in DOMAIN order : index(order[i]) = q - 1})]]

\* The k-th row of a pair is its k-th path; as many columns as the longest pair.
Padded(ragged, least) ==
  LET d == ragged.dims  c == ragged.counts
      width == Max({least} \cup {c[q] : q \in DOMAIN c})
      before(q) == FoldLeft(+, 0, SubSeq(c, 1, q - 1))
      linear(q, k, x, fill) == IF k <= c[q] THEN x[before(q) + k] ELSE fill
      tensor(x, fill) == [i \in 1..Pairs(d) * width |->
                            linear(((i - 1) \div width) + 1, ((i - 1) % width) + 1, x, fill)]
  IN [dims |-> d, width |-> width, count |-> c,
      path |-> tensor([k \in DOMAIN ragged.rows |-> ragged.rows[k].path], None),
      gain |-> tensor([k \in DOMAIN ragged.rows |-> ragged.rows[k].gain], <<>>),
      vector |-> [i \in 1..Pairs(d) * width |-> None],
      txw |-> 0, rxw |-> 0]

\* The vectors of the rows, in the order of the rows, go to the valid places in
\* the order of the tensor.
WithVectors(packed, list) ==
  LET place(i) == Cardinality({j \in 1..i : packed.path[j] # None})
  IN [packed EXCEPT !.vector = [i \in DOMAIN packed.path |->
                                  IF packed.path[i] = None THEN None ELSE list[place(i)]]]

FromEvaluated(T, R) ==
  LET list == [k \in DOMAIN rows |->
                 [path |-> rows[k], gain |-> <<>>, at |-> <<rows[k].rx, 0, rows[k].tx, 0>>]]
  IN WithVectors(Padded(Ragged(<<R, 1, T, 1>>, list), 0), rows)

-----------------------------------------------------------------------------
(* Arrays *)

\* What a set of weights looks like: antennas of each, none without endpoints.
Weights(ends) == IF ends = <<>> \/ ~ends[1].weights THEN 0 ELSE ends[1].ants

\* A gain is steered by the arrays of the endpoint objects of its place.
Steered(x, d, w, rxs) ==
  [i \in DOMAIN x |-> IF x[i] = None THEN <<>>
                      ELSE LET at == Where(i, d, w)
                           IN <<rxs[at[1] + 1][1], at[2], at[3] + 1, at[4]>>]

\* Every element of a pair of centres has what the centres have.
Expanded(x, d, w) ==
  [i \in 1..Pairs(d) * w |->
     LET at == Where(i, d, w) IN x[Pair(result.dims, at[1], 0, at[3], 0) * w + at[5] + 1]]

\* Paths between centres serve all elements. Without transmitters or without
\* receivers nothing is expanded.
PackSynthetic ==
  LET d == <<result.dims[1], ArraySize(scene.rx), result.dims[3], ArraySize(scene.tx)>>
      w == result.width
      weighted == [result EXCEPT !.txw = Weights(scene.tx), !.rxw = Weights(scene.rx)]
  IN IF 0 \in {d[1], d[3]} THEN weighted
     ELSE [weighted EXCEPT !.dims = d, !.count = Expanded(result.count, d, 1),
             !.path = Expanded(result.path, d, w), !.vector = Expanded(result.vector, d, w),
             !.gain = Steered(Expanded(result.path, d, w), d, w, Cells(scene.rx))]

\* Element endpoints become antennas: the same numbers under other dimensions.
PackExplicit ==
  LET d == <<Len(scene.rx), ArraySize(scene.rx), Len(scene.tx), ArraySize(scene.tx)>>
  IN [result EXCEPT !.dims = d, !.txw = Weights(scene.tx), !.rxw = Weights(scene.rx),
        !.gain = Steered(result.path, d, result.width, Cells(scene.rx))]

\* A result refuses weights that do not fit it.
Fits(x) == x.txw \in {0, x.dims[4]} /\ x.rxw \in {0, x.dims[2]}

-----------------------------------------------------------------------------
(* Views *)

Wanted(path, types) ==
  \/ path.types = <<>> /\ 0 \in types
  \/ ToSet(path.types) \cap (types \ {0}) # {}

\* Mutant of PairOf: transmitter before antenna.
PairOfTransposed(q, d) ==
  <<q \div (d[2] * d[3] * d[4]), (q % (d[2] * d[3] * d[4])) % d[2],
    ((q % (d[2] * d[3] * d[4])) \div d[2]) % d[3], q % d[4]>>

PairOf(q, d) ==
  <<q \div (d[2] * d[3] * d[4]), (q % (d[2] * d[3] * d[4])) \div (d[3] * d[4]),
    ((q % (d[2] * d[3] * d[4])) % (d[3] * d[4])) \div d[4],
    ((q % (d[2] * d[3] * d[4])) % (d[3] * d[4])) % d[4]>>

\* The paths that stay, each with the antenna pair its place stands for.
Kept(x, types) ==
  LET keep == SelectSeq([i \in DOMAIN x.path |-> i],
                        LAMBDA i : x.path[i] # None /\ Wanted(x.path[i], types))
  IN [k \in DOMAIN keep |->
        [path |-> x.path[keep[k]], gain |-> x.gain[keep[k]],
         at |-> PairOf((keep[k] - 1) \div x.width, x.dims)]]

\* Packed anew from the columns a ragged table has: no vectors, one column at
\* least. The weights stay.
Filtered(x, types) ==
  [Padded(Ragged(x.dims, Kept(x, types)), 1) EXCEPT !.txw = x.txw, !.rxw = x.rxw]

\* Mutant of Delays: the delays are not permuted with the coefficients.
DelaysAsStored(x, r, t) ==
  LET d == x.dims  n == d[2] * d[4] * x.width
  IN SubSeq(x.path, (r * d[3] + t) * n + 1, (r * d[3] + t + 1) * n)

\* All elements of a pair in one row: antennas of the receiver, antennas of the
\* transmitter, paths.
Delays(x, r, t) ==
  LET d == x.dims  w == x.width
  IN [k \in 1..d[2] * d[4] * w |->
        At(x.path, d, w, r, (k - 1) \div (d[4] * w), t, ((k - 1) \div w) % d[4], (k - 1) % w)]

\* A coefficient of a pair with the weights it is multiplied by.
Coefficients(x, r, t) ==
  LET d == x.dims  w == x.width
      of(k) == <<r, (k - 1) \div (d[4] * w), t, ((k - 1) \div w) % d[4], (k - 1) % w>>
  IN [k \in 1..d[2] * d[4] * w |->
        [path |-> At(x.path, d, w, of(k)[1], of(k)[2], of(k)[3], of(k)[4], of(k)[5]),
         gain |-> At(x.gain, d, w, of(k)[1], of(k)[2], of(k)[3], of(k)[4], of(k)[5]),
         weights |-> <<of(k)[2], of(k)[4]>>]]

-----------------------------------------------------------------------------
Init ==
  /\ scene \in Scenes /\ config \in Configs /\ world \in Worlds
  /\ stage = "validate" /\ rows = <<>> /\ asked = <<>>
  /\ result = None /\ solved = None

Validate ==
  /\ stage = "validate"
  /\ stage' = IF Layout THEN "trace" ELSE "refused"
  /\ UNCHANGED <<scene, config, world, rows, result, solved, asked>>

Trace ==
  /\ stage = "trace"
  /\ rows' = BaseRows(Len(Traced(scene.tx)), Len(Traced(scene.rx)))
  /\ stage' = IF config.scattering THEN "scatter" ELSE "pack"
  /\ UNCHANGED <<scene, config, world, result, solved, asked>>

\* Scattering rows come after all others, whatever the cap.
AppendScattering ==
  /\ stage = "scatter"
  /\ rows' = rows \o ScatterRows(Len(Traced(scene.tx)), Len(Traced(scene.rx)))
  /\ stage' = "compact"
  /\ UNCHANGED <<scene, config, world, result, solved, asked>>

\* A failed solve has no valid row left.
Compact ==
  /\ stage = "compact"
  /\ rows' = IF config.suffices THEN Compacted(Len(Traced(scene.tx))) ELSE <<>>
  /\ stage' = "pack"
  /\ UNCHANGED <<scene, config, world, result, solved, asked>>

Pack ==
  /\ stage = "pack"
  /\ result' = FromEvaluated(Len(Traced(scene.tx)), Len(Traced(scene.rx)))
  /\ stage' = "arrays"
  /\ UNCHANGED <<scene, config, world, rows, solved, asked>>

\* Mutant of Arrays: the result is returned when it is packed.
ArraysAndReturn ==
  /\ stage = "arrays"
  /\ result' = IF Explicit THEN PackExplicit ELSE PackSynthetic
  /\ stage' = IF Fits(result') /\ ~Mixed(scene.tx) /\ ~Mixed(scene.rx) THEN "returned" ELSE "raised"
  /\ solved' = result'
  /\ UNCHANGED <<scene, config, world, rows, asked>>

Arrays ==
  /\ stage = "arrays"
  /\ result' = IF Explicit THEN PackExplicit ELSE PackSynthetic
  /\ stage' = IF Fits(result') /\ ~Mixed(scene.tx) /\ ~Mixed(scene.rx) THEN "check" ELSE "raised"
  /\ UNCHANGED <<scene, config, world, rows, solved, asked>>

TerminalCheck ==
  /\ stage = "check"
  /\ IF config.suffices THEN stage' = "returned" /\ solved' = result
                        ELSE stage' = "failed" /\ UNCHANGED solved
  /\ UNCHANGED <<scene, config, world, rows, result, asked>>

FilterByType(types) ==
  /\ stage = "returned" /\ Len(asked) < MaxFilters
  /\ result' = Filtered(result, types)
  /\ asked' = Append(asked, types)
  /\ UNCHANGED <<scene, config, world, stage, rows, solved>>

Next ==
  \/ Validate \/ Trace \/ AppendScattering \/ Compact \/ Pack \/ Arrays \/ TerminalCheck
  \/ \E types \in Requests : FilterByType(types)

Spec == Init /\ [][Next]_vars

-----------------------------------------------------------------------------
(* Properties *)

\* Tensors of one shape, and counts of the valid places of each pair.
TypeOK ==
  result # None =>
    /\ {Len(result.path), Len(result.gain), Len(result.vector)} = {Pairs(result.dims) * result.width}
    /\ Len(result.count) = Pairs(result.dims)
    /\ \A q \in DOMAIN result.count, p \in 1..result.width :
         (result.path[(q - 1) * result.width + p] # None) = (p <= result.count[q])

\* The paths of an antenna pair, in order.
Listed(x, r, ra, t, ta) ==
  LET all == [p \in 1..x.width |-> At(x.path, x.dims, x.width, r, ra, t, ta, p - 1)]
  IN SelectSeq(all, LAMBDA y : y # None)

\* What lies between two traced endpoints.
Between(r, t) ==
  SelectSeq(BaseRows(Len(Traced(scene.tx)), Len(Traced(scene.rx))), LAMBDA x : x.rx = r /\ x.tx = t)
  \o (IF config.scattering
      THEN SelectSeq(ScatterRows(Len(Traced(scene.tx)), Len(Traced(scene.rx))),
                     LAMBDA x : x.rx = r /\ x.tx = t)
      ELSE <<>>)

Number(list, e) == (CHOOSE i \in DOMAIN list : list[i] = e) - 1

\* An antenna pair holds every path between its own elements once, in the order
\* of the solve, each steered by its own arrays: whatever the sort, the padding,
\* the expansion over elements or the reshape did (path.py:202-322, 547-635, 1215-1462).
CellsAreTheirPair ==
  stage \in {"check", "returned"} /\ asked = <<>> /\ config.suffices =>
    \A r \in 0..result.dims[1] - 1, ra \in 0..result.dims[2] - 1,
       t \in 0..result.dims[3] - 1, ta \in 0..result.dims[4] - 1 :
      LET tx == IF Explicit THEN <<t + 1, ta + 1>> ELSE Cells(scene.tx)[t + 1]
          rx == IF Explicit THEN <<r + 1, ra + 1>> ELSE Cells(scene.rx)[r + 1]
      IN /\ Listed(result, r, ra, t, ta) =
              Between(Number(Traced(scene.rx), rx), Number(Traced(scene.tx), tx))
         /\ \A p \in 0..result.width - 1 :
              LET g == At(result.gain, result.dims, result.width, r, ra, t, ta, p)
              IN g \in {<<>>, <<rx[1], ra, tx[1], ta>>}

\* A vector field is the one of its path (path.py:957-972, 1593-1605).
VectorsStayWithTheirPaths ==
  result # None /\ asked = <<>> => result.vector = result.path

\* Beamforming adds up the elements of one endpoint pair, each at its own delay
\* and with its own weights (path.py:798-822).
BeamsCombineTheirPair ==
  stage = "returned" =>
    \A r \in 0..result.dims[1] - 1, t \in 0..result.dims[3] - 1 :
      LET c == Coefficients(result, r, t)  tau == Delays(result, r, t)
          valid == {k \in DOMAIN tau : tau[k] # None}
      IN /\ \A k \in valid : c[k].path = tau[k] /\ c[k].gain[2] = c[k].weights[1] /\ c[k].gain[4] = c[k].weights[2]
         /\ Cardinality(valid) =
              FoldLeft(+, 0, [q \in DOMAIN result.count |->
                LET at == Where(q, result.dims, 1)
                IN IF at[1] = r /\ at[3] = t THEN result.count[q] ELSE 0])

\* Nothing of a solve without capacity is returned, although all of it was
\* packed before the check (path.py:1651-1680).
NothingOfAFailedSolve == stage = "returned" => config.suffices

\* A scene whose arrays cannot be packed is refused before it is traced
\* ("Reject unavailable synthetic layouts before native scene allocation",
\* path.py:1201).
RefusedBeforeTracing == stage # "raised"

\* Filters keep, in order, exactly the paths that meet all of them, in the
\* antenna pair they were in (path.py:734-787).
FiltersAreExact ==
  stage = "returned" =>
    \A r \in 0..solved.dims[1] - 1, ra \in 0..solved.dims[2] - 1,
       t \in 0..solved.dims[3] - 1, ta \in 0..solved.dims[4] - 1 :
      Listed(result, r, ra, t, ta) =
        SelectSeq(Listed(solved, r, ra, t, ta),
                  LAMBDA x : \A i \in DOMAIN asked : Wanted(x, asked[i]))
=============================================================================
