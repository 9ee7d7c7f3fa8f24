--------------------------- MODULE CanonicalSelect --------------------------
(***************************************************************************)
(* Which rows of an enumeration become paths (propagation/topology.py,     *)
(* kernels/topology.py, kernels/evaluated_paths.cu).  The blocks of the    *)
(* interactions are padded to one width and joined; the native owner puts  *)
(* the rows in canonical order by a chain of stable sorts, marks where a   *)
(* new event sequence starts, keeps the shortest row of each, caps the     *)
(* paths of a pair or of the solve and publishes the rows with the table   *)
(* that segments them by pair.  NaN stands for a length that is no number. *)
(*                                                                         *)
(* The kernel that keeps the shortest row has a thread per position and no *)
(* barrier: each thread clears the flag of its own position, and the one   *)
(* at the start of a group then sets the flag of the position it awards,   *)
(* which may be another thread's, before or after that one clears it.      *)
(***************************************************************************)
EXTENDS Integers, FiniteSets, SequencesExt

CONSTANTS
  Blocks,    \* the rows an interaction may hand over
  MaxRows,   \* bound: rows of one call
  NumTx, NumRx,
  Width,     \* sequence columns after padding
  Caps,      \* max_paths values tried; 0 stands for none
  NaN

SelectAssumption ==
  /\ MaxRows \in Nat /\ Width \in Nat /\ Caps \subseteq Nat
  /\ NumTx \in Nat \ {0} /\ NumRx \in Nat \ {0} /\ NaN \notin Nat

VARIABLES
  rows,      \* the joined block
  cap, scope,
  stage,     \* the kernel that runs next
  pass,      \* sort passes done
  fail,      \* the failure word of the call
  order,     \* rows in their order so far
  starts,    \* positions a new identity starts at
  winner,    \* positions whose flag is set
  thread,    \* per position, what its thread does next: "clear", "award", "done"
  index,     \* the rows kept so far, by index
  out        \* what the caller gets

vars == <<rows, cap, scope, stage, pass, fail, order, starts, winner, thread, index, out>>

-----------------------------------------------------------------------------
(* Rows *)

\* Interactions write the events of a row as a sequence or, where there is
\* one event only, leave it to the padding to repeat the primitive.
Padded(r) ==
  [r EXCEPT !.seq =
     [k \in 1..Width |->
        IF k <= Len(r.seq) THEN r.seq[k]
        ELSE IF r.seq = <<>> /\ k = 1 /\ r.depth > 0 THEN r.prim ELSE -1]]

\* What happens at slot k: 0 nothing, 1 reflection, 2 diffraction,
\* 4 transmission, 8 scattering.
EventType(r, k) ==
  CASE r.comp \in {1, 5} -> IF k <= r.depth THEN (IF r.comp = 1 THEN 1 ELSE 4) ELSE 0
    [] r.comp = 2 -> IF r.depth > 0 /\ k = 1 THEN 2 ELSE 0
    [] r.comp = 6 -> IF r.depth > 0 /\ k = 1 THEN 8 ELSE 0
    [] r.comp \in {3, 4, 7} ->
         IF Width < 2 \/ r.depth < 2 \/ k > 2 THEN 0
         ELSE IF r.comp = 3 THEN k ELSE IF r.comp = 4 THEN 3 - k ELSE 2
    [] OTHER -> 0

\* What it happens at: the edge of a diffraction, else the entry of the slot.
ObjectId(r, k) ==
  IF EventType(r, k) = 0 THEN -1
  ELSE IF r.comp = 2 /\ k = 1 THEN r.edge ELSE r.seq[k]

\* Two rows with this equal are one path.
Identity(r) ==
  <<r.tx, r.rx, [k \in 1..Width |-> <<EventType(r, k), ObjectId(r, k)>>]>>

PairOf(r) == r.rx * NumTx + r.tx
InRange(r) == r.tx \in 0..NumTx - 1 /\ r.rx \in 0..NumRx - 1

-----------------------------------------------------------------------------
(* The chain of stable sorts, least significant key first *)

\* What a pass sorts by: a column of the rows, or one of their sequence.
By(names) == [k \in DOMAIN names |-> [key |-> names[k], at |-> 0]]
Columns == [k \in 1..Width |-> [key |-> "seq", at |-> Width + 1 - k]]

\* Mutant of Passes: the sequence columns are left out.
PassesWithoutColumns ==
  By(<<"edge", "prim", "comp", "depth", "tx", "rx", "valid">>)

Passes ==
  By(<<"edge", "prim">>) \o Columns \o By(<<"comp", "depth", "tx", "rx", "valid">>)

KeyOf(by, r) ==
  CASE by.key = "valid" -> IF r.valid THEN 0 ELSE 1
    [] ~r.valid           -> 0
    [] by.key = "seq"   -> r.seq[by.at]
    [] OTHER              -> r[by.key]

\* A stable sort of the rows o of t by one key.
StableSort(t, o, by) ==
  LET Key(p) == KeyOf(by, t[o[p]])
      Before(p, q) == Key(p) < Key(q) \/ (Key(p) = Key(q) /\ p < q)
  IN [k \in DOMAIN o |->
        o[CHOOSE p \in DOMAIN o : Cardinality({q \in DOMAIN o : Before(q, p)}) = k - 1]]

\* The order the chain is after: by the most significant key that differs.
Precedes(t, i, j) ==
  LET passes == Passes
      Same(k) == KeyOf(passes[k], t[i]) = KeyOf(passes[k], t[j])
      differ == {k \in DOMAIN passes : ~Same(k)}
      first == Max(differ)
  IN IF differ = {} THEN i < j
     ELSE KeyOf(passes[first], t[i]) < KeyOf(passes[first], t[j])

Sorted(t) ==
  [k \in DOMAIN t |->
     CHOOSE i \in DOMAIN t : Cardinality({j \in DOMAIN t : Precedes(t, j, i)}) = k - 1]

-----------------------------------------------------------------------------
(* Groups, winners, caps *)

ValidRows(t) == {i \in DOMAIN t : t[i].valid}

\* Mutant of StartsAt: a row starts a group when its length differs.
StartsByLength(t, o) ==
  {p \in DOMAIN o :
     t[o[p]].valid
       /\ (p = 1 \/ ~t[o[p - 1]].valid
             \/ Identity(t[o[p]]) # Identity(t[o[p - 1]])
             \/ t[o[p]].len # t[o[p - 1]].len)}

StartsAt(t, o) ==
  {p \in DOMAIN o :
     t[o[p]].valid
       /\ (p = 1 \/ ~t[o[p - 1]].valid \/ Identity(t[o[p]]) # Identity(t[o[p - 1]]))}

\* Positions from p on before the next start or the first invalid row.
GroupAt(t, o, s, p) ==
  {q \in p..Len(o) : \A x \in p + 1..q : x \notin s /\ t[o[x]].valid}

\* Mutant of Awarded: the first row of a group is kept.
AwardedFirst(t, o, s, p) == {p}

\* The position the group starting at p awards, the first of its shortest rows;
\* a length that is no number takes the whole group away, unless the row is the
\* only valid one.
Awarded(t, o, s, p) ==
  LET g == GroupAt(t, o, s, p) IN
  IF Cardinality(ValidRows(t)) <= 1 THEN {p}
  ELSE {q \in g :
          /\ \A x \in g : t[o[x]].len # NaN /\ t[o[q]].len <= t[o[x]].len
          /\ \A x \in g : x < q => t[o[x]].len > t[o[q]].len}

\* The flags the threads mean to set.
Winners(t, o, s) == UNION {Awarded(t, o, s, p) : p \in s}

\* Positions of o in S, in order (cub DeviceSelect).
Select(o, S) == [k \in 1..Cardinality(S) |->
                   o[CHOOSE p \in S : Cardinality({x \in S : x < p}) = k - 1]]

\* Mutant of Kept: a receiver's rows are one segment, whatever the transmitter.
KeptOfReceiver(t, d) ==
  {p \in DOMAIN d :
     \/ cap = 0
     \/ scope = "global" /\ p <= cap
     \/ scope = "per_pair"
          /\ Cardinality({x \in 1..p : t[d[x]].rx = t[d[p]].rx}) <= cap}

\* Every row, or the first max_paths of the solve or of each pair.
Kept(t, d) ==
  {p \in DOMAIN d :
     \/ cap = 0
     \/ scope = "global" /\ p <= cap
     \/ /\ scope = "per_pair"
        /\ LET first == CHOOSE x \in DOMAIN d :
                          /\ PairOf(t[d[x]]) = PairOf(t[d[p]])
                          /\ \A y \in 1..x - 1 : PairOf(t[d[y]]) # PairOf(t[d[p]])
           IN p - first < cap}

\* Where the rows of each pair start, as running counts.
PairOffsets(t, d) ==
  [k \in 1..NumTx * NumRx + 1 |->
     Cardinality({p \in DOMAIN d : PairOf(t[d[p]]) < k - 1})]

-----------------------------------------------------------------------------
(* The call *)

Nothing == [failed |-> FALSE, index |-> <<>>, rows |-> <<>>, offsets |-> <<>>]

Init ==
  /\ \E b \in SeqOf(Blocks, MaxRows) : rows = [i \in 1..Len(b) |-> Padded(b[i])]
  /\ cap \in Caps
  /\ scope \in IF cap = 0 THEN {"global"} ELSE {"global", "per_pair"}
  /\ stage = "validate" /\ pass = 0 /\ fail = FALSE
  /\ order = [i \in DOMAIN rows |-> i] /\ starts = {} /\ winner = {} /\ thread = <<>>
  /\ index = <<>> /\ out = Nothing

\* An endpoint that is none of the call's fails the call.
Validate ==
  /\ stage = "validate" /\ stage' = "sort"
  /\ fail' = \E i \in ValidRows(rows) : ~InRange(rows[i])
  /\ UNCHANGED <<rows, cap, scope, pass, order, starts, winner, thread, index, out>>

SortPass ==
  /\ stage = "sort" /\ pass < Len(Passes)
  /\ pass' = pass + 1
  /\ order' = IF fail THEN order ELSE StableSort(rows, order, Passes[pass'])
  /\ stage' = IF pass' = Len(Passes) THEN "group" ELSE stage
  /\ UNCHANGED <<rows, cap, scope, fail, starts, winner, thread, index, out>>

\* The starts are marked and the winner kernel is launched, on flags nobody
\* initialised: each thread writes its own before any is read, so two residues
\* stand for all.
Group ==
  /\ stage = "group" /\ stage' = "winner"
  /\ starts' = IF fail THEN {} ELSE StartsAt(rows, order)
  /\ winner' \in {{}, DOMAIN order}
  /\ thread' = [p \in DOMAIN order |-> "clear"]
  /\ UNCHANGED <<rows, cap, scope, pass, fail, order, index, out>>

\* A thread clears its own flag, whatever another has set there, and goes on
\* only from the start of a group.
ClearOwn(p) ==
  /\ stage = "winner" /\ thread[p] = "clear"
  /\ winner' = winner \ {p}
  /\ thread' = [thread EXCEPT ![p] = IF p \in starts THEN "award" ELSE "done"]
  /\ UNCHANGED <<rows, cap, scope, stage, pass, fail, order, starts, index, out>>

Award(p) ==
  /\ stage = "winner" /\ thread[p] = "award"
  /\ winner' = winner \cup Awarded(rows, order, starts, p)
  /\ thread' = [thread EXCEPT ![p] = "done"]
  /\ UNCHANGED <<rows, cap, scope, stage, pass, fail, order, starts, index, out>>

\* The next kernel of the stream waits for every thread.
Dedup ==
  /\ stage = "winner" /\ \A p \in DOMAIN thread : thread[p] = "done"
  /\ stage' = "limit"
  /\ index' = Select(order, IF fail THEN {} ELSE winner)
  /\ UNCHANGED <<rows, cap, scope, pass, fail, order, starts, winner, thread, out>>

Limit ==
  /\ stage = "limit" /\ stage' = "publish"
  /\ index' = Select(index, IF fail THEN {} ELSE Kept(rows, index))
  /\ UNCHANGED <<rows, cap, scope, pass, fail, order, starts, winner, thread, out>>

\* The count is read back, a failed call raises, the rows are gathered and
\* segmented by pair.
Publish ==
  /\ stage = "publish" /\ stage' = "done"
  /\ out' = IF fail THEN [Nothing EXCEPT !.failed = TRUE]
            ELSE [failed |-> FALSE, index |-> index,
                  rows |-> [k \in DOMAIN index |-> rows[index[k]]],
                  offsets |-> PairOffsets(rows, index)]
  /\ UNCHANGED <<rows, cap, scope, pass, fail, order, starts, winner, thread, index>>

Next ==
  \/ Validate \/ SortPass \/ Group
  \/ \E p \in DOMAIN thread : ClearOwn(p) \/ Award(p)
  \/ Dedup \/ Limit \/ Publish

Spec == Init /\ [][Next]_vars

-----------------------------------------------------------------------------
(* Derivatives of the continuous columns *)

\* Mutant of Pullback: gradients go to the rows in the order of the output.
PullbackByOrder(g, n) ==
  [i \in 1..n |-> IF i \in DOMAIN g THEN g[i] ELSE 0]

\* Backward scatters the gradient of each output row to the row it was.
Pullback(g, n) ==
  [i \in 1..n |->
     IF \E k \in DOMAIN out.index : out.index[k] = i
     THEN g[CHOOSE k \in DOMAIN out.index : out.index[k] = i] ELSE 0]

\* Forward mode gathers the tangents of those rows.
Pushforward(t) == [k \in DOMAIN out.index |-> t[out.index[k]]]

-----------------------------------------------------------------------------
(* The selection in tensor operations that the module keeps beside the call *)

Reference(t) ==
  LET o == SelectSeq(Sorted(t), LAMBDA i : t[i].valid)
      n == Len(o)
      Same(p) == p > 1 /\ Identity(t[o[p]]) = Identity(t[o[p - 1]])
      Id(p) == Cardinality({x \in 1..p : ~Same(x)})
      Members(p) == {x \in 1..n : Id(x) = Id(p)}
      Shortest(p) == \A x \in Members(p) :
                       t[o[x]].len # NaN /\ t[o[p]].len <= t[o[x]].len
      u == IF n <= 1 THEN o
           ELSE Select(o, {p \in 1..n :
                  Shortest(p) /\ ~\E x \in Members(p) : x < p /\ Shortest(x)})
      Run(p) == CHOOSE x \in 1..p :
                  /\ \A y \in x..p : PairOf(t[u[y]]) = PairOf(t[u[p]])
                  /\ x = 1 \/ PairOf(t[u[x - 1]]) # PairOf(t[u[p]])
    IN IF cap = 0 THEN u
     ELSE IF scope = "global" THEN SubSeq(u, 1, IF cap < Len(u) THEN cap ELSE Len(u))
     ELSE Select(u, {p \in DOMAIN u : p - Run(p) < cap})

-----------------------------------------------------------------------------
(* Properties *)

Done == stage = "done" /\ ~out.failed
Lengths(t, i) == {t[j].len : j \in {x \in ValidRows(t) : Identity(t[x]) = Identity(t[i])}}
Lost(t, i) == NaN \in Lengths(t, i) /\ Cardinality(ValidRows(t)) > 1

\* The row that precedes all others of its path.
Leads(t, i) ==
  \A j \in ValidRows(t) : Identity(t[j]) = Identity(t[i]) /\ j # i => Precedes(t, i, j)

\* A path whose first row is not a shortest one: its flag is set by a thread
\* that does not own it, and may be cleared again.
Exposed(t, i) ==
  \E j \in ValidRows(t) :
    /\ Identity(t[j]) = Identity(t[i]) /\ Leads(t, j)
    /\ \E l \in Lengths(t, j) : l < t[j].len

\* No flag was cleared after it was set.
Intact == winner = Winners(rows, order, starts)

Named(t, d) == [k \in DOMAIN d |-> <<Identity(t[d[k]]), t[d[k]].len>>]

\* What the same rows in reverse give, when no flag is cleared after it was set.
OfReverse ==
  LET back == Reverse(rows)
      o == Sorted(back)
  IN Named(back, Select(o, Winners(back, o, StartsAt(back, o))))

\* The call moves through its kernels; what it publishes are rows it was given.
TypeOK ==
  /\ stage \in {"validate", "sort", "group", "winner", "limit", "publish", "done"}
  /\ fail \in BOOLEAN /\ out.failed \in BOOLEAN
  /\ \A i \in DOMAIN rows : Len(rows[i].seq) = Width
  /\ ToSet(order) = DOMAIN rows /\ Len(order) = Len(rows)
  /\ pass \in 0..Len(Passes)
  /\ winner \subseteq DOMAIN rows
  /\ \A p \in DOMAIN thread : thread[p] \in {"clear", "award", "done"}
  /\ ToSet(index) \subseteq ValidRows(rows)

\* Without a cap, no event sequence found between two endpoints is published
\* twice, though its rows were told apart by adjacency after sorts on columns
\* that are not the identity, and it is published unless a length is no number
\* or its flag was for another thread to clear.
EachPathOnce ==
  Done /\ cap = 0 =>
    \A i \in ValidRows(rows) :
      LET n == Cardinality({k \in DOMAIN out.rows : Identity(out.rows[k]) = Identity(rows[i])}) IN
      /\ n <= 1
      /\ Lost(rows, i) => n = 0
      /\ ~Lost(rows, i) /\ ~Exposed(rows, i) => n = 1

\* The row that is kept is as short as any row of its path, cap or not, and
\* whatever the threads cleared.
ShortestIsKept ==
  Done => \A k \in DOMAIN out.rows :
            Lost(rows, out.index[k])
              \/ \A l \in Lengths(rows, out.index[k]) : out.rows[k].len <= l
              \/ Cardinality(ValidRows(rows)) = 1

\* A per-pair cap counts the pair's own paths: a pair has as many paths as were
\* kept of it or as many as the cap allows, whatever the others have.
CapCountsThePair ==
  Done /\ cap > 0 /\ scope = "per_pair" =>
    \A pair \in 0..NumTx * NumRx - 1 :
      LET found == {Identity(rows[order[p]]) :
                      p \in {x \in winner : PairOf(rows[order[x]]) = pair}}
          n == Cardinality({k \in DOMAIN out.rows : PairOf(out.rows[k]) = pair})
      IN n = IF Cardinality(found) < cap THEN Cardinality(found) ELSE cap

\* The order the interactions handed the rows over in is forgotten but for what
\* the threads clear: the published paths are paths of the same rows in reverse,
\* as long and in the same order.
ArrivalIsForgotten ==
  Done /\ cap = 0 =>
    LET said == Named(rows, out.index)
    IN said = SelectSeq(OfReverse, LAMBDA path : path \in ToSet(said))

\* test_mixed_component_order_and_dedup_are_invariant_to_input_shuffle
\* (tests/path/test_path_canonical_selection.py): the paths do not depend on the
\* order the rows arrive in. They do when a flag is cleared after it was set.
InvariantToInputShuffle ==
  Done /\ cap = 0 => Named(rows, out.index) = OfReverse

\* When no flag is cleared after it was set, the kernels select what the tensor
\* operations of topology.py select.
KernelsAgree == Done /\ Intact => out.index = Reference(rows)

\* A gradient comes back to the row its path was made from: pulling back is
\* the transpose of pushing forward, whichever rows were dropped.
GradientsComeBack ==
  Done =>
    \A i \in DOMAIN rows, k \in DOMAIN out.index :
      LET tangent == [j \in DOMAIN rows |-> IF j = i THEN 1 ELSE 0]
          grad == [j \in DOMAIN out.index |-> IF j = k THEN 1 ELSE 0]
      IN Pushforward(tangent)[k] = Pullback(grad, Len(rows))[i]
=============================================================================
