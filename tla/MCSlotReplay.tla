---------------------------- MODULE MCSlotReplay ----------------------------
(***************************************************************************)
(* What SlotReplay is checked on: rows of two sources and two sinks that   *)
(* were discovered or made by hand, and endpoint batches of up to four,    *)
(* labelled slot by slot, in another order in each slot, or all alike.     *)
(***************************************************************************)
EXTENDS Integers

Row(source, sink, sourceId, kind) ==
  [source |-> source, sink |-> sink, sourceId |-> sourceId, sinkId |-> 7 + sink,
   component |-> kind[1], depth |-> kind[2], filled |-> kind[3]]

Los == <<0, 0, {}>>
Reflected == <<1, 1, {1}>>
Kinds == {Los, Reflected, <<0, 1, {1}>>, <<1, 0, {}>>, <<1, 2, {1}>>, <<2, 0, {}>>, <<0, -1, {}>>}

RowsOf(kinds) ==
  {Row(i, j, id, kind) : i \in 0 .. 1, j \in 0 .. 1, id \in 1 .. 2, kind \in kinds}

Labelled(kinds) == {r \in RowsOf(kinds) : r.sourceId = r.source + 1}

Discovered ==
  {<<>>} \cup {<<r>> : r \in RowsOf(Kinds)}
         \cup {<<r, q>> : r \in RowsOf({Los, Reflected}), q \in Labelled({Los, Reflected})}

ByHand ==
  {<<>>} \cup {<<r>> : r \in RowsOf(Kinds)} \cup {<<r, q>> : r \in RowsOf({Los}), q \in Labelled({Los})}
         \cup {<<r, q, p>> : r, q, p \in Labelled({Los})}

MCTopologies == [width : {1}, rows : Discovered] \cup [width : {0}, rows : ByHand]

MCSourceBatches ==
  {<<>>, <<1>>, <<1, 2>>, <<2, 1>>, <<1, 1>>, <<1, 2, 1, 2>>, <<1, 2, 2, 1>>, <<1, 1, 1>>, <<1, 1, 1, 1>>}
MCSinkBatches == {<<>>, <<7>>, <<7, 8>>, <<7, 7>>, <<7, 8, 7, 8>>, <<7, 7, 7>>}
=============================================================================
