-------------------------- MODULE MCCanonicalSelect -------------------------
(***************************************************************************)
(* What CanonicalSelect is checked on: rows as the interactions write      *)
(* them, with duplicates of different length, an invalid row, a length     *)
(* that is no number and an endpoint that does not exist.                  *)
(***************************************************************************)
EXTENDS Integers

Row(tx, rx, depth, comp, prim, edge, seq, len) ==
  [valid |-> TRUE, tx |-> tx, rx |-> rx, depth |-> depth, comp |-> comp,
   prim |-> prim, edge |-> edge, seq |-> seq, len |-> len]
Los(tx, rx, len) == Row(tx, rx, 0, 0, -1, -1, <<-1, -1>>, len)
Bounce(rx, face, len) == Row(0, rx, 1, 1, face, -1, <<>>, len)
Bounces(rx, f, g, len) == Row(0, rx, 2, 1, f, -1, <<f, g>>, len)
Wedge(rx, edge, len) == Row(0, rx, 1, 2, -1, edge, <<>>, len)
Coupled(rx, face, edge, len) == Row(0, rx, 2, 3, face, edge, <<face, edge>>, len)
Reciprocal(rx, face, edge, len) == Row(0, rx, 2, 4, face, edge, <<edge, face>>, len)
Walls(rx, f, g, len) == Row(0, rx, 2, 5, f, -1, <<f, g>>, len)
Unseen(r) == [r EXCEPT !.valid = FALSE]

\* Duplicates and what sorts between them.
MixedRows ==
  {Bounce(0, 1, 5), Bounce(0, 2, 3), Wedge(0, 1, 4), Wedge(0, 2, 4), Wedge(0, 1, 2),
   Coupled(0, 1, 2, 6), Coupled(0, 2, 2, 4), Bounces(0, 1, 2, 7), Bounces(0, 1, 2, 6), Bounces(0, 1, 3, 6),
   Walls(0, 1, 2, 3), Reciprocal(0, 1, 2, 6), Unseen(Wedge(0, 1, 1))}

\* Pairs, caps, a length that is no number, an endpoint that does not exist.
PairRows ==
  {Los(0, 0, 3), Los(1, 0, 2), Los(0, 1, 3), Los(1, 1, 4), Bounce(1, 5, 4),
   Bounce(1, 5, 3), Wedge(1, 1, -1), Los(0, 9, 1)}
=============================================================================
