---------------------------- MODULE MCPathResult ----------------------------
(***************************************************************************)
(* What PathResult is checked on: up to two transmitters and three         *)
(* receivers, arrays of one or two elements, up to three paths of a pair.  *)
(***************************************************************************)
EXTENDS Integers, Sequences

Point(ants, synthetic, weights) ==
  [ants |-> ants, synthetic |-> synthetic, weights |-> weights, cells |-> 1, grid |-> FALSE]
Grid(cells, ants) ==
  [ants |-> ants, synthetic |-> TRUE, weights |-> FALSE, cells |-> cells, grid |-> TRUE]

Sides(synthetic) ==
  {<<Point(n, synthetic, w)>> : n \in 1..2, w \in BOOLEAN}
  \cup {<<Point(2, synthetic, w), Point(n, synthetic, v)>> : n \in 1..2, w \in BOOLEAN, v \in BOOLEAN}

MCScenes ==
  [tx : Sides(TRUE) \cup Sides(FALSE), rx : Sides(TRUE) \cup {<<Grid(2, n), Point(n, TRUE, FALSE)>> : n \in 1..2}]
  \cup [tx : {<<>>}, rx : {<<Point(1, TRUE, TRUE)>>}]

MCConfigs == [cap : {0, 2}, scattering : BOOLEAN, suffices : BOOLEAN]

Lists == <<<<>>, <<<<>>>>, <<<<>>, <<1>>>>, <<<<1, 2>>, <<2>>, <<>>>>>>
MCFound(w, t, r) == Lists[((w[1] * t + w[2] * r + w[3]) % 4) + 1]
MCScatters(w, t, r) == (t + r + w[3]) % 2
MCWorlds == {<<1, 1, 0>>, <<2, 1, 3>>, <<3, 2, 1>>, <<0, 0, 2>>}
MCRequests == {{0}, {1}, {2}, {0, 8}}

=============================================================================
