---------------------------- MODULE MCBasicSolve ----------------------------
(***************************************************************************)
(* What BasicSolve is checked on: a few scenes of at most two transmitters *)
(* and a grid of two by two cells, or four points, and every set of        *)
(* components.                                                             *)
(***************************************************************************)
EXTENDS Integers

\* A scene with its walls, wedges and samples given per transmitter and cell.
SceneOf(t, r, c, grid, structures, crossed, passed, found) ==
  [tx |-> t, rows |-> r, cols |-> c, grid |-> grid, structures |-> structures,
   walls |-> [p \in (1..t) \X (1..(r * c)) |-> crossed[p[2]]],
   thru |-> [p \in (1..t) \X (1..(r * c)) |-> passed[p[2]]],
   reflects |-> [p \in (1..t) \X (1..(r * c)) |-> IF p[2] > 1 THEN 1 ELSE 0],
   wedges |-> found,
   sheds |-> [e \in {"e", "f"} |-> [x \in 1..(r * c) |-> IF e = "e" THEN 1 ELSE x]],
   lights |-> [x \in 1..t |-> <<x = 1, TRUE>>],
   sees |-> <<[x \in 1..(r * c) |-> x > 2], [x \in 1..(r * c) |-> x # 3]>>]

Components == {"los", "reflection", "diffraction", "transmission", "scattering"}

MCScenes ==
  {SceneOf(t, 2, 2, g, s, w, u, e) :
     t \in {2}, g \in BOOLEAN, s \in {TRUE},
     w \in {<<0, 1, 1, 2>>, <<0, 0, 1, 1>>}, u \in {<<1, 1, 0, 1>>},
     e \in {<<{}, {"e", "f"}>>, <<{"f"}, {"e"}>>}}
  \cup {SceneOf(1, 1, 2, TRUE, FALSE, <<0, 0>>, <<1, 1>>, <<{}>>)}

MCConfigurations ==
  [components : SUBSET Components, depth : 0..3, samples : {1, 3},
   ad : BOOLEAN, limit : {0, 200, 900, 1300}]
=============================================================================
