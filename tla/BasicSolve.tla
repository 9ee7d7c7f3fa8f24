----------------------------- MODULE BasicSolve -----------------------------
(***************************************************************************)
(* One solve of the Monte Carlo Basic solver (montecarlo/basic.py): the    *)
(* memory estimate is held against the workspace limit, each component     *)
(* makes a map of a receiver grid, a failed solve is blanked, the maps are *)
(* added up, and the capacity of the transmission search is checked before *)
(* anything is returned.  Point receivers get a line-of-sight matrix only. *)
(* Amounts are small numbers; a path is worth one.                         *)
(***************************************************************************)
EXTENDS Naturals, Sequences, FiniteSets, FiniteSetsExt, SequencesExt

CONSTANTS
  Configurations,  \* configurations tried
  Scenes,          \* scenes tried
  MaxBytes,        \* bound: stands for the largest signed 64-bit number
  PathBytes,       \* estimated bytes of a path state
  PairBytes,       \* estimated bytes of a transmitter-receiver pair
  ReflectionCap,   \* deepest reflection the native derivative takes
  ChunkRows        \* scattering rows evaluated at once

BytesAssumption == {MaxBytes, PathBytes, PairBytes, ReflectionCap, ChunkRows} \subseteq Nat

\* Amounts and counts are numbers, and what a scene gives for each transmitter,
\* cell or sample it gives for every one of them.
InputsAssumption ==
  /\ \A c \in Configurations : {c.samples, c.depth, c.limit} \subseteq Nat
  /\ \A s \in Scenes :
       LET cells == 1..(s.rows * s.cols)
           pairs == (1..s.tx) \X cells
       IN /\ {s.tx, s.rows, s.cols} \subseteq Nat
          /\ {s.walls, s.thru, s.reflects} \subseteq [pairs -> Nat]
          /\ \A t \in 1..s.tx : IsFiniteSet(s.wedges[t]) /\ s.wedges[t] \subseteq DOMAIN s.sheds
          /\ \A e \in DOMAIN s.sheds : s.sheds[e] \in [cells -> Nat]

VARIABLES
  stage,     \* "budget", "los", "reflection", "diffraction", "transmission",
             \* "scattering", "blank", "finalize", "terminal", "returned", "refused", "raised"
  config, scene,
  matrix,    \* line-of-sight matrix, before a grid's visibility
  wedges,    \* edges each transmitter's first hits discovered
  maps,      \* of each component, its map
  failed,    \* did the shared transaction fail
  result     \* path_gain and the component powers

vars == <<stage, config, scene, matrix, wedges, maps, failed, result>>

None == <<>>
Components == {"los", "reflection", "diffraction", "transmission", "scattering"}
Tx == 1..scene.tx
Rx == 1..(scene.rows * scene.cols)
Pairs == Tx \X Rx
Zero == [p \in Pairs |-> 0]
On(name) == name \in config.components

-----------------------------------------------------------------------------
(* The memory budget (runtime.py) *)

Refused == MaxBytes + 1

\* Mutant of Times: the bound is checked after the multiplication wrapped.
TimesWrapped(a, b) == (a * b) % (MaxBytes + 1)

\* A step of a product or a sum, refused as soon as it would pass the bound.
Times(a, b) ==
  IF a = Refused \/ (b > 0 /\ a > MaxBytes \div b) THEN Refused ELSE a * b
Plus(a, b) ==
  IF a = Refused \/ a + b > MaxBytes THEN Refused ELSE a + b

Required(c, s) ==
  LET depth == IF c.depth > 1 THEN c.depth ELSE 1
      temporary == Times(Times(Times(Times(1, c.samples), s.tx), depth), PathBytes)
      output == Times(Times(Times(1, s.tx), s.rows * s.cols), PairBytes)
  IN IF Refused \in {temporary, output} THEN Refused
     ELSE Plus(Plus(Plus(Plus(0, 0), temporary), output), 0)

\* A limit of zero is no limit here (None in the code).
Affordable(c, s) ==
  c.limit = 0 \/ (Required(c, s) # Refused /\ Required(c, s) <= c.limit)

-----------------------------------------------------------------------------
\* What the constructor of a configuration and the solve take.
Constructible(c) ==
  /\ c.samples > 0 /\ c.components # {} /\ c.components \subseteq Components
  /\ c.components \cap {"transmission", "scattering"} # {} => c.depth >= 1
Solvable(c) == (c.ad /\ "reflection" \in c.components) => c.depth <= ReflectionCap

Init ==
  /\ stage = "budget" /\ config \in Configurations /\ scene \in Scenes
  /\ matrix = None /\ wedges = None /\ maps = None /\ failed = FALSE /\ result = None

\* The limit is compared before anything is allocated or launched.
Budget ==
  /\ stage = "budget"
  /\ stage' = IF Constructible(config) /\ Affordable(config, scene) /\ Solvable(config)
              THEN "los" ELSE "refused"
  /\ UNCHANGED <<config, scene, matrix, wedges, maps, failed, result>>

\* Nothing is in the way of the straight line, for the visibility kernel.
Visible(p) == ~scene.structures \/ scene.walls[p] = 0
Unobstructed == [p \in Pairs |-> 1]

\* One matrix for all receivers; points are masked at once, a grid's map is laid
\* out and masked.
Los ==
  /\ stage = "los"
  /\ matrix' = IF ~On("los") THEN Zero
               ELSE IF scene.grid THEN Unobstructed
               ELSE [p \in Pairs |-> IF Visible(p) THEN 1 ELSE 0]
  /\ maps' = IF ~scene.grid THEN None
             ELSE [c \in Components |-> IF c = "los" /\ On("los")
                                        THEN [p \in Pairs |-> IF Visible(p) THEN 1 ELSE 0]
                                        ELSE Zero]
  /\ stage' = IF scene.grid THEN "reflection" ELSE "finalize"
  /\ UNCHANGED <<config, scene, wedges, failed, result>>

-----------------------------------------------------------------------------
\* Mutant of Reflection: a map traced for its wedges is kept.
ReflectionKept ==
  /\ stage = "reflection"
  /\ LET launched == scene.structures /\ (On("reflection") \/ On("diffraction"))
     IN /\ maps' = IF launched THEN [maps EXCEPT !["reflection"] = scene.reflects] ELSE maps
        /\ wedges' = IF launched /\ On("diffraction") THEN scene.wedges ELSE None
  /\ stage' = "diffraction"
  /\ UNCHANGED <<config, scene, matrix, failed, result>>

\* Reflection is traced for its map and for the wedges diffraction starts from;
\* a map traced for the wedges alone is dropped.
Reflection ==
  /\ stage = "reflection"
  /\ LET launched == scene.structures /\ (On("reflection") \/ On("diffraction"))
     IN /\ maps' = IF launched /\ On("reflection")
                   THEN [maps EXCEPT !["reflection"] = scene.reflects] ELSE maps
        /\ wedges' = IF launched /\ On("diffraction") THEN scene.wedges ELSE None
  /\ stage' = "diffraction"
  /\ UNCHANGED <<config, scene, matrix, failed, result>>

\* What the edges of a transmitter shed on each cell.
Shed(t) == [r \in Rx |-> SumFunctionOnSet([e \in wedges[t] |-> scene.sheds[e][r]], wedges[t])]
Diffracting == {t \in Tx : wedges[t] # {}}

\* Mutant of Rows: a transmitter without edges leaves no map.
RowsOfDiffracting ==
  LET order == SetToSortSeq(Diffracting, <) IN [k \in DOMAIN order |-> Shed(order[k])]

\* Under derivatives the maps are stacked, one per transmitter, a zero map for
\* one that found no edge.
Rows == [t \in Tx |-> Shed(t)]

Diffraction ==
  /\ stage = "diffraction"
  /\ maps' = IF ~(On("diffraction") /\ scene.structures) THEN maps
             ELSE [maps EXCEPT !["diffraction"] = [p \in Pairs |->
                     IF config.ad THEN IF p[1] \in DOMAIN Rows THEN Rows[p[1]][p[2]] ELSE 0
                     ELSE IF p[1] \in Diffracting THEN Shed(p[1])[p[2]] ELSE 0]]
  /\ stage' = "transmission"
  /\ UNCHANGED <<config, scene, matrix, wedges, failed, result>>

-----------------------------------------------------------------------------
\* Power behind the walls of a straight line: none if it meets no wall.
Through(p, base) == IF scene.walls[p] = 0 THEN 0 ELSE base * scene.thru[p]

\* Mutant of BasePower: the line-of-sight matrix is taken whether or not it was made.
BasePowerOfLos == matrix

\* The power a line has without its walls: the matrix of the solve, or one of its own.
BasePower == IF On("los") THEN matrix ELSE Unobstructed

Transmission ==
  /\ stage = "transmission"
  /\ LET made == On("transmission") /\ scene.structures /\ Pairs # {}
     IN /\ failed' = (made /\ \E p \in Pairs : scene.walls[p] > config.depth)
        /\ maps' = IF ~made THEN maps
                   ELSE [maps EXCEPT !["transmission"] =
                           IF failed' THEN Zero ELSE [p \in Pairs |-> Through(p, BasePower[p])]]
  /\ stage' = "scattering"
  /\ UNCHANGED <<config, scene, matrix, wedges, result>>

\* Area samples that a transmitter lights and that see a cell.
Lit(t) == {k \in 1..config.samples : scene.lights[t][((k - 1) % Len(scene.lights[t])) + 1]}
Seen(k, r) == scene.sees[((k - 1) % Len(scene.sees)) + 1][r]
Chunk == IF ChunkRows \div config.samples > 1 THEN ChunkRows \div config.samples ELSE 1
Starts == {s \in Rx : (s - 1) % Chunk = 0}
Block(s) == {r \in Rx : s <= r /\ r < s + Chunk}
\* A block is skipped when none of its rows is active.
Active(t, s) == \E k \in Lit(t), r \in Block(s) : Seen(k, r)

\* The samples of a transmitter, deposited block by block of cells.
Deposits(t, r) ==
  IF Lit(t) = {} \/ ~Active(t, CHOOSE s \in Starts : r \in Block(s)) THEN 0
  ELSE Cardinality({k \in Lit(t) : Seen(k, r)})

Scattering ==
  /\ stage = "scattering"
  /\ maps' = IF On("scattering") /\ scene.structures
             THEN [maps EXCEPT !["scattering"] = [p \in Pairs |-> Deposits(p[1], p[2])]]
             ELSE maps
  /\ stage' = "blank"
  /\ UNCHANGED <<config, scene, matrix, wedges, failed, result>>

-----------------------------------------------------------------------------
Blanked == [c \in Components |-> Zero]

\* With a transaction every map passes the sanitizer, in place of the solve's own.
Blank ==
  /\ stage = "blank"
  /\ maps' = IF failed THEN Blanked ELSE maps
  /\ stage' = "finalize"
  /\ UNCHANGED <<config, scene, matrix, wedges, failed, result>>

Total(m) == SumFunctionOnSet(m, Pairs)

\* Mutant of Gain: scattering is left out of the total.
GainWithoutScattering(p) ==
  SumFunctionOnSet([c \in Components |-> maps[c][p]], Components \ {"scattering"})
Gain(p) == SumFunctionOnSet([c \in Components |-> maps[c][p]], Components)

Reported == {"los", "reflection", "diffraction"} \cup (config.components \cap {"transmission", "scattering"})

\* The sum of the maps, flat over the cells, and the total of each; points
\* report their matrix and no power but that of line of sight.
Finalize ==
  /\ stage = "finalize"
  /\ result' =
       IF scene.grid
       THEN [gain |-> [p \in Pairs |-> Gain(p)],
             power |-> [c \in Reported |-> Total(maps[c])]]
       ELSE [gain |-> matrix,
             power |-> [c \in Reported |-> IF c = "los" /\ On("los") THEN Total(matrix) ELSE 0]]
  /\ stage' = "terminal"
  /\ UNCHANGED <<config, scene, matrix, wedges, maps, failed>>

Terminal ==
  /\ stage = "terminal"
  /\ stage' = IF failed THEN "raised" ELSE "returned"
  /\ UNCHANGED <<config, scene, matrix, wedges, maps, failed, result>>

\* The call is over.
Done == stage \in {"returned", "raised", "refused"} /\ UNCHANGED vars

Next ==
  \/ Budget \/ Los \/ Reflection \/ Diffraction \/ Transmission \/ Scattering
  \/ Blank \/ Finalize \/ Terminal \/ Done

Spec == Init /\ [][Next]_vars

-----------------------------------------------------------------------------
TypeOK ==
  /\ stage \in {"budget", "los", "reflection", "diffraction", "transmission", "scattering",
                "blank", "finalize", "terminal", "returned", "refused", "raised"}
  /\ maps # None => DOMAIN maps = Components /\ \A c \in Components : DOMAIN maps[c] = Pairs
  /\ stage \in {"terminal", "returned", "raised"} => DOMAIN result.gain = Pairs

Whole == stage = "returned" /\ scene.grid

(* A straight line is counted once, by the component it belongs to: by line *)
(* of sight when it meets no wall, else by transmission and for what its    *)
(* walls let through - whichever other components were asked for            *)
(* (transmission_component_map, los_component_map).                         *)
StraightLineOnce ==
  Whole => \A p \in Pairs :
    LET open == ~scene.structures \/ scene.walls[p] = 0
    IN maps["los"][p] + maps["transmission"][p] =
         IF open THEN (IF On("los") THEN 1 ELSE 0)
         ELSE IF On("transmission") THEN scene.thru[p] ELSE 0

(* What was not asked for adds nothing to a result, though reflection is    *)
(* traced for the wedges of diffraction.                                    *)
UnrequestedAddsNothing ==
  Whole => /\ \A c \in Components \ config.components : maps[c] = Zero
           /\ \A c \in DOMAIN result.power : ~On(c) => result.power[c] = 0

(* The total gain is all there is: the gains of the cells add up to the     *)
(* powers of the components reported.                                       *)
GainIsThePowers ==
  stage = "returned" =>
    Total(result.gain) = SumFunctionOnSet(result.power, DOMAIN result.power)

(* Each transmitter's diffraction and scattering land in its own row of the *)
(* map, with derivatives or without: transmitters that found no edge, and   *)
(* blocks of cells no sample reaches, shift or end nothing.                 *)
RowsAreTheirTransmitters ==
  Whole /\ scene.structures => \A p \in Pairs :
    /\ On("diffraction") =>
         maps["diffraction"][p] =
           SumFunctionOnSet([e \in scene.wedges[p[1]] |-> scene.sheds[e][p[2]]], scene.wedges[p[1]])
    /\ On("scattering") =>
         maps["scattering"][p] =
           Cardinality({k \in 1..config.samples :
             /\ scene.lights[p[1]][((k - 1) % Len(scene.lights[p[1]])) + 1]
             /\ scene.sees[((k - 1) % Len(scene.sees)) + 1][p[2]]})

(* A solve whose search overflowed shows nothing: when the terminal check   *)
(* runs its maps, gains and powers are all zero, and it is not returned.    *)
NothingOfAFailedSolve ==
  failed => /\ stage # "returned"
            /\ stage \in {"terminal", "raised"} =>
                 /\ \A p \in Pairs : result.gain[p] = 0
                 /\ \A c \in DOMAIN result.power : result.power[c] = 0

(* A solve starts only if the bytes estimated for it, computed without a    *)
(* bound, fit its limit (checked_product, enforce_memory_budget).           *)
StartsWithinItsLimit ==
  stage \notin {"budget", "refused"} /\ config.limit # 0 =>
    LET depth == IF config.depth > 1 THEN config.depth ELSE 1
    IN config.samples * scene.tx * depth * PathBytes
         + scene.tx * scene.rows * scene.cols * PairBytes <= config.limit
=============================================================================
