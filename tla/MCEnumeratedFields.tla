------------------------- MODULE MCEnumeratedFields -------------------------
(***************************************************************************)
(* What EnumeratedFields is checked on: two transmitters, two receivers    *)
(* and a dozen rows between them. Lines of sight are lit, dark and at the  *)
(* edge of a shadow; there are chains of one, two and five reflections     *)
(* over two surfaces, walls, an edge, and coupled chains.                  *)
(***************************************************************************)
EXTENDS Integers

Row(id, depth, tx, rx, n, via, clear) ==
  [id |-> id, depth |-> depth, tx |-> tx, rx |-> rx, n |-> n, via |-> via, clear |-> clear]

MCWorld ==
  {Row(0, 0, 0, 0, 1, <<>>, "lit"), Row(0, 0, 1, 0, 1, <<>>, "edge"),
   Row(0, 0, 0, 1, 1, <<>>, "dark"), Row(0, 0, 1, 1, 1, <<>>, "lit"),
   Row(1, 1, 0, 0, 1, <<"wall">>, "lit"), Row(1, 1, 0, 0, 2, <<"floor">>, "lit"),
   Row(1, 2, 0, 0, 1, <<"wall", "floor">>, "lit"),
   Row(1, 5, 1, 1, 1, <<"wall", "floor", "wall", "floor", "wall">>, "lit"),
   Row(2, 1, 1, 0, 1, <<>>, "lit"), Row(5, 1, 0, 1, 1, <<>>, "lit"), Row(5, 2, 0, 1, 1, <<>>, "lit"),
   Row(3, 2, 1, 1, 1, <<>>, "lit"), Row(4, 2, 0, 1, 1, <<>>, "lit"), Row(7, 2, 0, 0, 1, <<>>, "lit")}

Interactions == {"los", "reflection", "diffraction", "transmission", "scattering"}

Plain == [components |-> {"los"}, depth |-> 2, order |-> 1, coupled |-> FALSE, cap |-> 0, scope |-> "global",
          taper |-> FALSE, ad |-> "none", live |-> {}, explicit |-> FALSE, detach |-> FALSE,
          dispersive |-> FALSE, moved |-> FALSE, rough |-> {}, realization |-> {}]

\* No cap, the first two rows of the solve, or the first of each pair.
Limits == {<<0, "global">>, <<2, "global">>, <<1, "per_pair">>}

Shapes == {[Plain EXCEPT !.components = c, !.depth = d, !.coupled = x, !.cap = k[1], !.scope = k[2]] :
             c \in SUBSET Interactions, d \in {0, 1, 2, 5, 6}, x \in BOOLEAN, k \in Limits}

\* No derivatives: surfaces, taper, diffraction switched off.
PrimalJobs ==
  {[j EXCEPT !.rough = s[1], !.realization = s[2], !.taper = t, !.order = o] :
     j \in Shapes, t \in BOOLEAN, o \in 0..1,
     s \in {<<{}, {}>>, <<{"wall"}, {}>>, <<{"floor"}, {"wall"}>>}}

\* Derivatives of some leaves, of a scene or of a request.
LiveSets == {{}, {"material", "frequency"}, {"vertices"}, {"ends"}, {"ends", "vertices", "power"}}

AdJobs ==
  {[j EXCEPT !.ad = "vjp", !.live = v, !.explicit = e, !.moved = m, !.dispersive = m] :
     j \in {i \in Shapes : i.cap = 0}, v \in LiveSets, e \in BOOLEAN, m \in BOOLEAN}
  \cup {[j EXCEPT !.ad = "jvp", !.taper = TRUE] : j \in Shapes}

MCJobs == PrimalJobs \cup AdJobs

=============================================================================
