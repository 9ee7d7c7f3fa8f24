----------------------- MODULE MCDeterministicSolve -----------------------
(***************************************************************************)
(* What DeterministicSolve is checked on: one transmitter and a grid of    *)
(* two rows and columns, or four points.                                   *)
(***************************************************************************)
EXTENDS Integers

P(id, rx, field, axis) == [tx |-> 0, rx |-> rx, id |-> id, field |-> field, axis |-> axis]

\* Fields of both signs that interfere, in a cell on and one off the diagonal.
Direct == <<P(0, 0, <<1, 1>>, "x"), P(2, 0, <<1, 0>>, "x"), P(2, 0, <<0, 1>>, "y"), P(3, 0, <<-1, 0>>, "x"), P(7, 0, <<1, 0>>, "x"),
            P(1, 1, <<0, 2>>, "x"), P(2, 1, <<1, 0>>, "x"), P(2, 1, <<-1, 0>>, "x"), P(5, 2, <<1, 0>>, "x")>>
Diffuse == <<P(6, 0, <<1, 0>>, "x"), P(6, 1, <<0, 1>>, "x"), P(6, 1, <<0, 1>>, "x")>>
Chain == <<P(6, 1, <<1, -1>>, "x")>>

MCScenes ==
  [paths : {Direct}, scattering : {<<>>, Diffuse}, chains : {Chain}, rejected : {0, 1},
   ensemble : {0, 2}, screens : {0, 1}, receivers : {"grid", "point", "mixed"}, suffices : BOOLEAN]

Sets == {{"los"}, {"los", "transmission", "scattering"}, {"los", "reflection", "diffraction"},
         {"diffraction", "scattering"},
         {"los", "reflection", "diffraction", "transmission", "scattering"}}

Config(scopes, caps, depths, ads) ==
  [components : Sets, depth : depths, order : {1}, coherent : BOOLEAN, scatteringCoherent : BOOLEAN,
   chains : BOOLEAN, coupled : BOOLEAN, cap : caps, scope : scopes, export : BOOLEAN, field : {TRUE}, taper : {FALSE}, ad : ads]

MCConfigurations ==
  Config({"global"}, {0}, {2}, {"none"})
  \cup {c \in Config({"global", "per_pair"}, {2}, {0, 2}, {"none"}) : c.export /\ c.components # {"los"}}
  \cup {[c EXCEPT !.taper = TRUE, !.field = FALSE] : c \in {c \in Config({"global"}, {0}, {2}, {"none", "jvp"}) : c.export /\ ~c.chains}}
  \cup {[c EXCEPT !.depth = d, !.order = 0] : d \in {0, 6}, c \in {c \in Config({"global"}, {0}, {2}, {"none"}) : c.export /\ ~c.chains}}

\* Solves that are differentiated, of every combination of the rows.
MCDifferentiated == {c \in Config({"global"}, {0}, {2}, {"vjp"}) : c.export}
MCDifferentiatedScenes ==
  {s \in MCScenes : s.rejected = 0 /\ s.suffices /\ s.ensemble = 0 /\ s.screens = 1 /\ s.receivers # "mixed"}
=============================================================================
