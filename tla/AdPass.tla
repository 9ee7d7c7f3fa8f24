-------------------------------- MODULE AdPass --------------------------------
(***************************************************************************)
(* One differentiation of one solver route, twice: first in reverse mode   *)
(* (record the companions, then walk the tape back from one output), then  *)
(* in forward mode with dual inputs that do not require a gradient, the    *)
(* jvp of each companion running as it is applied. The same seeds and the  *)
(* same output are followed, so the two answers can be compared.           *)
(***************************************************************************)
EXTENDS AdCompanions, Naturals, Sequences, FiniteSets, FiniteSetsExt, SequencesExt

CONSTANTS
  RouteNames,   \* routes to differentiate
  Skipped,      \* pairs of a route and an output not to follow
  MaxSeeds,     \* bound on the leaves differentiated at once
  Orders        \* "first", "createGraph" (grad of grad), "composed" (functorch)

VARIABLES
  route,      \* the route differentiated
  seeds,      \* leaves that require a gradient, or carry a tangent
  wanted,     \* the output differentiated
  follow,     \* the caller asked for a live direction
  order,      \* what is asked: a first derivative, or a composition
  stage,      \* "record", "backward", "dual", "done"
  at,         \* companions applied, or still to walk back
  live,       \* values on the graph in this mode
  tape,       \* per companion: which inputs wanted a gradient, which outputs were live
  owed,       \* per value, the chains from a seed its derivative is owed along
  flow,       \* dual: per value, the chains its tangent came along; backward:
              \* per value, the chains its cotangent came along from the output
  launches,   \* native backward launches
  reverse,    \* the reverse answer: "refused", or the chains gradients were summed over
  forward     \* the forward answer: "refused", or the chains in the output's tangent

vars == <<route, seeds, wanted, follow, order, stage, at, live, tape, owed, flow,
          launches, reverse, forward>>

-----------------------------------------------------------------------------
\* The companions of the route, in order.
Ops == Routes[route]

\* Refused before anything is computed: the vertices of a coupled scene, the
\* primal-only inputs of a consumer request.
RefusedAtTheSeam ==
  CASE route \in {"coupled", "coupledDd"} -> {"vertices"}
    [] route \in DOMAIN FixedRoutes -> Antennas \cup {"muR"}
    [] OTHER -> {}

Inputs(c) == UNION Range(c.by)

Outputs(c) == DOMAIN c.by

Values(ops) == UNION {Inputs(ops[i]) \cup Outputs(ops[i]) : i \in DOMAIN ops}

\* What a user can put on the graph: scene and antenna parameters, never the
\* tapes and hit tables the solvers fill.
Leaves(r) ==
  Values(Routes[r]) \cap
    ({"source", "target", "sources", "sinks", "vertices", "freq", "txPower", "txPol", "muR",
      "layerMuR", "sigmaH", "heights"} \cup Slab \cup Layers)

\* What a route publishes last for each name.
Published(r) == UNION {Outputs(Routes[r][i]) : i \in DOMAIN Routes[r]}
                  \cap {"field", "length", "direction", "matrices", "totals", "maps", "power"}

Refused == {<<"refused">>}

-----------------------------------------------------------------------------

GeometryLive(c, hidden) == ~hidden /\ c.geometry \cap live # {}

Marked(c, geometryLive) ==
  (IF geometryLive THEN {} ELSE c.length)
    \cup (IF geometryLive /\ follow THEN {} ELSE c.direction)

Onward(chains, v) == {Append(p, v) : p \in chains}

\* What a caller is promised of an output: nothing of a direction nobody asked
\* for, everything it is computed from otherwise.
Owed(c, o) ==
  IF o \in c.direction /\ ~follow THEN {} ELSE UNION {Onward(owed[v], o) : v \in c.by[o]}

Owe(c) == [v \in DOMAIN owed |-> IF v \in Outputs(c) THEN Owed(c, v) ELSE owed[v]]

RefuseAtTheSeam ==
  /\ stage = "record" /\ at = 0 /\ tape = <<>>
  /\ seeds \cap RefusedAtTheSeam # {}
  /\ reverse' = Refused /\ forward' = Refused
  /\ stage' = "done"
  /\ UNCHANGED <<route, seeds, wanted, follow, order, at, live, tape, owed, flow, launches>>

\* Mutant of Recorded: outputs go on the graph whether or not an input needs it.
RecordedRegardless(c, needs) == Outputs(c) \ Marked(c, GeometryLive(c, FALSE))

Recorded(c, needs) ==
  IF needs = {} THEN {} ELSE Outputs(c) \ Marked(c, GeometryLive(c, FALSE))

Record ==
  /\ seeds \cap RefusedAtTheSeam = {}
  /\ stage = "record" /\ at < Len(Ops)
  /\ LET c == Ops[at + 1]
         needs == (Inputs(c) \cup c.noRev) \cap live
         outs == Recorded(c, needs)
     IN  /\ tape' = Append(tape, [needs |-> needs, outs |-> outs])
         /\ live' = (live \ Outputs(c)) \cup outs
         /\ owed' = Owe(c)
  /\ at' = at + 1
  /\ UNCHANGED <<route, seeds, wanted, follow, order, stage, flow, launches, reverse, forward>>

StartBackward ==
  /\ stage = "record" /\ at = Len(Ops)
  /\ stage' = "backward"
  /\ flow' = [v \in DOMAIN flow |-> IF v = wanted /\ v \in live THEN {<<v>>} ELSE {}]
  /\ UNCHANGED <<route, seeds, wanted, follow, order, at, live, tape, owed, launches, reverse, forward>>

\* Forward mode starts over: the same leaves, as duals.
ToForward(answer) ==
  /\ reverse' = answer
  /\ stage' = "dual" /\ at' = 0 /\ live' = seeds
  /\ flow' = [v \in DOMAIN flow |-> IF v \in seeds THEN {<<v>>} ELSE {}]

Carrying == {v \in DOMAIN flow : flow[v] # {}}

\* Mutant of FirstOrderOnly: the backward runs whatever the grad mode.
AnyOrder == FALSE

\* create_graph leaves grad mode enabled while a backward runs.
FirstOrderOnly == order = "createGraph"

Backward ==
  /\ stage = "backward" /\ at > 0
  /\ LET c == Ops[at]
         t == tape[at]
         arriving == t.outs \cap Carrying
         summed(v) == UNION {{<<v>> \o p : p \in flow[o]} : o \in {o \in arriving : v \in c.by[o]}}
     IN  \/ /\ arriving = {}
            /\ flow' = [v \in DOMAIN flow |-> IF v \in Outputs(c) THEN {} ELSE flow[v]]
            /\ at' = at - 1
            /\ UNCHANGED <<stage, live, launches, reverse>>
         \/ /\ arriving # {}
            /\ FirstOrderOnly \/ t.needs \cap c.noRev # {}
            /\ ToForward(Refused)
            /\ UNCHANGED launches
         \/ /\ arriving # {}
            /\ ~FirstOrderOnly /\ t.needs \cap c.noRev = {}
            /\ flow' = [v \in DOMAIN flow |->
                          (IF v \in c.rev \cap t.needs THEN summed(v) ELSE {})
                            \cup (IF v \in Outputs(c) THEN {} ELSE flow[v])]
            /\ launches' = launches + 1
            /\ at' = at - 1
            /\ UNCHANGED <<stage, live, reverse>>
  /\ UNCHANGED <<route, seeds, wanted, follow, order, tape, owed, forward>>

Delivered ==
  /\ stage = "backward" /\ at = 0
  /\ ToForward(UNION {flow[v] : v \in seeds})
  /\ UNCHANGED <<route, seeds, wanted, follow, order, tape, owed, launches, forward>>

\* Apply one companion to duals. Its setup hook sees no tangent.
Dual ==
  /\ stage = "dual" /\ at < Len(Ops)
  /\ LET c == Ops[at + 1]
         tangents == (Inputs(c) \cup c.noFwd) \cap live
         outs == Outputs(c) \ Marked(c, GeometryLive(c, c.decided = "hook"))
     IN  \/ /\ tangents \cap c.noFwd # {} \/ (order = "composed" /\ tangents # {})
            /\ forward' = Refused
            /\ stage' = "done"
            /\ UNCHANGED <<at, live, flow>>
         \/ /\ tangents \cap c.noFwd = {} /\ (order = "composed" => tangents = {})
            /\ flow' = [v \in DOMAIN flow |->
                          IF v \in outs THEN UNION {Onward(flow[i], v) : i \in c.by[v] \cap c.fwd}
                          ELSE IF v \in Outputs(c) THEN {} ELSE flow[v]]
            /\ live' = {v \in DOMAIN flow : flow'[v] # {}}
            /\ at' = at + 1
            /\ UNCHANGED <<stage, forward>>
  /\ UNCHANGED <<route, seeds, wanted, follow, order, tape, owed, launches, reverse>>

Answer ==
  /\ stage = "dual" /\ at = Len(Ops)
  /\ stage' = "done"
  /\ forward' = flow[wanted]
  /\ UNCHANGED <<route, seeds, wanted, follow, order, at, live, tape, owed, flow, launches, reverse>>

Init ==
  /\ route \in RouteNames
  /\ seeds \in UNION {kSubset(k, Leaves(route)) : k \in 1 .. MaxSeeds}
  /\ wanted \in Published(route) /\ <<route, wanted>> \notin Skipped
  /\ follow \in (IF route \in DOMAIN FixedRoutes THEN BOOLEAN ELSE {FALSE})
  /\ order \in Orders
  /\ stage = "record" /\ at = 0
  /\ live = seeds
  /\ tape = <<>>
  /\ owed = [v \in Values(Ops) |-> IF v \in seeds THEN {<<v>>} ELSE {}]
  /\ flow = [v \in Values(Ops) |-> {}]
  /\ launches = 0
  /\ reverse = {} /\ forward = {}

Next == RefuseAtTheSeam \/ Record \/ StartBackward \/ Backward \/ Delivered \/ Dual \/ Answer

Spec == Init /\ [][Next]_vars

-----------------------------------------------------------------------------

\* A pass holds only values of its route, and a tape of the companions applied.
TypeOK ==
  /\ stage \in {"record", "backward", "dual", "done"}
  /\ at \in 0 .. Len(Ops)
  /\ live \subseteq Values(Ops)
  /\ Len(tape) <= Len(Ops)
  /\ \A i \in DOMAIN tape :
       tape[i].outs \subseteq Outputs(Ops[i]) /\ (tape[i].needs = {} => tape[i].outs = {})
  /\ \A v \in Values(Ops) : \A p \in owed[v] : Head(p) \in seeds /\ Last(p) = v
  /\ launches \in 0 .. Len(Ops)
  /\ \A answer \in {reverse, forward} \ {Refused} : \A p \in answer : Head(p) \in seeds

\* A reverse pass that is not refused sums a gradient over every chain along
\* which the output depends on a seed: nothing is silently detached on the way.
NothingDropped ==
  stage \in {"dual", "done"} /\ order = "first" /\ reverse # Refused => reverse = owed[wanted]

\* Duals that do not require a gradient get the same derivative as reverse mode.
ForwardAsReverse ==
  stage = "done" /\ order = "first" /\ reverse # Refused /\ forward # Refused => forward = reverse

\* What reverse mode refuses, forward mode refuses too.
RefusedInBothModes ==
  stage = "done" /\ order = "first" /\ reverse = Refused => forward = Refused

\* A second derivative is refused before any native backward, a composed
\* transform before any tangent is produced.
CompositionsRefused ==
  stage = "done" =>
    /\ order = "createGraph" => launches = 0 /\ reverse \in {{}, Refused}
    /\ order = "composed" => forward \in {{}, Refused}

\* The two modes, written by hand in each companion, answer alike: the same
\* derivative or the same refusal, and a composition of them is never attempted.
ModesAnswerAlike == ForwardAsReverse /\ RefusedInBothModes /\ CompositionsRefused

\* "path_length_m and delay_s are differentiable outputs of a geometry-AD
\* solve, so a time-of-arrival loss works" (docs/dev/ad-capability-boundary.md).
ArrivalIsDifferentiable ==
  stage = "done" /\ order = "first" /\ wanted = "length" /\ reverse # Refused => reverse = owed[wanted]
=============================================================================
