-------------------------------- MODULE Bdpt --------------------------------
(***************************************************************************)
(* A BDPT solve (montecarlo/bdpt.py): a configuration is accepted or       *)
(* refused, the solve is validated and prepared, and the connection rows   *)
(* of every requested component are collected from the routes that can     *)
(* find them: enumerations for the paths of delta events, the shooting     *)
(* sampler (BdptSampler) for the rest. A path is the word of its events:   *)
(* R reflection, T transmission, S scattering, D diffraction. One          *)
(* transmitter, one receiver and one light subpath stand for all.          *)
(***************************************************************************)
EXTENDS BdptSampler

CONSTANTS
  Depths,            \* depths a configuration may name
  LightDepths,       \* and depths of the light subpath
  Orders,            \* scattering orders it may name
  Worlds,            \* scenes to solve
  EnumerationLimit   \* deepest chain of the enumerations

ConfigAssumption ==
  /\ Depths \cup Orders \cup {EnumerationLimit} \subseteq Nat /\ LightDepths \subseteq 0 .. MaxBounces
  /\ Worlds \subseteq [structures : BOOLEAN, walls : Nat, rough : BOOLEAN, liveVertices : BOOLEAN]
  /\ \A w \in Worlds : ~w.structures => w.walls = 0 /\ ~w.rough /\ ~w.liveVertices

VARIABLES
  stage,    \* where the solve is, "refused" when it raised
  config,   \* its configuration
  world,    \* its scene
  samples,  \* the connection rows collected
  power     \* the rows under each component the result exposes

vars == <<stage, config, world, samples, power, samplerVars>>

Components == {"los", "reflection", "diffraction", "transmission", "scattering"}
Surface == {"reflection", "diffraction", "transmission", "scattering"}

Configs ==
  [components : (SUBSET Components) \ {{}}, depth : Depths, lightDepth : LightDepths, order : Orders,
   coupled : BOOLEAN, coherent : BOOLEAN, ad : BOOLEAN]

\* What a configuration must satisfy to be built.
Accepted(c) ==
  /\ c.order >= 1
  /\ c.depth < 1 => c.components \cap Surface = {}
  /\ c.coupled => c.depth >= 2 /\ {"reflection", "diffraction"} \subseteq c.components
  /\ c.coherent => c.components \cap {"transmission", "scattering"} = {}

\* The depth of the sampler is the smaller of the two a configuration names.
NativeDepth(c) == IF c.depth < c.lightDepth THEN c.depth ELSE c.lightDepth

\* Mutant of ReachesSampler: scattering is forgotten.
ReachesSamplerMixed(c, w) == w.structures /\ "transmission" \in c.components

\* Whether a solve shoots rays whose hit points carry no gradient.
ReachesSampler(c, w) == w.structures /\ c.components \cap {"transmission", "scattering"} # {}

-----------------------------------------------------------------------------
Chains(event, depth) == UNION {[1 .. n -> {event}] : n \in 1 .. depth}

CoupledWords == {<<"R", "D">>, <<"D", "R">>, <<"D", "D">>}

\* The paths an enumeration finds: the direct one when no wall is in the way,
\* the straight one through all the walls when there are some, every chain of
\* reflections, every diffraction, the coupled pairs.
Enumerated(class, depth) ==
  CASE class = "los" -> IF world.walls = 0 THEN {<<>>} ELSE {}
    [] class = "reflection" -> IF world.structures THEN Chains("R", depth) ELSE {}
    [] class = "diffraction" -> IF world.structures /\ depth >= 1 THEN {<<"D">>} ELSE {}
    [] class = "transmission" ->
         IF world.walls \in 1 .. depth THEN {[i \in 1 .. world.walls |-> "T"]} ELSE {}
    [] class = "coupled" -> IF world.structures /\ depth >= 2 THEN CoupledWords ELSE {}

\* Whether an enumeration of these components refuses the depth.
TooDeep(components, depth) ==
  depth > EnumerationLimit /\ components \cap {"reflection", "transmission"} # {}

\* The rows of one class: the power of the transmitter is reattached to them
\* when the caller passes it live.
Discrete(class, component, live) ==
  {[route |-> class, word |-> word, component |-> component, depth |-> Len(word), live |-> live] :
     word \in Enumerated(class, config.depth)}

\* Mutant of CoupledRows: the block keeps every row of the coupled
\* enumeration, the plain reflections and diffractions as well.
CoupledRowsAll(live) ==
  {[route |-> "coupled", word |-> word, component |-> "diffraction", depth |-> Len(word), live |-> live] :
     word \in UNION {Enumerated(class, config.depth) : class \in {"coupled", "reflection", "diffraction"}}}

\* Mutant of CoupledRows: the block is built without the live power.
CoupledRowsDetached(live) == Discrete("coupled", "diffraction", FALSE)

\* The coupled enumeration also returns reflections and diffractions; only its
\* coupled rows are kept, and they count as diffraction.
CoupledRows(live) == Discrete("coupled", "diffraction", live)

\* The rows of every requested class.
AllRows(live) ==
  (UNION {Discrete(k, k, live) : k \in config.components})
    \cup (IF config.coupled THEN CoupledRows(live) ELSE {})

\* The direct path, from one endpoint per transmitter.
DirectRows(route) ==
  {[route |-> route, word |-> word, component |-> "los", depth |-> 0, live |-> config.ad] :
     word \in Enumerated("los", 0)}

Goes(next) == stage' = next
Keep == UNCHANGED <<config, world, power, samplerVars>>

-----------------------------------------------------------------------------
Configure ==
  /\ stage = "new"
  /\ config' \in Configs
  /\ Goes(IF Accepted(config') THEN "configured" ELSE "refused")
  /\ UNCHANGED <<world, samples, power, samplerVars>>

\* A gradient of the vertices that would reach the sampler is refused.
Validate ==
  /\ stage = "configured"
  /\ Goes(IF config.ad /\ ReachesSampler(config, world) /\ world.liveVertices
          THEN "refused" ELSE "valid")
  /\ Keep /\ UNCHANGED samples

\* The workspace is sized, and the solve goes on only when the budget allows it.
Prepare ==
  /\ stage = "valid"
  /\ \/ Goes("endpoints")
     \/ Goes("refused")
  /\ Keep /\ UNCHANGED samples

\* Without structures the direct connections are built and accumulated here,
\* and when nothing else was asked for they are the whole result.
BuildEndpoints ==
  /\ stage = "endpoints"
  /\ IF config.coherent THEN Goes("coherent") /\ UNCHANGED samples
     ELSE IF ~world.structures /\ config.components = {"los"}
     THEN samples' = DirectRows("endpoint") /\ Goes("accumulate")
     ELSE Goes("los") /\ UNCHANGED samples
  /\ Keep

\* The coherent solve: every requested class is enumerated with its field. The
\* rows carry the field as the enumeration scaled it, with the transmitter
\* power detached.
CollectCoherent ==
  /\ stage = "coherent"
  /\ IF TooDeep(config.components, config.depth) THEN Goes("refused") /\ UNCHANGED samples
     ELSE samples' = samples \cup AllRows(FALSE) /\ Goes("accumulate")
  /\ Keep

CollectLos ==
  /\ stage = "los"
  /\ samples' = samples \cup IF "los" \in config.components THEN DirectRows("los") ELSE {}
  /\ Goes("reflection")
  /\ Keep

\* Mutant of Wanted: a class needs a second bounce.
WantedDeep(class) ==
  class \in config.components /\ world.structures /\ NativeDepth(config) >= 2

\* A class is enumerated or sampled when it was requested, there is something
\* to meet and the sampler has a bounce.
Wanted(class) ==
  class \in config.components /\ world.structures /\ NativeDepth(config) >= 1

\* One block of enumerated rows; next is the stage after it.
Collect(class, next) ==
  /\ stage = class
  /\ IF ~Wanted(class) THEN Goes(next) /\ UNCHANGED samples
     ELSE IF TooDeep({class}, config.depth) THEN Goes("refused") /\ UNCHANGED samples
     ELSE samples' = samples \cup Discrete(class, class, config.ad) /\ Goes(next)
  /\ Keep

CollectReflection == Collect("reflection", "diffraction")
CollectDiffraction == Collect("diffraction", "coupled")
CollectTransmission == Collect("transmission", "sampler")

\* The coupled block asks for nothing but the switch.
CollectCoupled ==
  /\ stage = "coupled"
  /\ IF ~config.coupled THEN Goes("transmission") /\ UNCHANGED samples
     ELSE IF TooDeep({"reflection"}, config.depth) THEN Goes("refused") /\ UNCHANGED samples
     ELSE samples' = samples \cup CoupledRows(config.ad) /\ Goes("transmission")
  /\ Keep

\* Mutant of SamplerCall: mixed connections are emitted for scattering alone.
SamplerCallMixed ==
  [depth |-> NativeDepth(config), order |-> 1,
   tables |-> Wanted("scattering") /\ world.rough,
   mixed |-> Wanted("transmission") \/ (Wanted("scattering") /\ world.rough)]

\* How the solve calls the sampler: the order is not among the arguments, and
\* its default is one.
SamplerCall ==
  [depth |-> NativeDepth(config), order |-> 1,
   tables |-> Wanted("scattering") /\ world.rough, mixed |-> Wanted("transmission")]

\* The sampler runs for transmission, and for scattering when a material is rough.
StartSampler ==
  /\ stage = "sampler"
  /\ IF SamplerCall.mixed \/ SamplerCall.tables
     THEN Launch(SamplerCall) /\ Goes("walking")
     ELSE Goes("accumulate") /\ UNCHANGED samplerVars
  /\ UNCHANGED <<config, world, samples, power>>

Sample ==
  /\ stage = "walking"
  /\ SamplerStep
  /\ UNCHANGED <<stage, config, world, samples, power>>

\* The sampler's rows join the others; they carry the transmitter's power.
EndSampler ==
  /\ stage = "walking" /\ walk = "over"
  /\ samples' = samples \cup
       {[route |-> row.route, word |-> EventsOf(row.word), component |-> row.component,
         depth |-> row.depth, live |-> config.ad] : row \in emitted}
  /\ Goes("accumulate")
  /\ Keep

\* The rows are accumulated under their component. Reflection and diffraction
\* are exposed whether or not they were asked for, transmission and scattering
\* only when they were.
Accumulate ==
  /\ stage = "accumulate"
  /\ power' = [k \in {"los", "reflection", "diffraction"} \cup config.components |->
                 {row \in samples : row.component = k}]
  /\ Goes("done")
  /\ UNCHANGED <<config, world, samples, samplerVars>>

Blank == [components |-> {"los"}, depth |-> 0, lightDepth |-> 0, order |-> 1,
          coupled |-> FALSE, coherent |-> FALSE, ad |-> FALSE]

Init ==
  /\ stage = "new"
  /\ config = Blank
  /\ world \in Worlds
  /\ samples = {}
  /\ power = <<>>
  /\ SamplerInit

Next ==
  \/ Configure \/ Validate \/ Prepare \/ BuildEndpoints \/ CollectCoherent \/ CollectLos
  \/ CollectReflection \/ CollectDiffraction \/ CollectCoupled \/ CollectTransmission
  \/ StartSampler \/ Sample \/ EndSampler \/ Accumulate

Spec == Init /\ [][Next]_vars

-----------------------------------------------------------------------------
Stages == {"new", "configured", "valid", "endpoints", "coherent", "los", "reflection", "diffraction",
           "coupled", "transmission", "sampler", "walking", "accumulate", "done", "refused"}

\* Every value is one of its kind.
TypeOK ==
  /\ stage \in Stages
  /\ config \in Configs \cup {Blank}
  /\ world \in Worlds
  /\ \A row \in samples : row.component \in Components /\ row.depth = Len(row.word)
  /\ SubpathTypes

\* No path is counted by two routes, whatever components, depths and switches
\* are combined: the enumerations and the sampler divide the paths among them.
EachPathOnce ==
  \A a, b \in samples : a.word = b.word => a.route = b.route

\* A solve that returns has counted every path the enumerations can find of a
\* requested component: the direct one or the one through the walls, the first
\* reflection and diffraction, the coupled pairs. Only a solve whose sampler
\* has no bounce leaves the surfaces out.
RequestedPathsAreCounted ==
  stage = "done" =>
    LET counted == {row.word : row \in samples}
    IN /\ "los" \in config.components /\ world.walls = 0 => <<>> \in counted
       /\ config.coupled /\ world.structures => CoupledWords \subseteq counted
       /\ world.structures /\ NativeDepth(config) >= 1 =>
            /\ "reflection" \in config.components => <<"R">> \in counted
            /\ "diffraction" \in config.components => <<"D">> \in counted
            /\ "transmission" \in config.components /\ world.walls \in 1 .. config.depth =>
                 [i \in 1 .. world.walls |-> "T"] \in counted

\* What a result exposes is what was asked for: no row is of a component that
\* was not requested, and every row is under exactly one exposed name.
NothingUnrequested ==
  stage = "done" =>
    /\ \A row \in samples : row.component \in config.components
    /\ UNION {power[k] : k \in DOMAIN power} = samples

\* No gradient of the vertices is lost in the sampler: a solve that would
\* sample with live vertices has been refused.
FrozenGeometryIsRefused ==
  config.ad /\ world.liveVertices => walk = "off"

\* Every row of a differentiated solve carries the transmitter's power, the
\* coherent ones apart.
PowerStaysLive ==
  stage = "done" /\ config.ad /\ ~config.coherent => \A row \in samples : row.live

\* Enumeration, light subpath and ensemble divide the paths of a solve among
\* them: each requested path is counted, by one of them, with a live gradient or
\* a refusal.
EachPathByOneRoute ==
  /\ RowsAreTheSamplersOwn
  /\ EachPathOnce
  /\ RequestedPathsAreCounted
  /\ NothingUnrequested
  /\ FrozenGeometryIsRefused   \* vertices the sampler would detach
  /\ PowerStaysLive            \* the transmitter's, in every row

\* A scattered subpath is followed while it has scattered less often than the
\* configuration allows and the sampler has bounces left.
ScatterIsFollowed ==
  walk = "over" /\ light.valid /\ light.word # <<>> /\ Last(light.word).event = "S" =>
    \/ bounce > Len(light.word)
    \/ bounce = call.depth
    \/ Count("S", light.word) >= config.order
=============================================================================
