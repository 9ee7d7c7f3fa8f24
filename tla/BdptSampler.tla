----------------------------- MODULE BdptSampler -----------------------------
(***************************************************************************)
(* One light subpath of the BDPT shooting sampler (montecarlo/bdpt.py,     *)
(* interactions/scattering.py). At every surface one uniform selects       *)
(* reflection, transmission or scattering; the selected branch is divided  *)
(* by the probability of the selection, and connections to the receiver    *)
(* are emitted on the way. A power is the list, bounce by bounce, of the   *)
(* factors it was divided by or attenuated with; a receiver sees the       *)
(* subpath after some bounces and is hidden after the others.              *)
(***************************************************************************)
EXTENDS Naturals, FiniteSets, Sequences, SequencesExt

CONSTANTS
  MaxBounces,  \* bound: depth a solve asks of the sampler
  MaxOrder     \* bound: scattering order

BoundsAssumption == {MaxBounces, MaxOrder} \subseteq Nat \ {0}

VARIABLES
  walk,     \* "off", "on" or "over"
  call,     \* what the sampler was called with
  hidden,   \* bounces after which the receiver is not visible
  light,    \* the subpath
  scatters, \* scatter events it has survived
  bounce,   \* bounces begun
  emitted   \* connection rows of the subpath

samplerVars == <<walk, call, hidden, light, scatters, bounce, emitted>>

\* What a ray can meet and the events the probabilities leave possible there:
\* a wall nothing passes, a slab, a rough slab. Without a Kirchhoff table
\* nothing scatters.
Surfaces == {"wall", "slab", "rough"}

Events(surface, tables) ==
  CASE surface = "wall"  -> {"R"}
    [] surface = "slab"  -> {"R", "T"}
    [] surface = "rough" -> IF tables THEN {"R", "T", "S"} ELSE {"R", "T"}

Calls == [depth : 1 .. MaxBounces, order : 1 .. MaxOrder, tables : BOOLEAN, mixed : BOOLEAN]

\* The subpath as it leaves the transmitter.
Launched == [word |-> <<>>, valid |-> TRUE, mask |-> {}, depth |-> 0, factors |-> <<>>]

\* Mutant of Specular: the branch is attenuated after it was divided, on the
\* transmitted side too.
SpecularBoth(state, event, surface, tables, ok) ==
  [word    |-> Append(state.word, [event |-> event, on |-> surface]),
   valid   |-> state.valid /\ ok,
   mask    |-> state.mask \cup {event},
   depth   |-> state.depth + 1,
   factors |-> Append(state.factors,
               IF surface = "rough" /\ tables THEN <<event, "C_r">> ELSE <<event>>)]

\* A reflected or transmitted subpath: both kernels ran on every row and the
\* selected one is kept, divided by the probability of the selection. A
\* reflection that a rough surface selected is cut to its coherent part.
Specular(state, event, surface, tables, ok) ==
  [word    |-> Append(state.word, [event |-> event, on |-> surface]),
   valid   |-> state.valid /\ ok,
   mask    |-> state.mask \cup {event},
   depth   |-> state.depth + 1,
   factors |-> Append(state.factors,
               IF event = "R" /\ surface = "rough" /\ tables THEN <<"R", "C_r">> ELSE <<event>>)]

\* Mutant of Scattered: the scatter vertex does not count as a bounce.
ScatteredShallow(state, surface, ok) ==
  [word    |-> Append(state.word, [event |-> "S", on |-> surface]),
   valid   |-> state.valid /\ ok,
   mask    |-> state.mask \cup {"S"},
   depth   |-> state.depth,
   factors |-> Append(state.factors, <<"S", "pdf">>)]

\* A scattered subpath: built from the subpath as it arrived, divided by the
\* selection and by the density of the direction that was drawn.
Scattered(state, surface, ok) ==
  [word    |-> Append(state.word, [event |-> "S", on |-> surface]),
   valid   |-> state.valid /\ ok,
   mask    |-> state.mask \cup {"S"},
   depth   |-> state.depth + 1,
   factors |-> Append(state.factors, <<"S", "pdf">>)]

\* The connection of a scatter vertex: one row to the receiver, divided by the
\* selection alone, since the receiver and not the table chose the direction.
ScatterRows(state, next, seen) ==
  IF next.valid /\ seen
  THEN {[route |-> "nee", word |-> next.word, component |-> "scattering",
         depth |-> next.depth, factors |-> Append(state.factors, <<"S">>)]}
  ELSE {}

\* Mutant of Mixed: the last bounce is not connected.
MixedBelow(next, event) ==
  next.valid /\ event # "S" /\ {"R", "T"} \subseteq next.mask /\ "S" \notin next.mask
  /\ next.depth < call.depth

\* Mutant of Mixed: a subpath that scattered and went on is connected as well.
MixedScattered(next, event) ==
  next.valid /\ event # "S" /\ {"R", "T"} \subseteq next.mask

\* Which subpaths are connected as mixed transmission: those that reflected and
\* were transmitted and never scattered.
Mixed(next, event) ==
  next.valid /\ event # "S" /\ {"R", "T"} \subseteq next.mask /\ "S" \notin next.mask

MixedRows(next, event, seen) ==
  IF call.mixed /\ Mixed(next, event) /\ seen
  THEN {[route |-> "mixed", word |-> next.word, component |-> "transmission",
         depth |-> next.depth, factors |-> next.factors]}
  ELSE {}

\* Mutant of Continues: the scatter that reaches the order is followed.
ContinuesPast(next, event, count) ==
  next.valid /\ (call.order = 1 => event # "S") /\ (call.order > 1 => count <= call.order)

\* Whether the subpath goes on: at order one a scattered one never does, at a
\* higher order it does until it has scattered that often.
Continues(next, event, count) ==
  next.valid /\ (call.order = 1 => event # "S") /\ (call.order > 1 => count < call.order)

-----------------------------------------------------------------------------
\* The sampler is called and launches its subpath.
Launch(request) ==
  /\ walk = "off"
  /\ walk' = "on"
  /\ call' = request
  /\ hidden' \in SUBSET (1 .. request.depth)
  /\ light' = Launched
  /\ scatters' = 0
  /\ bounce' = 0
  /\ emitted' = {}

\* One bounce: the ray meets a surface, one event is selected, the branch's
\* kernel or its draw of a direction succeeds or not, the connections of the
\* vertex are emitted, and the subpath goes on or ends.
Bounce ==
  /\ walk = "on"
  /\ bounce < call.depth
  /\ \E surface \in Surfaces, ok \in BOOLEAN :
       \E event \in Events(surface, call.tables) :
         LET next == IF event = "S" THEN Scattered(light, surface, ok)
                     ELSE Specular(light, event, surface, call.tables, ok)
             seen == bounce + 1 \notin hidden
             count == IF call.order > 1 /\ event = "S" /\ next.valid THEN scatters + 1 ELSE scatters
         IN /\ light' = next
            /\ scatters' = count
            /\ emitted' = emitted
                 \cup (IF event = "S" THEN ScatterRows(light, next, seen) ELSE {})
                 \cup MixedRows(next, event, seen)
            /\ walk' = IF Continues(next, event, count) THEN "on" ELSE "over"
  /\ bounce' = bounce + 1
  /\ UNCHANGED <<call, hidden>>

\* The ray meets nothing: no branch is valid, and the walk ends.
Miss ==
  /\ walk = "on"
  /\ bounce < call.depth
  /\ walk' = "over"
  /\ bounce' = bounce + 1
  /\ UNCHANGED <<call, hidden, light, scatters, emitted>>

\* The bounces the solve asked for are used up.
DepthReached ==
  /\ walk = "on"
  /\ bounce = call.depth
  /\ walk' = "over"
  /\ UNCHANGED <<call, hidden, light, scatters, bounce, emitted>>

SamplerStep == Bounce \/ Miss \/ DepthReached

SamplerInit ==
  /\ walk = "off"
  /\ call = [depth |-> 1, order |-> 1, tables |-> FALSE, mixed |-> FALSE]
  /\ hidden = {}
  /\ light = Launched
  /\ scatters = 0
  /\ bounce = 0
  /\ emitted = {}

\* The sampler by itself, called once with any arguments it takes.
SamplerNext == (\E request \in Calls : Launch(request)) \/ SamplerStep
SamplerSpec == SamplerInit /\ [][SamplerNext]_samplerVars
-----------------------------------------------------------------------------
EventsOf(word) == [i \in 1 .. Len(word) |-> word[i].event]

\* What a path that went through a word must have been divided by and
\* attenuated with: the chance of each selection, the density of each
\* direction that was drawn and followed, and the coherent part of each
\* reflection on a rough surface.
Owed(word, tables) ==
  [i \in 1 .. Len(word) |->
    CASE word[i].event = "R" /\ word[i].on = "rough" /\ tables -> <<"R", "C_r">>
      [] word[i].event = "S" /\ i < Len(word) -> <<"S", "pdf">>
      [] OTHER -> <<word[i].event>>]

Count(event, word) == Cardinality({i \in 1 .. Len(word) : word[i].event = event})

\* The bounces of the subpath after which it is a mixed path the receiver sees.
Connectable ==
  {n \in 1 .. Len(light.word) :
     /\ n < Len(light.word) \/ light.valid
     /\ n \notin hidden
     /\ LET prefix == SubSeq(light.word, 1, n)
        IN Count("R", prefix) > 0 /\ Count("T", prefix) > 0 /\ Count("S", prefix) = 0}

\* Every row is divided by the chance of what was selected on its way, each
\* selection once and nothing else: the estimate of the power is unbiased.
WeightsMatchChances ==
  \A row \in emitted : row.factors = Owed(row.word, call.tables)

\* No row of the sampler is a path an enumeration already counts: it reflected
\* and was transmitted, or it ends in a scatter vertex; and a mixed row never
\* scattered, since a scatter vertex clears the field the connection reads.
RowsAreTheSamplersOwn ==
  \A row \in emitted :
    \/ /\ row.route = "mixed"
       /\ Count("R", row.word) > 0 /\ Count("T", row.word) > 0 /\ Count("S", row.word) = 0
    \/ row.route = "nee" /\ Last(row.word).event = "S"

\* No path scatters more often than the order allows, and at order one nothing
\* follows a scatter.
ScatterOrderHolds ==
  \A row \in emitted : Count("S", row.word) <= call.order

\* When the walk is over, every bounce after which the subpath was a mixed path
\* in view of the receiver has its row, the last bounce too.
NoBounceIsForgotten ==
  walk = "over" /\ call.mixed =>
    \A n \in Connectable :
      \E row \in emitted : row.route = "mixed" /\ row.word = SubSeq(light.word, 1, n)

\* Every value is one of its kind, and a row is never deeper than the call.
SubpathTypes ==
  /\ walk \in {"off", "on", "over"}
  /\ call.depth \in 1 .. MaxBounces /\ call.order \in 1 .. MaxOrder
  /\ hidden \subseteq 1 .. MaxBounces
  /\ scatters \in 0 .. MaxOrder
  /\ bounce \in 0 .. call.depth
  /\ light.depth = Len(light.word)
  /\ \A row \in emitted : row.depth = Len(row.word) /\ row.depth <= call.depth

\* A subpath is paid for what was drawn on its way, and makes a row of every
\* mixed path it was in view of the receiver for.
SubpathsArePaidOnce ==
  /\ WeightsMatchChances      \* each selection once, nothing else
  /\ ScatterOrderHolds        \* no scatter beyond the order
  /\ NoBounceIsForgotten      \* nor a bounce without its row
=============================================================================
