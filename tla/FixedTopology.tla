---------------------------- MODULE FixedTopology ---------------------------
(***************************************************************************)
(* Freezing a discovered topology and replaying it later, in a world that  *)
(* may have moved (propagation/consumer.py). A topology's rows are labels: *)
(* primitive, material and endpoint numbers that name things of the world  *)
(* they were discovered in. Worlds are edited in place; a compiled scene   *)
(* records the four versions of its world, a topology the versions of its  *)
(* scene. Versions are content hashes, so contents stand for them.         *)
(***************************************************************************)
EXTENDS Naturals, FiniteSets

CONSTANTS
  LabelDomains, \* topology, material and assignment: what rows' labels refer to
  Worlds,       \* witwin.core scenes and snapshots
  Contents,     \* what a domain of a world can contain
  MaxScenes,    \* bound on compiled scenes
  MaxHandles,   \* bound on topologies held
  None          \* not a world, a scene, a stamp or a domain

DomainsAssumption == "geometry" \notin LabelDomains
BoundsAssumption == MaxScenes \in Nat /\ MaxHandles \in Nat

VARIABLES
  live,       \* live[w][d]: contents of domain d of world w now
  building,   \* the compile under way: its world and the versions it has read
  scenes,     \* compiled scenes held by callers
  handles,    \* frozen topologies held by callers, raw, prepared or replicated
  quiet,      \* the (scene, handle) a revalidating poll last passed, no edit since
  answer      \* the replay just answered

vars == <<live, building, scenes, handles, quiet, answer>>

Domains == LabelDomains \cup {"geometry"}

Motions == {"frozen_world", "fixed_winner_replay"}
Forms == {"raw", "prepared", "replicated"}

Snapshots == [Domains -> Contents]

\* "has" is what the scene was built from, "versions" what it recorded of it:
\* they differ when the world was edited within the compile.
Scenes == [of : Worlds, versions : Snapshots, has : Snapshots]
Torn(s) == s.versions # s.has

\* "found" is history: the contents its rows were discovered in.
Handles == [stamp : Snapshots \cup {None}, found : Snapshots \cup {None}, form : Forms, torn : BOOLEAN]

NoneAssumption == None \notin Worlds \cup Domains \cup Snapshots \cup (Scenes \X Handles)

-----------------------------------------------------------------------------
\* The caller.

Edit(w, d) ==
  /\ \E v \in Contents \ {live[w][d]} : live' = [live EXCEPT ![w][d] = v]
  /\ quiet' = IF quiet # None /\ quiet[1].of = w THEN None ELSE quiet
  /\ answer' = None
  /\ UNCHANGED <<building, scenes, handles>>

DropScene(s) ==
  /\ scenes' = scenes \ {s}
  /\ answer' = None
  /\ UNCHANGED <<live, building, handles, quiet>>

DropHandle(h) ==
  /\ handles' = handles \ {h}
  /\ answer' = None
  /\ UNCHANGED <<live, building, scenes, quiet>>

-----------------------------------------------------------------------------
\* compile: the versions are read first, the stores built afterwards.

BeginCompile(w) ==
  /\ building = None /\ Cardinality(scenes) < MaxScenes
  /\ building' = [of |-> w, versions |-> live[w]]
  /\ answer' = None
  /\ UNCHANGED <<live, scenes, handles, quiet>>

EndCompile ==
  /\ building # None
  /\ scenes' = scenes \cup
       {[of |-> building.of, versions |-> building.versions, has |-> live[building.of]]}
  /\ building' = None /\ answer' = None
  /\ UNCHANGED <<live, handles, quiet>>

-----------------------------------------------------------------------------
\* Mutant of ProvenanceOf: the compiled scene itself is kept.
SourceOf(s) == s

\* WorldProvenance.of(compiled).
ProvenanceOf(s) == s.versions

Held(h) ==
  /\ h \notin handles /\ Cardinality(handles) < MaxHandles
  /\ handles' = handles \cup {h}
  /\ answer' = None
  /\ UNCHANGED <<live, building, scenes, quiet>>

\* evaluate
Discover(s) ==
  Held([stamp |-> ProvenanceOf(s), found |-> s.has, form |-> "raw", torn |-> Torn(s)])

\* A topology built by hand has no world to be stale against.
HandBuild ==
  Held([stamp |-> None, found |-> None, form |-> "raw", torn |-> FALSE])

\* prepare_fixed_topology
Prepare(h) == h.form = "raw" /\ Held([h EXCEPT !.form = "prepared"])

\* Mutant of Replicated: the replicated rows lose their provenance.
Unstamped(h) == [h EXCEPT !.form = "replicated", !.stamp = None]

Replicated(h) == [h EXCEPT !.form = "replicated"]

\* replicate_over_slots
Replicate(h) == h.form = "prepared" /\ Held(Replicated(h))

-----------------------------------------------------------------------------
\* Mutant of MovedDomain: the geometry is compared before the labels.
GeometryFirst(recorded, current, allowGeometry) ==
  IF recorded["geometry"] # current["geometry"] /\ ~allowGeometry THEN "geometry"
  ELSE IF \E d \in LabelDomains : recorded[d] # current[d]
       THEN CHOOSE d \in LabelDomains : recorded[d] # current[d]
       ELSE None

\* WorldProvenance.moved_domain: the first domain that differs, geometry last.
MovedDomain(recorded, current, allowGeometry) ==
  IF \E d \in LabelDomains : recorded[d] # current[d]
  THEN CHOOSE d \in LabelDomains : recorded[d] # current[d]
  ELSE IF recorded["geometry"] # current["geometry"] /\ ~allowGeometry
       THEN "geometry"
       ELSE None

\* _require_current_world
IsCurrent(s, h, motion) ==
  h.stamp # None =>
    MovedDomain(h.stamp, ProvenanceOf(s), motion = "fixed_winner_replay") = None

\* Mutant of Moved: revalidation compares the scene with itself.
MovedSinceDiscovery(s, h, revalidate) ==
  IF h.stamp = None THEN None ELSE MovedDomain(h.stamp, ProvenanceOf(s), FALSE)

\* rediscovery_required: what the handle and then, if asked, the live source
\* say against the compiled scene.
Moved(s, h, revalidate) ==
  LET recorded == IF h.stamp = None THEN None ELSE MovedDomain(h.stamp, ProvenanceOf(s), FALSE)
  IN IF recorded # None THEN recorded
     ELSE IF revalidate THEN MovedDomain(ProvenanceOf(s), live[s.of], FALSE)
     ELSE None

Poll(s, h) ==
  /\ Moved(s, h, TRUE) = None
  /\ quiet' = <<s, h>> /\ answer' = None
  /\ UNCHANGED <<live, building, scenes, handles>>

\* reevaluate. A replay of slots needs a prepared topology; a refused one
\* leaves nothing behind.
Replay(s, h, motion) ==
  /\ IsCurrent(s, h, motion)
  /\ answer' = [scene |-> s, handle |-> h, motion |-> motion,
                vouched |-> (quiet = <<s, h>>), live |-> live[s.of]]
  /\ UNCHANGED <<live, building, scenes, handles, quiet>>

\* evaluate_time_varying: replicates a prepared topology and replays it.
ReplayOverTime(s, h, motion) ==
  /\ h.form = "prepared"
  /\ IsCurrent(s, Replicated(h), motion)
  /\ answer' = [scene |-> s, handle |-> Replicated(h), motion |-> motion,
                vouched |-> (quiet = <<s, h>>), live |-> live[s.of]]
  /\ UNCHANGED <<live, building, scenes, handles, quiet>>

-----------------------------------------------------------------------------
Init ==
  /\ live \in [Worlds -> Snapshots]
  /\ building = None /\ scenes = {} /\ handles = {} /\ quiet = None /\ answer = None

Next ==
  \/ EndCompile \/ HandBuild
  \/ \E w \in Worlds : BeginCompile(w) \/ \E d \in Domains : Edit(w, d)
  \/ \E s \in scenes : DropScene(s) \/ Discover(s)
  \/ \E h \in handles : DropHandle(h) \/ Prepare(h) \/ Replicate(h)
  \/ \E s \in scenes, h \in handles :
       Poll(s, h) \/ \E motion \in Motions : Replay(s, h, motion) \/ ReplayOverTime(s, h, motion)

Spec == Init /\ [][Next]_vars

-----------------------------------------------------------------------------
Answers == [scene : Scenes, handle : Handles, motion : Motions, vouched : BOOLEAN, live : Snapshots]

TypeOK ==
  /\ live \in [Worlds -> Snapshots]
  /\ building \in [of : Worlds, versions : Snapshots] \cup {None}
  /\ scenes \subseteq Scenes /\ handles \subseteq Handles
  /\ quiet \in (Scenes \X Handles) \cup {None}
  /\ answer \in Answers \cup {None}

\* A replay is only answered in a scene whose primitives, materials and
\* assignments are those the frozen labels were found among, and whose geometry
\* is too unless the caller said the winners are held while it moves, however
\* often the topology was prepared and replicated in between. Scenes whose
\* world was edited while they were compiled are excepted: they record versions
\* they do not have.
LabelsNameTheSameWorld ==
  answer # None =>
    LET s == answer.scene  h == answer.handle
    IN h.found # None /\ ~Torn(s) /\ ~h.torn =>
         /\ \A d \in LabelDomains : h.found[d] = s.has[d]
         /\ answer.motion = "frozen_world" => h.found = s.has

\* A replay vouched for by a revalidating poll, with no edit since, speaks of
\* the world as it is now, not only as it was compiled.
VouchedReplayIsLive ==
  answer # None /\ answer.vouched =>
    LET s == answer.scene  h == answer.handle
    IN /\ ~Torn(s) => s.has = answer.live
       /\ h.found # None /\ ~h.torn => h.found = answer.live

\* The cheap poll and the replay agree: no domain is reported exactly when both
\* motions are accepted, the geometry exactly when only a fixed-winner replay
\* is, a label domain exactly when neither is.
PollPredictsReplay ==
  \A s \in scenes, h \in handles :
    LET moved == Moved(s, h, FALSE)
    IN /\ (moved = None) <=> IsCurrent(s, h, "frozen_world")
       /\ (moved \in {None, "geometry"}) <=> IsCurrent(s, h, "fixed_winner_replay")

\* What a caller acts on: a replay after a revalidating poll is of the live
\* world, and the cheap poll says beforehand what a replay will say.
PollsAreHonest == VouchedReplayIsLive /\ PollPredictsReplay
=============================================================================
