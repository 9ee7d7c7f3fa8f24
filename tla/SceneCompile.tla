---------------------------- MODULE SceneCompile ----------------------------
(***************************************************************************)
(* witwin.channel.scene.compile and its process-wide compile registry.     *)
(*                                                                         *)
(* A world (a witwin.core Scene or SceneSnapshot) is compiled at a         *)
(* reference frequency into a CompiledScene: a RayD scene, a geometry      *)
(* store, a material store, an assignment store and two scene diagonals.   *)
(* The registry maps a key made of Python identities (addresses), the four *)
(* logical versions and the frequency to the runtime, keeps at most        *)
(* CacheLimit of them, and on a miss each store is taken from the newest   *)
(* cached runtime whose inputs agree.                                      *)
(*                                                                         *)
(* Threads call compile concurrently; only the registry methods hold the   *)
(* lock.  The callers author and drop worlds (an address is reused once    *)
(* nothing refers to the object) and edit tensors in place, which moves    *)
(* the revision the versions are computed from.                            *)
(***************************************************************************)
EXTENDS Naturals, Sequences, FiniteSets, SequencesExt

CONSTANTS
  Threads,            \* callers of compile
  Worlds,             \* Scene and SceneSnapshot objects that may be authored
  Floats,             \* reference frequencies given as a float
  Tensors,            \* reference frequencies given as a 0-d tensor
  Objects,            \* every object an id() or a tensor revision is taken of
  Leaf,               \* Leaf[w][d]: the object holding domain d of world w
  RayDInput,          \* RayDInput[w]: the object whose id stands for the mesh input
  StableIds,          \* StableIds[w]: structure, surface and primitive IDs
  Policy,             \* Policy[w]: the imported diffraction edge policy
  Stamp,              \* Stamp[o]: the part of a version an edit does not move
  Hertz,              \* Hertz[f]: value of frequency f before any edit
  Home,               \* Home[o]: sequence of the addresses the allocator may give o
  Mutable,            \* objects with a tensor that callers edit in place
  CacheLimit,         \* _CACHE_LIMIT
  MaxCalls, MaxEdits  \* bounds on the calls of a run and the edits of an object

Domains == {"topology", "geometry", "material", "assignment"}
Spatial == {"topology", "geometry"}
Parts == {"rayd", "geometry", "materials", "assignments", "diagonals"}
Frequencies == Floats \cup Tensors
Roots == Worlds \cup Tensors

\* The order in which compile obtains the parts of a runtime.
BuildOrder == <<"rayd", "geometry", "materials", "assignments", "diagonals">>

\* The version domains a part is built from.
Reads == [p \in Parts |-> CASE p = "materials"   -> {"material"}
                            [] p = "assignments" -> {"topology", "assignment"}
                            [] OTHER             -> Spatial]

\* The objects of a root whose identity the compiler looks at.
PartsOf(x) ==
  IF x \in Worlds
    THEN {x, RayDInput[x], Leaf[x]["material"], Leaf[x]["assignment"]}
    ELSE {x}

ASSUME BoundsAssumption == CacheLimit \in Nat \ {0} /\ MaxCalls \in Nat /\ MaxEdits \in Nat

ASSUME WorldsAssumption ==
  /\ Worlds \subseteq Objects /\ Tensors \subseteq Objects
  /\ Worlds \cap Tensors = {} /\ Floats \cap Tensors = {}
  /\ Mutable \subseteq Objects
  /\ Leaf \in [Worlds -> [Domains -> Objects]]
  /\ RayDInput \in [Worlds -> Objects]
  /\ Hertz \in [Frequencies -> Nat]

\* What compile relies on of witwin.core: two worlds with one mesh input and
\* equal topology and geometry versions have the same mesh contents.
ASSUME CoreVersionsAssumption ==
  \A v, w \in Worlds :
    (/\ RayDInput[v] = RayDInput[w]
     /\ \A d \in Spatial : Stamp[Leaf[v][d]] = Stamp[Leaf[w][d]])
      => \A d \in Spatial : Leaf[v][d] = Leaf[w][d]

VARIABLES
  rev,       \* rev[o]: number of in-place edits of o
  addr,      \* addr[o]: the address of o, Unborn before it is authored
  held,      \* the worlds and tensors the callers refer to
  registry,  \* the OrderedDict of _CompileRegistry, least recently used first
  pc,        \* pc[t]: where call t is in compile
  asked,     \* asked[t]: arguments of the call and the revisions at its start
  label,     \* label[t]: the registry key, with the versions read for it
  seen,      \* seen[t]: revisions of the tensors _runtime_structures converted
  stores,    \* stores[t]: the parts obtained so far
  result,    \* result[t]: the runtime returned
  calls,     \* number of calls begun; names runtimes and the stores they build
  uses       \* history: every key used since the last clear, oldest use first

vars == <<rev, addr, held, registry, pc, asked, label, seen, stores, result,
          calls, uses>>
outside == <<rev, addr, held>>
locals == <<asked, label, seen, stores>>

Unborn == "unborn"
None == [none |-> TRUE]
NoStore == [by |-> 0]
NoStores == [p \in Parts |-> NoStore]
Steps == {"idle", "begun", "keyed", "missed", "structured", "building", "done"}
Running == Steps \ {"idle", "done"}

-----------------------------------------------------------------------------
\* References: what keeps an object, and so its address, alive.

\* Mutant of RootsOfScene: a runtime does not keep its source alive.
WeakRootsOfScene(s) == {s.frequency} \cap Tensors

\* The roots a CompiledScene refers to: its source and its tensor frequency.
RootsOfScene(s) == {s.source} \cup ({s.frequency} \cap Tensors)

Referenced ==
  held
    \cup (UNION {RootsOfScene(registry[i].scene) : i \in DOMAIN registry})
    \cup (UNION {{asked[t].world} \cup ({asked[t].frequency} \cap Tensors) :
                   t \in {u \in Threads : pc[u] \in Running}})
    \cup (UNION {RootsOfScene(result[t]) : t \in {u \in Threads : pc[u] = "done"}})

InUse == UNION {PartsOf(x) : x \in Referenced}

-----------------------------------------------------------------------------
\* The callers' world.

\* A caller creates x, or takes hold of it again through a runtime. The parts
\* it does not share get addresses no live object has, which may be those of
\* objects collected before.
Author(x) ==
  LET used == InUse
      new == PartsOf(x) \ used IN
  /\ x \notin held
  /\ \A o \in new : addr[o] = Unborn
  /\ \E pick \in [new -> UNION {DOMAIN Home[o] : o \in new}] :
       LET at(o) == Home[o][pick[o]] IN
       /\ \A o \in new : pick[o] \in DOMAIN Home[o] /\ \A u \in used : addr[u] # at(o)
       /\ \A o, u \in new : at(o) = at(u) => o = u
       /\ addr' = [o \in Objects |-> IF o \in new THEN at(o) ELSE addr[o]]
  /\ held' = held \cup {x}
  /\ UNCHANGED <<rev, registry, pc, locals, result, calls, uses>>

Drop(x) ==
  /\ x \in held
  /\ held' = held \ {x}
  /\ UNCHANGED <<rev, addr, registry, pc, locals, result, calls, uses>>

\* An in-place tensor edit, which moves _version of the tensor.
Edit(o) ==
  /\ o \in Mutable /\ rev[o] < MaxEdits
  /\ rev' = [rev EXCEPT ![o] = @ + 1]
  /\ UNCHANGED <<addr, held, registry, pc, locals, result, calls, uses>>

-----------------------------------------------------------------------------
\* The registry: least recently used first, as in OrderedDict.

Slots(k) == {i \in DOMAIN registry : registry[i].key = k}

\* Mutant of MoveToEnd: a hit does not refresh the key.
LeaveInPlace(k) == registry

\* get: a key that is present moves to the recently used end.
MoveToEnd(k) ==
  IF Slots(k) = {} THEN registry
  ELSE LET i == CHOOSE i \in Slots(k) : TRUE
       IN Append(RemoveAt(registry, i), registry[i])

\* Mutant of Stored: nothing is evicted.
StoredForever(k, s) ==
  Append(IF Slots(k) = {} THEN registry
         ELSE RemoveAt(registry, CHOOSE i \in Slots(k) : TRUE), [key |-> k, scene |-> s])

\* put: the entry becomes the most recently used and the oldest is evicted.
Stored(k, s) ==
  LET others == IF Slots(k) = {} THEN registry
                ELSE RemoveAt(registry, CHOOSE i \in Slots(k) : TRUE)
      all == Append(others, [key |-> k, scene |-> s])
  IN IF Len(all) > CacheLimit THEN Tail(all) ELSE all

\* A use of key k, which uses holds at most once.
UsesOf(k) == {i \in DOMAIN uses : uses[i] = k}
Used(k) ==
  Append(IF UsesOf(k) = {} THEN uses ELSE RemoveAt(uses, CHOOSE i \in UsesOf(k) : TRUE), k)

-----------------------------------------------------------------------------
\* The steps of one call of compile.

Value(f) == Hertz[f] + (IF f \in Tensors THEN rev[f] ELSE 0)

\* compile is entered and _frequency_value reads the frequency.
Begin(t, w, f) ==
  /\ pc[t] \in {"idle", "done"} /\ calls < MaxCalls
  /\ w \in held /\ (f \in Tensors => f \in held)
  /\ calls' = calls + 1
  /\ asked' = [asked EXCEPT ![t] = [world |-> w, frequency |-> f, start |-> rev,
                                    hertz |-> Value(f), serial |-> calls + 1]]
  /\ result' = [result EXCEPT ![t] = None]
  /\ pc' = [pc EXCEPT ![t] = "begun"]
  /\ UNCHANGED <<outside, registry, label, seen, stores, uses>>

FrequencyIdentity(t) ==
  LET f == asked[t].frequency IN
  IF f \in Tensors THEN [id |-> addr[f], revision |-> rev[f], value |-> asked[t].hertz]
  ELSE [id |-> Unborn, revision |-> 0, value |-> asked[t].hertz]

\* The four versions and the key. The four walks of the world are separate
\* reads, so each version may be of any moment since the call started.
MakeKey(t) ==
  LET w == asked[t].world IN
  /\ pc[t] = "begun"
  /\ \E r \in [Domains -> 0..MaxEdits] :
       /\ \A d \in Domains : asked[t].start[Leaf[w][d]] <= r[d] /\ r[d] <= rev[Leaf[w][d]]
       /\ label' = [label EXCEPT ![t] =
            [id |-> addr[w],
             versions |-> [d \in Domains |-> [stamp |-> Stamp[Leaf[w][d]], revision |-> r[d]]],
             frequency |-> FrequencyIdentity(t)]]
  /\ pc' = [pc EXCEPT ![t] = "keyed"]
  /\ UNCHANGED <<outside, registry, asked, seen, stores, result, calls, uses>>

\* A call ends and its locals are gone; asked is kept as history.
Leave(t, where) ==
  /\ pc' = [pc EXCEPT ![t] = where]
  /\ label' = [label EXCEPT ![t] = None]
  /\ seen' = [seen EXCEPT ![t] = None]
  /\ stores' = [stores EXCEPT ![t] = NoStores]
  /\ UNCHANGED asked

\* registry.get finds the runtime of this very world.
Hit(t) ==
  /\ pc[t] = "keyed"
  /\ \E i \in Slots(label[t]) :
       /\ registry[i].scene.source = asked[t].world
       /\ result' = [result EXCEPT ![t] = registry[i].scene]
  /\ registry' = MoveToEnd(label[t])
  /\ uses' = Used(label[t])
  /\ Leave(t, "done")
  /\ UNCHANGED <<outside, calls>>

Miss(t) ==
  /\ pc[t] = "keyed"
  /\ \A i \in Slots(label[t]) : registry[i].scene.source # asked[t].world
  /\ registry' = MoveToEnd(label[t])
  /\ uses' = IF Slots(label[t]) = {} THEN uses ELSE Used(label[t])
  /\ pc' = [pc EXCEPT ![t] = "missed"]
  /\ UNCHANGED <<outside, locals, result, calls>>

\* _runtime_structures: to_mesh and the dtype conversions may copy the mesh
\* tensors now or leave them aliased, so the parts built later see these
\* revisions or the live ones.
ReadStructures(t) ==
  /\ pc[t] = "missed"
  /\ seen' = [seen EXCEPT ![t] = [d \in Spatial |-> rev[Leaf[asked[t].world][d]]]]
  /\ pc' = [pc EXCEPT ![t] = "structured"]
  /\ UNCHANGED <<outside, registry, asked, label, stores, result, calls, uses>>

Agree(s, t, domains) == \A d \in domains : s.versions[d] = label[t].versions[d]

SameMeshInput(v, w) ==
  addr[RayDInput[v]] = addr[RayDInput[w]] /\ Policy[v] = Policy[w]

SameLeaf(v, w, d) == addr[Leaf[v][d]] = addr[Leaf[w][d]]

\* The newest candidate among the registry slots S gives its part p.
Reuse(S, p) ==
  IF S = {} THEN NoStore
  ELSE registry[CHOOSE i \in S : \A j \in S : j <= i].scene.stores[p]

\* Mutant of RayDReuse: the versions of the candidate are not compared.
UnversionedRayDReuse(t) ==
  Reuse({i \in DOMAIN registry :
           SameMeshInput(registry[i].scene.source, asked[t].world)}, "rayd")

RayDReuse(t) ==
  Reuse({i \in DOMAIN registry : LET s == registry[i].scene IN
           SameMeshInput(s.source, asked[t].world) /\ Agree(s, t, Spatial)}, "rayd")

GeometryReuse(t) ==
  Reuse({i \in DOMAIN registry : LET s == registry[i].scene IN
           /\ s.stores["rayd"] = RayDReuse(t)
           /\ SameMeshInput(s.source, asked[t].world)
           /\ StableIds[s.source] = StableIds[asked[t].world]
           /\ Agree(s, t, Spatial)}, "geometry")

\* Mutant of MaterialsReuse: versions alone identify the materials.
AnonymousMaterialsReuse(t) ==
  Reuse({i \in DOMAIN registry : LET s == registry[i].scene IN
           /\ Agree(s, t, {"material"})
           /\ s.stores["materials"].hertz = asked[t].hertz}, "materials")

\* Mutant of MaterialsReuse: records of another frequency are taken.
OffFrequencyMaterialsReuse(t) ==
  Reuse({i \in DOMAIN registry : LET s == registry[i].scene IN
           /\ SameLeaf(s.source, asked[t].world, "material")
           /\ Agree(s, t, {"material"})}, "materials")

MaterialsReuse(t) ==
  Reuse({i \in DOMAIN registry : LET s == registry[i].scene IN
           /\ SameLeaf(s.source, asked[t].world, "material")
           /\ Agree(s, t, {"material"})
           /\ s.stores["materials"].hertz = asked[t].hertz}, "materials")

\* Mutant of AssignmentsReuse: assignments of another geometry store are taken.
ForeignAssignmentsReuse(t) ==
  Reuse({i \in DOMAIN registry : LET s == registry[i].scene IN
           /\ SameLeaf(s.source, asked[t].world, "assignment")
           /\ StableIds[s.source] = StableIds[asked[t].world]
           /\ Agree(s, t, {"topology", "assignment"})}, "assignments")

\* Mutant of AssignmentsReuse: the phase screen's identity is not compared.
AnonymousAssignmentsReuse(t) ==
  Reuse({i \in DOMAIN registry : LET s == registry[i].scene IN
           /\ s.stores["geometry"] = GeometryReuse(t)
           /\ StableIds[s.source] = StableIds[asked[t].world]
           /\ Agree(s, t, {"topology", "assignment"})}, "assignments")

AssignmentsReuse(t) ==
  Reuse({i \in DOMAIN registry : LET s == registry[i].scene IN
           /\ s.stores["geometry"] = GeometryReuse(t)
           /\ SameLeaf(s.source, asked[t].world, "assignment")
           /\ StableIds[s.source] = StableIds[asked[t].world]
           /\ Agree(s, t, {"topology", "assignment"})}, "assignments")

DiagonalsReuse(t) ==
  Reuse({i \in DOMAIN registry : LET s == registry[i].scene IN
           s.stores["rayd"] = RayDReuse(t) /\ Agree(s, t, Spatial)}, "diagonals")

\* candidates(): one snapshot of the registry decides every reuse.
TakeCandidates(t) ==
  /\ pc[t] = "structured"
  /\ stores' = [stores EXCEPT ![t] =
       [p \in Parts |-> CASE p = "rayd"        -> RayDReuse(t)
                          [] p = "geometry"    -> GeometryReuse(t)
                          [] p = "materials"   -> MaterialsReuse(t)
                          [] p = "assignments" -> AssignmentsReuse(t)
                          [] p = "diagonals"   -> DiagonalsReuse(t)]]
  /\ pc' = [pc EXCEPT ![t] = "building"]
  /\ UNCHANGED <<outside, registry, asked, label, seen, result, calls, uses>>

\* The first part compile still has to build, in the order of the code.
Pending(t) == {i \in DOMAIN BuildOrder : stores[t][BuildOrder[i]] = NoStore}
NextPart(t, p) ==
  \E i \in Pending(t) : p = BuildOrder[i] /\ \A j \in Pending(t) : i <= j

\* The part that part p is built against.
Base(t, p) == CASE p \in {"geometry", "diagonals"} -> stores[t]["rayd"].by
                [] p = "assignments"               -> stores[t]["geometry"].by
                [] OTHER                           -> 0

\* The revision part p sees of domain d: of the tensors converted by
\* ReadStructures or of the live ones; the geometry store is exported by the
\* RayD scene and sees what that was built from.
SeenBy(t, p, d) ==
  LET live == rev[Leaf[asked[t].world][d]] IN
  CASE p = "geometry"                    -> {stores[t]["rayd"].saw[d]}
    [] p # "geometry" /\ d \in Spatial   -> {seen[t][d], live}
    [] OTHER                             -> {live}

Build(t, p) ==
  /\ pc[t] = "building" /\ NextPart(t, p)
  /\ \E saw \in [Reads[p] -> 0..MaxEdits] :
       /\ \A d \in Reads[p] : saw[d] \in SeenBy(t, p, d)
       /\ stores' = [stores EXCEPT ![t][p] =
            [by |-> asked[t].serial, on |-> Base(t, p), of |-> asked[t].world, saw |-> saw,
             hertz |-> IF p = "materials" THEN asked[t].hertz ELSE 0]]
  /\ UNCHANGED <<outside, registry, pc, asked, label, seen, result, calls, uses>>

\* The CompiledScene is assembled, put in the registry and returned. The
\* revision of a tensor frequency is read here, not when its value was.
Assembled(t) ==
  LET f == asked[t].frequency IN
  [source |-> asked[t].world, frequency |-> f,
   revision |-> IF f \in Tensors THEN rev[f] ELSE 0,
   versions |-> label[t].versions, stores |-> stores[t], serial |-> asked[t].serial]

Put(t) ==
  /\ pc[t] = "building" /\ Pending(t) = {}
  /\ registry' = Stored(label[t], Assembled(t))
  /\ uses' = Used(label[t])
  /\ result' = [result EXCEPT ![t] = Assembled(t)]
  /\ Leave(t, "done")
  /\ UNCHANGED <<outside, calls>>

\* A mesh the compiler rejects, a material it cannot encode, a failed native
\* build: compile raises and what it had built is dropped.
Raise(t) ==
  /\ pc[t] = "missed" \/ (pc[t] = "building" /\ Pending(t) # {})
  /\ Leave(t, "idle")
  /\ UNCHANGED <<outside, registry, result, calls, uses>>

\* clear_compile_cache
Clear ==
  /\ registry # <<>>
  /\ registry' = <<>> /\ uses' = <<>>
  /\ UNCHANGED <<outside, pc, locals, result, calls>>

-----------------------------------------------------------------------------
Init ==
  /\ rev = [o \in Objects |-> 0] /\ addr = [o \in Objects |-> Unborn] /\ held = {}
  /\ registry = <<>> /\ uses = <<>> /\ calls = 0
  /\ pc = [t \in Threads |-> "idle"]
  /\ asked = [t \in Threads |-> None] /\ label = [t \in Threads |-> None]
  /\ seen = [t \in Threads |-> None] /\ stores = [t \in Threads |-> NoStores]
  /\ result = [t \in Threads |-> None]

Step(t) ==
  \/ MakeKey(t) \/ Hit(t) \/ Miss(t) \/ ReadStructures(t) \/ TakeCandidates(t)
  \/ (\E p \in Parts : Build(t, p)) \/ Put(t) \/ Raise(t)

Next ==
  \/ \E x \in Roots : Author(x) \/ Drop(x)
  \/ \E o \in Objects : Edit(o)
  \/ \E t \in Threads, w \in Worlds, f \in Frequencies : Begin(t, w, f)
  \/ \E t \in Threads : Step(t)
  \/ Clear

Spec == Init /\ [][Next]_vars

-----------------------------------------------------------------------------
\* Properties.

Versions == [Domains -> [stamp : {Stamp[o] : o \in Objects}, revision : 0..MaxEdits]]

\* Types of the variables of compile and of its registry.
TypeOK ==
  /\ rev \in [Objects -> 0..MaxEdits]
  /\ \A o \in Objects : addr[o] \in Range(Home[o]) \cup {Unborn}
  /\ held \subseteq Roots
  /\ pc \in [Threads -> Steps]
  /\ calls \in 0..MaxCalls
  /\ Len(registry) <= CacheLimit
  /\ \A i \in DOMAIN registry :
       LET e == registry[i] IN
       /\ DOMAIN e = {"key", "scene"}
       /\ e.scene.source \in Worlds /\ e.scene.frequency \in Frequencies
       /\ e.scene.versions \in Versions
  /\ \A t \in Threads :
       /\ pc[t] \in Running => asked[t].world \in Worlds /\ asked[t].frequency \in Frequencies
       /\ pc[t] = "done" => result[t].source \in Worlds

\* The runtimes a call has just returned, with what was asked for.
Returned == {t \in Threads : pc[t] = "done"}

\* A returned runtime is of the caller's world: every part was built from a
\* world that has the same contents, IDs and edge policy, whatever identities
\* the allocator has reused ("cache never equates unrelated worlds").
ServesTheAskedWorld ==
  \A t \in Returned : LET w == asked[t].world IN
    /\ result[t].source = w
    /\ \A p \in Parts : LET s == result[t].stores[p] IN
         /\ \A d \in Reads[p] : Leaf[s.of][d] = Leaf[w][d]
         /\ p \in {"geometry", "assignments"} => StableIds[s.of] = StableIds[w]
         /\ p = "rayd" => Policy[s.of] = Policy[w]

\* No invalidation is omitted: every part of a returned runtime was built
\* from tensors at least as new as when compile was entered, through hits,
\* reuse of parts and builds interleaved with edits.
NoOmittedInvalidation ==
  \A t \in Returned : \A p \in Parts : \A d \in Reads[p] :
    result[t].stores[p].saw[d] >= asked[t].start[Leaf[asked[t].world][d]]

\* Frequency-evaluated material records are those of the value compile read.
RecordsAtTheAskedFrequency ==
  \A t \in Returned : result[t].stores["materials"].hertz = asked[t].hertz

\* The stores of a runtime index one another: the geometry store and the
\* diagonals belong to its RayD scene, the assignments to its geometry store.
StoresFitTogether ==
  \A t \in Returned : LET s == result[t].stores IN
    /\ s["geometry"].on = s["rayd"].by
    /\ s["diagonals"].on = s["rayd"].by
    /\ s["assignments"].on = s["geometry"].by
    /\ s["geometry"].saw = s["rayd"].saw

\* The id() in a key names one world: a registered key with the address of a
\* world some call is compiling is a key of that world, although addresses are
\* reused, because the runtime keeps its source alive.
KeyIdNamesOneWorld ==
  \A i \in DOMAIN registry : \A t \in {u \in Threads : pc[u] \in Running} :
    registry[i].key.id = addr[asked[t].world] => registry[i].scene.source = asked[t].world

\* The registry holds exactly the CacheLimit most recently used keys since the
\* last clear, one entry each, in order of use.
KeepsRecentlyUsed ==
  LET kept == [i \in DOMAIN registry |-> registry[i].key] IN
  kept = SubSeq(uses, Len(uses) - Len(kept) + 1, Len(uses))
    /\ Len(kept) = (IF Len(uses) < CacheLimit THEN Len(uses) ELSE CacheLimit)
=============================================================================
