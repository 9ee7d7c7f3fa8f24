--------------------------- MODULE SceneResources ---------------------------
(***************************************************************************)
(* What a compiled scene builds on first use and keeps: the tables of a    *)
(* fixed-topology replay, the Kirchhoff tables and the phase screens (one  *)
(* cache each in a CompiledScene), and the diffraction edges and the edge  *)
(* candidates (entries of the runtime_cache of a RayD scene).  No lock     *)
(* guards any of them: a call looks, builds, stores and returns in separate*)
(* steps, and the steps of the calls of several threads interleave.        *)
(*                                                                         *)
(* A leaf of the scene is a tensor the user owns: it may be marked for     *)
(* differentiation between calls and edited in place at any time.  A table *)
(* built from it carries the version it was built from and, when the leaf  *)
(* was marked, a node of the autograd graph; a backward pass frees the     *)
(* node it goes through.                                                   *)
(***************************************************************************)
EXTENDS Naturals, FiniteSets

CONSTANTS
  Threads,     \* callers of one compiled scene
  Kinds,       \* the resources the calls of this instance ask for
  Modes,       \* how edges are kept: refined, or imported as they are
  Addresses,   \* where the allocator may put a selection
  MaxEdits,    \* bound: in-place edits of the leaf
  MaxNodes     \* bound: graph nodes built

AllKinds == {"replay", "kirchhoff", "screens", "candidates"}
TableKinds == {"replay", "kirchhoff", "screens"}
ConstantsAssumption ==
  /\ IsFiniteSet(Threads) /\ Kinds \subseteq AllKinds
  /\ MaxEdits \in Nat /\ MaxNodes \in Nat

VARIABLES
  leaf,        \* the source tensor: marked or not, and its mutation version
  cache,       \* per kind, the entry [key, value] it keeps, or none
  edges,       \* per mode, the edge geometry it keeps, or none
  call,        \* per thread, the call in progress
  freed,       \* the graph nodes a backward pass has been through
  nodes,       \* graph nodes built so far
  refused      \* backward passes that met a freed node, by kind

vars == <<leaf, cache, edges, call, freed, nodes, refused>>

None == [none |-> TRUE]
Leaves == [marked : BOOLEAN, version : 0..MaxEdits]
Idle == [pc |-> "idle"]
InFlight == {t \in Threads : call[t].pc # "idle"}

-----------------------------------------------------------------------------
(* What a cache is keyed by, and what is built. *)

\* Mutant of TableState: the mutation counter is not part of the signature.
FlagsOnly == [marked |-> leaf.marked, version |-> 0]

\* The host-only signature of the sources of the replay tables: every flag of
\* the leaf and its mutation counter.
TableState == [marked |-> leaf.marked, version |-> leaf.version]

\* The Kirchhoff key names the compiled materials, not the tensors they hold:
\* it never changes in the life of a compiled scene.
KirchhoffKey == "materials"

\* Mutant of ScreenToken: identity of the screens only.
ScreenIdentity == 0

\* The phase-screen key holds the identity and the mutation version of every
\* height tensor, not whether it is differentiated.
ScreenToken == leaf.version

KeyOf(c) == CASE c.kind = "replay"     -> TableState
              [] c.kind = "kirchhoff"  -> KirchhoffKey
              [] c.kind = "screens"    -> ScreenToken
              [] c.kind = "candidates" -> c.held.addr

\* Tables read the leaf as it is when they are built.
Table == [version |-> leaf.version,
          node    |-> IF leaf.marked THEN nodes + 1 ELSE 0]

\* Vertices and per-face material rows: gathers of the live tensors.
ReplayTables == Table

\* Values are read to the host; a marked leaf is put back on the graph by the
\* native adjoint of the build.
KirchhoffTables == Table

\* One runtime per structure with a screen, its heights a product of the
\* texture.
PhaseScreens == Table

\* For every face, the selected edges it may diffract at.
EdgeCandidates(selection) == selection.mode

Built(c) == CASE c.kind = "replay"     -> ReplayTables
              [] c.kind = "kirchhoff"  -> KirchhoffTables
              [] c.kind = "screens"    -> PhaseScreens
              [] c.kind = "candidates" -> EdgeCandidates(c.held)

\* Mutants of Entry: a replay keeps its tables whatever they carry; a cache
\* is published before what it keeps is complete.
EntryWithNode(c) == [key |-> c.key, value |-> c.got]
EntryUnfinished(c) == [key |-> c.key, value |-> None]

\* What is stored: tables that carry a node are never kept for a replay.
Entry(c) ==
  IF c.kind = "replay" /\ c.got.node # 0 THEN None
  ELSE [key |-> c.key, value |-> c.got]

\* Addresses of the selections something still refers to.
InUse == {edges[m].addr : m \in {n \in Modes : edges[n] # None}}
           \cup {call[t].held.addr :
                   t \in {u \in InFlight : call[u].held # None}}

-----------------------------------------------------------------------------
(* The user. *)

\* A leaf is marked or unmarked between calls.
MarkLeaf ==
  /\ InFlight = {}
  /\ leaf' = [leaf EXCEPT !.marked = ~@]
  /\ UNCHANGED <<cache, edges, call, freed, nodes, refused>>

\* An in-place edit may come at any time.
EditLeaf ==
  /\ leaf.version < MaxEdits
  /\ leaf' = [leaf EXCEPT !.version = @ + 1]
  /\ call' = [t \in Threads |->
                IF t \in InFlight
                THEN [call[t] EXCEPT !.during = @ \cup {leaf'}] ELSE call[t]]
  /\ UNCHANGED <<cache, edges, freed, nodes, refused>>

Args(k) == IF k = "candidates" THEN Modes ELSE {"scene"}

Begin(t, k, a) ==
  /\ call[t].pc = "idle"
  /\ nodes + Cardinality(InFlight) < MaxNodes
  /\ call' = [u \in Threads |->
       CASE u = t -> [pc     |-> IF k = "candidates" THEN "edges" ELSE "key",
                      kind   |-> k, arg |-> a,
                      key    |-> None, held |-> None, got |-> None,
                      during |-> {leaf},
                      alone  |-> InFlight = {}]
         [] u \in InFlight -> [call[u] EXCEPT !.alone = FALSE]
         [] OTHER -> call[u]]
  /\ UNCHANGED <<leaf, cache, edges, freed, nodes, refused>>

-----------------------------------------------------------------------------
(* The edges of the RayD scene, which the candidates are asked for. *)

KeptEdges(t) ==
  /\ call[t].pc = "edges"
  /\ edges[call[t].arg] # None
  /\ call' = [call EXCEPT ![t].held = edges[call[t].arg], ![t].pc = "key"]
  /\ UNCHANGED <<leaf, cache, edges, freed, nodes, refused>>

BuildEdges(t) ==
  /\ call[t].pc = "edges"
  /\ edges[call[t].arg] = None
  /\ \E a \in Addresses \ InUse :
       call' = [call EXCEPT ![t].held = [addr |-> a, mode |-> call[t].arg],
                            ![t].pc = "keep edges"]
  /\ UNCHANGED <<leaf, cache, edges, freed, nodes, refused>>

\* Mutant of KeepEdges: nothing keeps the selection once its call is done.
ForgetEdges(t) ==
  /\ call[t].pc = "keep edges"
  /\ call' = [call EXCEPT ![t].pc = "key"]
  /\ UNCHANGED <<leaf, cache, edges, freed, nodes, refused>>

KeepEdges(t) ==
  /\ call[t].pc = "keep edges"
  /\ edges' = [edges EXCEPT ![call[t].arg] = call[t].held]
  /\ call' = [call EXCEPT ![t].pc = "key"]
  /\ UNCHANGED <<leaf, cache, freed, nodes, refused>>

-----------------------------------------------------------------------------
(* Look, build, store, return. *)

\* The key is taken first, before anything is read.
TakeKey(t) ==
  /\ call[t].pc = "key"
  /\ call' = [call EXCEPT ![t].key = KeyOf(call[t]), ![t].pc = "look"]
  /\ UNCHANGED <<leaf, cache, edges, freed, nodes, refused>>

\* The attribute is read a second time to return it.
ReadsAgain(k) == k \in {"kirchhoff", "screens"}

Hits(c) == cache[c.kind] # None /\ cache[c.kind].key = c.key

LookUp(t) ==
  LET c == call[t] IN
  /\ c.pc = "look"
  /\ call' = [call EXCEPT ![t] =
       IF ~Hits(c) THEN [c EXCEPT !.pc = "build"]
       ELSE IF ReadsAgain(c.kind) THEN [c EXCEPT !.pc = "return"]
       ELSE [c EXCEPT !.got = cache[c.kind].value, !.pc = "served"]]
  /\ UNCHANGED <<leaf, cache, edges, freed, nodes, refused>>

Build(t) ==
  LET c == call[t] IN
  /\ c.pc = "build"
  /\ call' = [call EXCEPT ![t].got = Built(c), ![t].pc = "store"]
  /\ nodes' = IF c.kind \in TableKinds /\ leaf.marked
              THEN nodes + 1 ELSE nodes
  /\ UNCHANGED <<leaf, cache, edges, freed, refused>>

\* Roughness outside the Kirchhoff domain, a screen mode that conflicts with
\* its material, or a slope past the limit: the build raises, nothing is kept.
BuildRaises(t) ==
  /\ call[t].pc = "build" /\ call[t].kind \in {"kirchhoff", "screens"}
  /\ call' = [call EXCEPT ![t] = Idle]
  /\ UNCHANGED <<leaf, cache, edges, freed, nodes, refused>>

Store(t) ==
  LET c == call[t] IN
  /\ c.pc = "store"
  /\ cache' = [cache EXCEPT ![c.kind] = Entry(c)]
  /\ call' = [call EXCEPT ![t].pc =
                IF ReadsAgain(c.kind) THEN "return" ELSE "served"]
  /\ UNCHANGED <<leaf, edges, freed, nodes, refused>>

Return(t) ==
  LET c == call[t] IN
  /\ c.pc = "return"
  /\ call' = [call EXCEPT ![t].got = cache[c.kind].value, ![t].pc = "served"]
  /\ UNCHANGED <<leaf, cache, edges, freed, nodes, refused>>

-----------------------------------------------------------------------------
(* What the solve does with it. *)

Done(t) ==
  /\ call[t].pc = "served"
  /\ call' = [call EXCEPT ![t] = Idle]
  /\ UNCHANGED <<leaf, cache, edges, freed, nodes, refused>>

\* A solve that differentiates goes back through the node once, and frees it.
Backward(t) ==
  LET c == call[t] IN
  /\ c.pc = "served"
  /\ c.kind \in {"replay", "kirchhoff"} /\ c.got.node # 0
  /\ freed' = freed \cup {c.got.node}
  /\ refused' = IF c.got.node \in freed THEN refused \cup {c.kind} ELSE refused
  /\ call' = [call EXCEPT ![t] = Idle]
  /\ UNCHANGED <<leaf, cache, edges, nodes>>

Init ==
  /\ leaf = [marked |-> FALSE, version |-> 0]
  /\ cache = [k \in AllKinds |-> None]
  /\ edges = [m \in Modes |-> None]
  /\ call = [t \in Threads |-> Idle]
  /\ freed = {} /\ nodes = 0 /\ refused = {}

Next ==
  \/ MarkLeaf \/ EditLeaf
  \/ \E t \in Threads :
       \/ \E k \in Kinds : \E a \in Args(k) : Begin(t, k, a)
       \/ KeptEdges(t) \/ BuildEdges(t) \/ KeepEdges(t)
       \/ TakeKey(t) \/ LookUp(t) \/ Build(t) \/ BuildRaises(t)
       \/ Store(t) \/ Return(t)
       \/ Done(t) \/ Backward(t)

Spec == Init /\ [][Next]_vars

-----------------------------------------------------------------------------
(* Properties. *)

Tables == [version : 0..MaxEdits, node : 0..MaxNodes]
Selections == [addr : Addresses, mode : Modes]
Steps == {"edges", "keep edges", "key", "look", "build", "store", "return",
          "served"}

\* Every cache holds what its kind of call stores, whole, and the selections
\* kept live at different addresses.
TypeOK ==
  /\ leaf \in Leaves
  /\ \A k \in AllKinds : cache[k] # None =>
       CASE k \in TableKinds -> cache[k].value \in Tables
         [] k = "candidates" -> cache[k].key \in Addresses /\ cache[k].value \in Modes
  /\ \A m \in Modes : edges[m] # None => edges[m] \in Selections
  /\ \A m, n \in Modes : m # n /\ edges[m] # None /\ edges[n] # None =>
       edges[m].addr # edges[n].addr
  /\ \A t \in InFlight : call[t].pc \in Steps /\ call[t].kind \in Kinds
  /\ freed \subseteq 1..nodes /\ nodes \in 0..MaxNodes

Served(t, k) == call[t].pc = "served" /\ call[t].kind = k

\* What was returned was true of the leaf at some moment of the call: built
\* from a version it had then, on the graph exactly when it was marked.
TrueDuring(c) ==
  \E s \in c.during : c.got.version = s.version /\ s.marked = (c.got.node # 0)

\* However calls interleave, with one another and with in-place edits, the
\* tables a replay is handed are those of the leaf at some moment of its call:
\* no warm cache hides an edit or severs a leaf marked since.
ReplayIsCurrent ==
  \A t \in Threads : Served(t, "replay") => TrueDuring(call[t])

\* No replay is handed a node another backward pass has already freed.
EveryReplayGoesBack == "replay" \notin refused

\* Phase screens follow the height textures for a call no other call overlaps.
\* (Of two overlapping calls the slower may store last what it built first,
\* and the faster reads the attribute again to return it.)
ScreensAreCurrentAlone ==
  \A t \in Threads : Served(t, "screens") /\ call[t].alone =>
    \E s \in call[t].during : call[t].got.version = s.version

\* The candidates a selection is served were found for a selection equal to
\* it, although the cache only compares where selections lie in memory.
CandidatesMatchTheirSelection ==
  \A t \in Threads : Served(t, "candidates") => call[t].got = call[t].held.mode

\* What a cache of a compiled scene hands out is what a fresh build would give.
ResourcesAreCurrent ==
  /\ ReplayIsCurrent /\ EveryReplayGoesBack
  /\ ScreensAreCurrentAlone
  /\ CandidatesMatchTheirSelection

\* A rough material's leaf that is marked when its tables are asked for is on
\* their graph (resources.py:598-602).
KirchhoffKeepsItsLeaf ==
  \A t \in Threads : Served(t, "kirchhoff") /\ leaf.marked => call[t].got.node # 0
=============================================================================
