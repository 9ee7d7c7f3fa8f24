----------------------------- MODULE MCRuntime -----------------------------
(***************************************************************************)
(* Instances for TLC of what a process keeps across solves: the lazy       *)
(* resources of a compiled scene and the vetted extension.  They share no  *)
(* state, so a behaviour is of one of them, chosen at the start, and the   *)
(* variables of the others stay empty.                                     *)
(*                                                                         *)
(*   tables  two threads, the replay tables and the phase screens, a leaf  *)
(*           edited twice and marked at will                               *)
(*   edges   one thread, edges refined and imported, three addresses       *)
(*   loader  two threads, two genuine builds against two RayD releases     *)
(*           and one that claims a fingerprint it does not have            *)
(*   kirchhoff  one thread, the Kirchhoff tables                           *)
(***************************************************************************)
EXTENDS Naturals, FiniteSets

CONSTANTS
  Parts,        \* the parts a run starts in
  Threads,      \* callers of the tables, and of the loader
  caller,       \* the one caller of the edges, and of the Kirchhoff tables
  Addresses,    \* where the allocator may put a selection
  Builds,       \* compiled extensions
  MaxEdits, MaxNodes, MaxInstalls,
  t1, t2

VARIABLES
  part,                                                  \* the instance
  leaf, cache, edges, call, freed, nodes, refused,       \* SceneResources
  disk, env, build, loaded, vouched, right, edits        \* NativeLoader

Tables == INSTANCE SceneResources WITH
  Kinds <- {"replay", "screens"}, Modes <- {"refined"}

Edges == INSTANCE SceneResources WITH
  Threads <- {caller}, Kinds <- {"candidates", "replay"}, Modes <- {"refined", "imported"}

Kirchhoff == INSTANCE SceneResources WITH
  Threads <- {caller}, Kinds <- {"kirchhoff"}, Modes <- {"refined"}

Loader == INSTANCE NativeLoader WITH MaxEdits <- MaxInstalls

MCBuilds ==
  {[print |-> "p", rayd |-> "r", genuine |-> TRUE],
   [print |-> "q", rayd |-> "s", genuine |-> TRUE],
   [print |-> "p", rayd |-> "r", genuine |-> FALSE]}

ASSUME RuntimeAssumption ==
  /\ Tables!ConstantsAssumption /\ Edges!ConstantsAssumption /\ Kirchhoff!ConstantsAssumption
  /\ Loader!BuildsAssumption

resourceVars == <<leaf, edges, freed, nodes, refused>>
loaderVars == <<disk, env, build, loaded, vouched, right, edits>>
Empty(v) == v = <<>>
NoResources == Empty(leaf) /\ Empty(edges) /\ Empty(freed) /\ Empty(nodes) /\ Empty(refused)
NoLoader ==
  /\ Empty(disk) /\ Empty(env) /\ Empty(build) /\ Empty(loaded)
  /\ Empty(vouched) /\ Empty(right) /\ Empty(edits)

Init ==
  /\ part \in Parts
  /\ \/ part = "tables" /\ Tables!Init /\ NoLoader
     \/ part = "edges" /\ Edges!Init /\ NoLoader
     \/ part = "kirchhoff" /\ Kirchhoff!Init /\ NoLoader
     \/ part = "loader" /\ Loader!Init /\ NoResources

Next ==
  \/ part = "tables" /\ Tables!Next /\ UNCHANGED <<part, loaderVars>>
  \/ part = "edges" /\ Edges!Next /\ UNCHANGED <<part, loaderVars>>
  \/ part = "kirchhoff" /\ Kirchhoff!Next /\ UNCHANGED <<part, loaderVars>>
  \/ part = "loader" /\ Loader!Next /\ UNCHANGED <<part, resourceVars>>

vars == <<part, cache, call, resourceVars, loaderVars>>
Spec == Init /\ [][Next]_vars
-----------------------------------------------------------------------------
\* The variables of the instance have their types.
TypeOK ==
  /\ part = "tables" => Tables!TypeOK
  /\ part = "edges" => Edges!TypeOK
  /\ part = "kirchhoff" => Kirchhoff!TypeOK
  /\ part = "loader" => Loader!TypeOK

\* What a cache of a compiled scene hands out is what a fresh build would give:
\* of the leaves as they are, on a graph no other solve has freed, and of the
\* selection that was asked about.
ResourcesAreCurrent ==
  /\ part = "tables" => Tables!ResourcesAreCurrent
  /\ part = "edges" => Edges!ResourcesAreCurrent

\* A leaf that is marked when the Kirchhoff tables are asked for is on their
\* graph (resources.py:598-602).
KirchhoffKeepsItsLeaf == part = "kirchhoff" => Kirchhoff!KirchhoffKeepsItsLeaf

\* The build handed out or cached is a genuine one that was vouched for, the
\* package's where one was installed, through races, edits and half-failed
\* loads; and a refusal is not remembered once the world is right.
RightBuildIsLoaded == part = "loader" => Loader!RightBuildIsLoaded
=============================================================================
