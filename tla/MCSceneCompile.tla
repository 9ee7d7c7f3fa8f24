--------------------------- MODULE MCSceneCompile ---------------------------
(***************************************************************************)
(* Instances of SceneCompile for TLC. Worlds, meshes, materials and        *)
(* assignments are strings; a run picks the worlds that matter to it.      *)
(***************************************************************************)
EXTENDS CompileRefinement

CONSTANTS t1, t2

ThreadSymmetry == Permutations({t1, t2})

LeafOf(faces, mesh, material, assignment) ==
  [d \in Domains |-> CASE d = "topology" -> faces [] d = "geometry" -> mesh
                       [] d = "material" -> material [] d = "assignment" -> assignment]

\* Shared: w2 is w1 with another material object (same scalar version) and
\* another assignment; both share the mesh, which is edited in place.
SharedWorlds == {"w1", "w2"}
SharedLeaf == [w \in SharedWorlds |->
  IF w = "w1" THEN LeafOf("faces", "mesh", "brick", "plain")
              ELSE LeafOf("faces", "mesh", "glass", "screen")]
SharedInput == [w \in SharedWorlds |-> "mesh"]
SharedObjects == SharedWorlds \cup {"faces", "mesh", "brick", "glass", "plain", "screen"}

\* Reuse: two unrelated worlds with equal versions and IDs. The worlds, meshes
\* and materials of w2 may get the addresses of those of w1 once collected.
ReuseWorlds == {"w1", "w2"}
ReuseLeaf == [w \in ReuseWorlds |->
  IF w = "w1" THEN LeafOf("faces1", "mesh1", "brick", "plain1")
              ELSE LeafOf("faces2", "mesh2", "glass", "plain2")]
ReuseInput == [w \in ReuseWorlds |-> IF w = "w1" THEN "mesh1" ELSE "mesh2"]
ReuseObjects ==
  ReuseWorlds \cup {"faces1", "faces2", "mesh1", "mesh2", "brick", "glass", "plain1", "plain2", "tuned"}
Houses(kind, first, second) == first :> <<kind \o "_a">> @@ second :> <<kind \o "_a", kind \o "_b">>
ReuseHome == Houses("world", "w1", "w2") @@ Houses("mesh", "mesh1", "mesh2")
               @@ Houses("material", "brick", "glass") @@ [o \in ReuseObjects |-> <<o>>]

\* A home of its own for every object: no address is ever reused.
OwnHome == [o \in Objects |-> <<o>>]

OneId == [w \in Worlds |-> "ids"]
OnePolicy == [w \in Worlds |-> "all_edges"]
SameStamps == [o \in Objects |-> "stamp"]
FrequencyHz == [f \in Floats \cup Tensors |-> 35]
=============================================================================
