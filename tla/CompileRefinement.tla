------------------------- MODULE CompileRefinement -------------------------
(***************************************************************************)
(* The registry of SceneCompile implements the cache-less CompileContract. *)
(***************************************************************************)
EXTENDS SceneCompile

\* The contents the parts of runtime s were built from.
Contents(s) ==
  [p \in Parts |-> [d \in Reads[p] |->
     [object |-> Leaf[s.stores[p].of][d], revision |-> s.stores[p].saw[d]]]]

Contract == INSTANCE CompileContract WITH
  call <- [t \in Threads |-> IF pc[t] = "idle" THEN [none |-> TRUE]
                             ELSE [world |-> asked[t].world, start |-> asked[t].start]],
  served <- [t \in Threads |-> IF pc[t] = "done" THEN Contents(result[t])
                               ELSE [nothing |-> TRUE]]

\* Whatever the cache does, a caller cannot tell compile from one that builds
\* every runtime from the caller's world during the call.
ImplementsContract == Contract!Spec
=============================================================================
