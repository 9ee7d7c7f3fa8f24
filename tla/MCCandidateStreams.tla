------------------------- MODULE MCCandidateStreams -------------------------
(***************************************************************************)
(* What CandidateStreams is checked on: spaces of up to two transmitters,  *)
(* four receivers, three planes and three edges.                           *)
(***************************************************************************)
EXTENDS Integers

NoRays == [tx \in 0..1 |-> {}]
Job(kind, tx, rx, groups, edges, depth, limit, rays) ==
  [kind |-> kind, tx |-> tx, rx |-> rx, groups |-> groups, edges |-> edges,
   depth |-> depth, limit |-> limit, rays |-> rays]

\* Chains traced among three planes, some of which stop.
Chains == {<<0, 1, 0>>, <<0, 1, 2>>, <<2, -1, -1>>}
Rays == [0..1 -> SUBSET Chains]

ReflectionJobs ==
  {Job("order1", tx, rx, g, 0, 1, 0, NoRays) : tx \in 0..2, rx \in 0..3, g \in 0..2}
    \cup {Job("order1", 2, rx, 3, 0, 1, 0, r) : rx \in {1, 3}, r \in Rays}
    \cup {Job("multi", tx, rx, g, 0, d, 0, NoRays) : tx \in 0..2, rx \in 0..3, g \in 0..2, d \in 1..4}
    \cup {Job("multi", tx, rx, 3, 0, 2, 0, NoRays) : tx \in 0..2, rx \in 0..3}
    \cup {Job("multi", 2, rx, 3, 0, 3, 0, r) : rx \in {1, 3}, r \in Rays}
    \cup {Job("diffraction", tx, rx, 0, e, 1, 0, NoRays) : tx \in 0..2, rx \in 0..3, e \in 0..3}

\* A scene with edges has planes.
CoupledJobs ==
  {Job(k, tx, rx, g, e, 2, limit, NoRays) :
     k \in {"coupled", "streamed"}, tx \in 0..2, rx \in 0..4, g \in 1..3, e \in 0..3,
     limit \in {5, 12, 20, 60, 500}}
=============================================================================
