------------------------ MODULE SceneResourcesProofs ------------------------
(***************************************************************************)
(* Proofs about SceneResources, for any threads, edits, addresses and      *)
(* graph nodes.                                                            *)
(*                                                                         *)
(* The argument: marks change only between calls and versions only grow,   *)
(* so the leaves of a call are an interval of versions under one mark; a   *)
(* key taken in it is a lower bound of what is built or found under that   *)
(* key, and the leaf itself the upper bound.  A replay's node is its own:  *)
(* it was new when it was built and is never put where another call looks. *)
(***************************************************************************)
EXTENDS SceneResources, FiniteSetTheorems, TLAPS

\* One caller at a time: what the cache of the edge candidates relies on.
OneThread == \A t, u \in Threads : t = u

Fields == {"pc", "kind", "arg", "key", "held", "got", "during", "alone"}

\* A call in flight.
IsCall(c, n) ==
  /\ c = [f \in Fields |-> c[f]]
  /\ c.pc \in Steps /\ c.kind \in Kinds
  /\ c.during \subseteq Leaves
  /\ IF c.kind = "candidates"
     THEN c.arg \in Modes /\ IF c.pc = "edges" THEN c.held = None
                             ELSE c.held \in Selections /\ c.held.mode = c.arg
     ELSE c.pc \notin {"edges", "keep edges"} /\ c.held = None
  /\ c.pc = "return" => ReadsAgain(c.kind)
  /\ c.pc \in {"store", "served"} =>
       IF c.kind = "candidates" THEN c.got \in Modes ELSE c.got \in [version : 0..MaxEdits, node : 0..n]

IsEntry(e, keys, values) == e = [key |-> e.key, value |-> e.value] /\ e.key \in keys /\ e.value \in values

\* What the caches h and the edges e may keep when n nodes were built.
CachesFit(h, n) ==
  LET built == [version : 0..MaxEdits, node : 0..n]
  IN /\ h = [k \in AllKinds |-> h[k]]
     /\ h["replay"] # None => IsEntry(h["replay"], Leaves, built)
     /\ h["screens"] # None => IsEntry(h["screens"], 0..MaxEdits, built)
     /\ h["kirchhoff"] # None => IsEntry(h["kirchhoff"], {KirchhoffKey}, built)
     /\ h["candidates"] # None => IsEntry(h["candidates"], Addresses, Modes)

EdgesFit(e) ==
  /\ e = [m \in Modes |-> e[m]]
  /\ \A m \in Modes : e[m] # None => e[m] \in Selections /\ e[m].mode = m

TypeInv ==
  /\ leaf \in Leaves
  /\ nodes \in Nat /\ freed \subseteq 1..nodes
  /\ CachesFit(cache, nodes) /\ EdgesFit(edges)
  /\ call = [t \in Threads |-> call[t]]
  /\ \A t \in Threads : call[t] = Idle \/ IsCall(call[t], nodes)

\* The moments of a call: one mark, and every version from its first to now.
Interval(c, l) ==
  /\ l \in c.during
  /\ \A s \in c.during :
       /\ s.marked = l.marked /\ s.version <= l.version
       /\ \A v \in s.version..l.version : [marked |-> l.marked, version |-> v] \in c.during

\* The key was taken in the call, and what was built later is no older than it.
KeyedInCall(c, l) ==
  c.pc \in {"look", "build", "store"} =>
    /\ c.kind = "replay" =>
         c.key \in c.during /\ (c.pc = "store" => c.key.version <= c.got.version)
    /\ c.kind = "screens" =>
         /\ [marked |-> l.marked, version |-> c.key] \in c.during
         /\ c.pc = "store" => c.key <= c.got.version
    /\ c.kind = "kirchhoff" => c.key = KirchhoffKey
    /\ c.kind = "candidates" => c.key = c.held.addr

ScreensOfCall(c, value) == \E s \in c.during : value.version = s.version

BuiltInCall(c, h) ==
  /\ c.pc = "store" /\ c.kind \in TableKinds => TrueDuring(c)
  /\ c.pc = "served" /\ c.kind = "replay" => TrueDuring(c)
  /\ c.pc = "return" => h[c.kind] # None
  /\ c.kind = "screens" /\ c.alone =>
       /\ c.pc = "return" => ScreensOfCall(c, h["screens"].value)
       /\ c.pc = "served" => ScreensOfCall(c, c.got)

\* A cached value is between its key and the leaf.
CachesInTime(h, l) ==
  /\ h["replay"] # None =>
       /\ ~h["replay"].key.marked /\ h["replay"].value.node = 0
       /\ h["replay"].key.version <= h["replay"].value.version
       /\ h["replay"].value.version <= l.version
  /\ h["screens"] # None =>
       /\ h["screens"].key <= h["screens"].value.version
       /\ h["screens"].value.version <= l.version

TimeInv ==
  /\ \A t \in InFlight :
       Interval(call[t], leaf) /\ KeyedInCall(call[t], leaf) /\ BuiltInCall(call[t], cache)
  /\ \A t, u \in InFlight : call[t].alone => u = t
  /\ CachesInTime(cache, leaf)

Holding(t) == t \in InFlight /\ call[t].pc \in {"store", "served"}

\* The node of a replay's tables is on no other graph, and no backward pass
\* has been through it.
OwnNode(t) ==
  Holding(t) /\ call[t].kind = "replay" /\ call[t].got.node # 0 =>
    /\ call[t].got.node \notin freed
    /\ \A u \in Threads \ {t} : Holding(u) /\ call[u].kind \in {"replay", "kirchhoff"} =>
         call[u].got.node # call[t].got.node
    /\ cache["kirchhoff"] # None => cache["kirchhoff"].value.node # call[t].got.node

NodeInv == "replay" \notin refused /\ \A t \in Threads : OwnNode(t)

HeldBy(t) == t \in InFlight /\ call[t].held # None

\* Selections that something still refers to lie apart.
EdgeInv ==
  /\ \A m, n \in Modes : m # n /\ edges[m] # None /\ edges[n] # None =>
       edges[m].addr # edges[n].addr
  /\ \A t \in InFlight : call[t].pc = "keep edges" =>
       /\ \A m \in Modes : edges[m] # None => edges[m].addr # call[t].held.addr
       /\ \A u \in Threads \ {t} : HeldBy(u) => call[u].held.addr # call[t].held.addr

\* Calls that have yet to build.
ToBuild == {"edges", "keep edges", "key", "look", "build"}
Unbuilt == {t \in InFlight : call[t].pc \in ToBuild}

RoomInv == nodes + Cardinality(Unbuilt) <= MaxNodes

IInv == TypeInv /\ TimeInv /\ NodeInv /\ EdgeInv /\ RoomInv

\* What a call for candidates knows of the edges kept, e, when it is alone.
Selected(c, e) ==
  c.kind = "candidates" =>
    /\ c.pc = "keep edges" => e[c.arg] = None
    /\ c.pc \notin {"edges", "keep edges"} => e[c.arg] = c.held
    /\ c.pc \in {"store", "served"} => c.got = c.held.mode

\* The candidates kept were found for a selection that is still kept.
FoundFor(h, e) ==
  h["candidates"] # None =>
    e[h["candidates"].value] # None /\ e[h["candidates"].value].addr = h["candidates"].key

\* With one caller a selection, once kept, is kept for good.
SelectionInv == (\A t \in InFlight : Selected(call[t], edges)) /\ FoundFor(cache, edges)

-----------------------------------------------------------------------------
LEMMA IdleIsIdle == Idle.pc = "idle"
BY DEF Idle

LEMMA IdleIsNoCall ==
  ASSUME NEW c, NEW n, IsCall(c, n)
  PROVE  c # Idle /\ c.pc # "idle"
<1>1. c.pc \in Steps
  BY DEF IsCall
<1>2. c.pc # "idle"
  BY <1>1 DEF Steps
<1> QED
  BY <1>2, IdleIsIdle

LEMMA OwnCall ==
  ASSUME IInv, NEW t \in InFlight
  PROVE  /\ t \in Threads /\ call[t].pc # "idle"
         /\ IsCall(call[t], nodes) /\ Interval(call[t], leaf)
         /\ KeyedInCall(call[t], leaf) /\ BuiltInCall(call[t], cache)
BY IdleIsIdle DEF IInv, TypeInv, TimeInv, InFlight

\* The number of calls that have yet to build.
LEMMA FewerUnbuilt ==
  ASSUME ConstantsAssumption, RoomInv, nodes \in Nat, Unbuilt' \subseteq Unbuilt, nodes' = nodes
  PROVE  RoomInv'
<1>1. IsFiniteSet(Unbuilt)
  BY FS_Subset DEF ConstantsAssumption, Unbuilt, InFlight
<1>2. Cardinality(Unbuilt') <= Cardinality(Unbuilt) /\ Cardinality(Unbuilt') \in Nat
      /\ Cardinality(Unbuilt) \in Nat
  BY <1>1, FS_Subset, FS_CardinalityType
<1> QED
  BY <1>2 DEF RoomInv, ConstantsAssumption

\* The call of thread t becomes d, and every other stays.
CallStep(t, d) ==
  /\ call' = [u \in Threads |-> call'[u]]
  /\ call'[t] = d /\ \A u \in Threads \ {t} : call'[u] = call[u]
  /\ InFlight' \subseteq Threads /\ InFlight' \ {t} = InFlight \ {t}
  /\ t \in InFlight' => d # Idle

LEMMA Changed ==
  ASSUME TypeInv, NEW t \in Threads, NEW d, call' = [call EXCEPT ![t] = d]
  PROVE  CallStep(t, d)
<1>1. call' = [u \in Threads |-> call'[u]]
      /\ call'[t] = d /\ \A u \in Threads \ {t} : call'[u] = call[u]
  BY DEF TypeInv
<1> QED
  BY <1>1, IdleIsIdle DEF CallStep, InFlight

\* More nodes may be built while a call goes on.
LEMMA MoreNodes ==
  ASSUME NEW c, NEW n \in Nat, NEW m \in Nat, n <= m
  PROVE  /\ [version : 0..MaxEdits, node : 0..n] \subseteq [version : 0..MaxEdits, node : 0..m]
         /\ IsCall(c, n) => IsCall(c, m)
<1>1. [version : 0..MaxEdits, node : 0..n] \subseteq [version : 0..MaxEdits, node : 0..m]
  <2>1. 0..n \subseteq 0..m
    OBVIOUS
  <2> QED
    BY <2>1
<1> QED
  BY <1>1 DEF IsCall

\* Types and times, for a step of one call that leaves the leaf alone.
LEMMA TypeTimeStep ==
  ASSUME IInv, NEW t \in InFlight, NEW d, CallStep(t, d),
         leaf' = leaf, nodes' \in Nat, nodes <= nodes', freed' \subseteq 1..nodes',
         CachesFit(cache', nodes'), EdgesFit(edges'), CachesInTime(cache', leaf),
         \A u \in InFlight \ {t} : BuiltInCall(call[u], cache'),
         \/ d = Idle
         \/ /\ IsCall(d, nodes') /\ KeyedInCall(d, leaf) /\ BuiltInCall(d, cache')
            /\ d.during = call[t].during /\ d.alone = call[t].alone
  PROVE  TypeInv' /\ TimeInv'
<1>1. t \in Threads /\ nodes \in Nat
  BY OwnCall DEF IInv, TypeInv
<1>2. InFlight' \subseteq InFlight
  BY DEF CallStep
<1>3. \A u \in Threads : call'[u] = Idle \/ IsCall(call'[u], nodes')
  <2> SUFFICES ASSUME NEW u \in Threads, u # t PROVE call'[u] = Idle \/ IsCall(call'[u], nodes')
    BY DEF CallStep
  <2>1. call'[u] = call[u] /\ (call[u] = Idle \/ IsCall(call[u], nodes))
    BY DEF CallStep, IInv, TypeInv
  <2> QED
    BY <1>1, <2>1, MoreNodes
<1>4. TypeInv'
  BY <1>3 DEF IInv, TypeInv, CallStep
<1>5. ASSUME NEW u \in InFlight'
      PROVE  /\ Interval(call'[u], leaf') /\ KeyedInCall(call'[u], leaf')
             /\ BuiltInCall(call'[u], cache')
  <2>1. CASE u = t
    <3>1. call'[u] = d /\ d # Idle
      BY <1>5, <2>1 DEF CallStep
    <3>2. Interval(d, leaf)
      BY <3>1, OwnCall DEF Interval
    <3> QED
      BY <3>1, <3>2
  <2>2. CASE u # t
    <3>1. call'[u] = call[u] /\ u \in InFlight
      BY <1>5, <2>2 DEF CallStep
    <3> QED
      BY <2>2, <3>1, OwnCall
  <2> QED
    BY <2>1, <2>2
<1>6. ASSUME NEW u \in InFlight', NEW v \in InFlight', call'[u].alone PROVE v = u
  <2>1. u \in InFlight /\ v \in InFlight /\ call[u].alone
    BY <1>2, <1>6 DEF CallStep
  <2> QED
    BY <2>1 DEF IInv, TimeInv
<1>7. TimeInv'
  BY <1>5, <1>6 DEF TimeInv
<1> QED
  BY <1>4, <1>7

(* A step of the call of thread t that reads: the call ends, or moves on    *)
(* with a result that a cache or the call itself already had.               *)

LEMMA ReadingStep ==
  ASSUME ConstantsAssumption, IInv, NEW t \in InFlight, NEW d,
         call' = [call EXCEPT ![t] = d],
         UNCHANGED <<leaf, cache, edges, freed, nodes, refused>>,
         \/ d = Idle
         \/ /\ IsCall(d, nodes) /\ KeyedInCall(d, leaf) /\ BuiltInCall(d, cache)
            /\ d.kind = call[t].kind /\ d.during = call[t].during /\ d.alone = call[t].alone
            /\ d.pc # "keep edges"
            /\ d.held # None =>
                 \/ d.held = call[t].held
                 \/ \E m \in Modes : edges[m] # None /\ d.held = edges[m]
            /\ d.pc \in {"store", "served"} /\ d.kind \in {"replay", "kirchhoff"} =>
                 \/ d.kind = "replay" /\ d.got.node = 0
                 \/ d.kind = "kirchhoff" /\ cache["kirchhoff"] # None
                    /\ d.got = cache["kirchhoff"].value
            /\ d.pc \in ToBuild => call[t].pc \in ToBuild
  PROVE  IInv'
<1>1. t \in Threads /\ TypeInv
  BY OwnCall DEF IInv
<1>2. CallStep(t, d)
  BY <1>1, Changed
<1>3. d = Idle \/ (IsCall(d, nodes) /\ d # Idle /\ d.pc # "idle")
  BY IdleIsNoCall
<1>4. InFlight' \subseteq InFlight
  BY <1>2 DEF CallStep
<1>5. \A u \in InFlight \ {t} : BuiltInCall(call[u], cache')
  BY OwnCall
<1>6. TypeInv' /\ TimeInv'
  <2>1. /\ nodes' = nodes /\ nodes \in Nat /\ freed' \subseteq 1..nodes' /\ leaf' = leaf
        /\ CachesFit(cache', nodes') /\ EdgesFit(edges') /\ CachesInTime(cache', leaf)
        /\ cache' = cache
    BY DEF IInv, TypeInv, TimeInv
  <2>2. nodes' \in Nat /\ nodes <= nodes'
    BY ONLY <2>1
  <2>3. \/ d = Idle
        \/ /\ IsCall(d, nodes') /\ KeyedInCall(d, leaf) /\ BuiltInCall(d, cache')
           /\ d.during = call[t].during /\ d.alone = call[t].alone
    BY <2>1
  <2> QED
    BY ONLY IInv, t \in InFlight, <1>2, <1>5, <2>1, <2>2, <2>3, TypeTimeStep
<1>7. NodeInv'
  <2> SUFFICES ASSUME NEW u \in Threads PROVE OwnNode(u)'
    BY DEF IInv, NodeInv
  <2> USE DEF OwnNode, Holding, InFlight
  <2>1. CASE u = t
    BY <1>2, <1>3, <2>1, IdleIsIdle DEF CallStep
  <2>2. CASE u # t
    <3>1. call'[u] = call[u]
      BY <1>2, <2>2 DEF CallStep
    <3>2. OwnNode(u)
      BY DEF IInv, NodeInv
    <3>3. ASSUME Holding(u), call[u].kind = "replay", call[u].got.node # 0,
                 NEW v \in Threads \ {u}, Holding(v)', call'[v].kind \in {"replay", "kirchhoff"}
          PROVE  call'[v].got.node # call[u].got.node
      <4>1. CASE v = t
        BY <1>2, <1>3, <3>2, <3>3, <4>1, IdleIsIdle DEF CallStep
      <4>2. CASE v # t
        BY <1>2, <3>2, <3>3, <4>2 DEF CallStep
      <4> QED
        BY <4>1, <4>2
    <3>4. Holding(u)' <=> Holding(u)
      BY <3>1
    <3> HIDE DEF Holding, InFlight
    <3>5. ASSUME Holding(u), call[u].kind = "replay", call[u].got.node # 0
          PROVE  /\ call[u].got.node \notin freed'
                 /\ \A v \in Threads \ {u} : Holding(v)' /\ call'[v].kind \in {"replay", "kirchhoff"} =>
                      call'[v].got.node # call[u].got.node
                 /\ cache'["kirchhoff"] # None => cache'["kirchhoff"].value.node # call[u].got.node
      BY <3>2, <3>3, <3>5
    <3> QED
      BY <3>1, <3>4, <3>5
  <2> QED
    BY <2>1, <2>2
<1>8. EdgeInv'
  <2>1. ASSUME NEW u \in InFlight', call'[u].pc = "keep edges"
        PROVE  /\ \A m \in Modes : edges[m] # None => edges[m].addr # call'[u].held.addr
               /\ \A v \in Threads \ {u} : HeldBy(v)' => call'[v].held.addr # call'[u].held.addr
    <3>1. u # t /\ call'[u] = call[u] /\ u \in InFlight
      BY <1>2, <1>4, <2>1 DEF CallStep
    <3>2. ASSUME NEW v \in Threads \ {u}, HeldBy(v)'
          PROVE  \/ HeldBy(v) /\ call'[v].held = call[v].held
                 \/ \E m \in Modes : edges[m] # None /\ call'[v].held = edges[m]
      BY <1>2, <1>4, <3>2 DEF HeldBy, CallStep
    <3>3. /\ \A m \in Modes : edges[m] # None => edges[m].addr # call[u].held.addr
          /\ \A v \in Threads \ {u} : HeldBy(v) => call[v].held.addr # call[u].held.addr
      BY <2>1, <3>1 DEF IInv, EdgeInv
    <3> QED
      BY <3>1, <3>2, <3>3
  <2> QED
    BY <2>1 DEF IInv, EdgeInv, HeldBy
<1>9. RoomInv'
  <2>1. Unbuilt' \subseteq Unbuilt
    BY <1>2, <1>4 DEF Unbuilt, CallStep
  <2> QED
    BY <1>1, <2>1, FewerUnbuilt DEF IInv, TypeInv
<1> QED
  BY <1>6, <1>7, <1>8, <1>9 DEF IInv

-----------------------------------------------------------------------------
(* The steps of a call that read. *)

LEMMA InFlightAt ==
  ASSUME NEW t \in Threads, call[t].pc \in Steps
  PROVE  t \in InFlight
BY DEF InFlight, Steps

LEMMA KeptEdgesStep ==
  ASSUME ConstantsAssumption, IInv, NEW t \in Threads, KeptEdges(t)
  PROVE  IInv'
<1>1. t \in InFlight
  BY InFlightAt DEF KeptEdges, Steps
<1>2. PICK c : c = call[t]
  OBVIOUS
<1>3. PICK e : e = edges[c.arg]
  OBVIOUS
<1>4. PICK d : d = [c EXCEPT !.held = e, !.pc = "key"]
  OBVIOUS
<1>5. c.pc = "edges" /\ e # None /\ IsCall(c, nodes) /\ c.kind = "candidates"
  BY <1>1, <1>2, <1>3, OwnCall DEF KeptEdges, IsCall
<1>6. call' = [call EXCEPT ![t] = d]
  BY <1>2, <1>3, <1>4 DEF KeptEdges, IInv, TypeInv
<1>7. c = [f \in Fields |-> c[f]] /\ c.arg \in Modes
  BY <1>5 DEF IsCall
<1>8. /\ d = [f \in Fields |-> d[f]] /\ d.pc = "key" /\ d.held = e
      /\ \A f \in Fields \ {"pc", "held"} : d[f] = c[f]
  BY <1>4, <1>7 DEF Fields
<1>9. d.kind = c.kind /\ d.arg = c.arg /\ d.during = c.during /\ d.alone = c.alone
  BY <1>8 DEF Fields
<1>10. e \in Selections /\ e.mode = c.arg
  BY <1>3, <1>5, <1>7 DEF IInv, TypeInv, EdgesFit
<1>11. IsCall(d, nodes)
  BY <1>5, <1>8, <1>9, <1>10 DEF IsCall, Steps
<1>12. KeyedInCall(d, leaf) /\ BuiltInCall(d, cache)
  BY <1>8 DEF KeyedInCall, BuiltInCall
<1>13. UNCHANGED <<leaf, cache, edges, freed, nodes, refused>>
  BY DEF KeptEdges
<1>14. /\ d.kind = call[t].kind /\ d.during = call[t].during /\ d.alone = call[t].alone
       /\ d.pc = "key" /\ call[t].pc \in ToBuild
       /\ \E m \in Modes : edges[m] # None /\ d.held = edges[m]
  BY <1>2, <1>3, <1>5, <1>7, <1>8, <1>9 DEF ToBuild
<1>15. /\ d.pc # "keep edges" /\ d.pc \notin {"store", "served"}
  BY <1>14
<1> HIDE DEF None
<1> QED
  BY <1>1, <1>6, <1>11, <1>12, <1>13, <1>14, <1>15, ReadingStep

LEMMA TakeKeyStep ==
  ASSUME ConstantsAssumption, IInv, NEW t \in Threads, TakeKey(t)
  PROVE  IInv'
<1>1. t \in InFlight
  BY InFlightAt DEF TakeKey, Steps
<1>2. PICK c : c = call[t]
  OBVIOUS
<1>3. PICK k : k = KeyOf(c)
  OBVIOUS
<1>4. PICK d : d = [c EXCEPT !.key = k, !.pc = "look"]
  OBVIOUS
<1>5. c.pc = "key" /\ IsCall(c, nodes) /\ Interval(c, leaf)
  BY <1>1, <1>2, OwnCall DEF TakeKey
<1>6. call' = [call EXCEPT ![t] = d]
  BY <1>2, <1>3, <1>4 DEF TakeKey, IInv, TypeInv
<1>7. c = [f \in Fields |-> c[f]]
  BY <1>5 DEF IsCall
<1>8. /\ d = [f \in Fields |-> d[f]] /\ d.pc = "look" /\ d.key = k
      /\ \A f \in Fields \ {"pc", "key"} : d[f] = c[f]
  BY <1>4, <1>7 DEF Fields
<1>9. /\ d.kind = c.kind /\ d.arg = c.arg /\ d.during = c.during /\ d.alone = c.alone
      /\ d.held = c.held
  BY <1>8 DEF Fields
<1>10. IsCall(d, nodes)
  BY <1>5, <1>8, <1>9 DEF IsCall, Steps
<1>11. leaf \in Leaves /\ leaf \in c.during /\ leaf = [marked |-> leaf.marked, version |-> leaf.version]
  BY <1>5 DEF Interval, IInv, TypeInv, Leaves
<1>12. KeyedInCall(d, leaf)
  BY <1>3, <1>8, <1>9, <1>11 DEF KeyedInCall, KeyOf, TableState, ScreenToken
<1>13. BuiltInCall(d, cache)
  BY <1>8 DEF BuiltInCall
<1>14. UNCHANGED <<leaf, cache, edges, freed, nodes, refused>>
  BY DEF TakeKey
<1> QED
  BY <1>1, <1>2, <1>5, <1>6, <1>8, <1>9, <1>10, <1>12, <1>13, <1>14, ReadingStep DEF ToBuild

LEMMA EndStep ==
  ASSUME ConstantsAssumption, IInv, NEW t \in Threads, BuildRaises(t) \/ Done(t)
  PROVE  IInv'
<1>1. t \in InFlight
  BY InFlightAt DEF BuildRaises, Done, Steps
<1>2. call' = [call EXCEPT ![t] = Idle] /\ UNCHANGED <<leaf, cache, edges, freed, nodes, refused>>
  BY DEF BuildRaises, Done
<1> QED
  BY <1>1, <1>2, ReadingStep

LEMMA LookUpStep ==
  ASSUME ConstantsAssumption, IInv, NEW t \in Threads, LookUp(t)
  PROVE  IInv'
<1>1. t \in InFlight
  BY InFlightAt DEF LookUp, Steps
<1>2. PICK c : c = call[t]
  OBVIOUS
<1>3. PICK d : d = IF ~Hits(c) THEN [c EXCEPT !.pc = "build"]
                   ELSE IF ReadsAgain(c.kind) THEN [c EXCEPT !.pc = "return"]
                   ELSE [c EXCEPT !.got = cache[c.kind].value, !.pc = "served"]
  OBVIOUS
<1>4. c.pc = "look" /\ IsCall(c, nodes) /\ Interval(c, leaf) /\ KeyedInCall(c, leaf)
  BY <1>1, <1>2, OwnCall DEF LookUp
<1>5. call' = [call EXCEPT ![t] = d]
  BY <1>2, <1>3 DEF LookUp
<1>6. c = [f \in Fields |-> c[f]]
  BY <1>4 DEF IsCall
<1>7. /\ d = [f \in Fields |-> d[f]]
      /\ d.kind = c.kind /\ d.arg = c.arg /\ d.during = c.during /\ d.alone = c.alone
      /\ d.held = c.held /\ d.key = c.key
  BY <1>3, <1>6 DEF Fields
<1>8. \/ d.pc = "build"
      \/ d.pc = "return" /\ ReadsAgain(c.kind) /\ Hits(c)
      \/ d.pc = "served" /\ ~ReadsAgain(c.kind) /\ Hits(c) /\ d.got = cache[c.kind].value
  BY <1>3, <1>6 DEF Fields
<1>9. c.kind \in AllKinds
  BY <1>4 DEF IsCall, ConstantsAssumption
<1>10. CachesFit(cache, nodes) /\ CachesInTime(cache, leaf)
  BY DEF IInv, TypeInv, TimeInv
<1>11. leaf \in Leaves /\ nodes \in Nat /\ MaxEdits \in Nat
  BY DEF IInv, TypeInv, ConstantsAssumption
<1>12. d.pc = "served" => /\ c.kind = "candidates" => d.got \in Modes
                          /\ c.kind = "replay" =>
                               /\ d.got \in [version : 0..MaxEdits, node : 0..nodes]
                               /\ d.got.node = 0 /\ TrueDuring(d)
                          /\ c.kind \in {"candidates", "replay"}
  <2> SUFFICES ASSUME d.pc = "served"
               PROVE  /\ c.kind = "candidates" => d.got \in Modes
                      /\ c.kind = "replay" =>
                               /\ d.got \in [version : 0..MaxEdits, node : 0..nodes]
                               /\ d.got.node = 0 /\ TrueDuring(d)
                      /\ c.kind \in {"candidates", "replay"}
    OBVIOUS
  <2>1. ~ReadsAgain(c.kind) /\ Hits(c) /\ d.got = cache[c.kind].value
    BY <1>8
  <2>2. c.kind \in {"candidates", "replay"}
    BY <1>9, <2>1 DEF ReadsAgain, AllKinds
  <2>3. CASE c.kind = "candidates"
    BY <1>10, <2>1, <2>3 DEF Hits, CachesFit, IsEntry
  <2>4. CASE c.kind = "replay"
    <3>1. cache["replay"] # None /\ cache["replay"].key = c.key /\ d.got = cache["replay"].value
      BY <2>1, <2>4 DEF Hits
    <3>2. d.got \in [version : 0..MaxEdits, node : 0..nodes] /\ d.got.node = 0
          /\ ~c.key.marked /\ c.key.version <= d.got.version /\ d.got.version <= leaf.version
      BY <1>10, <3>1 DEF CachesFit, IsEntry, CachesInTime
    <3>3. c.key \in c.during /\ c.during \subseteq Leaves
      BY <1>4, <2>4 DEF KeyedInCall, IsCall
    <3>4. PICK w : w = d.got.version
      OBVIOUS
    <3>5. w \in c.key.version..leaf.version
      BY <1>11, <3>2, <3>3, <3>4 DEF Leaves
    <3>6. [marked |-> leaf.marked, version |-> w] \in c.during /\ c.key.marked = leaf.marked
      BY <1>4, <3>3, <3>5 DEF Interval
    <3>7. leaf.marked = FALSE
      BY <1>11, <3>2, <3>3, <3>6 DEF Leaves
    <3>8. PICK s \in d.during : s = [marked |-> FALSE, version |-> w]
      BY <1>7, <3>6, <3>7
    <3>9. d.got.version = s.version /\ s.marked = (d.got.node # 0)
      BY <3>2, <3>4, <3>8
    <3>10. TrueDuring(d)
      BY <3>9 DEF TrueDuring
    <3> QED
      BY <2>4, <3>2, <3>10
  <2> QED
    BY <2>2, <2>3, <2>4
<1>13. IsCall(d, nodes)
  BY <1>4, <1>7, <1>8, <1>12 DEF IsCall, Steps
<1>14. KeyedInCall(d, leaf)
  BY <1>4, <1>7, <1>8 DEF KeyedInCall
<1>15. BuiltInCall(d, cache)
  <2>1. CASE d.pc = "return"
    <3>1. ReadsAgain(c.kind) /\ Hits(c)
      BY <1>8, <2>1
    <3>2. CASE c.kind = "screens"
      <4>1. /\ cache["screens"] # None /\ cache["screens"].key = c.key
            /\ c.key <= cache["screens"].value.version
            /\ cache["screens"].value.version <= leaf.version
            /\ cache["screens"].value.version \in Nat /\ c.key \in Nat
        BY <1>10, <3>1, <3>2 DEF Hits, CachesInTime, CachesFit, IsEntry
      <4>2. [marked |-> leaf.marked, version |-> c.key] \in c.during
        BY <1>4, <3>2 DEF KeyedInCall
      <4>3. PICK w : w = cache["screens"].value.version
        OBVIOUS
      <4>4. w \in c.key..leaf.version
        BY <1>11, <4>1, <4>3 DEF Leaves
      <4>5. [marked |-> leaf.marked, version |-> w] \in c.during
        BY <1>4, <4>2, <4>4 DEF Interval
      <4>6. ScreensOfCall(d, cache["screens"].value)
        BY <1>7, <4>3, <4>5 DEF ScreensOfCall
      <4> QED
        BY <1>7, <2>1, <3>2, <4>1, <4>6 DEF BuiltInCall
    <3>3. CASE c.kind # "screens"
      BY <1>7, <2>1, <3>1, <3>3 DEF BuiltInCall, Hits
    <3> QED
      BY <3>2, <3>3
  <2>2. CASE d.pc = "build"
    BY <2>2 DEF BuiltInCall
  <2>3. CASE d.pc = "served"
    <3>1. c.kind \in {"candidates", "replay"} /\ (c.kind = "replay" => TrueDuring(d))
      BY <1>12, <2>3
    <3> QED
      BY <1>7, <2>3, <3>1 DEF BuiltInCall
  <2> QED
    BY <1>8, <2>1, <2>2, <2>3
<1>16. UNCHANGED <<leaf, cache, edges, freed, nodes, refused>>
  BY DEF LookUp
<1>17. /\ d.kind = call[t].kind /\ d.during = call[t].during /\ d.alone = call[t].alone
       /\ d.held = call[t].held /\ call[t].pc \in ToBuild
       /\ d.pc # "keep edges"
  BY <1>2, <1>4, <1>7, <1>8 DEF ToBuild
<1>18. d.pc \in {"store", "served"} /\ d.kind \in {"replay", "kirchhoff"} =>
         d.kind = "replay" /\ d.got.node = 0
  BY <1>7, <1>8, <1>12
<1> QED
  BY <1>1, <1>5, <1>13, <1>14, <1>15, <1>16, <1>17, <1>18, ReadingStep

LEMMA ReturnStep ==
  ASSUME ConstantsAssumption, IInv, NEW t \in Threads, Return(t)
  PROVE  IInv'
<1>1. t \in InFlight
  BY InFlightAt DEF Return, Steps
<1>2. PICK c : c = call[t]
  OBVIOUS
<1>3. PICK d : d = [c EXCEPT !.got = cache[c.kind].value, !.pc = "served"]
  OBVIOUS
<1>4. c.pc = "return" /\ IsCall(c, nodes) /\ Interval(c, leaf) /\ BuiltInCall(c, cache)
  BY <1>1, <1>2, OwnCall DEF Return
<1>5. call' = [call EXCEPT ![t] = d]
  BY <1>2, <1>3 DEF Return, IInv, TypeInv
<1>6. c = [f \in Fields |-> c[f]] /\ c.kind \in {"kirchhoff", "screens"}
  BY <1>4 DEF IsCall, ReadsAgain
<1>7. /\ d = [f \in Fields |-> d[f]] /\ d.pc = "served" /\ d.got = cache[c.kind].value
      /\ d.kind = c.kind /\ d.arg = c.arg /\ d.during = c.during /\ d.alone = c.alone
      /\ d.held = c.held /\ d.key = c.key
  BY <1>3, <1>6 DEF Fields
<1>8. CachesFit(cache, nodes) /\ cache[c.kind] # None
  BY <1>4 DEF IInv, TypeInv, BuiltInCall
<1>9. d.got \in [version : 0..MaxEdits, node : 0..nodes]
  BY <1>6, <1>7, <1>8 DEF CachesFit, IsEntry
<1>10. IsCall(d, nodes)
  BY <1>4, <1>6, <1>7, <1>9 DEF IsCall, Steps
<1>11. KeyedInCall(d, leaf)
  BY <1>7 DEF KeyedInCall
<1>12. BuiltInCall(d, cache)
  <2>1. c.kind = "screens" /\ c.alone => ScreensOfCall(c, cache["screens"].value)
    BY <1>4 DEF BuiltInCall
  <2>2. d.kind = "screens" /\ d.alone => ScreensOfCall(d, d.got)
    BY <1>7, <2>1 DEF ScreensOfCall
  <2> QED
    BY <1>6, <1>7, <2>2 DEF BuiltInCall
<1>13. UNCHANGED <<leaf, cache, edges, freed, nodes, refused>>
  BY DEF Return
<1>14. /\ d.kind = call[t].kind /\ d.during = call[t].during /\ d.alone = call[t].alone
       /\ d.held = call[t].held
       /\ d.pc # "keep edges" /\ d.pc \notin ToBuild
  BY <1>2, <1>4, <1>7 DEF ToBuild
<1>15. d.pc \in {"store", "served"} /\ d.kind \in {"replay", "kirchhoff"} =>
         d.kind = "kirchhoff" /\ cache["kirchhoff"] # None /\ d.got = cache["kirchhoff"].value
  BY <1>6, <1>7, <1>8
<1> QED
  BY <1>1, <1>5, <1>10, <1>11, <1>12, <1>13, <1>14, <1>15, ReadingStep

-----------------------------------------------------------------------------
(* The steps of the user. *)

LEMMA MarkLeafStep ==
  ASSUME ConstantsAssumption, IInv, MarkLeaf
  PROVE  IInv'
<1>1. /\ InFlight = {} /\ leaf' = [leaf EXCEPT !.marked = ~@]
      /\ UNCHANGED <<cache, edges, call, freed, nodes, refused>>
  BY DEF MarkLeaf
<1>2. InFlight' = {} /\ Unbuilt' = Unbuilt
  BY <1>1 DEF InFlight, Unbuilt
<1>3. leaf \in Leaves /\ leaf' \in Leaves /\ leaf'.version = leaf.version
  BY <1>1 DEF IInv, TypeInv, Leaves
<1>4. TypeInv'
  BY <1>1, <1>3 DEF IInv, TypeInv
<1>5. CachesInTime(cache, leaf')
  BY <1>3 DEF CachesInTime, IInv, TimeInv
<1>6. TimeInv'
  BY <1>1, <1>2, <1>5 DEF TimeInv
<1>7. NodeInv' /\ EdgeInv' /\ RoomInv'
  BY <1>1, <1>2 DEF IInv, NodeInv, OwnNode, Holding, EdgeInv, HeldBy, RoomInv
<1> QED
  BY <1>4, <1>6, <1>7 DEF IInv

LEMMA NodesKept ==
  ASSUME NodeInv, UNCHANGED <<cache, freed, refused>>,
         \A u \in Threads : Holding(u)' =>
           Holding(u) /\ call'[u].kind = call[u].kind /\ call'[u].got = call[u].got
  PROVE  NodeInv'
<1>1. ASSUME NEW t \in Threads PROVE OwnNode(t)'
  BY DEF NodeInv, OwnNode
<1> QED
  BY <1>1 DEF NodeInv

LEMMA EdgesKept ==
  ASSUME EdgeInv, UNCHANGED edges,
         \A u \in Threads : HeldBy(u)' => HeldBy(u) /\ call'[u].held = call[u].held,
         \A u \in InFlight' : call'[u].pc = "keep edges" =>
           u \in InFlight /\ call[u].pc = "keep edges" /\ call'[u].held = call[u].held
  PROVE  EdgeInv'
<1>1. ASSUME NEW t \in InFlight', call'[t].pc = "keep edges"
      PROVE  /\ \A m \in Modes : edges[m] # None => edges[m].addr # call'[t].held.addr
             /\ \A u \in Threads \ {t} : HeldBy(u)' => call'[u].held.addr # call'[t].held.addr
  <2>1. /\ \A m \in Modes : edges[m] # None => edges[m].addr # call[t].held.addr
        /\ \A u \in Threads \ {t} : HeldBy(u) => call[u].held.addr # call[t].held.addr
    BY <1>1 DEF EdgeInv
  <2> QED
    BY <1>1, <2>1
<1> QED
  BY <1>1 DEF EdgeInv

LEMMA EditLeafStep ==
  ASSUME ConstantsAssumption, IInv, EditLeaf
  PROVE  IInv'
<1>1. PICK l : l = leaf'
  OBVIOUS
<1>2. /\ leaf.version < MaxEdits /\ l = [leaf EXCEPT !.version = @ + 1]
      /\ call' = [t \in Threads |-> IF t \in InFlight
                                    THEN [call[t] EXCEPT !.during = @ \cup {l}] ELSE call[t]]
      /\ UNCHANGED <<cache, edges, freed, nodes, refused>>
  BY <1>1 DEF EditLeaf
<1>3. /\ leaf \in Leaves /\ MaxEdits \in Nat
      /\ l \in Leaves /\ l.marked = leaf.marked /\ l.version = leaf.version + 1
      /\ l = [marked |-> leaf.marked, version |-> l.version]
  BY <1>2 DEF IInv, TypeInv, Leaves, ConstantsAssumption
<1>4. ASSUME NEW t \in InFlight
      PROVE  /\ call'[t].pc = call[t].pc /\ call'[t].kind = call[t].kind
             /\ call'[t].held = call[t].held /\ call'[t].got = call[t].got
             /\ call'[t].alone = call[t].alone
             /\ IsCall(call'[t], nodes) /\ Interval(call'[t], l)
             /\ KeyedInCall(call'[t], l) /\ BuiltInCall(call'[t], cache)
  <2>1. PICK c : c = call[t]
    OBVIOUS
  <2>2. PICK d : d = [c EXCEPT !.during = @ \cup {l}]
    OBVIOUS
  <2>3. IsCall(c, nodes) /\ Interval(c, leaf) /\ KeyedInCall(c, leaf) /\ BuiltInCall(c, cache)
    BY <2>1, OwnCall
  <2>4. c = [f \in Fields |-> c[f]]
    BY <2>3 DEF IsCall
  <2>5. /\ d = [f \in Fields |-> d[f]] /\ d.during = c.during \cup {l}
        /\ d.pc = c.pc /\ d.kind = c.kind /\ d.arg = c.arg /\ d.key = c.key
        /\ d.held = c.held /\ d.got = c.got /\ d.alone = c.alone
    BY <2>2, <2>4 DEF Fields
  <2>6. call'[t] = d /\ call[t] = c
    BY <1>2, <2>1, <2>2 DEF InFlight
  <2>7. IsCall(d, nodes)
    BY <1>3, <2>3, <2>5 DEF IsCall
  <2>8. Interval(d, l)
    <3> SUFFICES ASSUME NEW s \in d.during
                 PROVE  /\ s.marked = l.marked /\ s.version <= l.version
                        /\ \A v \in s.version..l.version : [marked |-> l.marked, version |-> v] \in d.during
      BY <2>5 DEF Interval
    <3>1. CASE s = l
      BY <1>3, <2>5, <3>1 DEF Leaves
    <3>2. CASE s \in c.during
      <4>1. s \in Leaves /\ s.marked = leaf.marked /\ s.version <= leaf.version
        BY <2>3, <3>2 DEF Interval, IsCall
      <4>2. ASSUME NEW v \in s.version..l.version PROVE [marked |-> l.marked, version |-> v] \in d.during
        <5>1. CASE v = l.version
          BY <1>3, <2>5, <5>1
        <5>2. CASE v # l.version
          <6>1. v \in s.version..leaf.version
            BY <1>3, <4>1, <5>2 DEF Leaves
          <6> QED
            BY <1>3, <2>3, <2>5, <3>2, <6>1 DEF Interval
        <5> QED
          BY <5>1, <5>2
      <4> QED
        BY <1>3, <4>1, <4>2 DEF Leaves
    <3> QED
      BY <2>5, <3>1, <3>2
  <2>9. KeyedInCall(d, l)
    BY <1>3, <2>3, <2>5 DEF KeyedInCall
  <2>10. BuiltInCall(d, cache)
    BY <2>3, <2>5 DEF BuiltInCall, TrueDuring, ScreensOfCall
  <2> QED
    BY <2>5, <2>6, <2>7, <2>8, <2>9, <2>10
<1>5. /\ call' = [t \in Threads |-> call'[t]]
      /\ \A t \in Threads \ InFlight : call'[t] = call[t]
  BY <1>2
<1>6. InFlight' = InFlight
  <2>1. \A t \in Threads : call'[t].pc = call[t].pc
    BY <1>4, <1>5
  <2> QED
    BY <2>1 DEF InFlight
<1>7. TypeInv'
  <2>1. \A t \in Threads : call'[t] = Idle \/ IsCall(call'[t], nodes')
    BY <1>2, <1>4, <1>5 DEF IInv, TypeInv
  <2> QED
    BY <1>1, <1>2, <1>3, <1>5, <2>1 DEF IInv, TypeInv
<1>8. CachesInTime(cache, l)
  <2>1. CachesInTime(cache, leaf) /\ CachesFit(cache, nodes)
    BY DEF IInv, TimeInv, TypeInv
  <2>2. leaf.version \in Nat /\ l.version = leaf.version + 1
    BY <1>3 DEF Leaves
  <2>3. cache["replay"] # None => cache["replay"].value.version \in Nat
    BY <2>1 DEF CachesFit, IsEntry
  <2>4. cache["screens"] # None => cache["screens"].value.version \in Nat
    BY <2>1 DEF CachesFit, IsEntry
  <2> QED
    BY <2>1, <2>2, <2>3, <2>4 DEF CachesInTime
<1>9. TimeInv'
  <2>1. \A t \in InFlight' : /\ Interval(call'[t], leaf') /\ KeyedInCall(call'[t], leaf')
                             /\ BuiltInCall(call'[t], cache')
    BY <1>1, <1>2, <1>4, <1>6
  <2>2. \A t, u \in InFlight' : call'[t].alone => u = t
    BY <1>4, <1>6 DEF IInv, TimeInv
  <2>3. CachesInTime(cache', leaf')
    BY <1>1, <1>2, <1>8
  <2> QED
    BY <2>1, <2>2, <2>3 DEF TimeInv
<1>10. NodeInv' /\ EdgeInv'
  <2>1. \A t \in Threads : Holding(t)' => Holding(t) /\ call'[t].kind = call[t].kind /\ call'[t].got = call[t].got
    BY <1>4, <1>6 DEF Holding
  <2>2. \A t \in Threads : HeldBy(t)' => HeldBy(t) /\ call'[t].held = call[t].held
    BY <1>4, <1>6 DEF HeldBy
  <2>3. \A t \in InFlight' : call'[t].pc = "keep edges" =>
          t \in InFlight /\ call[t].pc = "keep edges" /\ call'[t].held = call[t].held
    BY <1>4, <1>6
  <2> QED
    BY <1>2, <2>1, <2>2, <2>3, NodesKept, EdgesKept DEF IInv
<1>11. RoomInv'
  <2>1. Unbuilt' = Unbuilt
    BY <1>4, <1>6 DEF Unbuilt
  <2> QED
    BY <1>2, <2>1 DEF IInv, RoomInv
<1> QED
  BY <1>7, <1>9, <1>10, <1>11 DEF IInv

LEMMA BeginStep ==
  ASSUME ConstantsAssumption, IInv, NEW t \in Threads,
         NEW k \in Kinds, NEW a \in Args(k), Begin(t, k, a)
  PROVE  IInv'
<1>1. PICK d : d = [pc     |-> IF k = "candidates" THEN "edges" ELSE "key",
                    kind   |-> k, arg |-> a,
                    key    |-> None, held |-> None, got |-> None,
                    during |-> {leaf},
                    alone  |-> InFlight = {}]
  OBVIOUS
<1>2. /\ call[t].pc = "idle" /\ nodes + Cardinality(InFlight) < MaxNodes
      /\ call' = [u \in Threads |-> CASE u = t -> d
                                      [] u \in InFlight -> [call[u] EXCEPT !.alone = FALSE]
                                      [] OTHER -> call[u]]
      /\ UNCHANGED <<leaf, cache, edges, freed, nodes, refused>>
  BY <1>1 DEF Begin
<1>3. leaf \in Leaves /\ nodes \in Nat /\ t \notin InFlight
  BY <1>2 DEF IInv, TypeInv, InFlight
<1>4. /\ d = [f \in Fields |-> d[f]] /\ d.pc \in {"edges", "key"} /\ d.kind = k /\ d.arg = a
      /\ d.held = None /\ d.during = {leaf}
      /\ d.pc = "edges" <=> k = "candidates"
      /\ d.alone = (InFlight = {})
  BY <1>1 DEF Fields
<1>5. IsCall(d, nodes)
  <2>1. k = "candidates" => a \in Modes
    BY DEF Args
  <2> QED
    BY <1>3, <1>4, <2>1 DEF IsCall, Steps
<1>6. Interval(d, leaf)
  BY <1>3, <1>4 DEF Interval, Leaves
<1>7. KeyedInCall(d, leaf) /\ BuiltInCall(d, cache)
  BY <1>4 DEF KeyedInCall, BuiltInCall
<1>8. call'[t] = d
  BY <1>2, <1>3
<1>9. ASSUME NEW u \in InFlight
      PROVE  /\ u \in Threads /\ u # t /\ call'[u].pc = call[u].pc /\ call'[u].kind = call[u].kind
             /\ call'[u].held = call[u].held /\ call'[u].got = call[u].got
             /\ ~call'[u].alone
             /\ IsCall(call'[u], nodes) /\ Interval(call'[u], leaf)
             /\ KeyedInCall(call'[u], leaf) /\ BuiltInCall(call'[u], cache)
  <2>1. PICK c : c = call[u]
    OBVIOUS
  <2>2. PICK e : e = [c EXCEPT !.alone = FALSE]
    OBVIOUS
  <2>3. /\ u \in Threads /\ u # t
        /\ IsCall(c, nodes) /\ Interval(c, leaf) /\ KeyedInCall(c, leaf) /\ BuiltInCall(c, cache)
    BY <1>3, <2>1, OwnCall
  <2>4. c = [f \in Fields |-> c[f]]
    BY <2>3 DEF IsCall
  <2>5. /\ e = [f \in Fields |-> e[f]] /\ e.during = c.during
        /\ e.pc = c.pc /\ e.kind = c.kind /\ e.arg = c.arg /\ e.key = c.key
        /\ e.held = c.held /\ e.got = c.got /\ e.alone = FALSE
    BY <2>2, <2>4 DEF Fields
  <2>6. call'[u] = e /\ call[u] = c
    BY <1>2, <2>1, <2>2, <2>3
  <2>7. IsCall(e, nodes)
    BY <2>3, <2>5 DEF IsCall
  <2>8. Interval(e, leaf) /\ KeyedInCall(e, leaf)
    BY <2>3, <2>5 DEF Interval, KeyedInCall
  <2>9. BuiltInCall(e, cache)
    BY <2>3, <2>5 DEF BuiltInCall, TrueDuring
  <2> QED
    BY <2>3, <2>5, <2>6, <2>7, <2>8, <2>9
<1>10. /\ call' = [u \in Threads |-> call'[u]]
       /\ \A u \in Threads : u # t /\ u \notin InFlight => call'[u] = call[u]
  BY <1>2
<1>11. InFlight' = InFlight \cup {t}
  <2>1. d.pc # "idle"
    BY <1>4
  <2>2. \A u \in Threads : u # t => call'[u].pc = call[u].pc
    BY <1>9, <1>10
  <2> QED
    BY <1>8, <2>1, <2>2 DEF InFlight
<1>12. TypeInv'
  <2>1. \A u \in Threads : call'[u] = Idle \/ IsCall(call'[u], nodes')
    BY <1>2, <1>5, <1>8, <1>9, <1>10 DEF IInv, TypeInv
  <2> QED
    BY <1>2, <1>10, <2>1 DEF IInv, TypeInv
<1>13. TimeInv'
  <2>1. \A u \in InFlight' : /\ Interval(call'[u], leaf') /\ KeyedInCall(call'[u], leaf')
                             /\ BuiltInCall(call'[u], cache')
    BY <1>2, <1>6, <1>7, <1>8, <1>9, <1>11
  <2>2. \A u, v \in InFlight' : call'[u].alone => v = u
    BY <1>4, <1>8, <1>9, <1>11
  <2> QED
    BY <1>2, <2>1, <2>2 DEF IInv, TimeInv
<1>14. NodeInv' /\ EdgeInv'
  <2>1. \A u \in Threads : Holding(u)' => Holding(u) /\ call'[u].kind = call[u].kind /\ call'[u].got = call[u].got
    BY <1>4, <1>8, <1>9, <1>11 DEF Holding
  <2>2. \A u \in Threads : HeldBy(u)' => HeldBy(u) /\ call'[u].held = call[u].held
    BY <1>4, <1>8, <1>9, <1>11 DEF HeldBy
  <2>3. \A u \in InFlight' : call'[u].pc = "keep edges" =>
          u \in InFlight /\ call[u].pc = "keep edges" /\ call'[u].held = call[u].held
    BY <1>4, <1>8, <1>9, <1>11
  <2> QED
    BY <1>2, <2>1, <2>2, <2>3, NodesKept, EdgesKept DEF IInv
<1>15. RoomInv'
  <2>1. IsFiniteSet(InFlight)
    BY FS_Subset DEF ConstantsAssumption, InFlight
  <2>2. /\ IsFiniteSet(InFlight \cup {t}) /\ Cardinality(InFlight) \in Nat
        /\ Cardinality(InFlight \cup {t}) = Cardinality(InFlight) + 1
    BY <1>3, <2>1, FS_AddElement, FS_CardinalityType
  <2>3. Unbuilt' \subseteq InFlight \cup {t}
    BY <1>11 DEF Unbuilt
  <2>4. Cardinality(Unbuilt') <= Cardinality(InFlight) + 1 /\ Cardinality(Unbuilt') \in Nat
    BY <2>2, <2>3, FS_Subset, FS_CardinalityType
  <2> QED
    BY <1>2, <1>3, <2>2, <2>4 DEF RoomInv, ConstantsAssumption
<1> QED
  BY <1>12, <1>13, <1>14, <1>15 DEF IInv

-----------------------------------------------------------------------------
(* The steps of a call that write. *)

LEMMA BuildEdgesStep ==
  ASSUME ConstantsAssumption, IInv, NEW t \in Threads, BuildEdges(t)
  PROVE  IInv'
<1>1. t \in InFlight
  BY InFlightAt DEF BuildEdges, Steps
<1>2. PICK c : c = call[t]
  OBVIOUS
<1>3. PICK a \in Addresses \ InUse :
        call' = [call EXCEPT ![t].held = [addr |-> a, mode |-> call[t].arg], ![t].pc = "keep edges"]
  BY DEF BuildEdges
<1>4. PICK h : h = [addr |-> a, mode |-> c.arg]
  OBVIOUS
<1>5. PICK d : d = [c EXCEPT !.held = h, !.pc = "keep edges"]
  OBVIOUS
<1>6. c.pc = "edges" /\ IsCall(c, nodes) /\ c.kind = "candidates" /\ c.arg \in Modes
  BY <1>1, <1>2, OwnCall DEF BuildEdges, IsCall
<1>7. UNCHANGED <<leaf, cache, edges, freed, nodes, refused>>
  BY DEF BuildEdges
<1>8. call' = [call EXCEPT ![t] = d]
  BY <1>2, <1>3, <1>4, <1>5 DEF IInv, TypeInv
<1>9. c = [f \in Fields |-> c[f]]
  BY <1>6 DEF IsCall
<1>10. /\ d = [f \in Fields |-> d[f]] /\ d.pc = "keep edges" /\ d.held = h
      /\ d.kind = c.kind /\ d.arg = c.arg /\ d.during = c.during /\ d.alone = c.alone
  BY <1>5, <1>9 DEF Fields
<1>11. IsCall(d, nodes)
  <2>1. h \in Selections /\ h.mode = c.arg
    BY <1>6, <1>4 DEF Selections
  <2>2. d.held \in Selections /\ d.held.mode = d.arg
    BY <1>10, <2>1
  <2> QED
    BY <1>6, <1>10, <2>2 DEF IsCall, Steps
<1>12. KeyedInCall(d, leaf) /\ BuiltInCall(d, cache)
  BY <1>10 DEF KeyedInCall, BuiltInCall
<1>13. CallStep(t, d)
  BY <1>8, Changed DEF IInv
<1>14. InFlight' \subseteq InFlight
  BY <1>1, <1>13 DEF CallStep
<1>15. TypeInv' /\ TimeInv'
  <2>1. \A u \in InFlight \ {t} : BuiltInCall(call[u], cache')
    BY <1>7, OwnCall
  <2>2. /\ leaf' = leaf /\ nodes' \in Nat /\ nodes <= nodes' /\ freed' \subseteq 1..nodes'
        /\ CachesFit(cache', nodes') /\ EdgesFit(edges') /\ CachesInTime(cache', leaf)
    BY <1>7 DEF IInv, TypeInv, TimeInv
  <2>3. /\ IsCall(d, nodes') /\ KeyedInCall(d, leaf) /\ BuiltInCall(d, cache')
        /\ d.during = call[t].during /\ d.alone = call[t].alone
    BY <1>2, <1>7, <1>10, <1>11, <1>12
  <2> QED
    BY <1>1, <1>13, <2>1, <2>2, <2>3, TypeTimeStep
<1>16. NodeInv'
  <2>1. \A u \in Threads : Holding(u)' => Holding(u) /\ call'[u].kind = call[u].kind /\ call'[u].got = call[u].got
    BY <1>10, <1>13, <1>14 DEF Holding, CallStep
  <2> QED
    BY <1>7, <2>1, NodesKept DEF IInv
<1>17. EdgeInv'
  <2>1. \A m \in Modes : edges[m] # None => edges[m].addr # a
    BY <1>3 DEF InUse
  <2>2. \A u \in Threads : HeldBy(u) => call[u].held.addr # a
    <3> SUFFICES ASSUME NEW u \in Threads, HeldBy(u) PROVE call[u].held.addr \in InUse
      BY <1>3
    <3>1. u \in {v \in InFlight : call[v].held # None}
      BY DEF HeldBy
    <3> QED
      BY <3>1 DEF InUse
  <2>3. d.held.addr = a
    <3>1. h.addr = a
      BY <1>4
    <3> QED
      BY <1>10, <3>1
  <2>4. \A u \in Threads \ {t} : HeldBy(u)' => HeldBy(u) /\ call'[u] = call[u]
    BY <1>13, <1>14 DEF CallStep, HeldBy
  <2>5. ASSUME NEW u \in InFlight', call'[u].pc = "keep edges"
        PROVE  /\ \A m \in Modes : edges[m] # None => edges[m].addr # call'[u].held.addr
               /\ \A v \in Threads \ {u} : HeldBy(v)' => call'[v].held.addr # call'[u].held.addr
    <3>1. CASE u = t
      BY <1>13, <2>1, <2>2, <2>3, <2>4, <3>1 DEF CallStep
    <3>2. CASE u # t
      <4>1. u \in InFlight /\ call'[u] = call[u] /\ u \in Threads
        BY <1>13, <1>14, <2>5, <3>2, OwnCall DEF CallStep
      <4>2. call[u].kind = "candidates" /\ HeldBy(u)
        <5>1. IsCall(call[u], nodes) /\ call[u].pc = "keep edges"
          BY <2>5, <4>1, OwnCall
        <5>2. call[u].kind = "candidates" /\ call[u].held \in Selections
          BY <5>1 DEF IsCall
        <5> QED
          BY <4>1, <5>2 DEF HeldBy, Selections, None
      <4>3. /\ \A m \in Modes : edges[m] # None => edges[m].addr # call[u].held.addr
            /\ \A v \in Threads \ {u} : HeldBy(v) => call[v].held.addr # call[u].held.addr
        BY <2>5, <4>1 DEF IInv, EdgeInv
      <4>4. \A v \in Threads \ {u} : HeldBy(v)' => call'[v].held.addr # call'[u].held.addr
        BY <1>13, <2>2, <2>3, <2>4, <4>1, <4>2, <4>3 DEF CallStep
      <4> QED
        BY <4>1, <4>3, <4>4
    <3> QED
      BY <3>1, <3>2
  <2> QED
    BY <1>7, <2>5 DEF IInv, EdgeInv
<1>18. RoomInv'
  <2>1. Unbuilt' \subseteq Unbuilt
    BY <1>2, <1>6, <1>13, <1>14 DEF Unbuilt, CallStep, ToBuild
  <2> QED
    BY <1>7, <2>1, FewerUnbuilt DEF IInv, TypeInv
<1> QED
  BY <1>15, <1>16, <1>17, <1>18 DEF IInv

LEMMA KeepEdgesStep ==
  ASSUME ConstantsAssumption, IInv, NEW t \in Threads, KeepEdges(t)
  PROVE  IInv'
<1>1. t \in InFlight
  BY InFlightAt DEF KeepEdges, Steps
<1>2. PICK c : c = call[t]
  OBVIOUS
<1>3. PICK d : d = [c EXCEPT !.pc = "key"]
  OBVIOUS
<1>4. /\ c.pc = "keep edges" /\ IsCall(c, nodes)
      /\ c.kind = "candidates" /\ c.arg \in Modes /\ c.held \in Selections /\ c.held.mode = c.arg
  BY <1>1, <1>2, OwnCall DEF KeepEdges, IsCall
<1>5. /\ edges' = [edges EXCEPT ![c.arg] = c.held]
      /\ UNCHANGED <<leaf, cache, freed, nodes, refused>>
  BY <1>2 DEF KeepEdges
<1>6. call' = [call EXCEPT ![t] = d]
  BY <1>2, <1>3 DEF KeepEdges, IInv, TypeInv
<1>7. c = [f \in Fields |-> c[f]]
  BY <1>4 DEF IsCall
<1>8. /\ d = [f \in Fields |-> d[f]] /\ d.pc = "key" /\ d.held = c.held
      /\ d.kind = c.kind /\ d.arg = c.arg /\ d.during = c.during /\ d.alone = c.alone
  BY <1>3, <1>7 DEF Fields
<1>9. IsCall(d, nodes)
  BY <1>4, <1>8 DEF IsCall, Steps
<1>10. KeyedInCall(d, leaf) /\ BuiltInCall(d, cache)
  BY <1>8 DEF KeyedInCall, BuiltInCall
<1>11. CallStep(t, d)
  BY <1>6, Changed DEF IInv
<1>12. InFlight' \subseteq InFlight
  BY <1>1, <1>11 DEF CallStep
<1>13. /\ edges' = [m \in Modes |-> edges'[m]]
       /\ \A m \in Modes : edges'[m] = IF m = c.arg THEN c.held ELSE edges[m]
  BY <1>5 DEF IInv, TypeInv, EdgesFit
<1>14. TypeInv' /\ TimeInv'
  <2>1. \A u \in InFlight \ {t} : BuiltInCall(call[u], cache')
    BY <1>5, OwnCall
  <2>2. /\ leaf' = leaf /\ nodes' \in Nat /\ nodes <= nodes' /\ freed' \subseteq 1..nodes'
        /\ CachesFit(cache', nodes') /\ CachesInTime(cache', leaf)
    BY <1>5 DEF IInv, TypeInv, TimeInv
  <2>3. EdgesFit(edges')
    BY <1>4, <1>13 DEF IInv, TypeInv, EdgesFit
  <2>4. /\ IsCall(d, nodes') /\ KeyedInCall(d, leaf) /\ BuiltInCall(d, cache')
        /\ d.during = call[t].during /\ d.alone = call[t].alone
    BY <1>2, <1>5, <1>8, <1>9, <1>10
  <2> QED
    BY <1>1, <1>11, <2>1, <2>2, <2>3, <2>4, TypeTimeStep
<1>15. NodeInv'
  <2>1. \A u \in Threads : Holding(u)' => Holding(u) /\ call'[u].kind = call[u].kind /\ call'[u].got = call[u].got
    BY <1>8, <1>11, <1>12 DEF Holding, CallStep
  <2> QED
    BY <1>5, <2>1, NodesKept DEF IInv
<1>16. EdgeInv'
  <2>1. /\ \A m \in Modes : edges[m] # None => edges[m].addr # c.held.addr
        /\ \A u \in Threads \ {t} : HeldBy(u) => call[u].held.addr # c.held.addr
    BY <1>1, <1>2, <1>4 DEF IInv, EdgeInv
  <2>2. \A m, n \in Modes : m # n /\ edges'[m] # None /\ edges'[n] # None => edges'[m].addr # edges'[n].addr
    BY <1>13, <2>1 DEF IInv, EdgeInv
  <2>3. ASSUME NEW u \in InFlight', call'[u].pc = "keep edges"
        PROVE  /\ \A m \in Modes : edges'[m] # None => edges'[m].addr # call'[u].held.addr
               /\ \A v \in Threads \ {u} : HeldBy(v)' => call'[v].held.addr # call'[u].held.addr
    <3>1. u # t /\ u \in InFlight /\ call'[u] = call[u] /\ u \in Threads
      BY <1>8, <1>11, <1>12, <2>3, OwnCall DEF CallStep
    <3>2. HeldBy(t) /\ call[t].held = c.held
      BY <1>1, <1>2, <1>4 DEF HeldBy, Selections, None
    <3>3. /\ \A m \in Modes : edges[m] # None => edges[m].addr # call[u].held.addr
          /\ \A v \in Threads \ {u} : HeldBy(v) => call[v].held.addr # call[u].held.addr
      BY <2>3, <3>1 DEF IInv, EdgeInv
    <3>4. c.held.addr # call[u].held.addr
      BY <3>1, <3>2, <3>3, OwnCall, <1>1
    <3>5. \A v \in Threads \ {u} : HeldBy(v)' => HeldBy(v) /\ call'[v].held = call[v].held
      BY <1>2, <1>8, <1>11, <1>12, <3>2 DEF CallStep, HeldBy
    <3> QED
      BY <1>13, <3>1, <3>3, <3>4, <3>5
  <2> QED
    BY <2>2, <2>3 DEF EdgeInv
<1>17. RoomInv'
  <2>1. Unbuilt' \subseteq Unbuilt
    BY <1>2, <1>4, <1>11, <1>12 DEF Unbuilt, CallStep, ToBuild
  <2> QED
    BY <1>5, <2>1, FewerUnbuilt DEF IInv, TypeInv
<1> QED
  BY <1>14, <1>15, <1>16, <1>17 DEF IInv

LEMMA BuildStep ==
  ASSUME ConstantsAssumption, IInv, NEW t \in Threads, Build(t)
  PROVE  IInv'
<1>1. t \in InFlight
  BY InFlightAt DEF Build, Steps
<1>2. PICK c : c = call[t]
  OBVIOUS
<1>3. PICK g : g = Built(c)
  OBVIOUS
<1>4. PICK d : d = [c EXCEPT !.got = g, !.pc = "store"]
  OBVIOUS
<1>5. c.pc = "build" /\ IsCall(c, nodes) /\ Interval(c, leaf) /\ KeyedInCall(c, leaf)
  BY <1>1, <1>2, OwnCall DEF Build
<1>6. /\ nodes' = IF c.kind \in TableKinds /\ leaf.marked THEN nodes + 1 ELSE nodes
      /\ UNCHANGED <<leaf, cache, edges, freed, refused>>
  BY <1>2 DEF Build
<1>7. call' = [call EXCEPT ![t] = d]
  BY <1>2, <1>3, <1>4 DEF Build, IInv, TypeInv
<1>8. c = [f \in Fields |-> c[f]] /\ c.kind \in AllKinds
  BY <1>5 DEF IsCall, ConstantsAssumption
<1>9. /\ d = [f \in Fields |-> d[f]] /\ d.pc = "store" /\ d.held = c.held /\ d.got = g
      /\ d.kind = c.kind /\ d.arg = c.arg /\ d.during = c.during /\ d.alone = c.alone
      /\ d.key = c.key
  BY <1>4, <1>8 DEF Fields
<1>10. /\ nodes \in Nat /\ nodes' \in Nat /\ nodes <= nodes'
       /\ leaf \in Leaves /\ leaf \in c.during /\ freed \subseteq 1..nodes
       /\ MaxEdits \in Nat /\ leaf.version \in 0..MaxEdits /\ leaf.marked \in BOOLEAN
  BY <1>5, <1>6 DEF IInv, TypeInv, Interval, ConstantsAssumption, Leaves
<1>11. c.kind \in TableKinds =>
         /\ g.version = leaf.version
         /\ g.node = IF leaf.marked THEN nodes + 1 ELSE 0
         /\ g \in [version : 0..MaxEdits, node : 0..nodes']
  <2> SUFFICES ASSUME c.kind \in TableKinds
               PROVE  /\ g.version = leaf.version
                      /\ g.node = IF leaf.marked THEN nodes + 1 ELSE 0
                      /\ g \in [version : 0..MaxEdits, node : 0..nodes']
    OBVIOUS
  <2>1. g = [version |-> leaf.version, node |-> IF leaf.marked THEN nodes + 1 ELSE 0]
    BY <1>3 DEF Built, TableKinds, ReplayTables, KirchhoffTables, PhaseScreens, Table
  <2>2. (IF leaf.marked THEN nodes + 1 ELSE 0) \in 0..nodes'
    BY <1>6, <1>10
  <2> QED
    BY <1>10, <2>1, <2>2
<1>12. IsCall(d, nodes')
  <2>1. c.kind = "candidates" => c.held.mode \in Modes
    BY <1>5 DEF IsCall
  <2>2. c.kind = "candidates" => g = c.held.mode
    BY <1>3 DEF Built, EdgeCandidates
  <2>3. c.kind # "candidates" => c.kind \in TableKinds
    BY <1>8 DEF AllKinds, TableKinds
  <2>4. IF c.kind = "candidates" THEN d.got \in Modes
        ELSE d.got \in [version : 0..MaxEdits, node : 0..nodes']
    BY <1>9, <1>11, <2>1, <2>2, <2>3
  <2> QED
    BY <1>5, <1>9, <2>4 DEF IsCall, Steps
<1>13. KeyedInCall(d, leaf)
  <2>1. c.kind = "replay" => c.key \in c.during /\ c.key.version <= d.got.version
    <3> SUFFICES ASSUME c.kind = "replay" PROVE c.key \in c.during /\ c.key.version <= d.got.version
      OBVIOUS
    <3>1. c.key \in c.during
      BY <1>5 DEF KeyedInCall
    <3>2. c.key.version <= leaf.version
      BY <1>5, <3>1 DEF Interval
    <3> QED
      BY <1>9, <1>11, <3>1, <3>2 DEF TableKinds
  <2>2. c.kind = "screens" => /\ [marked |-> leaf.marked, version |-> c.key] \in c.during
                              /\ c.key <= d.got.version
    <3> SUFFICES ASSUME c.kind = "screens"
                 PROVE  /\ [marked |-> leaf.marked, version |-> c.key] \in c.during
                        /\ c.key <= d.got.version
      OBVIOUS
    <3>1. [marked |-> leaf.marked, version |-> c.key] \in c.during
      BY <1>5 DEF KeyedInCall
    <3>2. c.key <= leaf.version
      BY <1>5, <3>1 DEF Interval
    <3> QED
      BY <1>9, <1>11, <3>1, <3>2 DEF TableKinds
  <2> QED
    BY <1>5, <1>9, <2>1, <2>2 DEF KeyedInCall
<1>14. BuiltInCall(d, cache)
  <2>1. c.kind \in TableKinds => TrueDuring(d)
    <3> SUFFICES ASSUME c.kind \in TableKinds PROVE TrueDuring(d)
      OBVIOUS
    <3>1. d.got.version = leaf.version /\ leaf.marked = (d.got.node # 0)
      BY <1>9, <1>10, <1>11
    <3> QED
      BY <1>9, <1>10, <3>1 DEF TrueDuring
  <2> QED
    BY <1>9, <2>1 DEF BuiltInCall
<1>15. CallStep(t, d)
  BY <1>7, Changed DEF IInv
<1>16. InFlight' \subseteq InFlight
  BY <1>1, <1>15 DEF CallStep
<1>17. TypeInv' /\ TimeInv'
  <2>1. \A u \in InFlight \ {t} : BuiltInCall(call[u], cache')
    BY <1>6, OwnCall
  <2>2. CachesFit(cache, nodes')
    <3>1. CachesFit(cache, nodes)
      BY DEF IInv, TypeInv
    <3>2. [version : 0..MaxEdits, node : 0..nodes] \subseteq [version : 0..MaxEdits, node : 0..nodes']
      BY <1>10, MoreNodes
    <3> QED
      BY <3>1, <3>2 DEF CachesFit, IsEntry
  <2>3. leaf' = leaf /\ CachesFit(cache', nodes') /\ EdgesFit(edges') /\ CachesInTime(cache', leaf)
    BY <1>6, <2>2 DEF IInv, TypeInv, TimeInv
  <2>4. freed' \subseteq 1..nodes'
    BY <1>6, <1>10
  <2>5. /\ IsCall(d, nodes') /\ KeyedInCall(d, leaf) /\ BuiltInCall(d, cache')
        /\ d.during = call[t].during /\ d.alone = call[t].alone
    BY <1>2, <1>6, <1>9, <1>12, <1>13, <1>14
  <2> QED
    BY <1>1, <1>10, <1>15, <2>1, <2>3, <2>4, <2>5, TypeTimeStep
<1>18. NodeInv'
  <2>1. ASSUME NEW u \in Threads, Holding(u), call[u].kind \in {"replay", "kirchhoff"}
        PROVE  call[u].got.node \in 0..nodes
    <3>1. IsCall(call[u], nodes) /\ call[u].pc \in {"store", "served"} /\ call[u].kind # "candidates"
      BY <2>1, OwnCall DEF Holding
    <3> QED
      BY <3>1 DEF IsCall
  <2>2. cache["kirchhoff"] # None => cache["kirchhoff"].value.node \in 0..nodes
    BY DEF IInv, TypeInv, CachesFit, IsEntry
  <2>3. c.kind \in {"replay", "kirchhoff"} => d.got.node \in {0, nodes + 1}
    BY <1>9, <1>11 DEF TableKinds
  <2>4. \A u \in Threads \ {t} : call'[u] = call[u] /\ (Holding(u)' <=> Holding(u))
    BY <1>15 DEF Holding, CallStep
  <2>5. call'[t] = d
    BY <1>15 DEF CallStep
  <2>6. ASSUME NEW u \in Threads, Holding(u)', call'[u].kind = "replay", call'[u].got.node # 0
        PROVE  /\ call'[u].got.node \notin freed
               /\ \A v \in Threads \ {u} : Holding(v)' /\ call'[v].kind \in {"replay", "kirchhoff"} =>
                    call'[v].got.node # call'[u].got.node
               /\ cache["kirchhoff"] # None => cache["kirchhoff"].value.node # call'[u].got.node
    <3>1. CASE u = t
      <4>1. call'[u].got.node = nodes + 1
        BY <1>9, <2>3, <2>5, <2>6, <3>1
      <4>2. nodes + 1 \notin freed /\ nodes + 1 \notin 0..nodes
        BY <1>10
      <4> QED
        BY <2>1, <2>2, <2>4, <3>1, <4>1, <4>2
    <3>2. CASE u # t
      <4>1. /\ call'[u] = call[u] /\ OwnNode(u) /\ Holding(u) /\ call[u].kind = "replay"
            /\ call[u].got.node # 0
        BY <2>4, <2>6, <3>2 DEF IInv, NodeInv
      <4>2. call[u].got.node \in 1..nodes
        BY <1>10, <2>1, <4>1
      <4>3. c.kind \in {"replay", "kirchhoff"} => d.got.node # call[u].got.node
        BY <1>10, <2>3, <4>2
      <4>4. \A v \in Threads \ {u} : Holding(v)' /\ call'[v].kind \in {"replay", "kirchhoff"} =>
              call'[v].got.node # call'[u].got.node
        BY <1>9, <2>4, <2>5, <4>1, <4>3 DEF OwnNode
      <4> QED
        BY <4>1, <4>4 DEF OwnNode
    <3> QED
      BY <3>1, <3>2
  <2>7. ASSUME NEW u \in Threads PROVE OwnNode(u)'
    BY <1>6, <2>6 DEF OwnNode
  <2> QED
    BY <1>6, <2>7 DEF IInv, NodeInv
<1>19. EdgeInv'
  <2>1. \A u \in Threads : HeldBy(u)' => HeldBy(u) /\ call'[u].held = call[u].held
    BY <1>1, <1>2, <1>9, <1>15, <1>16 DEF HeldBy, CallStep
  <2>2. \A u \in InFlight' : call'[u].pc = "keep edges" =>
          u \in InFlight /\ call[u].pc = "keep edges" /\ call'[u].held = call[u].held
    BY <1>9, <1>15, <1>16 DEF CallStep
  <2> QED
    BY <1>6, <2>1, <2>2, EdgesKept DEF IInv
<1>20. RoomInv'
  <2>1. Unbuilt' = Unbuilt \ {t} /\ t \in Unbuilt
    BY <1>1, <1>2, <1>5, <1>9, <1>15 DEF Unbuilt, CallStep, ToBuild
  <2>2. IsFiniteSet(Unbuilt)
    BY FS_Subset DEF ConstantsAssumption, Unbuilt, InFlight
  <2>3. Cardinality(Unbuilt') = Cardinality(Unbuilt) - 1 /\ Cardinality(Unbuilt) \in Nat
    BY <2>1, <2>2, FS_RemoveElement, FS_CardinalityType
  <2>4. nodes' <= nodes + 1
    BY <1>6, <1>10
  <2> QED
    BY <1>10, <2>3, <2>4 DEF IInv, RoomInv, ConstantsAssumption
<1> QED
  BY <1>17, <1>18, <1>19, <1>20 DEF IInv

LEMMA StoreStep ==
  ASSUME ConstantsAssumption, IInv, NEW t \in Threads, Store(t)
  PROVE  IInv'
<1>1. t \in InFlight
  BY InFlightAt DEF Store, Steps
<1>2. PICK c : c = call[t]
  OBVIOUS
<1>3. PICK e : e = Entry(c)
  OBVIOUS
<1>4. PICK p : p = IF ReadsAgain(c.kind) THEN "return" ELSE "served"
  OBVIOUS
<1>5. PICK d : d = [c EXCEPT !.pc = p]
  OBVIOUS
<1>6. /\ c.pc = "store" /\ IsCall(c, nodes) /\ Interval(c, leaf)
      /\ KeyedInCall(c, leaf) /\ BuiltInCall(c, cache)
  BY <1>1, <1>2, OwnCall DEF Store
<1>7. cache' = [cache EXCEPT ![c.kind] = e] /\ UNCHANGED <<leaf, edges, freed, nodes, refused>>
  BY <1>2, <1>3 DEF Store
<1>8. call' = [call EXCEPT ![t] = d]
  BY <1>2, <1>4, <1>5 DEF Store, IInv, TypeInv
<1>9. c = [f \in Fields |-> c[f]] /\ c.kind \in AllKinds /\ c.during \subseteq Leaves
  BY <1>6 DEF IsCall, ConstantsAssumption
<1>10. /\ d = [f \in Fields |-> d[f]] /\ d.pc = p /\ d.held = c.held /\ d.got = c.got
       /\ d.kind = c.kind /\ d.arg = c.arg /\ d.during = c.during /\ d.alone = c.alone
       /\ d.key = c.key
  BY <1>5, <1>9 DEF Fields
<1>11. /\ nodes \in Nat /\ leaf \in Leaves /\ leaf.version \in Nat /\ leaf.marked \in BOOLEAN
       /\ freed \subseteq 1..nodes
  BY DEF IInv, TypeInv, Leaves
<1>12. IF c.kind = "candidates" THEN c.got \in Modes
       ELSE c.got \in [version : 0..MaxEdits, node : 0..nodes]
  BY <1>6 DEF IsCall
<1>13. c.kind \in TableKinds => TrueDuring(c)
  BY <1>6 DEF BuiltInCall
<1>14. e = IF c.kind = "replay" /\ c.got.node # 0 THEN None ELSE [key |-> c.key, value |-> c.got]
  BY <1>3 DEF Entry
<1>15. /\ cache' = [k \in AllKinds |-> cache'[k]]
       /\ cache'[c.kind] = e /\ \A k \in AllKinds \ {c.kind} : cache'[k] = cache[k]
  BY <1>7, <1>9 DEF IInv, TypeInv, CachesFit
<1>16. c.kind # "replay" => e.key = c.key /\ e.value = c.got
                           /\ e = [key |-> e.key, value |-> e.value] /\ e # None
  <2> SUFFICES ASSUME c.kind # "replay"
               PROVE  e.key = c.key /\ e.value = c.got /\ e = [key |-> e.key, value |-> e.value]
                      /\ e # None
    OBVIOUS
  <2>1. e = [key |-> c.key, value |-> c.got]
    BY <1>14
  <2> QED
    BY <2>1 DEF None
<1>17. c.kind = "replay" /\ e # None => e.key = c.key /\ e.value = c.got /\ c.got.node = 0
                                       /\ e = [key |-> e.key, value |-> e.value]
  <2> SUFFICES ASSUME c.kind = "replay", e # None
               PROVE  e.key = c.key /\ e.value = c.got /\ c.got.node = 0
                      /\ e = [key |-> e.key, value |-> e.value]
    OBVIOUS
  <2>1. e = [key |-> c.key, value |-> c.got] /\ c.got.node = 0
    BY <1>14
  <2> QED
    BY <2>1
<1>18. CachesFit(cache', nodes)
  <2>1. c.kind = "replay" => c.key \in Leaves
    BY <1>6, <1>9 DEF KeyedInCall
  <2>2. c.kind = "screens" => c.key \in 0..MaxEdits
    <3> SUFFICES ASSUME c.kind = "screens" PROVE c.key \in 0..MaxEdits
      OBVIOUS
    <3>1. [marked |-> leaf.marked, version |-> c.key] \in Leaves
      BY <1>6, <1>9 DEF KeyedInCall
    <3> QED
      BY <3>1 DEF Leaves
  <2>3. c.kind = "kirchhoff" => c.key \in {KirchhoffKey}
    BY <1>6 DEF KeyedInCall
  <2>4. c.kind = "candidates" => c.key \in Addresses
    BY <1>6 DEF KeyedInCall, IsCall, Selections
  <2>5. CachesFit(cache, nodes)
    BY DEF IInv, TypeInv
  <2>6. \A k \in AllKinds : cache'[k] = IF k = c.kind THEN e ELSE cache[k]
    BY <1>15
  <2>7. cache'["replay"] # None =>
          IsEntry(cache'["replay"], Leaves, [version : 0..MaxEdits, node : 0..nodes])
    BY <1>12, <1>17, <2>1, <2>5, <2>6 DEF CachesFit, IsEntry, AllKinds
  <2>8. cache'["screens"] # None =>
          IsEntry(cache'["screens"], 0..MaxEdits, [version : 0..MaxEdits, node : 0..nodes])
    BY <1>12, <1>16, <2>2, <2>5, <2>6 DEF CachesFit, IsEntry, AllKinds
  <2>9. cache'["kirchhoff"] # None =>
          IsEntry(cache'["kirchhoff"], {KirchhoffKey}, [version : 0..MaxEdits, node : 0..nodes])
    BY <1>12, <1>16, <2>3, <2>5, <2>6 DEF CachesFit, IsEntry, AllKinds
  <2>10. cache'["candidates"] # None => IsEntry(cache'["candidates"], Addresses, Modes)
    BY <1>12, <1>16, <2>4, <2>5, <2>6 DEF CachesFit, IsEntry, AllKinds
  <2> QED
    BY <1>15, <2>7, <2>8, <2>9, <2>10 DEF CachesFit
<1>19. c.kind \in TableKinds => /\ c.got.version <= leaf.version
                                /\ c.got.node = 0 => leaf.marked = FALSE
  <2> SUFFICES ASSUME c.kind \in TableKinds
               PROVE  c.got.version <= leaf.version /\ (c.got.node = 0 => leaf.marked = FALSE)
    OBVIOUS
  <2>1. PICK s \in c.during : c.got.version = s.version /\ s.marked = (c.got.node # 0)
    BY <1>13 DEF TrueDuring
  <2>2. s.marked = leaf.marked /\ s.version <= leaf.version
    BY <1>6 DEF Interval
  <2> QED
    BY <2>1, <2>2
<1>20. CachesInTime(cache', leaf)
  <2>1. CachesInTime(cache, leaf)
    BY DEF IInv, TimeInv
  <2>2. CASE c.kind = "replay"
    <3>1. c.key.version <= c.got.version /\ c.key.marked = leaf.marked
      BY <1>6, <2>2 DEF KeyedInCall, Interval
    <3>2. e # None => /\ ~e.key.marked /\ e.value.node = 0
                      /\ e.key.version <= e.value.version /\ e.value.version <= leaf.version
      <4> SUFFICES ASSUME e # None
                   PROVE  /\ ~e.key.marked /\ e.value.node = 0
                          /\ e.key.version <= e.value.version /\ e.value.version <= leaf.version
        OBVIOUS
      <4>1. e.key = c.key /\ e.value = c.got /\ c.got.node = 0
        BY <1>17, <2>2
      <4>2. c.got.version <= leaf.version /\ leaf.marked = FALSE
        <5>1. c.kind \in TableKinds
          BY <2>2 DEF TableKinds
        <5> QED
          BY <1>19, <4>1, <5>1
      <4>3. PICK k, g : k = c.key /\ g = c.got
        OBVIOUS
      <4>4. ~k.marked /\ g.node = 0 /\ k.version <= g.version /\ g.version <= leaf.version
        BY <3>1, <4>1, <4>2, <4>3
      <4>5. e.key = k /\ e.value = g
        BY <4>1, <4>3
      <4> QED
        BY ONLY <4>4, <4>5
    <3>3. cache'["replay"] = e /\ cache'["screens"] = cache["screens"]
      BY <1>15, <2>2 DEF AllKinds
    <3> QED
      BY <2>1, <3>2, <3>3 DEF CachesInTime
  <2>3. CASE c.kind = "screens"
    <3>1. c.key <= c.got.version
      BY <1>6, <2>3 DEF KeyedInCall
    <3>2. e.key <= e.value.version /\ e.value.version <= leaf.version
      <4>1. e.key = c.key /\ e.value = c.got
        BY <1>16, <2>3
      <4>2. c.got.version <= leaf.version
        <5>1. c.kind \in TableKinds
          BY <2>3 DEF TableKinds
        <5> QED
          BY <1>19, <5>1
      <4>3. PICK k, g : k = c.key /\ g = c.got
        OBVIOUS
      <4>4. k <= g.version /\ g.version <= leaf.version
        BY <3>1, <4>1, <4>2, <4>3
      <4>5. e.key = k /\ e.value = g
        BY <4>1, <4>3
      <4> QED
        BY ONLY <4>4, <4>5
    <3>3. cache'["screens"] = e /\ cache'["replay"] = cache["replay"]
      BY <1>15, <2>3 DEF AllKinds
    <3> QED
      BY <2>1, <3>2, <3>3 DEF CachesInTime
  <2>4. CASE c.kind \notin {"replay", "screens"}
    <3>1. cache'["screens"] = cache["screens"] /\ cache'["replay"] = cache["replay"]
      BY <1>15, <2>4 DEF AllKinds
    <3> QED
      BY <2>1, <3>1 DEF CachesInTime
  <2> QED
    BY <2>2, <2>3, <2>4
<1>21. IsCall(d, nodes)
  <2>1. p \in Steps /\ p \notin {"edges", "keep edges"} /\ (p = "return" => ReadsAgain(c.kind))
    BY <1>4 DEF Steps
  <2> QED
    BY <1>6, <1>10, <1>12, <2>1 DEF IsCall
<1>22. KeyedInCall(d, leaf)
  BY <1>4, <1>10 DEF KeyedInCall
<1>23. BuiltInCall(d, cache')
  <2>1. d.kind \in TableKinds => TrueDuring(d)
    BY <1>10, <1>13 DEF TrueDuring
  <2>2. d.pc = "return" => c.kind \in {"kirchhoff", "screens"}
    BY <1>4, <1>10 DEF ReadsAgain
  <2>3. c.kind = "screens" => ScreensOfCall(d, d.got) /\ ScreensOfCall(d, cache'["screens"].value)
    BY <1>10, <1>15, <1>16, <2>1 DEF TrueDuring, ScreensOfCall, TableKinds
  <2> QED
    BY <1>4, <1>10, <1>15, <1>16, <2>1, <2>2, <2>3 DEF BuiltInCall, TableKinds
<1>24. CallStep(t, d)
  BY <1>8, Changed DEF IInv
<1>25. InFlight' \subseteq InFlight
  BY <1>1, <1>24 DEF CallStep
<1>26. TypeInv' /\ TimeInv'
  <2>1. ASSUME NEW u \in InFlight \ {t} PROVE BuiltInCall(call[u], cache')
    <3>1. ~call[u].alone
      BY <1>1, <2>1 DEF IInv, TimeInv
    <3>2. IsCall(call[u], nodes) /\ BuiltInCall(call[u], cache)
      BY <2>1, OwnCall
    <3>3. call[u].pc = "return" => call[u].kind \in {"kirchhoff", "screens"}
      BY <3>2 DEF IsCall, ReadsAgain
    <3>4. call[u].pc = "return" => cache'[call[u].kind] # None
      BY <1>15, <1>16, <3>2, <3>3 DEF BuiltInCall, AllKinds
    <3> QED
      BY <3>1, <3>2, <3>4 DEF BuiltInCall
  <2>2. /\ leaf' = leaf /\ nodes' \in Nat /\ nodes <= nodes' /\ freed' \subseteq 1..nodes'
        /\ CachesFit(cache', nodes') /\ EdgesFit(edges') /\ CachesInTime(cache', leaf)
    BY <1>7, <1>11, <1>18, <1>20 DEF IInv, TypeInv
  <2>3. /\ IsCall(d, nodes') /\ KeyedInCall(d, leaf) /\ BuiltInCall(d, cache')
        /\ d.during = call[t].during /\ d.alone = call[t].alone
    BY <1>2, <1>7, <1>10, <1>21, <1>22, <1>23
  <2> QED
    BY <1>1, <1>24, <2>1, <2>2, <2>3, TypeTimeStep
<1>27. NodeInv'
  <2>1. \A u \in Threads : Holding(u)' => Holding(u) /\ call'[u].kind = call[u].kind /\ call'[u].got = call[u].got
    BY <1>1, <1>2, <1>6, <1>10, <1>24, <1>25 DEF Holding, CallStep
  <2>2. ASSUME NEW u \in Threads, Holding(u)', call'[u].kind = "replay", call'[u].got.node # 0,
               cache'["kirchhoff"] # None
        PROVE  cache'["kirchhoff"].value.node # call'[u].got.node
    <3>1. OwnNode(u) /\ Holding(u) /\ call[u].kind = "replay" /\ call'[u].got = call[u].got
      BY <2>1, <2>2 DEF IInv, NodeInv
    <3>2. CASE c.kind = "kirchhoff"
      <4>1. cache'["kirchhoff"].value = c.got
        BY <1>15, <1>16, <3>2
      <4>2. t \in Threads \ {u} /\ Holding(t)
        BY <1>1, <1>2, <1>6, <3>1, <3>2 DEF Holding
      <4>3. call[t].got.node # call[u].got.node
        BY <1>2, <2>2, <3>1, <3>2, <4>2 DEF OwnNode
      <4> QED
        BY <1>2, <3>1, <4>1, <4>3
    <3>3. CASE c.kind # "kirchhoff"
      <4>1. cache'["kirchhoff"] = cache["kirchhoff"]
        BY <1>15, <3>3 DEF AllKinds
      <4> QED
        BY <2>2, <3>1, <4>1 DEF OwnNode
    <3> QED
      BY <3>2, <3>3
  <2>3. ASSUME NEW u \in Threads PROVE OwnNode(u)'
    BY <1>7, <2>1, <2>2 DEF IInv, NodeInv, OwnNode
  <2> QED
    BY <1>7, <2>3 DEF IInv, NodeInv
<1>28. EdgeInv'
  <2>1. \A u \in Threads : HeldBy(u)' => HeldBy(u) /\ call'[u].held = call[u].held
    BY <1>1, <1>2, <1>10, <1>24, <1>25 DEF HeldBy, CallStep
  <2>2. \A u \in InFlight' : call'[u].pc = "keep edges" =>
          u \in InFlight /\ call[u].pc = "keep edges" /\ call'[u].held = call[u].held
    BY <1>4, <1>10, <1>24, <1>25 DEF CallStep
  <2> QED
    BY <1>7, <2>1, <2>2, EdgesKept DEF IInv
<1>29. RoomInv'
  <2>1. Unbuilt' \subseteq Unbuilt
    BY <1>4, <1>10, <1>24, <1>25 DEF Unbuilt, CallStep, ToBuild
  <2> QED
    BY <1>7, <2>1, FewerUnbuilt DEF IInv, TypeInv
<1> QED
  BY <1>26, <1>27, <1>28, <1>29 DEF IInv

LEMMA BackwardStep ==
  ASSUME ConstantsAssumption, IInv, NEW t \in Threads, Backward(t)
  PROVE  IInv'
<1>1. t \in InFlight
  BY InFlightAt DEF Backward, Steps
<1>2. PICK c : c = call[t]
  OBVIOUS
<1>3. /\ c.pc = "served" /\ c.kind \in {"replay", "kirchhoff"} /\ c.got.node # 0
      /\ freed' = freed \cup {c.got.node}
      /\ refused' = IF c.got.node \in freed THEN refused \cup {c.kind} ELSE refused
      /\ call' = [call EXCEPT ![t] = Idle]
      /\ UNCHANGED <<leaf, cache, edges, nodes>>
  BY <1>2 DEF Backward
<1>4. CallStep(t, Idle)
  BY <1>3, Changed DEF IInv
<1>5. InFlight' \subseteq InFlight /\ t \notin InFlight'
  BY <1>1, <1>4 DEF CallStep
<1>6. Holding(t)
  BY <1>1, <1>2, <1>3 DEF Holding
<1>7. c.got.node \in 1..nodes
  <2>1. IsCall(c, nodes) /\ nodes \in Nat
    BY <1>1, <1>2, OwnCall DEF IInv, TypeInv
  <2>2. c.got \in [version : 0..MaxEdits, node : 0..nodes]
    BY <1>3, <2>1 DEF IsCall
  <2> QED
    BY <1>3, <2>1, <2>2
<1>8. TypeInv' /\ TimeInv'
  <2>1. \A u \in InFlight \ {t} : BuiltInCall(call[u], cache')
    BY <1>3, OwnCall
  <2>2. /\ leaf' = leaf /\ nodes' \in Nat /\ nodes <= nodes' /\ freed' \subseteq 1..nodes'
        /\ CachesFit(cache', nodes') /\ EdgesFit(edges') /\ CachesInTime(cache', leaf)
    BY <1>3, <1>7 DEF IInv, TypeInv, TimeInv
  <2> QED
    BY <1>1, <1>4, <2>1, <2>2, TypeTimeStep
<1>9. NodeInv'
  <2>1. "replay" \notin refused'
    <3>1. "replay" \notin refused /\ OwnNode(t)
      BY DEF IInv, NodeInv
    <3>2. CASE c.kind = "replay"
      <4>1. c.got.node \notin freed
        BY <1>2, <1>3, <1>6, <3>1, <3>2 DEF OwnNode
      <4> QED
        BY <1>3, <3>1, <4>1
    <3>3. CASE c.kind # "replay"
      BY <1>3, <3>1, <3>3
    <3> QED
      BY <3>2, <3>3
  <2>2. ASSUME NEW u \in Threads, Holding(u)'
        PROVE  u # t /\ Holding(u) /\ call'[u] = call[u]
    BY <1>4, <1>5, <2>2 DEF Holding, CallStep
  <2>3. ASSUME NEW u \in Threads PROVE OwnNode(u)'
    <3>1. OwnNode(u)
      BY DEF IInv, NodeInv
    <3>2. ASSUME Holding(u)', call'[u].kind = "replay", call'[u].got.node # 0
          PROVE  call'[u].got.node \notin freed'
      <4>1. u # t /\ Holding(u) /\ call'[u] = call[u]
        BY <2>2, <3>2
      <4>2. call[u].got.node \notin freed /\ call[t].got.node # call[u].got.node
        BY <1>2, <1>3, <1>6, <3>1, <3>2, <4>1 DEF OwnNode
      <4> QED
        BY <1>2, <1>3, <4>1, <4>2
    <3> QED
      BY <1>3, <2>2, <3>1, <3>2 DEF OwnNode
  <2> QED
    BY <2>1, <2>3 DEF NodeInv
<1>10. EdgeInv'
  <2>1. \A u \in Threads : HeldBy(u)' => HeldBy(u) /\ call'[u].held = call[u].held
    BY <1>4, <1>5 DEF HeldBy, CallStep
  <2>2. \A u \in InFlight' : call'[u].pc = "keep edges" =>
          u \in InFlight /\ call[u].pc = "keep edges" /\ call'[u].held = call[u].held
    BY <1>4, <1>5 DEF CallStep
  <2> QED
    BY <1>3, <2>1, <2>2, EdgesKept DEF IInv
<1>11. RoomInv'
  <2>1. Unbuilt' \subseteq Unbuilt
    BY <1>4, <1>5 DEF Unbuilt, CallStep
  <2> QED
    BY <1>3, <2>1, FewerUnbuilt DEF IInv, TypeInv
<1> QED
  BY <1>8, <1>9, <1>10, <1>11 DEF IInv

-----------------------------------------------------------------------------
(* The invariant, and what follows from it. *)

LEMMA InitIInv ==
  ASSUME ConstantsAssumption, Init
  PROVE  IInv
<1>1. InFlight = {} /\ \A t \in Threads : call[t] = Idle
  BY IdleIsIdle DEF Init, InFlight
<1>2. TypeInv
  <2>1. leaf \in Leaves /\ nodes \in Nat /\ freed \subseteq 1..nodes
    BY DEF Init, Leaves, ConstantsAssumption
  <2>2. CachesFit(cache, nodes) /\ EdgesFit(edges)
    BY DEF Init, CachesFit, EdgesFit, AllKinds
  <2> QED
    BY <1>1, <2>1, <2>2 DEF Init, TypeInv
<1>3. TimeInv
  BY <1>1 DEF Init, TimeInv, CachesInTime, AllKinds
<1>4. NodeInv
  BY <1>1 DEF Init, NodeInv, OwnNode, Holding
<1>5. EdgeInv
  BY <1>1 DEF Init, EdgeInv
<1>6. RoomInv
  <2>1. Unbuilt = {}
    BY <1>1 DEF Unbuilt
  <2> QED
    BY <2>1, FS_EmptySet DEF Init, RoomInv, ConstantsAssumption
<1> QED
  BY <1>2, <1>3, <1>4, <1>5, <1>6 DEF IInv

LEMMA NextIInv ==
  ASSUME ConstantsAssumption, IInv, [Next]_vars
  PROVE  IInv'
<1>1. CASE MarkLeaf \/ EditLeaf
  BY <1>1, MarkLeafStep, EditLeafStep
<1>2. ASSUME NEW t \in Threads, NEW k \in Kinds, NEW a \in Args(k), Begin(t, k, a) PROVE IInv'
  BY <1>2, BeginStep
<1>3. ASSUME NEW t \in Threads,
             \/ KeptEdges(t) \/ BuildEdges(t) \/ KeepEdges(t)
             \/ TakeKey(t) \/ LookUp(t) \/ Build(t) \/ BuildRaises(t)
             \/ Store(t) \/ Return(t) \/ Done(t) \/ Backward(t)
      PROVE  IInv'
  BY <1>3, KeptEdgesStep, BuildEdgesStep, KeepEdgesStep, TakeKeyStep, LookUpStep,
     BuildStep, EndStep, StoreStep, ReturnStep, BackwardStep
<1>4. CASE UNCHANGED vars
  <2>1. /\ leaf' = leaf /\ cache' = cache /\ edges' = edges /\ call' = call
        /\ freed' = freed /\ nodes' = nodes /\ refused' = refused
    BY <1>4 DEF vars
  <2>2. InFlight' = InFlight
    BY <2>1 DEF InFlight
  <2>3. TypeInv' /\ TimeInv'
    BY <2>1, <2>2 DEF IInv, TypeInv, TimeInv
  <2>4. NodeInv'
    BY <2>1, <2>2, NodesKept DEF IInv, Holding
  <2>5. EdgeInv'
    BY <2>1, <2>2, EdgesKept DEF IInv, HeldBy
  <2>6. RoomInv'
    BY <2>1, <2>2 DEF IInv, RoomInv, Unbuilt
  <2> QED
    BY <2>3, <2>4, <2>5, <2>6 DEF IInv
<1> QED
  BY <1>1, <1>2, <1>3, <1>4 DEF Next

\* The inductive invariant: what a call knows of its leaf, its key, its node
\* and its selection, for any number of threads.
THEOREM Inductive ==
  ASSUME ConstantsAssumption
  PROVE  Spec => []IInv
<1>1. Init => IInv
  BY InitIInv
<1>2. IInv /\ [Next]_vars => IInv'
  BY NextIInv
<1> QED
  BY <1>1, <1>2, PTL DEF Spec

LEMMA IInvTypes ==
  ASSUME ConstantsAssumption, IInv
  PROVE  TypeOK
<1>1. MaxNodes \in Nat /\ nodes \in 0..MaxNodes /\ freed \subseteq 1..nodes
  <2>1. IsFiniteSet(Unbuilt)
    BY FS_Subset DEF ConstantsAssumption, Unbuilt, InFlight
  <2>2. Cardinality(Unbuilt) \in Nat
    BY <2>1, FS_CardinalityType
  <2> QED
    BY <2>2 DEF IInv, TypeInv, RoomInv, ConstantsAssumption
<1>2. [version : 0..MaxEdits, node : 0..nodes] \subseteq Tables
  BY <1>1 DEF Tables
<1>3. CachesFit(cache, nodes)
  BY DEF IInv, TypeInv
<1>4. ASSUME NEW k \in AllKinds, cache[k] # None
      PROVE  CASE k \in TableKinds -> cache[k].value \in Tables
               [] k = "candidates" -> cache[k].key \in Addresses /\ cache[k].value \in Modes
  BY <1>2, <1>3, <1>4 DEF CachesFit, IsEntry, AllKinds, TableKinds
<1>5. \A t \in InFlight : call[t].pc \in Steps /\ call[t].kind \in Kinds
  BY OwnCall DEF IsCall
<1> QED
  BY <1>1, <1>4, <1>5 DEF IInv, TypeInv, EdgesFit, EdgeInv, TypeOK

\* Every cache holds whole entries of its kind, and the kept selections lie
\* apart, for any number of threads.
THEOREM TypeCorrect ==
  ASSUME ConstantsAssumption
  PROVE  Spec => []TypeOK
<1>1. IInv => TypeOK
  BY IInvTypes
<1> QED
  BY <1>1, Inductive, PTL

LEMMA IInvTables ==
  ASSUME IInv
  PROVE  ReplayIsCurrent /\ EveryReplayGoesBack /\ ScreensAreCurrentAlone
<1>1. ASSUME NEW t \in Threads, call[t].pc = "served"
      PROVE  BuiltInCall(call[t], cache)
  <2>1. t \in InFlight
    BY <1>1, InFlightAt DEF Steps
  <2> QED
    BY <2>1, OwnCall
<1>2. ReplayIsCurrent
  BY <1>1 DEF ReplayIsCurrent, Served, BuiltInCall
<1>3. ScreensAreCurrentAlone
  BY <1>1 DEF ScreensAreCurrentAlone, Served, BuiltInCall, ScreensOfCall
<1> QED
  BY <1>2, <1>3 DEF IInv, NodeInv, EveryReplayGoesBack

-----------------------------------------------------------------------------
(* The candidates of one caller. *)

LEMMA OneCall ==
  ASSUME OneThread, TypeInv, NEW t \in Threads, NEW d, call' = [call EXCEPT ![t] = d],
         d = Idle \/ Selected(d, edges'), FoundFor(cache', edges')
  PROVE  SelectionInv'
<1>1. CallStep(t, d)
  BY Changed
<1>2. ASSUME NEW u \in InFlight' PROVE Selected(call'[u], edges')
  BY <1>1, <1>2 DEF CallStep, OneThread
<1> QED
  BY <1>2 DEF SelectionInv

LEMMA SelectingStep ==
  ASSUME ConstantsAssumption, OneThread, IInv, SelectionInv, NEW t \in Threads,
         KeptEdges(t) \/ BuildEdges(t) \/ KeepEdges(t)
  PROVE  SelectionInv'
<1>1. call[t].pc \in {"edges", "keep edges"} /\ t \in InFlight
  BY InFlightAt DEF KeptEdges, BuildEdges, KeepEdges, Steps
<1>2. PICK c : c = call[t]
  OBVIOUS
<1>3. /\ IsCall(c, nodes) /\ Selected(c, edges) /\ FoundFor(cache, edges)
      /\ c.kind = "candidates" /\ c.arg \in Modes
  BY <1>1, <1>2, OwnCall DEF SelectionInv, IsCall
<1>4. c = [f \in Fields |-> c[f]]
  BY <1>3 DEF IsCall
<1>5. CASE KeptEdges(t)
  <2>1. PICK h : h = edges[c.arg]
    OBVIOUS
  <2>2. PICK d : d = [c EXCEPT !.held = h, !.pc = "key"]
    OBVIOUS
  <2>3. /\ call' = [call EXCEPT ![t] = d] /\ edges' = edges /\ cache' = cache
    BY <1>2, <1>5, <2>1, <2>2 DEF KeptEdges, IInv, TypeInv
  <2>4. d.pc = "key" /\ d.held = h /\ d.arg = c.arg
    BY <1>4, <2>2 DEF Fields
  <2>5. Selected(d, edges)
    BY <2>1, <2>4 DEF Selected
  <2> QED
    BY <1>3, <2>3, <2>5, OneCall DEF IInv
<1>6. CASE BuildEdges(t)
  <2>1. PICK a : call' = [call EXCEPT ![t].held = [addr |-> a, mode |-> call[t].arg], ![t].pc = "keep edges"]
    BY <1>6 DEF BuildEdges
  <2>2. PICK h : h = [addr |-> a, mode |-> c.arg]
    OBVIOUS
  <2>3. PICK d : d = [c EXCEPT !.held = h, !.pc = "keep edges"]
    OBVIOUS
  <2>4. /\ call' = [call EXCEPT ![t] = d] /\ edges' = edges /\ cache' = cache /\ edges[c.arg] = None
    BY <1>2, <1>6, <2>1, <2>2, <2>3 DEF BuildEdges, IInv, TypeInv
  <2>5. d.pc = "keep edges" /\ d.arg = c.arg
    BY <1>4, <2>3 DEF Fields
  <2>6. Selected(d, edges)
    BY <2>4, <2>5 DEF Selected
  <2> QED
    BY <1>3, <2>4, <2>6, OneCall DEF IInv
<1>7. CASE KeepEdges(t)
  <2>1. PICK d : d = [c EXCEPT !.pc = "key"]
    OBVIOUS
  <2>2. /\ call' = [call EXCEPT ![t] = d] /\ edges' = [edges EXCEPT ![c.arg] = c.held] /\ cache' = cache
        /\ c.pc = "keep edges"
    BY <1>2, <1>7, <2>1 DEF KeepEdges, IInv, TypeInv
  <2>3. d.pc = "key" /\ d.held = c.held /\ d.arg = c.arg
    BY <1>4, <2>1 DEF Fields
  <2>4. \A m \in Modes : edges'[m] = IF m = c.arg THEN c.held ELSE edges[m]
    BY <2>2 DEF IInv, TypeInv, EdgesFit
  <2>5. Selected(d, edges')
    BY <1>3, <2>3, <2>4 DEF Selected
  <2>6. FoundFor(cache, edges')
    <3>1. edges[c.arg] = None
      BY <1>3, <2>2 DEF Selected
    <3>2. cache["candidates"] # None => cache["candidates"].value \in Modes
      BY DEF IInv, TypeInv, CachesFit, IsEntry
    <3> QED
      BY <1>3, <2>4, <3>1, <3>2 DEF FoundFor
  <2> QED
    BY <2>2, <2>5, <2>6, OneCall DEF IInv
<1> QED
  BY <1>5, <1>6, <1>7

LEMMA LookingStep ==
  ASSUME ConstantsAssumption, OneThread, IInv, SelectionInv, NEW t \in Threads,
         TakeKey(t) \/ LookUp(t)
  PROVE  SelectionInv'
<1>1. call[t].pc \in {"key", "look"} /\ t \in InFlight
  BY InFlightAt DEF TakeKey, LookUp, Steps
<1>2. PICK c : c = call[t]
  OBVIOUS
<1>3. IsCall(c, nodes) /\ KeyedInCall(c, leaf) /\ Selected(c, edges) /\ FoundFor(cache, edges)
  BY <1>1, <1>2, OwnCall DEF SelectionInv
<1>4. c = [f \in Fields |-> c[f]]
  BY <1>3 DEF IsCall
<1>5. CASE TakeKey(t)
  <2>1. PICK k : k = KeyOf(c)
    OBVIOUS
  <2>2. PICK d : d = [c EXCEPT !.key = k, !.pc = "look"]
    OBVIOUS
  <2>3. call' = [call EXCEPT ![t] = d] /\ edges' = edges /\ cache' = cache /\ c.pc = "key"
    BY <1>2, <1>5, <2>1, <2>2 DEF TakeKey, IInv, TypeInv
  <2>4. d.pc = "look" /\ d.held = c.held /\ d.arg = c.arg /\ d.kind = c.kind
    BY <1>4, <2>2 DEF Fields
  <2>5. Selected(d, edges)
    BY <1>3, <2>3, <2>4 DEF Selected
  <2> QED
    BY <1>3, <2>3, <2>5, OneCall DEF IInv
<1>6. CASE LookUp(t)
  <2>1. PICK d : d = IF ~Hits(c) THEN [c EXCEPT !.pc = "build"]
                     ELSE IF ReadsAgain(c.kind) THEN [c EXCEPT !.pc = "return"]
                     ELSE [c EXCEPT !.got = cache[c.kind].value, !.pc = "served"]
    OBVIOUS
  <2>2. call' = [call EXCEPT ![t] = d] /\ edges' = edges /\ cache' = cache /\ c.pc = "look"
    BY <1>2, <1>6, <2>1 DEF LookUp
  <2>3. /\ d.held = c.held /\ d.arg = c.arg /\ d.kind = c.kind
        /\ \/ d.pc = "build"
           \/ d.pc = "return" /\ ReadsAgain(c.kind)
           \/ d.pc = "served" /\ Hits(c) /\ d.got = cache[c.kind].value
    BY <1>4, <2>1 DEF Fields
  <2>4. CASE c.kind = "candidates" /\ d.pc = "served"
    <3>1. /\ cache["candidates"] # None /\ cache["candidates"].key = c.key
          /\ d.got = cache["candidates"].value
      BY <2>3, <2>4 DEF Hits
    <3>2. c.key = c.held.addr /\ edges[c.arg] = c.held
      BY <1>3, <2>2, <2>4 DEF KeyedInCall, Selected
    <3>3. d.got \in Modes /\ edges[d.got] # None /\ edges[d.got].addr = c.held.addr
      BY <1>3, <3>1, <3>2 DEF FoundFor, IInv, TypeInv, CachesFit, IsEntry
    <3>4. c.arg \in Modes /\ c.held.mode = c.arg /\ c.held # None
      BY <1>3, <2>2, <2>4 DEF IsCall, Selections, None
    <3>5. d.got = c.arg
      BY <3>2, <3>3, <3>4 DEF IInv, EdgeInv
    <3>6. Selected(d, edges)
      BY <2>3, <2>4, <3>2, <3>4, <3>5 DEF Selected
    <3> QED
      BY <1>3, <2>2, <3>6, OneCall DEF IInv
  <2>5. CASE ~(c.kind = "candidates" /\ d.pc = "served")
    <3>1. Selected(d, edges)
      BY <1>3, <2>2, <2>3, <2>5 DEF Selected
    <3> QED
      BY <1>3, <2>2, <3>1, OneCall DEF IInv
  <2> QED
    BY <2>4, <2>5
<1> QED
  BY <1>5, <1>6

LEMMA KeepingStep ==
  ASSUME ConstantsAssumption, OneThread, IInv, SelectionInv, NEW t \in Threads,
         Build(t) \/ Store(t) \/ Return(t)
  PROVE  SelectionInv'
<1>1. call[t].pc \in {"build", "store", "return"} /\ t \in InFlight
  BY InFlightAt DEF Build, Store, Return, Steps
<1>2. PICK c : c = call[t]
  OBVIOUS
<1>3. IsCall(c, nodes) /\ KeyedInCall(c, leaf) /\ Selected(c, edges) /\ FoundFor(cache, edges)
  BY <1>1, <1>2, OwnCall DEF SelectionInv
<1>4. c = [f \in Fields |-> c[f]] /\ c.kind \in AllKinds
  BY <1>3 DEF IsCall, ConstantsAssumption
<1>5. CASE Build(t)
  <2>1. PICK g : g = Built(c)
    OBVIOUS
  <2>2. PICK d : d = [c EXCEPT !.got = g, !.pc = "store"]
    OBVIOUS
  <2>3. call' = [call EXCEPT ![t] = d] /\ edges' = edges /\ cache' = cache /\ c.pc = "build"
    BY <1>2, <1>5, <2>1, <2>2 DEF Build, IInv, TypeInv
  <2>4. d.pc = "store" /\ d.held = c.held /\ d.arg = c.arg /\ d.kind = c.kind /\ d.got = g
    BY <1>4, <2>2 DEF Fields
  <2>5. c.kind = "candidates" => g = c.held.mode
    BY <2>1 DEF Built, EdgeCandidates
  <2>6. Selected(d, edges)
    BY <1>3, <2>3, <2>4, <2>5 DEF Selected
  <2> QED
    BY <1>3, <2>3, <2>6, OneCall DEF IInv
<1>6. CASE Store(t)
  <2>1. PICK e : e = Entry(c)
    OBVIOUS
  <2>2. PICK p : p = IF ReadsAgain(c.kind) THEN "return" ELSE "served"
    OBVIOUS
  <2>3. PICK d : d = [c EXCEPT !.pc = p]
    OBVIOUS
  <2>4. /\ call' = [call EXCEPT ![t] = d] /\ edges' = edges /\ cache' = [cache EXCEPT ![c.kind] = e]
        /\ c.pc = "store"
    BY <1>2, <1>6, <2>1, <2>2, <2>3 DEF Store, IInv, TypeInv
  <2>5. d.pc = p /\ d.held = c.held /\ d.arg = c.arg /\ d.kind = c.kind /\ d.got = c.got
    BY <1>4, <2>3 DEF Fields
  <2>6. Selected(d, edges)
    BY <1>3, <2>2, <2>4, <2>5 DEF Selected
  <2>7. FoundFor(cache', edges)
    <3>1. CASE c.kind = "candidates"
      <4>1. PICK k, g : k = c.key /\ g = c.got
        OBVIOUS
      <4>2. e = [key |-> k, value |-> g] /\ cache'["candidates"] = e
        BY <1>4, <2>1, <2>4, <3>1, <4>1 DEF Entry, IInv, TypeInv, CachesFit
      <4>3. e.key = k /\ e.value = g
        BY <4>2
      <4>4. k = c.held.addr /\ g = c.held.mode /\ edges[c.arg] = c.held
        BY <1>3, <2>4, <3>1, <4>1 DEF KeyedInCall, Selected
      <4>5. c.held.mode = c.arg /\ c.held # None
        BY <1>3, <2>4, <3>1 DEF IsCall, Selections, None
      <4> QED
        BY <4>2, <4>3, <4>4, <4>5 DEF FoundFor
    <3>2. CASE c.kind # "candidates"
      <4>1. cache'["candidates"] = cache["candidates"]
        BY <1>4, <2>4, <3>2 DEF IInv, TypeInv, CachesFit, AllKinds
      <4> QED
        BY <1>3, <4>1 DEF FoundFor
    <3> QED
      BY <3>1, <3>2
  <2> QED
    BY <2>4, <2>6, <2>7, OneCall DEF IInv
<1>7. CASE Return(t)
  <2>1. PICK d : d = [c EXCEPT !.got = cache[c.kind].value, !.pc = "served"]
    OBVIOUS
  <2>2. call' = [call EXCEPT ![t] = d] /\ edges' = edges /\ cache' = cache /\ c.pc = "return"
    BY <1>2, <1>7, <2>1 DEF Return, IInv, TypeInv
  <2>3. d.kind = c.kind /\ c.kind # "candidates"
    BY <1>3, <1>4, <2>1, <2>2 DEF Fields, IsCall, ReadsAgain
  <2>4. Selected(d, edges)
    BY <2>3 DEF Selected
  <2> QED
    BY <1>3, <2>2, <2>4, OneCall DEF IInv
<1> QED
  BY <1>5, <1>6, <1>7

LEMMA NextSelectionInv ==
  ASSUME ConstantsAssumption, OneThread, IInv, SelectionInv, [Next]_vars
  PROVE  SelectionInv'
<1>1. FoundFor(cache, edges) /\ TypeInv
  BY DEF SelectionInv, IInv
<1>2. CASE MarkLeaf
  BY <1>2 DEF MarkLeaf, SelectionInv, InFlight
<1>3. CASE EditLeaf
  <2>1. edges' = edges /\ cache' = cache
    BY <1>3 DEF EditLeaf
  <2>2. ASSUME NEW t \in InFlight' PROVE Selected(call'[t], edges)
    <3>1. CASE t \in InFlight
      <4>1. PICK c, l : c = call[t] /\ l = leaf'
        OBVIOUS
      <4>2. PICK d : d = [c EXCEPT !.during = @ \cup {l}]
        OBVIOUS
      <4>3. call'[t] = d
        BY <1>3, <3>1, <4>1, <4>2 DEF EditLeaf, InFlight
      <4>4. Selected(c, edges) /\ c = [f \in Fields |-> c[f]]
        BY <3>1, <4>1, OwnCall DEF SelectionInv, IsCall
      <4>5. d.pc = c.pc /\ d.kind = c.kind /\ d.arg = c.arg /\ d.held = c.held /\ d.got = c.got
        BY <4>2, <4>4 DEF Fields
      <4> QED
        BY <4>3, <4>4, <4>5 DEF Selected
    <3>2. CASE t \notin InFlight
      BY <1>3, <2>2, <3>2 DEF EditLeaf, InFlight
    <3> QED
      BY <3>1, <3>2
  <2> QED
    BY <1>1, <2>1, <2>2 DEF SelectionInv
<1>4. ASSUME NEW t \in Threads, NEW k \in Kinds, NEW a \in Args(k), Begin(t, k, a)
      PROVE  SelectionInv'
  <2>1. edges' = edges /\ cache' = cache /\ call[t].pc = "idle"
    BY <1>4 DEF Begin
  <2>2. InFlight = {}
    BY <2>1 DEF InFlight, OneThread
  <2>3. call'[t].kind = "candidates" => call'[t].pc = "edges"
    BY <1>4, <2>2 DEF Begin
  <2>4. \A u \in InFlight' : Selected(call'[u], edges)
    BY <2>3 DEF Selected, InFlight, OneThread
  <2> QED
    BY <1>1, <2>1, <2>4 DEF SelectionInv
<1>5. ASSUME NEW t \in Threads, BuildRaises(t) \/ Done(t) \/ Backward(t)
      PROVE  SelectionInv'
  <2>1. call' = [call EXCEPT ![t] = Idle] /\ edges' = edges /\ cache' = cache
    BY <1>5 DEF BuildRaises, Done, Backward
  <2> QED
    BY <1>1, <2>1, OneCall
<1>6. CASE UNCHANGED vars
  BY <1>6 DEF vars, SelectionInv, InFlight
<1> QED
  BY <1>2, <1>3, <1>4, <1>5, <1>6, SelectingStep, LookingStep, KeepingStep DEF Next

LEMMA SelectedIsServed ==
  ASSUME SelectionInv
  PROVE  CandidatesMatchTheirSelection
BY InFlightAt DEF SelectionInv, Selected, CandidatesMatchTheirSelection, Served, Steps

\* What a cache hands out is what a fresh build would give, for any threads,
\* edits and addresses: replays current and on a graph of their own, screens
\* of a lone call current, and candidates those of their selection; for the
\* candidates, whose cache compares addresses only, with one caller.
THEOREM ResourcesCurrent ==
  ASSUME ConstantsAssumption, "candidates" \in Kinds => OneThread
  PROVE  Spec => []ResourcesAreCurrent
<1>1. IInv => ReplayIsCurrent /\ EveryReplayGoesBack /\ ScreensAreCurrentAlone
  BY IInvTables
<1>2. CASE "candidates" \notin Kinds
  <2>1. IInv => CandidatesMatchTheirSelection
    <3> SUFFICES ASSUME IInv, NEW t \in Threads, Served(t, "candidates") PROVE FALSE
      BY DEF CandidatesMatchTheirSelection
    <3>1. t \in InFlight /\ call[t].kind = "candidates"
      BY InFlightAt DEF Served, Steps
    <3> QED
      BY <1>2, <3>1, OwnCall DEF IsCall
  <2>2. IInv => ResourcesAreCurrent
    BY <1>1, <2>1 DEF ResourcesAreCurrent
  <2> QED
    BY <2>2, Inductive, PTL
<1>3. CASE OneThread
  <2>1. Init => SelectionInv
    BY IdleIsIdle DEF Init, SelectionInv, InFlight, FoundFor, AllKinds
  <2>2. IInv /\ SelectionInv /\ [Next]_vars => SelectionInv'
    BY <1>3, NextSelectionInv
  <2>3. IInv /\ SelectionInv => ResourcesAreCurrent
    BY <1>1, SelectedIsServed DEF ResourcesAreCurrent
  <2> QED
    BY <2>1, <2>2, <2>3, Inductive, PTL DEF Spec
<1> QED
  BY <1>2, <1>3
=============================================================================
