------------------------- MODULE SceneCompileProofs -------------------------
(***************************************************************************)
(* Proofs about SceneCompile, for any number of threads, worlds and edits. *)
(*                                                                         *)
(* The argument: the registry is a sequence over a CONSTANT set Entries of *)
(* sound entries, whose parts are at least as new as the versions in their *)
(* key and were built from the contents of their source.  A call carries   *)
(* the same facts about its label, and live objects have distinct          *)
(* addresses, so that equal addresses in a reuse mean equal objects.       *)
(***************************************************************************)
EXTENDS CompileRefinement, SequenceTheorems, FiniteSetTheorems, WellFoundedInduction, TLAPS

Revisions == 0..MaxEdits
Ids == (UNION {Range(Home[o]) : o \in Objects}) \cup {Unborn}

Store(p) == [by : Nat \ {0}, on : Nat, of : Worlds, saw : [Reads[p] -> Revisions], hertz : Nat]
AnyStore == [by : Nat \ {0}, on : Nat, of : Worlds,
             saw : UNION {[Reads[p] -> Revisions] : p \in Parts}, hertz : Nat]

Keys == [id : Ids, versions : Versions,
         frequency : [id : Ids, revision : Revisions, value : Nat]]

AskedSet == [world : Worlds, frequency : Frequencies, start : [Objects -> Revisions],
             hertz : Nat, serial : Nat \ {0}]

\* Store s is a part p of world w at versions v or newer.
Serves(s, p, w, v) ==
  /\ s \in Store(p)
  /\ \A d \in Reads[p] : Leaf[s.of][d] = Leaf[w][d] /\ s.saw[d] >= v[d].revision
  /\ p \in {"geometry", "assignments"} => StableIds[s.of] = StableIds[w]
  /\ p = "rayd" => Policy[s.of] = Policy[w]

\* The parts obtained so far index one another.
Fit(f) ==
  /\ f["geometry"] # NoStore =>
       /\ f["rayd"] # NoStore
       /\ f["geometry"].on = f["rayd"].by /\ f["geometry"].saw = f["rayd"].saw
  /\ f["diagonals"] # NoStore => f["rayd"] # NoStore /\ f["diagonals"].on = f["rayd"].by
  /\ f["assignments"] # NoStore =>
       f["geometry"] # NoStore /\ f["assignments"].on = f["geometry"].by

\* The versions in v are versions of world w.
VersionsOf(v, w) == \A d \in Domains : v[d].stamp = Stamp[Leaf[w][d]]

Scenes ==
  {s \in [source : Worlds, frequency : Frequencies, revision : Revisions,
          versions : Versions, stores : [Parts -> AnyStore], serial : Nat] :
     /\ \A p \in Parts : Serves(s.stores[p], p, s.source, s.versions)
     /\ Fit(s.stores)
     /\ VersionsOf(s.versions, s.source)}

Entries ==
  {e \in [key : Keys, scene : Scenes] :
     /\ e.key.versions = e.scene.versions
     /\ e.key.frequency.value = e.scene.stores["materials"].hertz}

TypeInv ==
  /\ rev \in [Objects -> Revisions]
  /\ addr \in [Objects -> Ids] /\ \A o \in Objects : addr[o] \in Range(Home[o]) \cup {Unborn}
  /\ held \subseteq Roots
  /\ registry \in Seq(Entries) /\ Len(registry) <= CacheLimit
  /\ pc \in [Threads -> Steps]
  /\ asked \in [Threads -> AskedSet \cup {None}]
  /\ label \in [Threads -> Keys \cup {None}]
  /\ seen \in [Threads -> [Spatial -> Revisions] \cup {None}]
  /\ stores \in [Threads -> [Parts -> AnyStore \cup {NoStore}]]
  /\ result \in [Threads -> Scenes \cup {None}]
  /\ calls \in 0..MaxCalls

\* A call that is under way: the world was no newer when it started.
RunningInv(t) ==
  /\ asked[t] \in AskedSet
  /\ \A o \in Objects : asked[t].start[o] <= rev[o]

\* The versions of a key lie between those at the start of the call and now.
LabelInv(t) ==
  LET w == asked[t].world IN
  /\ label[t] \in Keys
  /\ VersionsOf(label[t].versions, w)
  /\ label[t].frequency.value = asked[t].hertz
  /\ \A d \in Domains :
       /\ asked[t].start[Leaf[w][d]] <= label[t].versions[d].revision
       /\ label[t].versions[d].revision <= rev[Leaf[w][d]]

SeenInv(t) ==
  /\ seen[t] \in [Spatial -> Revisions]
  /\ \A d \in Spatial : label[t].versions[d].revision <= seen[t][d]

StoresInv(t) ==
  /\ \A p \in Parts : stores[t][p] # NoStore =>
       Serves(stores[t][p], p, asked[t].world, label[t].versions)
  /\ stores[t]["materials"] # NoStore => stores[t]["materials"].hertz = asked[t].hertz
  /\ Fit(stores[t])

\* What a caller gets.
DoneInv(t) ==
  LET w == asked[t].world
      s == result[t]
  IN /\ asked[t] \in AskedSet /\ s \in Scenes
     /\ s.source = w
     /\ s.stores["materials"].hertz = asked[t].hertz
     /\ \A d \in Domains : asked[t].start[Leaf[w][d]] <= s.versions[d].revision

OneCallInv(t) ==
  /\ pc[t] \in Running => RunningInv(t)
  /\ pc[t] \in Running \ {"begun"} => LabelInv(t)
  /\ pc[t] \in {"structured", "building"} => SeenInv(t)
  /\ pc[t] = "building" => StoresInv(t)
  /\ pc[t] = "done" => DoneInv(t)

CallInv == \A t \in Threads : OneCallInv(t)

\* Live objects have distinct addresses.
PinInv == \A o, u \in InUse : addr[o] = addr[u] => o = u

\* The id in a key is the address of the source, and in a label of the world.
KeyInv ==
  /\ \A i \in DOMAIN registry : registry[i].key.id = addr[registry[i].scene.source]
  /\ \A t \in Threads : pc[t] \in Running \ {"begun"} => label[t].id = addr[asked[t].world]

IInv == TypeInv /\ CallInv /\ PinInv /\ KeyInv

\* Entries whose key holds the address of their source and whose roots are
\* referenced already.
Live == {e \in Entries : /\ e.key.id = addr[e.scene.source]
                         /\ RootsOfScene(e.scene) \subseteq Referenced}

-----------------------------------------------------------------------------
\* A nonempty set of positions of a sequence has a last one.
LEMMA LastOf ==
  ASSUME NEW n \in Nat, NEW S \in SUBSET (1..n), S # {}
  PROVE  \E i \in S : \A j \in S : j <= i
<1> DEFINE After == {(i+1)..n : i \in S}
           B == 1..n
<1>1. After \subseteq FiniteSubsetsOf(B)
  <2>1. IsFiniteSet(B)
    BY FS_Interval
  <2>2. QED
    BY <2>1, FS_Subset DEF FiniteSubsetsOf
<1>2. PICK x \in After : \A y \in After : ~ (<<y, x>> \in StrictSubsetOrdering(B))
  <2>1. After # {}
    OBVIOUS
  <2>2. IsWellFoundedOn(StrictSubsetOrdering(B), FiniteSubsetsOf(B))
    BY FS_StrictSubsetOrderingWellFounded
  <2> HIDE DEF After, B
  <2>3. QED
    BY <1>1, <2>1, <2>2, WFMin
<1>3. PICK i \in S : x = (i+1)..n
  BY <1>2
<1>4. \A j \in S : j <= i
  <2> SUFFICES ASSUME NEW j \in S, j > i PROVE FALSE
    OBVIOUS
  <2>1. ((j+1)..n) \in SUBSET B /\ x \in SUBSET B
    BY <1>3
  <2>2. ((j+1)..n) \subseteq x /\ j \in x /\ j \notin ((j+1)..n)
    BY <1>3
  <2>3. <<((j+1)..n), x>> \in StrictSubsetOrdering(B)
    BY <2>1, <2>2 DEF StrictSubsetOrdering
  <2>4. QED
    BY <2>3, <1>2
<1>5. QED
  BY <1>3, <1>4

\* Removing an element leaves a shorter sequence over the same set.
LEMMA RemoveAtSeq ==
  ASSUME NEW S, NEW s \in Seq(S), NEW i \in 1..Len(s)
  PROVE  RemoveAt(s, i) \in Seq(S) /\ Len(RemoveAt(s, i)) = Len(s) - 1
<1>0. Len(s) \in Nat
  BY LenProperties
<1>1. SubSeq(s, 1, i - 1) \in Seq(S) /\ Len(SubSeq(s, 1, i - 1)) = i - 1
  BY <1>0, SubSeqProperties, ElementOfSeq
<1>2. SubSeq(s, i + 1, Len(s)) \in Seq(S) /\ Len(SubSeq(s, i + 1, Len(s))) = Len(s) - i
  BY <1>0, SubSeqProperties, ElementOfSeq
<1> DEFINE front == SubSeq(s, 1, i - 1)
           back == SubSeq(s, i + 1, Len(s))
<1>3. RemoveAt(s, i) = front \o back
  BY DEF RemoveAt
<1> HIDE DEF front, back
<1>4. front \o back \in Seq(S) /\ Len(front \o back) = Len(front) + Len(back)
  BY <1>1, <1>2, ConcatProperties DEF front, back
<1>5. Len(front) = i - 1 /\ Len(back) = Len(s) - i
  BY <1>1, <1>2 DEF front, back
<1>6. QED
  BY <1>0, <1>3, <1>4, <1>5

\* A get only reorders the registry.
LEMMA MoveToEndSeq ==
  ASSUME NEW S, registry \in Seq(S), NEW k
  PROVE  MoveToEnd(k) \in Seq(S) /\ Len(MoveToEnd(k)) = Len(registry)
<1>1. CASE Slots(k) = {}
  BY <1>1 DEF MoveToEnd
<1>2. CASE Slots(k) # {}
  <2> DEFINE i == CHOOSE j \in Slots(k) : TRUE
  <2>1. i \in 1..Len(registry) /\ Len(registry) \in Nat
    BY <1>2, LenProperties DEF Slots
  <2>2. RemoveAt(registry, i) \in Seq(S) /\ Len(RemoveAt(registry, i)) = Len(registry) - 1
    BY <2>1, RemoveAtSeq
  <2>3. registry[i] \in S
    BY <2>1, ElementOfSeq
  <2>4. MoveToEnd(k) = Append(RemoveAt(registry, i), registry[i])
    BY <1>2 DEF MoveToEnd
  <2> HIDE DEF i
  <2>5. QED
    BY <2>1, <2>2, <2>3, <2>4, AppendProperties
<1>3. QED
  BY <1>1, <1>2

\* A put adds the new entry and no other, and never exceeds the limit.
LEMMA StoredSeq ==
  ASSUME NEW S, registry \in Seq(S), NEW k, NEW s, [key |-> k, scene |-> s] \in S
  PROVE  /\ Stored(k, s) \in Seq(S)
         /\ Len(registry) <= CacheLimit => Len(Stored(k, s)) <= CacheLimit
<1> DEFINE i == CHOOSE j \in Slots(k) : TRUE
           others == IF Slots(k) = {} THEN registry ELSE RemoveAt(registry, i)
           all == Append(others, [key |-> k, scene |-> s])
<1>1. others \in Seq(S) /\ Len(registry) \in Nat /\ Len(others) <= Len(registry)
  <2>1. CASE Slots(k) = {}
    BY <2>1, LenProperties
  <2>2. CASE Slots(k) # {}
    <3>1. i \in 1..Len(registry) /\ Len(registry) \in Nat
      BY <2>2, LenProperties DEF Slots
    <3>2. QED
      BY <2>2, <3>1, RemoveAtSeq
  <2>3. QED
    BY <2>1, <2>2
<1>2. all \in Seq(S) /\ all # <<>> /\ Len(all) = Len(others) + 1 /\ Len(others) \in Nat
  <2> HIDE DEF others
  <2>1. QED
    BY <1>1, AppendProperties, LenProperties
<1>3. Stored(k, s) = IF Len(all) > CacheLimit THEN Tail(all) ELSE all
  BY DEF Stored
<1> HIDE DEF all, others
<1>4. Tail(all) \in Seq(S) /\ Len(Tail(all)) = Len(all) - 1
  BY <1>2, HeadTailProperties
<1>5. QED
  BY <1>1, <1>2, <1>3, <1>4, BoundsAssumption

\* A reuse yields nothing or the part of one of the candidates.
LEMMA ReuseFrom ==
  ASSUME registry \in Seq(Entries), NEW S \in SUBSET (DOMAIN registry), NEW p \in Parts,
         Reuse(S, p) # NoStore
  PROVE  \E i \in S : Reuse(S, p) = registry[i].scene.stores[p]
<1>1. S # {}
  BY DEF Reuse
<1>2. Len(registry) \in Nat /\ DOMAIN registry = 1..Len(registry)
  BY LenProperties
<1>3. \E i \in S : \A j \in S : j <= i
  BY <1>1, <1>2, LastOf
<1>4. QED
  BY <1>1, <1>3 DEF Reuse

-----------------------------------------------------------------------------
\* What a root refers to is in use.
LEMMA PartsInUse ==
  ASSUME NEW x \in Referenced
  PROVE  PartsOf(x) \subseteq InUse
BY DEF InUse

LEMMA SourceReferenced ==
  ASSUME NEW i \in DOMAIN registry
  PROVE  /\ registry[i].scene.source \in Referenced
         /\ RootsOfScene(registry[i].scene) \subseteq Referenced
BY DEF Referenced, RootsOfScene

LEMMA RunningReferenced ==
  ASSUME NEW t \in Threads, pc[t] \in Running
  PROVE  asked[t].world \in Referenced /\ {asked[t].frequency} \cap Tensors \subseteq Referenced
BY DEF Referenced

LEMMA ReadsDomains == \A p \in Parts : Reads[p] \subseteq Domains
BY DEF Reads, Parts, Domains, Spatial

LEMMA RegistryEntries ==
  ASSUME registry \in Seq(Entries), NEW i \in DOMAIN registry
  PROVE  /\ registry[i] \in Entries /\ registry[i].key \in Keys
         /\ registry[i].scene \in Scenes /\ registry[i].scene.source \in Worlds
BY ElementOfSeq, LenProperties DEF Entries, Scenes

LEMMA RootsAreObjects ==
  ASSUME IInv
  PROVE  Referenced \subseteq Roots /\ InUse \subseteq Objects
<1>1. \A i \in DOMAIN registry : registry[i].scene.source \in Worlds
  BY RegistryEntries DEF IInv, TypeInv
<1>2. \A t \in Threads : pc[t] \in Running => asked[t].world \in Worlds
  BY DEF IInv, CallInv, OneCallInv, RunningInv, AskedSet
<1>3. \A t \in Threads : pc[t] = "done" => result[t].source \in Worlds
  BY DEF IInv, CallInv, OneCallInv, DoneInv, Scenes
<1>4. Referenced \subseteq Roots
  BY <1>1, <1>2, <1>3 DEF Referenced, RootsOfScene, Roots, IInv, TypeInv
<1>5. \A x \in Roots : PartsOf(x) \subseteq Objects
  BY WorldsAssumption DEF Roots, PartsOf, Domains
<1>6. QED
  BY <1>4, <1>5 DEF InUse

\* Everything in the registry is live.
LEMMA RegistryLive ==
  ASSUME IInv
  PROVE  registry \in Seq(Live)
<1>1. Len(registry) \in Nat /\ registry \in [1..Len(registry) -> Entries]
        /\ DOMAIN registry = 1..Len(registry)
  BY LenProperties DEF IInv, TypeInv
<1>2. \A i \in 1..Len(registry) : registry[i] \in Live
  BY <1>1, SourceReferenced DEF Live, IInv, KeyInv
<1>3. registry \in [1..Len(registry) -> Live]
  BY <1>1, <1>2
<1>4. QED
  BY <1>1, <1>3, SeqDef

\* An action that takes up no new reference keeps addresses distinct.
LEMMA NoNewReference ==
  ASSUME IInv, addr' = addr, registry' \in Seq(Live), held' \subseteq Referenced,
         \A t \in Threads : pc'[t] \in Running =>
           asked'[t].world \in Referenced /\ {asked'[t].frequency} \cap Tensors \subseteq Referenced,
         \A t \in Threads : pc'[t] = "done" => RootsOfScene(result'[t]) \subseteq Referenced
  PROVE  /\ PinInv'
         /\ \A i \in DOMAIN registry' : registry'[i].key.id = addr'[registry'[i].scene.source]
<1>1. \A i \in DOMAIN registry' : registry'[i] \in Live
  BY LenProperties, ElementOfSeq
<1>2. \A i \in DOMAIN registry' : RootsOfScene(registry'[i].scene) \subseteq Referenced
  BY <1>1 DEF Live
<1>3. Referenced' \subseteq Referenced
  BY <1>2 DEF Referenced, RootsOfScene
<1>4. InUse' \subseteq InUse
  BY <1>3 DEF InUse
<1>5. PinInv'
  BY <1>4 DEF PinInv, IInv
<1>6. QED
  BY <1>1, <1>5 DEF Live

\* What a caller holds is referenced.
LEMMA ResultReferenced ==
  ASSUME NEW t \in Threads, pc[t] = "done"
  PROVE  RootsOfScene(result[t]) \subseteq Referenced
BY DEF Referenced

\* A call nobody touches keeps its invariant.
LEMMA Frame ==
  ASSUME NEW t \in Threads, OneCallInv(t),
         pc'[t] = pc[t], asked'[t] = asked[t], label'[t] = label[t], seen'[t] = seen[t],
         stores'[t] = stores[t], result'[t] = result[t], rev' = rev
  PROVE  OneCallInv(t)'
BY DEF OneCallInv, RunningInv, LabelInv, SeenInv, StoresInv, DoneInv

-----------------------------------------------------------------------------
LEMMA InitIInv == Init => IInv
<1> SUFFICES ASSUME Init PROVE IInv
  OBVIOUS
<1>1. TypeInv
  BY BoundsAssumption, EmptySeq
  DEF Init, TypeInv, Revisions, Ids, Steps, None, NoStores, NoStore
<1>2. CallInv
  BY DEF Init, CallInv, OneCallInv, Running, Steps
<1>3. PinInv
  BY DEF Init, PinInv, InUse, Referenced, Running, Steps
<1>4. KeyInv
  BY DEF Init, KeyInv, Running, Steps
<1>5. QED
  BY <1>1, <1>2, <1>3, <1>4 DEF IInv

\* Author gives fresh addresses to the new objects and leaves the calls alone.
LEMMA AuthorIInv ==
  ASSUME IInv, NEW x \in Roots, Author(x)
  PROVE  IInv'
<1> DEFINE new == PartsOf(x) \ InUse
<1>1. PICK pick \in [new -> UNION {DOMAIN Home[o] : o \in new}] :
        /\ \A o \in new : pick[o] \in DOMAIN Home[o] /\ \A u \in InUse : addr[u] # Home[o][pick[o]]
        /\ \A o, u \in new : Home[o][pick[o]] = Home[u][pick[u]] => o = u
        /\ addr' = [o \in Objects |-> IF o \in new THEN Home[o][pick[o]] ELSE addr[o]]
  BY DEF Author
<1>2. InUse \subseteq Objects /\ PartsOf(x) \subseteq Objects
  <2>1. PartsOf(x) \subseteq Objects
    BY WorldsAssumption DEF Roots, PartsOf, Domains
  <2>2. QED
    BY <2>1, RootsAreObjects
<1>3. TypeInv'
  <2>1. \A o \in Objects : addr'[o] \in Range(Home[o]) \cup {Unborn}
    BY <1>1 DEF IInv, TypeInv, Range
  <2>2. addr' \in [Objects -> Ids]
    BY <1>1, <2>1 DEF Ids
  <2>3. held' \subseteq Roots
    BY DEF Author, IInv, TypeInv
  <2>4. QED
    BY <2>1, <2>2, <2>3 DEF Author, IInv, TypeInv, locals
<1>4. CallInv'
  BY Frame DEF Author, IInv, CallInv, locals
<1>5. PinInv'
  <2>1. Referenced' = Referenced \cup {x}
    BY DEF Author, Referenced, locals
  <2>2. InUse' = InUse \cup PartsOf(x)
    BY <2>1 DEF InUse
  <2>3. QED
    BY <1>1, <1>2, <2>2 DEF PinInv, IInv
<1>6. KeyInv'
  <2>1. \A o \in InUse : addr'[o] = addr[o]
    BY <1>1, <1>2
  <2>2. \A i \in DOMAIN registry : registry[i].scene.source \in InUse
    BY RegistryEntries, SourceReferenced, PartsInUse DEF IInv, TypeInv, PartsOf
  <2>3. \A t \in Threads : pc[t] \in Running => asked[t].world \in InUse
    BY RunningReferenced, PartsInUse DEF IInv, CallInv, OneCallInv, RunningInv, AskedSet, PartsOf
  <2>4. QED
    BY <2>1, <2>2, <2>3 DEF Author, IInv, KeyInv, locals
<1>7. QED
  BY <1>3, <1>4, <1>5, <1>6 DEF IInv

\* Drop only gives references up.
LEMMA DropIInv ==
  ASSUME IInv, NEW x \in Roots, Drop(x)
  PROVE  IInv'
<1>1. TypeInv'
  BY DEF Drop, IInv, TypeInv, locals
<1>2. CallInv'
  BY Frame DEF Drop, IInv, CallInv, locals
<1>3. PinInv' /\ KeyInv'
  <2>1. held' \subseteq Referenced
    BY DEF Drop, Referenced
  <2>2. QED
    BY <2>1, NoNewReference, RegistryLive, RunningReferenced, ResultReferenced
    DEF Drop, locals, IInv, KeyInv
<1>4. QED
  BY <1>1, <1>2, <1>3 DEF IInv

\* An edit moves revisions forward, and only live calls compare with them.
LEMMA EditIInv ==
  ASSUME IInv, NEW o \in Objects, Edit(o)
  PROVE  IInv'
<1>1. rev' \in [Objects -> Revisions] /\ \A u \in Objects : rev[u] <= rev'[u]
  BY BoundsAssumption DEF Edit, IInv, TypeInv, Revisions
<1>2. TypeInv'
  BY <1>1 DEF Edit, IInv, TypeInv, locals
<1>3. CallInv'
  <2> SUFFICES ASSUME NEW t \in Threads PROVE OneCallInv(t)'
    BY DEF CallInv
  <2>1. OneCallInv(t) /\ UNCHANGED <<pc, asked, label, seen, stores, result>>
    BY DEF Edit, IInv, CallInv, locals
  <2>2. ASSUME RunningInv(t) PROVE RunningInv(t)'
    BY <1>1, <2>1, <2>2 DEF RunningInv, AskedSet, IInv, TypeInv, Revisions
  <2>3. ASSUME RunningInv(t), LabelInv(t) PROVE LabelInv(t)'
    <3>1. \A d \in Domains : Leaf[asked[t].world][d] \in Objects
      BY <2>3, WorldsAssumption DEF RunningInv, AskedSet
    <3>2. \A d \in Domains : label[t].versions[d].revision \in Revisions
      BY <2>3 DEF LabelInv, Keys, Versions, Revisions
    <3>3. \A d \in Domains : label[t].versions[d].revision <= rev'[Leaf[asked[t].world][d]]
      BY <1>1, <2>3, <3>1, <3>2 DEF LabelInv, IInv, TypeInv, Revisions
    <3>4. QED
      BY <2>1, <2>3, <3>3 DEF LabelInv
  <2>4. QED
    BY <2>1, <2>2, <2>3 DEF OneCallInv, SeenInv, StoresInv, DoneInv, Running
<1>4. PinInv' /\ KeyInv'
  <2>1. held' \subseteq Referenced
    BY DEF Edit, Referenced
  <2>2. QED
    BY <2>1, NoNewReference, RegistryLive, RunningReferenced, ResultReferenced
    DEF Edit, locals, IInv, KeyInv
<1>5. QED
  BY <1>2, <1>3, <1>4 DEF IInv

\* A call starts with the revisions of that moment.
LEMMA BeginIInv ==
  ASSUME IInv, NEW t \in Threads, NEW w \in Worlds, NEW f \in Frequencies, Begin(t, w, f)
  PROVE  IInv'
<1>1. calls + 1 \in Nat \ {0} /\ calls + 1 \in 0..MaxCalls /\ Value(f) \in Nat
  <2>1. f \in Tensors => rev[f] \in Nat
    BY WorldsAssumption DEF IInv, TypeInv, Revisions
  <2>2. Hertz[f] \in Nat
    BY WorldsAssumption
  <2>3. QED
    BY <2>1, <2>2, BoundsAssumption DEF Begin, IInv, TypeInv, Value
<1>2. asked'[t] = [world |-> w, frequency |-> f, start |-> rev, hertz |-> Value(f),
                   serial |-> calls + 1]
        /\ asked'[t] \in AskedSet /\ asked' \in [Threads -> AskedSet \cup {None}]
  BY <1>1 DEF Begin, IInv, TypeInv, AskedSet
<1>3. TypeInv'
  BY <1>1, <1>2 DEF Begin, IInv, TypeInv, Steps, outside
<1>4. CallInv'
  <2> SUFFICES ASSUME NEW u \in Threads PROVE OneCallInv(u)'
    BY DEF CallInv
  <2>1. CASE u # t
    BY <2>1, Frame DEF Begin, IInv, CallInv, TypeInv, outside
  <2>2. CASE u = t
    <3>1. pc'[t] = "begun"
      BY DEF Begin, IInv, TypeInv
    <3>2. RunningInv(t)'
      BY <1>2 DEF RunningInv, Begin, outside, IInv, TypeInv, Revisions
    <3>3. QED
      BY <2>2, <3>1, <3>2 DEF OneCallInv
  <2>3. QED
    BY <2>1, <2>2
<1>5. PinInv' /\ KeyInv'
  <2>1. held \subseteq Referenced /\ pc'[t] = "begun"
    BY DEF Begin, Referenced, IInv, TypeInv
  <2>2. \A u \in Threads : u # t =>
          /\ pc'[u] = pc[u] /\ asked'[u] = asked[u] /\ label'[u] = label[u]
          /\ result'[u] = result[u]
    BY DEF Begin, IInv, TypeInv
  <2>3. asked'[t].world \in Referenced /\ {asked'[t].frequency} \cap Tensors \subseteq Referenced
    BY <1>2, <2>1 DEF Begin
  <2>4. \A u \in Threads : pc'[u] \in Running =>
          asked'[u].world \in Referenced /\ {asked'[u].frequency} \cap Tensors \subseteq Referenced
    BY <2>2, <2>3, RunningReferenced
  <2>5. \A u \in Threads : pc'[u] = "done" => RootsOfScene(result'[u]) \subseteq Referenced
    BY <2>1, <2>2, ResultReferenced
  <2>6. PinInv' /\ \A i \in DOMAIN registry' :
          registry'[i].key.id = addr'[registry'[i].scene.source]
    BY <2>1, <2>4, <2>5, NoNewReference, RegistryLive DEF Begin, outside
  <2>7. \A u \in Threads : pc'[u] \in Running \ {"begun"} =>
          label'[u].id = addr'[asked'[u].world]
    BY <2>1, <2>2 DEF IInv, KeyInv, Begin, outside
  <2>8. QED
    BY <2>6, <2>7 DEF KeyInv
<1>6. QED
  BY <1>3, <1>4, <1>5 DEF IInv

-----------------------------------------------------------------------------
\* The steps of a call.

\* A step of call t leaves the other calls alone.
Alone(t) ==
  \A u \in Threads \ {t} :
    /\ pc'[u] = pc[u] /\ asked'[u] = asked[u] /\ label'[u] = label[u]
    /\ seen'[u] = seen[u] /\ stores'[u] = stores[u] /\ result'[u] = result[u]

LEMMA StepCallInv ==
  ASSUME IInv, NEW t \in Threads, Alone(t), rev' = rev, OneCallInv(t)'
  PROVE  CallInv'
<1> SUFFICES ASSUME NEW u \in Threads PROVE OneCallInv(u)'
  BY DEF CallInv
<1>1. CASE u # t
  BY <1>1, Frame DEF Alone, IInv, CallInv
<1>2. QED
  BY <1>1

\* A step of call t whose registry and result were live keeps addresses apart.
LEMMA StepPinInv ==
  ASSUME IInv, NEW t \in Threads, Alone(t), pc[t] \in Running,
         addr' = addr, held' = held, asked'[t] = asked[t], registry' \in Seq(Live),
         pc'[t] = "done" => RootsOfScene(result'[t]) \subseteq Referenced,
         pc'[t] \in Running \ {"begun"} => label'[t].id = addr[asked[t].world]
  PROVE  PinInv' /\ KeyInv'
<1>1. held' \subseteq Referenced
  BY DEF Referenced
<1>2. \A u \in Threads : pc'[u] \in Running =>
        asked'[u].world \in Referenced /\ {asked'[u].frequency} \cap Tensors \subseteq Referenced
  <2> SUFFICES ASSUME NEW u \in Threads, pc'[u] \in Running
               PROVE  /\ asked'[u].world \in Referenced
                      /\ {asked'[u].frequency} \cap Tensors \subseteq Referenced
    OBVIOUS
  <2>1. pc[u] \in Running /\ asked'[u] = asked[u]
    BY DEF Alone
  <2>2. QED
    BY <2>1, RunningReferenced
<1>3. \A u \in Threads : pc'[u] = "done" => RootsOfScene(result'[u]) \subseteq Referenced
  BY ResultReferenced DEF Alone
<1>4. PinInv' /\ \A i \in DOMAIN registry' :
        registry'[i].key.id = addr'[registry'[i].scene.source]
  BY <1>1, <1>2, <1>3, NoNewReference
<1>5. \A u \in Threads : pc'[u] \in Running \ {"begun"} => label'[u].id = addr'[asked'[u].world]
  BY DEF Alone, IInv, KeyInv
<1>6. QED
  BY <1>4, <1>5 DEF KeyInv

\* The key carries the address of the world and versions of this call.
LEMMA MakeKeyIInv ==
  ASSUME IInv, NEW t \in Threads, MakeKey(t)
  PROVE  IInv'
<1> DEFINE w == asked[t].world
           f == asked[t].frequency
<1>1. asked[t] \in AskedSet /\ \A o \in Objects : asked[t].start[o] <= rev[o]
  BY DEF MakeKey, IInv, CallInv, OneCallInv, RunningInv, Running, Steps
<1>2. PICK r \in [Domains -> 0..MaxEdits] :
        /\ \A d \in Domains : asked[t].start[Leaf[w][d]] <= r[d] /\ r[d] <= rev[Leaf[w][d]]
        /\ label' = [label EXCEPT ![t] =
             [id |-> addr[w],
              versions |-> [d \in Domains |-> [stamp |-> Stamp[Leaf[w][d]], revision |-> r[d]]],
              frequency |-> FrequencyIdentity(t)]]
  BY DEF MakeKey
<1>3. w \in Worlds /\ w \in Objects /\ \A d \in Domains : Leaf[w][d] \in Objects
  BY <1>1, WorldsAssumption DEF AskedSet
<1>4. FrequencyIdentity(t) \in [id : Ids, revision : Revisions, value : Nat]
        /\ FrequencyIdentity(t).value = asked[t].hertz
  BY <1>1, WorldsAssumption, BoundsAssumption
  DEF FrequencyIdentity, AskedSet, IInv, TypeInv, Ids, Revisions
<1>5. [d \in Domains |-> [stamp |-> Stamp[Leaf[w][d]], revision |-> r[d]]] \in Versions
  BY <1>2, <1>3 DEF Versions
<1>6. label'[t] = [id |-> addr[w],
                   versions |-> [d \in Domains |-> [stamp |-> Stamp[Leaf[w][d]], revision |-> r[d]]],
                   frequency |-> FrequencyIdentity(t)]
        /\ label'[t] \in Keys /\ label' \in [Threads -> Keys \cup {None}]
  BY <1>2, <1>3, <1>4, <1>5 DEF IInv, TypeInv, Keys
<1>7. pc' = [pc EXCEPT ![t] = "keyed"] /\ pc'[t] = "keyed" /\ pc[t] = "begun"
  BY DEF MakeKey, IInv, TypeInv
<1>8. Alone(t)
  BY <1>2, <1>7 DEF Alone, MakeKey, IInv, TypeInv
<1>9. TypeInv'
  BY <1>6, <1>7 DEF MakeKey, outside, IInv, TypeInv, Steps
<1>10. CallInv'
  <2>1. RunningInv(t)'
    BY <1>1 DEF RunningInv, MakeKey, outside
  <2>2. LabelInv(t)'
    BY <1>2, <1>4, <1>6 DEF LabelInv, MakeKey, outside, VersionsOf
  <2>3. OneCallInv(t)'
    BY <2>1, <2>2, <1>7 DEF OneCallInv
  <2>4. QED
    BY <2>3, <1>8, StepCallInv DEF MakeKey, outside
<1>11. PinInv' /\ KeyInv'
  <2>1. label'[t].id = addr[asked[t].world]
    BY <1>6
  <2>2. addr' = addr /\ held' = held /\ asked' = asked /\ registry' = registry
    BY DEF MakeKey, outside
  <2>3. QED
    BY <1>7, <1>8, <2>1, <2>2, StepPinInv, RegistryLive DEF Running, Steps
<1>12. QED
  BY <1>9, <1>10, <1>11 DEF IInv

\* A miss refreshes the key and goes on.
LEMMA MissIInv ==
  ASSUME IInv, NEW t \in Threads, Miss(t)
  PROVE  IInv'
<1>1. pc'[t] = "missed" /\ pc[t] = "keyed" /\ Alone(t)
  BY DEF Miss, Alone, locals, IInv, TypeInv
<1>2. registry' \in Seq(Entries) /\ Len(registry') <= CacheLimit
  BY MoveToEndSeq DEF Miss, IInv, TypeInv
<1>3. registry' \in Seq(Live)
  BY RegistryLive, MoveToEndSeq DEF Miss
<1>4. TypeInv'
  BY <1>2 DEF Miss, outside, locals, IInv, TypeInv, Steps
<1>5. CallInv'
  <2>1. OneCallInv(t)'
    BY <1>1 DEF Miss, outside, locals, IInv, CallInv, OneCallInv, RunningInv, LabelInv, Running, Steps
  <2>2. QED
    BY <1>1, <2>1, StepCallInv DEF Miss, outside
<1>6. PinInv' /\ KeyInv'
  BY <1>1, <1>3, StepPinInv DEF Miss, outside, locals, IInv, KeyInv, Running, Steps
<1>7. QED
  BY <1>4, <1>5, <1>6 DEF IInv

\* What _runtime_structures converts is no older than the versions in the key.
LEMMA ReadStructuresIInv ==
  ASSUME IInv, NEW t \in Threads, ReadStructures(t)
  PROVE  IInv'
<1>1. pc'[t] = "structured" /\ pc[t] = "missed" /\ Alone(t)
  BY DEF ReadStructures, Alone, IInv, TypeInv
<1>2. RunningInv(t) /\ LabelInv(t)
  BY <1>1 DEF IInv, CallInv, OneCallInv, Running, Steps
<1>3. \A d \in Spatial : Leaf[asked[t].world][d] \in Objects
  BY <1>2, WorldsAssumption DEF RunningInv, AskedSet, Spatial, Domains
<1>4. seen'[t] = [d \in Spatial |-> rev[Leaf[asked[t].world][d]]]
        /\ seen'[t] \in [Spatial -> Revisions]
        /\ seen' \in [Threads -> [Spatial -> Revisions] \cup {None}]
  BY <1>3 DEF ReadStructures, IInv, TypeInv
<1>5. TypeInv'
  BY <1>1, <1>4 DEF ReadStructures, outside, IInv, TypeInv, Steps
<1>6. CallInv'
  <2>1. RunningInv(t)' /\ LabelInv(t)'
    BY <1>2 DEF ReadStructures, outside, RunningInv, LabelInv
  <2>2. SeenInv(t)'
    BY <1>2, <1>4 DEF SeenInv, LabelInv, ReadStructures, Spatial, Domains
  <2>3. OneCallInv(t)'
    BY <2>1, <2>2, <1>1 DEF OneCallInv
  <2>4. QED
    BY <1>1, <2>3, StepCallInv DEF ReadStructures, outside
<1>7. PinInv' /\ KeyInv'
  BY <1>1, StepPinInv, RegistryLive DEF ReadStructures, outside, IInv, KeyInv, Running, Steps
<1>8. QED
  BY <1>5, <1>6, <1>7 DEF IInv

\* A call that ends keeps no label, and its result is live.
LEMMA LeavePinInv ==
  ASSUME IInv, NEW t \in Threads, NEW where \in {"idle", "done"}, Leave(t, where),
         pc[t] \in Running, rev' = rev, addr' = addr, held' = held, registry' \in Seq(Live),
         result' = [result EXCEPT ![t] = result'[t]],
         where = "done" => RootsOfScene(result'[t]) \subseteq Referenced
  PROVE  Alone(t) /\ pc'[t] = where /\ PinInv' /\ KeyInv'
<1>1. pc'[t] = where /\ asked' = asked
  BY DEF Leave, IInv, TypeInv
<1>2. Alone(t)
  BY DEF Leave, Alone, IInv, TypeInv
<1>3. QED
  BY <1>1, <1>2, StepPinInv DEF Running, Steps

\* A hit returns the runtime of the very world, built from versions that are
\* those of the label.
LEMMA HitIInv ==
  ASSUME IInv, NEW t \in Threads, Hit(t)
  PROVE  IInv'
<1>1. pc[t] = "keyed" /\ RunningInv(t) /\ LabelInv(t)
  BY DEF Hit, IInv, CallInv, OneCallInv, Running, Steps
<1>2. PICK i \in Slots(label[t]) :
        /\ registry[i].scene.source = asked[t].world
        /\ result' = [result EXCEPT ![t] = registry[i].scene]
  BY DEF Hit
<1>3. i \in DOMAIN registry /\ registry[i].key = label[t] /\ registry[i] \in Entries
  BY RegistryEntries DEF Slots, IInv, TypeInv
<1>4. result'[t] = registry[i].scene /\ result'[t] \in Scenes
        /\ result' \in [Threads -> Scenes \cup {None}]
  BY <1>2, <1>3 DEF IInv, TypeInv, Entries
<1>5. registry' \in Seq(Entries) /\ Len(registry') <= CacheLimit
  BY MoveToEndSeq DEF Hit, IInv, TypeInv
<1>6. registry' \in Seq(Live)
  BY RegistryLive, MoveToEndSeq DEF Hit
<1>7. Alone(t) /\ pc'[t] = "done" /\ PinInv' /\ KeyInv'
  <2>1. RootsOfScene(result'[t]) \subseteq Referenced
    BY <1>3, <1>4, SourceReferenced
  <2>2. Leave(t, "done") /\ rev' = rev /\ addr' = addr /\ held' = held
    BY DEF Hit, outside
  <2>3. result' = [result EXCEPT ![t] = result'[t]]
    BY <1>2, <1>4
  <2>4. QED
    BY <1>1, <1>6, <2>1, <2>2, <2>3, LeavePinInv DEF Running, Steps
<1>8. TypeInv'
  BY <1>4, <1>5 DEF Hit, Leave, outside, IInv, TypeInv, Steps, NoStores
<1>9. CallInv'
  <2>1. DoneInv(t)'
    BY <1>1, <1>2, <1>3, <1>4
    DEF DoneInv, RunningInv, LabelInv, Entries, Hit, Leave, outside
  <2>2. OneCallInv(t)'
    BY <1>7, <2>1 DEF OneCallInv, Running, Steps
  <2>3. QED
    BY <1>7, <2>2, StepCallInv DEF Hit, outside
<1>10. QED
  BY <1>7, <1>8, <1>9 DEF IInv

\* A call that raises leaves nothing behind.
LEMMA RaiseIInv ==
  ASSUME IInv, NEW t \in Threads, Raise(t)
  PROVE  IInv'
<1>1. pc[t] \in Running /\ Leave(t, "idle") /\ UNCHANGED <<rev, addr, held, registry, result, calls>>
  BY DEF Raise, Running, Steps, outside
<1>2. Alone(t) /\ pc'[t] = "idle" /\ PinInv' /\ KeyInv'
  BY <1>1, LeavePinInv, RegistryLive DEF IInv, TypeInv
<1>3. TypeInv'
  BY <1>1 DEF Leave, IInv, TypeInv, Steps, NoStores
<1>4. CallInv'
  BY <1>1, <1>2, StepCallInv DEF OneCallInv, Running, Steps
<1>5. QED
  BY <1>2, <1>3, <1>4 DEF IInv

\* A clear only gives references up.
LEMMA ClearIInv ==
  ASSUME IInv, Clear
  PROVE  IInv'
<1>1. registry' = <<>> /\ UNCHANGED <<rev, addr, held, pc, asked, label, seen, stores, result, calls>>
  BY DEF Clear, outside, locals
<1>2. registry' \in Seq(Entries) /\ registry' \in Seq(Live) /\ Len(registry') = 0
  BY <1>1, EmptySeq
<1>3. TypeInv'
  BY <1>1, <1>2, BoundsAssumption DEF IInv, TypeInv
<1>4. CallInv'
  BY <1>1, Frame DEF IInv, CallInv
<1>5. PinInv' /\ KeyInv'
  <2>1. held' \subseteq Referenced
    BY <1>1 DEF Referenced
  <2>2. QED
    BY <1>1, <1>2, <2>1, NoNewReference, RunningReferenced, ResultReferenced DEF IInv, KeyInv
<1>6. QED
  BY <1>3, <1>4, <1>5 DEF IInv

-----------------------------------------------------------------------------
\* Reuse.

LEMMA ServesIsStore ==
  \A s, p, w, v : Serves(s, p, w, v) => s # NoStore /\ s.by # 0 /\ s \in Store(p)
BY DEF Serves, Store, NoStore

\* Call t is about to decide its reuse.
Deciding(t) ==
  IInv /\ t \in Threads /\ pc[t] \in Running /\ RunningInv(t) /\ LabelInv(t)

\* Equal addresses of the leaves of a cached world and the asked one mean
\* equal leaves.
LEMMA SameLeafIsLeaf ==
  ASSUME NEW t, Deciding(t), NEW i \in DOMAIN registry, NEW d \in {"material", "assignment"},
         SameLeaf(registry[i].scene.source, asked[t].world, d)
  PROVE  Leaf[registry[i].scene.source][d] = Leaf[asked[t].world][d]
<1> DEFINE v == registry[i].scene.source
           w == asked[t].world
<1>1. v \in Worlds /\ w \in Worlds
  BY RegistryEntries DEF Deciding, IInv, TypeInv, RunningInv, AskedSet
<1>2. PartsOf(v) \subseteq InUse /\ PartsOf(w) \subseteq InUse
  BY SourceReferenced, RunningReferenced, PartsInUse DEF Deciding
<1>3. Leaf[v][d] \in InUse /\ Leaf[w][d] \in InUse
  BY <1>1, <1>2 DEF PartsOf
<1>4. QED
  BY <1>3 DEF SameLeaf, Deciding, IInv, PinInv

\* Equal addresses of the mesh inputs and equal versions mean one mesh.
LEMMA SameMeshIsMesh ==
  ASSUME NEW t, Deciding(t), NEW i \in DOMAIN registry,
         SameMeshInput(registry[i].scene.source, asked[t].world),
         Agree(registry[i].scene, t, Spatial)
  PROVE  \A d \in Spatial : Leaf[registry[i].scene.source][d] = Leaf[asked[t].world][d]
<1> DEFINE v == registry[i].scene.source
           w == asked[t].world
<1>1. v \in Worlds /\ w \in Worlds
  BY RegistryEntries DEF Deciding, IInv, TypeInv, RunningInv, AskedSet
<1>2. PartsOf(v) \subseteq InUse /\ PartsOf(w) \subseteq InUse
  BY SourceReferenced, RunningReferenced, PartsInUse DEF Deciding
<1>3. RayDInput[v] \in InUse /\ RayDInput[w] \in InUse
  BY <1>1, <1>2 DEF PartsOf
<1>4. RayDInput[v] = RayDInput[w]
  BY <1>3 DEF SameMeshInput, Deciding, IInv, PinInv
<1>5. VersionsOf(registry[i].scene.versions, v) /\ VersionsOf(label[t].versions, w)
  BY RegistryEntries DEF Deciding, IInv, TypeInv, LabelInv, Scenes
<1>6. \A d \in Spatial : Stamp[Leaf[v][d]] = Stamp[Leaf[w][d]]
  BY <1>5 DEF VersionsOf, Agree, Spatial, Domains
<1>7. QED
  BY <1>1, <1>4, <1>6, CoreVersionsAssumption

\* A cached part whose contents and versions agree serves the caller.
LEMMA AgreeServes ==
  ASSUME NEW t, Deciding(t), NEW i \in DOMAIN registry, NEW p \in Parts,
         Agree(registry[i].scene, t, Reads[p]),
         \A d \in Reads[p] : Leaf[registry[i].scene.source][d] = Leaf[asked[t].world][d],
         p \in {"geometry", "assignments"} =>
           StableIds[registry[i].scene.source] = StableIds[asked[t].world],
         p = "rayd" => Policy[registry[i].scene.source] = Policy[asked[t].world]
  PROVE  Serves(registry[i].scene.stores[p], p, asked[t].world, label[t].versions)
<1>1. Serves(registry[i].scene.stores[p], p, registry[i].scene.source, registry[i].scene.versions)
  BY RegistryEntries DEF Deciding, IInv, TypeInv, Scenes
<1>2. QED
  BY <1>1 DEF Serves, Agree

\* The RayD scene taken is one of the asked world.
LEMMA RayDReuseServes ==
  ASSUME NEW t, Deciding(t), RayDReuse(t) # NoStore
  PROVE  Serves(RayDReuse(t), "rayd", asked[t].world, label[t].versions)
<1> DEFINE S == {i \in DOMAIN registry : LET s == registry[i].scene IN
                   SameMeshInput(s.source, asked[t].world) /\ Agree(s, t, Spatial)}
<1>1. PICK i \in S : RayDReuse(t) = registry[i].scene.stores["rayd"]
  BY ReuseFrom DEF RayDReuse, Deciding, IInv, TypeInv, Parts
<1>2. Reads["rayd"] = Spatial
  BY DEF Reads, Parts
<1>3. QED
  BY <1>1, <1>2, SameMeshIsMesh, AgreeServes DEF SameMeshInput, Parts

\* The geometry store taken is one of the asked world and of the RayD scene.
LEMMA GeometryReuseServes ==
  ASSUME NEW t, Deciding(t), GeometryReuse(t) # NoStore
  PROVE  /\ Serves(GeometryReuse(t), "geometry", asked[t].world, label[t].versions)
         /\ RayDReuse(t) # NoStore
         /\ GeometryReuse(t).on = RayDReuse(t).by /\ GeometryReuse(t).saw = RayDReuse(t).saw
<1> DEFINE S == {i \in DOMAIN registry : LET s == registry[i].scene IN
                   /\ s.stores["rayd"] = RayDReuse(t)
                   /\ SameMeshInput(s.source, asked[t].world)
                   /\ StableIds[s.source] = StableIds[asked[t].world]
                   /\ Agree(s, t, Spatial)}
<1>1. PICK i \in S : GeometryReuse(t) = registry[i].scene.stores["geometry"]
  BY ReuseFrom DEF GeometryReuse, Deciding, IInv, TypeInv, Parts
<1>2. Reads["geometry"] = Spatial
  BY DEF Reads, Parts
<1>3. Serves(GeometryReuse(t), "geometry", asked[t].world, label[t].versions)
  BY <1>1, <1>2, SameMeshIsMesh, AgreeServes DEF Parts
<1>4. Fit(registry[i].scene.stores)
  BY RegistryEntries DEF Deciding, IInv, TypeInv, Scenes
<1>5. QED
  BY <1>1, <1>3, <1>4, ServesIsStore DEF Fit

\* The material store taken has the asked material inputs and frequency.
LEMMA MaterialsReuseServes ==
  ASSUME NEW t, Deciding(t), MaterialsReuse(t) # NoStore
  PROVE  /\ Serves(MaterialsReuse(t), "materials", asked[t].world, label[t].versions)
         /\ MaterialsReuse(t).hertz = asked[t].hertz
<1> DEFINE S == {i \in DOMAIN registry : LET s == registry[i].scene IN
                   /\ SameLeaf(s.source, asked[t].world, "material")
                   /\ Agree(s, t, {"material"})
                   /\ s.stores["materials"].hertz = asked[t].hertz}
<1>1. PICK i \in S : MaterialsReuse(t) = registry[i].scene.stores["materials"]
  BY ReuseFrom DEF MaterialsReuse, Deciding, IInv, TypeInv, Parts
<1>2. Reads["materials"] = {"material"}
  BY DEF Reads, Parts
<1>3. QED
  BY <1>1, <1>2, SameLeafIsLeaf, AgreeServes DEF Parts

\* The assignment store taken is one of the asked world and of the geometry
\* store, through which it has the asked topology.
LEMMA AssignmentsReuseServes ==
  ASSUME NEW t, Deciding(t), AssignmentsReuse(t) # NoStore
  PROVE  /\ Serves(AssignmentsReuse(t), "assignments", asked[t].world, label[t].versions)
         /\ GeometryReuse(t) # NoStore
         /\ AssignmentsReuse(t).on = GeometryReuse(t).by
<1> DEFINE S == {i \in DOMAIN registry : LET s == registry[i].scene IN
                   /\ s.stores["geometry"] = GeometryReuse(t)
                   /\ SameLeaf(s.source, asked[t].world, "assignment")
                   /\ StableIds[s.source] = StableIds[asked[t].world]
                   /\ Agree(s, t, {"topology", "assignment"})}
<1>1. PICK i \in S : AssignmentsReuse(t) = registry[i].scene.stores["assignments"]
  BY ReuseFrom DEF AssignmentsReuse, Deciding, IInv, TypeInv, Parts
<1>2. Reads["assignments"] = {"topology", "assignment"} /\ Reads["geometry"] = Spatial
  BY DEF Reads, Parts
<1>3. Serves(GeometryReuse(t), "geometry", registry[i].scene.source, registry[i].scene.versions)
        /\ Fit(registry[i].scene.stores)
  BY <1>1, RegistryEntries DEF Deciding, IInv, TypeInv, Scenes, Parts
<1>4. GeometryReuse(t) # NoStore
  BY <1>3, ServesIsStore
<1>5. Serves(GeometryReuse(t), "geometry", asked[t].world, label[t].versions)
  BY <1>4, GeometryReuseServes
<1>6. Leaf[registry[i].scene.source]["topology"] = Leaf[asked[t].world]["topology"]
  BY <1>2, <1>3, <1>5 DEF Serves, Spatial
<1>7. Leaf[registry[i].scene.source]["assignment"] = Leaf[asked[t].world]["assignment"]
  BY <1>1, SameLeafIsLeaf
<1>8. Serves(AssignmentsReuse(t), "assignments", asked[t].world, label[t].versions)
  BY <1>1, <1>2, <1>6, <1>7, AgreeServes DEF Parts
<1>9. QED
  BY <1>1, <1>3, <1>4, <1>8, ServesIsStore DEF Fit

\* The diagonals taken are those of the RayD scene.
LEMMA DiagonalsReuseServes ==
  ASSUME NEW t, Deciding(t), DiagonalsReuse(t) # NoStore
  PROVE  /\ Serves(DiagonalsReuse(t), "diagonals", asked[t].world, label[t].versions)
         /\ RayDReuse(t) # NoStore /\ DiagonalsReuse(t).on = RayDReuse(t).by
<1> DEFINE S == {i \in DOMAIN registry : LET s == registry[i].scene IN
                   s.stores["rayd"] = RayDReuse(t) /\ Agree(s, t, Spatial)}
<1>1. PICK i \in S : DiagonalsReuse(t) = registry[i].scene.stores["diagonals"]
  BY ReuseFrom DEF DiagonalsReuse, Deciding, IInv, TypeInv, Parts
<1>2. Reads["diagonals"] = Spatial /\ Reads["rayd"] = Spatial
  BY DEF Reads, Parts
<1>3. Serves(RayDReuse(t), "rayd", registry[i].scene.source, registry[i].scene.versions)
        /\ Fit(registry[i].scene.stores)
  BY <1>1, RegistryEntries DEF Deciding, IInv, TypeInv, Scenes, Parts
<1>4. RayDReuse(t) # NoStore
  BY <1>3, ServesIsStore
<1>5. Serves(RayDReuse(t), "rayd", asked[t].world, label[t].versions)
  BY <1>4, RayDReuseServes
<1>6. \A d \in Spatial : Leaf[registry[i].scene.source][d] = Leaf[asked[t].world][d]
  BY <1>2, <1>3, <1>5 DEF Serves
<1>7. Serves(DiagonalsReuse(t), "diagonals", asked[t].world, label[t].versions)
  BY <1>1, <1>2, <1>6, AgreeServes DEF Parts
<1>8. QED
  BY <1>1, <1>3, <1>4, <1>7, ServesIsStore DEF Fit

LEMMA StoreIsAnyStore == \A p \in Parts : Store(p) \subseteq AnyStore
BY DEF Store, AnyStore

\* Every part taken serves the caller, and the parts fit together.
LEMMA TakeCandidatesIInv ==
  ASSUME IInv, NEW t \in Threads, TakeCandidates(t)
  PROVE  IInv'
<1>1. pc[t] = "structured" /\ pc'[t] = "building" /\ Alone(t)
  BY DEF TakeCandidates, Alone, IInv, TypeInv
<1>2. RunningInv(t) /\ LabelInv(t) /\ SeenInv(t)
  BY <1>1 DEF IInv, CallInv, OneCallInv, Running, Steps
<1>3. Deciding(t)
  BY <1>1, <1>2 DEF Deciding, Running, Steps
<1> DEFINE taken == [p \in Parts |-> CASE p = "rayd"        -> RayDReuse(t)
                                       [] p = "geometry"    -> GeometryReuse(t)
                                       [] p = "materials"   -> MaterialsReuse(t)
                                       [] p = "assignments" -> AssignmentsReuse(t)
                                       [] p = "diagonals"   -> DiagonalsReuse(t)]
<1>4. /\ taken["rayd"] = RayDReuse(t) /\ taken["geometry"] = GeometryReuse(t)
      /\ taken["materials"] = MaterialsReuse(t) /\ taken["assignments"] = AssignmentsReuse(t)
      /\ taken["diagonals"] = DiagonalsReuse(t) /\ DOMAIN taken = Parts
      /\ taken = [p \in Parts |-> taken[p]]
  BY DEF Parts
<1>5. stores'[t] = taken /\ stores' = [stores EXCEPT ![t] = taken]
  BY DEF TakeCandidates, IInv, TypeInv
<1> HIDE DEF taken
<1>6. \A p \in Parts : taken[p] # NoStore =>
        Serves(taken[p], p, asked[t].world, label[t].versions)
  BY <1>3, <1>4, RayDReuseServes, GeometryReuseServes, MaterialsReuseServes,
     AssignmentsReuseServes, DiagonalsReuseServes DEF Parts
<1>7. taken \in [Parts -> AnyStore \cup {NoStore}]
  BY <1>4, <1>6, ServesIsStore, StoreIsAnyStore
<1>8. Fit(taken)
  BY <1>3, <1>4, GeometryReuseServes, AssignmentsReuseServes, DiagonalsReuseServes DEF Fit
<1>9. TypeInv'
  BY <1>1, <1>5, <1>7 DEF TakeCandidates, outside, IInv, TypeInv, Steps
<1>10. CallInv'
  <2>1. UNCHANGED <<rev, asked, label, seen>>
    BY DEF TakeCandidates, outside
  <2>2. RunningInv(t)' /\ LabelInv(t)' /\ SeenInv(t)'
    BY <1>2, <2>1 DEF RunningInv, LabelInv, SeenInv
  <2>3. taken["materials"] # NoStore => taken["materials"].hertz = asked[t].hertz
    BY <1>3, <1>4, MaterialsReuseServes
  <2>4. StoresInv(t)'
    BY <1>5, <1>6, <1>8, <2>1, <2>3 DEF StoresInv
  <2>5. OneCallInv(t)'
    BY <1>1, <2>2, <2>4 DEF OneCallInv
  <2>6. QED
    BY <1>1, <2>1, <2>5, StepCallInv
<1>11. PinInv' /\ KeyInv'
  BY <1>1, StepPinInv, RegistryLive DEF TakeCandidates, outside, IInv, KeyInv, Running, Steps
<1>12. QED
  BY <1>9, <1>10, <1>11 DEF IInv

\* A part is built only after those it is built against.
LEMMA BuiltInOrder ==
  ASSUME NEW t, NEW p \in Parts, NextPart(t, p)
  PROVE  /\ stores[t][p] = NoStore
         /\ p # "rayd" => stores[t]["rayd"] # NoStore
         /\ p \in {"assignments", "diagonals"} => stores[t]["geometry"] # NoStore
<1>1. DOMAIN BuildOrder = 1..5
  BY DEF BuildOrder
<1>2. BuildOrder[1] = "rayd" /\ BuildOrder[2] = "geometry" /\ BuildOrder[3] = "materials"
        /\ BuildOrder[4] = "assignments" /\ BuildOrder[5] = "diagonals"
  BY DEF BuildOrder
<1>3. QED
  BY <1>1, <1>2 DEF NextPart, Pending, Parts

\* A part built now is of the asked world and sees no older revisions than
\* the versions in the key.
LEMMA BuildIInv ==
  ASSUME IInv, NEW t \in Threads, NEW p \in Parts, Build(t, p)
  PROVE  IInv'
<1> DEFINE w == asked[t].world
           v == label[t].versions
<1>1. pc[t] = "building" /\ pc' = pc /\ NextPart(t, p)
        /\ UNCHANGED <<rev, addr, held, registry, asked, label, seen, result, calls>>
  BY DEF Build, outside
<1>2. RunningInv(t) /\ LabelInv(t) /\ SeenInv(t) /\ StoresInv(t)
  BY <1>1 DEF IInv, CallInv, OneCallInv, Running, Steps
<1>3. PICK saw \in [Reads[p] -> 0..MaxEdits] :
        /\ \A d \in Reads[p] : saw[d] \in SeenBy(t, p, d)
        /\ stores' = [stores EXCEPT ![t][p] =
             [by |-> asked[t].serial, on |-> Base(t, p), of |-> asked[t].world, saw |-> saw,
              hertz |-> IF p = "materials" THEN asked[t].hertz ELSE 0]]
  BY DEF Build
<1> DEFINE new == [by |-> asked[t].serial, on |-> Base(t, p), of |-> asked[t].world, saw |-> saw,
                   hertz |-> IF p = "materials" THEN asked[t].hertz ELSE 0]
<1>4. stores'[t] = [stores[t] EXCEPT ![p] = new]
        /\ stores' = [stores EXCEPT ![t] = [stores[t] EXCEPT ![p] = new]]
        /\ stores[t] \in [Parts -> AnyStore \cup {NoStore}]
  BY <1>3 DEF IInv, TypeInv
<1>5. asked[t] \in AskedSet /\ w \in Worlds /\ asked[t].serial \in Nat \ {0} /\ asked[t].hertz \in Nat
  BY <1>2 DEF RunningInv, AskedSet
<1>6. Base(t, p) \in Nat
  <2>1. \A q \in Parts : stores[t][q].by \in Nat
    BY <1>4 DEF AnyStore, NoStore
  <2>2. QED
    BY <2>1 DEF Base, Parts
<1>7. new \in Store(p)
  BY <1>3, <1>5, <1>6 DEF Store, Revisions
<1>8. \A d \in Reads[p] : v[d].revision <= saw[d]
  <2> SUFFICES ASSUME NEW d \in Reads[p] PROVE v[d].revision <= saw[d]
    OBVIOUS
  <2>1. d \in Domains /\ v[d].revision <= rev[Leaf[w][d]]
    BY <1>2, ReadsDomains DEF LabelInv
  <2>2. saw[d] \in SeenBy(t, p, d)
    BY <1>3
  <2>3. CASE p = "geometry"
    <3>1. Serves(stores[t]["rayd"], "rayd", w, v)
      BY <1>1, <1>2, <2>3, BuiltInOrder DEF StoresInv, Parts
    <3>2. Reads["rayd"] = Spatial /\ Reads["geometry"] = Spatial
      BY DEF Reads, Parts
    <3>3. saw[d] = stores[t]["rayd"].saw[d] /\ d \in Reads["rayd"]
      BY <2>2, <2>3, <3>2 DEF SeenBy
    <3>4. stores[t]["rayd"].saw \in [Spatial -> Revisions] /\ v[d].revision \in Revisions
      BY <1>2, <2>1, <3>1, <3>2 DEF Serves, Store, LabelInv, Keys, Versions, Revisions
    <3>5. stores[t]["rayd"].saw[d] >= v[d].revision
      BY <3>1, <3>3 DEF Serves
    <3>6. QED
      BY <3>2, <3>3, <3>4, <3>5, BoundsAssumption DEF Revisions
  <2>4. CASE p # "geometry" /\ d \in Spatial
    BY <1>2, <2>1, <2>2, <2>4 DEF SeenBy, SeenInv
  <2>5. CASE p # "geometry" /\ d \notin Spatial
    BY <2>1, <2>2, <2>5 DEF SeenBy
  <2>6. QED
    BY <2>3, <2>4, <2>5
<1>9. Serves(new, p, w, v)
  <2>1. \A d \in Reads[p] : saw[d] \in Nat /\ v[d].revision \in Nat
    BY <1>2, <1>3, ReadsDomains, BoundsAssumption DEF LabelInv, Keys, Versions
  <2>2. QED
    BY <1>7, <1>8, <2>1 DEF Serves
<1>10. Alone(t)
  BY <1>1, <1>4 DEF Alone, IInv, TypeInv
<1>11. TypeInv'
  <2>1. new \in AnyStore
    BY <1>7, StoreIsAnyStore
  <2> HIDE DEF new
  <2>2. stores' \in [Threads -> [Parts -> AnyStore \cup {NoStore}]]
    BY <1>4, <2>1 DEF IInv, TypeInv
  <2>3. QED
    BY <1>1, <2>2 DEF IInv, TypeInv
<1>12. StoresInv(t)'
  <2>1. \A q \in Parts : stores'[t][q] = IF q = p THEN new ELSE stores[t][q]
    BY <1>4
  <2>2. new # NoStore /\ new.on = Base(t, p) /\ new.saw = saw
          /\ (p = "materials" => new.hertz = asked[t].hertz)
    BY <1>9, ServesIsStore
  <2>3. p = "geometry" => saw = stores[t]["rayd"].saw
    <3> SUFFICES ASSUME p = "geometry" PROVE saw = stores[t]["rayd"].saw
      OBVIOUS
    <3>1. stores[t]["rayd"] \in Store("rayd")
      BY <1>1, <1>2, BuiltInOrder DEF StoresInv, Serves, Parts
    <3>2. Reads["rayd"] = Spatial /\ Reads["geometry"] = Spatial
      BY DEF Reads, Parts
    <3>3. \A d \in Spatial : saw[d] = stores[t]["rayd"].saw[d]
      BY <1>3, <3>2 DEF SeenBy
    <3>4. QED
      BY <1>3, <3>1, <3>2, <3>3 DEF Store
  <2> HIDE DEF new
  <2>4. Fit(stores'[t])
    BY <1>1, <1>2, <2>1, <2>2, <2>3, BuiltInOrder DEF Fit, StoresInv, Base, Parts
  <2>5. \A q \in Parts : stores'[t][q] # NoStore => Serves(stores'[t][q], q, w, v)
    BY <1>2, <1>9, <2>1 DEF StoresInv
  <2>6. stores'[t]["materials"] # NoStore => stores'[t]["materials"].hertz = asked[t].hertz
    BY <1>2, <2>1, <2>2 DEF StoresInv, Parts
  <2>7. QED
    BY <1>1, <2>4, <2>5, <2>6 DEF StoresInv
<1>13. CallInv'
  <2>1. RunningInv(t)' /\ LabelInv(t)' /\ SeenInv(t)'
    BY <1>1, <1>2 DEF RunningInv, LabelInv, SeenInv
  <2>2. OneCallInv(t)'
    BY <1>1, <1>12, <2>1 DEF OneCallInv
  <2>3. QED
    BY <1>1, <1>10, <2>2, StepCallInv
<1>14. PinInv' /\ KeyInv'
  BY <1>1, <1>10, StepPinInv, RegistryLive DEF IInv, KeyInv, Running, Steps
<1>15. QED
  BY <1>11, <1>13, <1>14 DEF IInv

\* What is assembled once no part is pending is a sound, live entry.
LEMMA AssembledIsSound ==
  ASSUME IInv, NEW t \in Threads, pc[t] = "building", Pending(t) = {}
  PROVE  /\ Assembled(t) \in Scenes
         /\ [key |-> label[t], scene |-> Assembled(t)] \in Live
         /\ RootsOfScene(Assembled(t)) \subseteq Referenced
<1> DEFINE w == asked[t].world
           f == asked[t].frequency
           a == Assembled(t)
<1>1. RunningInv(t) /\ LabelInv(t) /\ StoresInv(t) /\ label[t].id = addr[w]
  BY DEF IInv, CallInv, OneCallInv, KeyInv, Running, Steps
<1>2. \A p \in Parts : stores[t][p] # NoStore
  <2>1. DOMAIN BuildOrder = 1..5
    BY DEF BuildOrder
  <2>2. BuildOrder[1] = "rayd" /\ BuildOrder[2] = "geometry" /\ BuildOrder[3] = "materials"
          /\ BuildOrder[4] = "assignments" /\ BuildOrder[5] = "diagonals"
    BY DEF BuildOrder
  <2>3. QED
    BY <2>1, <2>2 DEF Pending, Parts
<1>3. a.source = w /\ a.frequency = f /\ a.versions = label[t].versions /\ a.stores = stores[t]
        /\ a.serial = asked[t].serial /\ a.revision = IF f \in Tensors THEN rev[f] ELSE 0
  BY DEF Assembled
<1>4. asked[t] \in AskedSet /\ w \in Worlds /\ f \in Frequencies /\ asked[t].serial \in Nat
  BY <1>1 DEF RunningInv, AskedSet
<1>5. stores[t] \in [Parts -> AnyStore]
  BY <1>2 DEF IInv, TypeInv
<1>6. (IF f \in Tensors THEN rev[f] ELSE 0) \in Revisions
  BY BoundsAssumption, WorldsAssumption DEF IInv, TypeInv, Revisions
<1>7. label[t] \in Keys /\ label[t].versions \in Versions
  BY <1>1 DEF LabelInv, Keys
<1>8. a \in [source : Worlds, frequency : Frequencies, revision : Revisions,
             versions : Versions, stores : [Parts -> AnyStore], serial : Nat]
  BY <1>4, <1>5, <1>6, <1>7 DEF Assembled
<1>9. \A p \in Parts : Serves(a.stores[p], p, a.source, a.versions)
  BY <1>1, <1>2, <1>3 DEF StoresInv
<1>10. Fit(a.stores) /\ VersionsOf(a.versions, a.source)
  BY <1>1, <1>3 DEF StoresInv, LabelInv
<1>11. a \in Scenes
  BY <1>8, <1>9, <1>10 DEF Scenes
<1>12. a.stores["materials"].hertz = label[t].frequency.value
  BY <1>1, <1>2, <1>3 DEF StoresInv, LabelInv, Parts
<1>13. [key |-> label[t], scene |-> a] \in Entries
  BY <1>3, <1>7, <1>11, <1>12 DEF Entries
<1>14. RootsOfScene(a) \subseteq Referenced
  BY <1>3, RunningReferenced DEF RootsOfScene, Running, Steps
<1>15. QED
  BY <1>1, <1>3, <1>11, <1>13, <1>14 DEF Live

LEMMA PutIInv ==
  ASSUME IInv, NEW t \in Threads, Put(t)
  PROVE  IInv'
<1> DEFINE a == Assembled(t)
<1>1. pc[t] = "building" /\ Leave(t, "done") /\ UNCHANGED <<rev, addr, held, calls>>
        /\ registry' = Stored(label[t], a) /\ result' = [result EXCEPT ![t] = a]
        /\ Pending(t) = {}
  BY DEF Put, outside
<1>2. a \in Scenes /\ [key |-> label[t], scene |-> a] \in Live
        /\ RootsOfScene(a) \subseteq Referenced
  BY <1>1, AssembledIsSound
<1>3. RunningInv(t) /\ LabelInv(t) /\ StoresInv(t)
  BY <1>1 DEF IInv, CallInv, OneCallInv, Running, Steps
<1> HIDE DEF a
<1>4. registry' \in Seq(Entries) /\ Len(registry') <= CacheLimit
  BY <1>1, <1>2, StoredSeq DEF IInv, TypeInv, Live
<1>5. registry' \in Seq(Live)
  BY <1>1, <1>2, RegistryLive, StoredSeq
<1>6. result'[t] = a
  BY <1>1 DEF IInv, TypeInv
<1>7. Alone(t) /\ pc'[t] = "done" /\ PinInv' /\ KeyInv'
  BY <1>1, <1>2, <1>5, <1>6, LeavePinInv DEF Running, Steps
<1>8. TypeInv'
  BY <1>1, <1>2, <1>4 DEF Leave, IInv, TypeInv, Steps, NoStores
<1>9. CallInv'
  <2>1. a.source = asked[t].world /\ a.versions = label[t].versions /\ a.stores = stores[t]
    BY DEF a, Assembled
  <2>2. stores[t]["materials"].hertz = asked[t].hertz
    <3>1. stores[t]["materials"] # NoStore
      BY <1>1, <1>2, <2>1, ServesIsStore DEF Scenes, Parts
    <3>2. QED
      BY <1>3, <3>1 DEF StoresInv
  <2>3. asked' = asked
    BY <1>1 DEF Leave
  <2>4. DoneInv(t)'
    BY <1>2, <1>3, <1>6, <2>1, <2>2, <2>3 DEF DoneInv, RunningInv, LabelInv
  <2>5. OneCallInv(t)'
    BY <1>7, <2>4 DEF OneCallInv, Running, Steps
  <2>6. QED
    BY <1>1, <1>7, <2>5, StepCallInv
<1>10. QED
  BY <1>7, <1>8, <1>9 DEF IInv

-----------------------------------------------------------------------------
\* The theorems.

\* Every reachable state satisfies the inductive invariant: what the registry
\* and the calls hold is sound, whatever the interleaving of calls, edits and
\* reused addresses.
THEOREM Inductive == Spec => []IInv
<1>1. IInv /\ [Next]_vars => IInv'
  <2> SUFFICES ASSUME IInv, [Next]_vars PROVE IInv'
    OBVIOUS
  <2>1. CASE UNCHANGED vars
    <3>1. UNCHANGED <<rev, addr, held, registry, pc, asked, label, seen, stores, result, calls>>
      BY <2>1 DEF vars
    <3>2. TypeInv'
      BY <3>1 DEF IInv, TypeInv
    <3>3. CallInv'
      BY <3>1, Frame DEF IInv, CallInv
    <3>4. PinInv' /\ KeyInv'
      BY <3>1 DEF IInv, PinInv, KeyInv, InUse, Referenced
    <3>5. QED
      BY <3>2, <3>3, <3>4 DEF IInv
  <2>2. ASSUME NEW x \in Roots, Author(x) \/ Drop(x) PROVE IInv'
    BY <2>2, AuthorIInv, DropIInv
  <2>3. ASSUME NEW o \in Objects, Edit(o) PROVE IInv'
    BY <2>3, EditIInv
  <2>4. ASSUME NEW t \in Threads, NEW w \in Worlds, NEW f \in Frequencies, Begin(t, w, f)
        PROVE IInv'
    BY <2>4, BeginIInv
  <2>5. ASSUME NEW t \in Threads, Step(t) PROVE IInv'
    <3>1. CASE MakeKey(t)
      BY <3>1, MakeKeyIInv
    <3>2. CASE Hit(t)
      BY <3>2, HitIInv
    <3>3. CASE Miss(t)
      BY <3>3, MissIInv
    <3>4. CASE ReadStructures(t)
      BY <3>4, ReadStructuresIInv
    <3>5. CASE TakeCandidates(t)
      BY <3>5, TakeCandidatesIInv
    <3>6. CASE \E p \in Parts : Build(t, p)
      BY <3>6, BuildIInv
    <3>7. CASE Put(t)
      BY <3>7, PutIInv
    <3>8. CASE Raise(t)
      BY <3>8, RaiseIInv
    <3>9. QED
      BY <2>5, <3>1, <3>2, <3>3, <3>4, <3>5, <3>6, <3>7, <3>8 DEF Step
  <2>6. CASE Clear
    BY <2>6, ClearIInv
  <2>7. QED
    BY <2>1, <2>2, <2>3, <2>4, <2>5, <2>6 DEF Next
<1>2. QED
  BY <1>1, InitIInv, PTL DEF Spec

\* The types of compile's variables, the registry within _CACHE_LIMIT.
THEOREM TypeCorrect == Spec => []TypeOK
<1>1. IInv => TypeOK
  <2> SUFFICES ASSUME IInv PROVE TypeOK
    OBVIOUS
  <2>1. \A i \in DOMAIN registry :
          LET e == registry[i] IN
          /\ DOMAIN e = {"key", "scene"}
          /\ e.scene.source \in Worlds /\ e.scene.frequency \in Frequencies
          /\ e.scene.versions \in Versions
    BY RegistryEntries DEF IInv, TypeInv, Entries, Scenes
  <2>2. \A t \in Threads :
          /\ pc[t] \in Running => asked[t].world \in Worlds /\ asked[t].frequency \in Frequencies
          /\ pc[t] = "done" => result[t].source \in Worlds
    BY DEF IInv, CallInv, OneCallInv, RunningInv, AskedSet, DoneInv, Scenes
  <2>3. QED
    BY <2>1, <2>2 DEF TypeOK, IInv, TypeInv, Revisions
<1>2. QED
  BY <1>1, Inductive, PTL

\* Every part of a returned runtime is built from the contents, IDs and edge
\* policy of the asked world, whatever addresses have been reused.
THEOREM CacheIsPrecise == Spec => []ServesTheAskedWorld
<1>1. IInv => ServesTheAskedWorld
  BY DEF IInv, CallInv, OneCallInv, DoneInv, Scenes, Serves, ServesTheAskedWorld, Returned
<1>2. QED
  BY <1>1, Inductive, PTL

\* No part of a returned runtime is older than the call that returned it.
THEOREM CacheIsFresh == Spec => []NoOmittedInvalidation
<1>1. IInv => NoOmittedInvalidation
  <2> SUFFICES ASSUME IInv, NEW t \in Returned, NEW p \in Parts, NEW d \in Reads[p]
               PROVE  result[t].stores[p].saw[d] >= asked[t].start[Leaf[asked[t].world][d]]
    BY DEF NoOmittedInvalidation
  <2> DEFINE s == result[t]
             w == asked[t].world
  <2>1. DoneInv(t) /\ d \in Domains
    BY ReadsDomains DEF IInv, CallInv, OneCallInv, Returned
  <2>2. Serves(s.stores[p], p, w, s.versions) /\ s.versions \in Versions
    BY <2>1 DEF DoneInv, Scenes
  <2>3. s.stores[p].saw[d] >= s.versions[d].revision /\ s.stores[p].saw[d] \in Nat
    BY <2>2, BoundsAssumption DEF Serves, Store, Revisions
  <2>4. asked[t].start[Leaf[w][d]] <= s.versions[d].revision
    BY <2>1 DEF DoneInv
  <2>5. asked[t].start[Leaf[w][d]] \in Nat /\ s.versions[d].revision \in Nat
    BY <2>1, <2>2, WorldsAssumption, BoundsAssumption DEF DoneInv, AskedSet, Revisions, Versions
  <2>6. QED
    BY <2>3, <2>4, <2>5
<1>2. QED
  BY <1>1, Inductive, PTL

\* The material records a caller gets are those of the frequency it asked for.
THEOREM RecordsAreOfTheFrequency == Spec => []RecordsAtTheAskedFrequency
<1>1. IInv => RecordsAtTheAskedFrequency
  BY DEF IInv, CallInv, OneCallInv, DoneInv, RecordsAtTheAskedFrequency, Returned
<1>2. QED
  BY <1>1, Inductive, PTL

\* The stores a caller gets index one another.
THEOREM StoresOfOneScene == Spec => []StoresFitTogether
<1>1. IInv => StoresFitTogether
  <2> SUFFICES ASSUME IInv, NEW t \in Returned
               PROVE  LET s == result[t].stores IN
                      /\ s["geometry"].on = s["rayd"].by
                      /\ s["diagonals"].on = s["rayd"].by
                      /\ s["assignments"].on = s["geometry"].by
                      /\ s["geometry"].saw = s["rayd"].saw
    BY DEF StoresFitTogether
  <2>1. DoneInv(t)
    BY DEF IInv, CallInv, OneCallInv, Returned
  <2>2. \A p \in Parts : result[t].stores[p] # NoStore
    BY <2>1, ServesIsStore DEF DoneInv, Scenes
  <2>3. Fit(result[t].stores)
    BY <2>1 DEF DoneInv, Scenes
  <2>4. QED
    BY <2>2, <2>3 DEF Fit, Parts
<1>2. QED
  BY <1>1, Inductive, PTL

\* An address in a key stands for one world, because what is registered keeps
\* its source alive.
THEOREM KeysNameWorlds == Spec => []KeyIdNamesOneWorld
<1>1. IInv => KeyIdNamesOneWorld
  <2> SUFFICES ASSUME IInv, NEW i \in DOMAIN registry, NEW t \in Threads, pc[t] \in Running,
                      registry[i].key.id = addr[asked[t].world]
               PROVE  registry[i].scene.source = asked[t].world
    BY DEF KeyIdNamesOneWorld
  <2>1. registry[i].scene.source \in InUse /\ asked[t].world \in InUse
    BY RegistryEntries, SourceReferenced, RunningReferenced, PartsInUse
    DEF IInv, TypeInv, CallInv, OneCallInv, RunningInv, AskedSet, PartsOf
  <2>2. QED
    BY <2>1 DEF IInv, PinInv, KeyInv
<1>2. QED
  BY <1>1, Inductive, PTL

-----------------------------------------------------------------------------
\* Least recently used. The registry r holds the keys of the last uses in u,
\* each used key once and CacheLimit of them at most, in order.
Lru(r, u) ==
  /\ r \in Seq(Entries) /\ u \in Seq(Keys)
  /\ \A i, j \in 1..Len(u) : u[i] = u[j] => i = j
  /\ Len(r) = (IF Len(u) < CacheLimit THEN Len(u) ELSE CacheLimit)
  /\ \A i \in 1..Len(r) : r[i].key = u[Len(u) - Len(r) + i]

\* What is where after an element is removed.
LEMMA RemoveAtElements ==
  ASSUME NEW S, NEW s \in Seq(S), NEW i \in 1..Len(s)
  PROVE  \A j \in 1..(Len(s) - 1) : RemoveAt(s, i)[j] = IF j < i THEN s[j] ELSE s[j + 1]
<1>0. Len(s) \in Nat
  BY LenProperties
<1> DEFINE front == SubSeq(s, 1, i - 1)
           back == SubSeq(s, i + 1, Len(s))
<1>1. /\ front \in Seq(S) /\ Len(front) = i - 1
      /\ \A j \in 1..(i - 1) : front[j] = s[j]
  BY <1>0, SubSeqProperties, ElementOfSeq
<1>2. /\ back \in Seq(S) /\ Len(back) = Len(s) - i
      /\ \A j \in 1..(Len(s) - i) : back[j] = s[i + j]
  BY <1>0, SubSeqProperties, ElementOfSeq
<1>3. RemoveAt(s, i) = front \o back
  BY DEF RemoveAt
<1> HIDE DEF front, back
<1>4. \A j \in 1..(Len(front) + Len(back)) :
        (front \o back)[j] = IF j <= Len(front) THEN front[j] ELSE back[j - Len(front)]
  BY <1>1, <1>2, ConcatProperties
<1> SUFFICES ASSUME NEW j \in 1..(Len(s) - 1)
             PROVE  RemoveAt(s, i)[j] = IF j < i THEN s[j] ELSE s[j + 1]
  OBVIOUS
<1>5. RemoveAt(s, i)[j] = IF j <= i - 1 THEN front[j] ELSE back[j - (i - 1)]
  BY <1>0, <1>1, <1>2, <1>3, <1>4
<1>6. CASE j < i
  BY <1>0, <1>1, <1>5, <1>6
<1>7. CASE j >= i
  <2>1. j - (i - 1) \in 1..(Len(s) - i) /\ i + (j - (i - 1)) = j + 1
    BY <1>0, <1>7
  <2> QED
    BY <1>0, <1>2, <1>5, <1>7, <2>1
<1> QED
  BY <1>0, <1>6, <1>7

\* A use of a key at the place j of u, the k-th of n; s is what replaces it.
LEMMA Moved ==
  ASSUME NEW S, NEW s \in Seq(S), NEW i \in 1..Len(s), NEW e \in S
  PROVE  /\ Append(RemoveAt(s, i), e) \in Seq(S)
         /\ Len(Append(RemoveAt(s, i), e)) = Len(s)
         /\ Append(RemoveAt(s, i), e)[Len(s)] = e
         /\ \A j \in 1..(Len(s) - 1) :
              Append(RemoveAt(s, i), e)[j] = IF j < i THEN s[j] ELSE s[j + 1]
<1>1. Len(s) \in Nat /\ RemoveAt(s, i) \in Seq(S) /\ Len(RemoveAt(s, i)) = Len(s) - 1
  BY RemoveAtSeq, LenProperties
<1>2. PICK r : r = RemoveAt(s, i)
  OBVIOUS
<1>3. /\ Append(r, e) \in Seq(S) /\ Len(Append(r, e)) = Len(s) /\ Append(r, e)[Len(s)] = e
      /\ \A j \in 1..(Len(s) - 1) : Append(r, e)[j] = r[j]
  BY <1>1, <1>2, AppendProperties
<1> QED
  BY <1>2, <1>3, RemoveAtElements

\* Moving one of distinct keys to the end keeps them distinct.
LEMMA MovedApart ==
  ASSUME NEW u \in Seq(Keys), NEW k \in 1..Len(u),
         \A i, j \in 1..Len(u) : u[i] = u[j] => i = j
  PROVE  LET v == Append(RemoveAt(u, k), u[k]) IN
         \A i, j \in 1..Len(v) : v[i] = v[j] => i = j
<1>1. PICK v : v = Append(RemoveAt(u, k), u[k])
  OBVIOUS
<1>2. Len(u) \in Nat /\ u[k] \in Keys
  BY LenProperties, ElementOfSeq
<1>3. /\ Len(v) = Len(u) /\ v[Len(u)] = u[k]
      /\ \A j \in 1..(Len(u) - 1) : v[j] = IF j < k THEN u[j] ELSE u[j + 1]
  BY <1>1, <1>2, Moved
<1>4. \A j \in 1..Len(u) : \E m \in 1..Len(u) :
        /\ v[j] = u[m]
        /\ m = IF j = Len(u) THEN k ELSE IF j < k THEN j ELSE j + 1
  BY <1>2, <1>3
<1>5. \A i, j \in 1..Len(v) : v[i] = v[j] => i = j
  <2> SUFFICES ASSUME NEW i \in 1..Len(u), NEW j \in 1..Len(u), v[i] = v[j] PROVE i = j
    BY <1>3
  <2>1. PICK m \in 1..Len(u) : /\ v[i] = u[m]
                               /\ m = IF i = Len(u) THEN k ELSE IF i < k THEN i ELSE i + 1
    BY <1>4
  <2>2. PICK n \in 1..Len(u) : /\ v[j] = u[n]
                               /\ n = IF j = Len(u) THEN k ELSE IF j < k THEN j ELSE j + 1
    BY <1>4
  <2>3. m = n
    BY <2>1, <2>2
  <2> QED
    BY <1>2, <2>1, <2>2, <2>3
<1> QED
  BY <1>1, <1>5

\* A use of a key the registry has: both move it to the end.
LEMMA LruRefresh ==
  ASSUME NEW r, NEW u, Lru(r, u), NEW i \in 1..Len(r), NEW e \in Entries, e.key = r[i].key
  PROVE  Lru(Append(RemoveAt(r, i), e), Append(RemoveAt(u, Len(u) - Len(r) + i), e.key))
<1> DEFINE k == Len(u) - Len(r) + i
<1>1. r \in Seq(Entries) /\ u \in Seq(Keys) /\ Len(r) \in Nat /\ Len(u) \in Nat /\ Len(r) <= Len(u)
  BY LenProperties, BoundsAssumption DEF Lru
<1>2. k \in 1..Len(u) /\ u[k] = e.key /\ e.key \in Keys
  BY <1>1 DEF Lru, Entries
<1>3. PICK q : q = Append(RemoveAt(r, i), e)
  OBVIOUS
<1>4. PICK v : v = Append(RemoveAt(u, k), u[k])
  OBVIOUS
<1>5. /\ q \in Seq(Entries) /\ Len(q) = Len(r) /\ q[Len(r)] = e
      /\ \A j \in 1..(Len(r) - 1) : q[j] = IF j < i THEN r[j] ELSE r[j + 1]
  <2>1. r \in Seq(Entries) /\ i \in 1..Len(r) /\ e \in Entries
    BY <1>1
  <2> QED
    BY ONLY <2>1, <1>3, Moved
<1>6. /\ v \in Seq(Keys) /\ Len(v) = Len(u) /\ v[Len(u)] = u[k]
      /\ \A j \in 1..(Len(u) - 1) : v[j] = IF j < k THEN u[j] ELSE u[j + 1]
  BY <1>1, <1>2, <1>4, Moved
<1>7. \A m, n \in 1..Len(v) : v[m] = v[n] => m = n
  BY <1>1, <1>2, <1>4, MovedApart DEF Lru
<1>8. ASSUME NEW j \in 1..Len(q) PROVE q[j].key = v[Len(v) - Len(q) + j]
  <2>1. CASE j = Len(r)
    BY <1>1, <1>2, <1>5, <1>6, <2>1
  <2>2. CASE j < i /\ j # Len(r)
    <3>1. j \in 1..(Len(r) - 1) /\ (Len(u) - Len(r) + j) \in 1..(Len(u) - 1)
            /\ Len(u) - Len(r) + j < k
      BY <1>1, <1>5, <2>2
    <3>2. r[j].key = u[Len(u) - Len(r) + j]
      BY <3>1, <1>1 DEF Lru
    <3> QED
      BY <1>5, <1>6, <2>2, <3>1, <3>2
  <2>3. CASE j >= i /\ j # Len(r)
    <3>1. /\ j \in 1..(Len(r) - 1) /\ j + 1 \in 1..Len(r) /\ ~(j < i)
          /\ (Len(u) - Len(r) + j) \in 1..(Len(u) - 1)
          /\ ~(Len(u) - Len(r) + j < k)
          /\ Len(u) - Len(r) + (j + 1) = (Len(u) - Len(r) + j) + 1
      BY <1>1, <1>5, <2>3
    <3>2. r[j + 1].key = u[Len(u) - Len(r) + (j + 1)]
      BY <3>1, <1>1 DEF Lru
    <3> QED
      BY <1>5, <1>6, <3>1, <3>2
  <2> QED
    BY <1>5, <2>1, <2>2, <2>3, <1>1
<1>9. Len(q) = (IF Len(v) < CacheLimit THEN Len(v) ELSE CacheLimit)
  BY <1>5, <1>6 DEF Lru
<1>10. Lru(q, v)
  BY <1>5, <1>6, <1>7, <1>8, <1>9 DEF Lru
<1> QED
  BY <1>2, <1>3, <1>4, <1>10

\* A new key: both grow, and beyond the limit the oldest entry goes.
LEMMA LruAdd ==
  ASSUME NEW r, NEW u, Lru(r, u), NEW e \in Entries, \A i \in 1..Len(u) : u[i] # e.key
  PROVE  Lru(IF Len(Append(r, e)) > CacheLimit THEN Tail(Append(r, e)) ELSE Append(r, e),
             Append(u, e.key))
<1>1. r \in Seq(Entries) /\ u \in Seq(Keys) /\ Len(r) \in Nat /\ Len(u) \in Nat /\ Len(r) <= Len(u)
  BY LenProperties, BoundsAssumption DEF Lru
<1>2. e.key \in Keys
  BY DEF Entries
<1>3. PICK v : v = Append(u, e.key)
  OBVIOUS
<1>4. PICK a : a = Append(r, e)
  OBVIOUS
<1>5. /\ v \in Seq(Keys) /\ Len(v) = Len(u) + 1 /\ v[Len(u) + 1] = e.key
      /\ \A i \in 1..Len(u) : v[i] = u[i]
  BY <1>1, <1>2, <1>3, AppendProperties
<1>6. /\ a \in Seq(Entries) /\ a # <<>> /\ Len(a) = Len(r) + 1 /\ a[Len(r) + 1] = e
      /\ \A i \in 1..Len(r) : a[i] = r[i]
  BY <1>1, <1>4, AppendProperties
<1>7. \A i, j \in 1..Len(v) : v[i] = v[j] => i = j
  BY <1>1, <1>5 DEF Lru
<1>8. ASSUME NEW i \in 1..(Len(r) + 1) PROVE a[i].key = v[Len(u) - Len(r) + i]
  <2>1. CASE i = Len(r) + 1
    <3>1. Len(u) - Len(r) + i = Len(u) + 1
      BY <1>1, <2>1
    <3> QED
      BY <1>5, <1>6, <2>1, <3>1
  <2>2. CASE i # Len(r) + 1
    <3>1. i \in 1..Len(r) /\ (Len(u) - Len(r) + i) \in 1..Len(u)
      BY <1>1, <2>2
    <3>2. r[i].key = u[Len(u) - Len(r) + i]
      BY <3>1 DEF Lru
    <3> QED
      BY <1>5, <1>6, <3>1, <3>2
  <2> QED
    BY <2>1, <2>2
<1>9. CASE Len(a) <= CacheLimit
  <2>1. Len(r) = Len(u)
    BY <1>1, <1>6, <1>9, BoundsAssumption DEF Lru
  <2>2. Len(a) = (IF Len(v) < CacheLimit THEN Len(v) ELSE CacheLimit)
    BY <1>1, <1>5, <1>6, <1>9, <2>1, BoundsAssumption
  <2>3. \A i \in 1..Len(a) : a[i].key = v[Len(v) - Len(a) + i]
    BY <1>1, <1>5, <1>6, <1>8, <2>1
  <2>4. Lru(a, v)
    BY <1>5, <1>6, <1>7, <2>2, <2>3 DEF Lru
  <2> QED
    BY <1>1, <1>3, <1>4, <1>6, <1>9, <2>4, BoundsAssumption
<1>10. CASE Len(a) > CacheLimit
  <2>1. Len(r) = CacheLimit /\ Len(u) >= CacheLimit
    BY <1>1, <1>6, <1>10, BoundsAssumption DEF Lru
  <2>2. PICK b : b = Tail(a)
    OBVIOUS
  <2>3. b \in Seq(Entries) /\ Len(b) = Len(r) /\ \A i \in 1..Len(r) : b[i] = a[i + 1]
    BY <1>1, <1>6, <2>2, HeadTailProperties
  <2>4. \A i \in 1..Len(b) : b[i].key = v[Len(v) - Len(b) + i]
    <3> SUFFICES ASSUME NEW i \in 1..Len(r) PROVE b[i].key = v[Len(v) - Len(b) + i]
      BY <2>3
    <3>1. i + 1 \in 1..(Len(r) + 1) /\ Len(u) - Len(r) + (i + 1) = Len(v) - Len(b) + i
      BY <1>1, <1>5, <2>3
    <3> QED
      BY <1>8, <2>3, <3>1
  <2>5. Len(b) = (IF Len(v) < CacheLimit THEN Len(v) ELSE CacheLimit)
    BY <1>1, <1>5, <2>1, <2>3, BoundsAssumption
  <2>6. Lru(b, v)
    BY <1>5, <1>7, <2>3, <2>4, <2>5 DEF Lru
  <2> QED
    BY <1>3, <1>4, <1>10, <2>2, <2>6
<1> QED
  BY <1>1, <1>6, <1>9, <1>10, BoundsAssumption

\* A key used before but evicted since: it comes back for the oldest entry.
LEMMA LruReturn ==
  ASSUME NEW r, NEW u, Lru(r, u), NEW e \in Entries,
         NEW k \in 1..Len(u), u[k] = e.key, \A i \in 1..Len(r) : r[i].key # e.key
  PROVE  /\ Len(Append(r, e)) > CacheLimit
         /\ Lru(Tail(Append(r, e)), Append(RemoveAt(u, k), e.key))
<1>1. r \in Seq(Entries) /\ u \in Seq(Keys) /\ Len(r) \in Nat /\ Len(u) \in Nat /\ Len(r) <= Len(u)
  BY LenProperties, BoundsAssumption DEF Lru
<1>2. k <= Len(u) - Len(r)
  <2> SUFFICES ASSUME k > Len(u) - Len(r) PROVE FALSE
    BY <1>1
  <2>1. k - (Len(u) - Len(r)) \in 1..Len(r) /\ Len(u) - Len(r) + (k - (Len(u) - Len(r))) = k
    BY <1>1
  <2> QED
    BY <2>1 DEF Lru
<1>3. Len(r) = CacheLimit /\ Len(r) >= 1
  BY <1>1, <1>2, BoundsAssumption DEF Lru
<1>4. PICK v : v = Append(RemoveAt(u, k), u[k])
  OBVIOUS
<1>5. /\ v \in Seq(Keys) /\ Len(v) = Len(u) /\ v[Len(u)] = u[k]
      /\ \A j \in 1..(Len(u) - 1) : v[j] = IF j < k THEN u[j] ELSE u[j + 1]
  <2>1. u \in Seq(Keys) /\ u[k] \in Keys /\ k \in 1..Len(u)
    BY <1>1, ElementOfSeq
  <2> QED
    BY ONLY <2>1, <1>4, Moved
<1>6. \A m, n \in 1..Len(v) : v[m] = v[n] => m = n
  BY <1>1, <1>4, MovedApart DEF Lru
<1>7. PICK a : a = Append(r, e)
  OBVIOUS
<1>8. /\ a \in Seq(Entries) /\ a # <<>> /\ Len(a) = Len(r) + 1 /\ a[Len(r) + 1] = e
      /\ \A i \in 1..Len(r) : a[i] = r[i]
  BY <1>1, <1>7, AppendProperties
<1>9. PICK b : b = Tail(a)
  OBVIOUS
<1>10. b \in Seq(Entries) /\ Len(b) = Len(r) /\ \A i \in 1..Len(r) : b[i] = a[i + 1]
  BY <1>1, <1>8, <1>9, HeadTailProperties
<1>11. ASSUME NEW i \in 1..Len(b) PROVE b[i].key = v[Len(v) - Len(b) + i]
  <2>1. CASE i = Len(r)
    <3>1. Len(v) - Len(b) + i = Len(u) /\ b[i] = e
      BY <1>1, <1>5, <1>8, <1>10, <2>1
    <3> QED
      BY <1>5, <3>1
  <2>2. CASE i # Len(r)
    <3>1. /\ i + 1 \in 1..Len(r) /\ i \in 1..Len(r)
          /\ (Len(u) - Len(r) + i) \in 1..(Len(u) - 1) /\ ~(Len(u) - Len(r) + i < k)
          /\ Len(u) - Len(r) + (i + 1) = (Len(u) - Len(r) + i) + 1
      BY <1>1, <1>2, <1>10, <2>2
    <3>2. b[i] = r[i + 1]
      BY <1>8, <1>10, <3>1
    <3>3. r[i + 1].key = u[Len(u) - Len(r) + (i + 1)]
      BY <3>1 DEF Lru
    <3>4. v[Len(u) - Len(r) + i] = u[(Len(u) - Len(r) + i) + 1]
      BY <1>5, <3>1
    <3> QED
      BY <1>5, <1>10, <3>1, <3>2, <3>3, <3>4
  <2> QED
    BY <2>1, <2>2
<1>12. Len(b) = (IF Len(v) < CacheLimit THEN Len(v) ELSE CacheLimit)
  BY <1>5, <1>10 DEF Lru
<1>13. Lru(b, v)
  BY <1>5, <1>6, <1>10, <1>11, <1>12 DEF Lru
<1> QED
  BY <1>1, <1>3, <1>4, <1>7, <1>8, <1>9, <1>13

-----------------------------------------------------------------------------
\* Where a key is, in the registry or among the uses, is the only place.
LEMMA UsedIs ==
  ASSUME NEW u, u = uses, u \in Seq(Keys), NEW k \in 1..Len(u),
         \A i, j \in 1..Len(u) : u[i] = u[j] => i = j
  PROVE  Used(u[k]) = Append(RemoveAt(u, k), u[k])
<1>1. DOMAIN uses = 1..Len(u)
  BY LenProperties
<1>2. UsesOf(u[k]) = {k}
  BY <1>1 DEF UsesOf
<1>3. (CHOOSE i \in {k} : TRUE) = k
  OBVIOUS
<1> QED
  BY <1>2, <1>3 DEF Used

LEMMA SlotsAre ==
  ASSUME Lru(registry, uses), NEW k
  PROVE  /\ Slots(k) = {} \/ \E i \in 1..Len(registry) : Slots(k) = {i} /\ registry[i].key = k
         /\ Slots(k) = {} => \A i \in 1..Len(registry) : registry[i].key # k
<1>1. /\ registry \in Seq(Entries) /\ uses \in Seq(Keys) /\ DOMAIN registry = 1..Len(registry)
      /\ Len(registry) \in Nat /\ Len(uses) \in Nat /\ Len(registry) <= Len(uses)
  BY LenProperties, BoundsAssumption DEF Lru
<1>2. \A i, j \in 1..Len(registry) : registry[i].key = registry[j].key => i = j
  <2> SUFFICES ASSUME NEW i \in 1..Len(registry), NEW j \in 1..Len(registry),
                      registry[i].key = registry[j].key
               PROVE  i = j
    OBVIOUS
  <2>1. /\ Len(uses) - Len(registry) + i \in 1..Len(uses)
        /\ Len(uses) - Len(registry) + j \in 1..Len(uses)
    BY <1>1
  <2>2. uses[Len(uses) - Len(registry) + i] = uses[Len(uses) - Len(registry) + j]
    BY DEF Lru
  <2>3. Len(uses) - Len(registry) + i = Len(uses) - Len(registry) + j
    BY <2>1, <2>2 DEF Lru
  <2> QED
    BY <1>1, <2>3
<1>3. Slots(k) = {i \in 1..Len(registry) : registry[i].key = k}
  BY <1>1 DEF Slots
<1> QED
  BY <1>2, <1>3

\* A lookup that finds k refreshes it in both.
LEMMA LookupLru ==
  ASSUME Lru(registry, uses), NEW k, Slots(k) # {}
  PROVE  Lru(MoveToEnd(k), Used(k))
<1>1. PICK i \in 1..Len(registry) : Slots(k) = {i} /\ registry[i].key = k
  BY SlotsAre
<1>2. /\ registry \in Seq(Entries) /\ uses \in Seq(Keys)
      /\ Len(registry) \in Nat /\ Len(uses) \in Nat /\ Len(registry) <= Len(uses)
  BY LenProperties, BoundsAssumption DEF Lru
<1>3. PICK j \in 1..Len(uses) : j = Len(uses) - Len(registry) + i /\ uses[j] = k
  BY <1>1, <1>2 DEF Lru
<1>4. (CHOOSE n \in {i} : TRUE) = i
  OBVIOUS
<1>5. MoveToEnd(k) = Append(RemoveAt(registry, i), registry[i])
  BY <1>1, <1>4 DEF MoveToEnd
<1>6. Used(k) = Append(RemoveAt(uses, j), k)
  BY <1>2, <1>3, UsedIs DEF Lru
<1>7. registry[i] \in Entries
  BY <1>2, ElementOfSeq
<1> QED
  BY <1>1, <1>3, <1>5, <1>6, <1>7, LruRefresh

LEMMA StoredLru ==
  ASSUME Lru(registry, uses), NEW k, NEW s, [key |-> k, scene |-> s] \in Entries
  PROVE  Lru(Stored(k, s), Used(k))
<1>1. PICK e \in Entries : e = [key |-> k, scene |-> s]
  OBVIOUS
<1>2. e.key = k
  BY <1>1
<1>3. /\ registry \in Seq(Entries) /\ uses \in Seq(Keys) /\ DOMAIN uses = 1..Len(uses)
      /\ Len(registry) \in Nat /\ Len(uses) \in Nat /\ Len(registry) <= Len(uses)
      /\ Len(registry) <= CacheLimit
  BY LenProperties, BoundsAssumption DEF Lru
<1>4. CASE Slots(k) # {}
  <2>1. PICK i \in 1..Len(registry) : Slots(k) = {i} /\ registry[i].key = k
    BY <1>4, SlotsAre
  <2>2. PICK j \in 1..Len(uses) : j = Len(uses) - Len(registry) + i /\ uses[j] = k
    BY <1>3, <2>1 DEF Lru
  <2>3. (CHOOSE n \in {i} : TRUE) = i
    OBVIOUS
  <2>4. Len(Append(RemoveAt(registry, i), e)) = Len(registry)
    BY <1>3, Moved
  <2>5. Stored(k, s) = Append(RemoveAt(registry, i), e)
    BY <1>1, <1>3, <2>1, <2>3, <2>4, BoundsAssumption DEF Stored
  <2>6. Used(k) = Append(RemoveAt(uses, j), k)
    BY <1>3, <2>2, UsedIs DEF Lru
  <2> QED
    BY <1>2, <2>1, <2>2, <2>5, <2>6, LruRefresh
<1>5. CASE Slots(k) = {}
  <2>1. Stored(k, s) = IF Len(Append(registry, e)) > CacheLimit THEN Tail(Append(registry, e))
                       ELSE Append(registry, e)
    BY <1>1, <1>5 DEF Stored
  <2>2. CASE UsesOf(k) = {}
    <3>1. \A i \in 1..Len(uses) : uses[i] # e.key
      BY <1>2, <1>3, <2>2 DEF UsesOf
    <3>2. Used(k) = Append(uses, e.key)
      BY <1>2, <2>2 DEF Used
    <3> QED
      BY <2>1, <3>1, <3>2, LruAdd
  <2>3. CASE UsesOf(k) # {}
    <3>1. PICK j \in 1..Len(uses) : uses[j] = k
      BY <1>3, <2>3 DEF UsesOf
    <3>2. \A i \in 1..Len(registry) : registry[i].key # e.key
      BY <1>2, <1>5, SlotsAre
    <3>3. Used(k) = Append(RemoveAt(uses, j), e.key)
      BY <1>2, <1>3, <3>1, UsedIs DEF Lru
    <3> QED
      BY <1>2, <2>1, <3>1, <3>2, <3>3, LruReturn
  <2> QED
    BY <2>2, <2>3
<1> QED
  BY <1>4, <1>5

\* The registry holds exactly the most recently used keys, in order.
THEOREM RegistryIsLru == Spec => []KeepsRecentlyUsed
<1> DEFINE I == Lru(registry, uses)
<1>1. Init => I
  BY BoundsAssumption, EmptySeq DEF Init, Lru
<1>2. IInv /\ I /\ [Next]_vars => I'
  <2> SUFFICES ASSUME IInv, I, [Next]_vars PROVE I'
    OBVIOUS
  <2>1. CASE UNCHANGED <<registry, uses>>
    BY <2>1
  <2>2. ASSUME NEW t \in Threads, Hit(t) PROVE I'
    <3>1. Slots(label[t]) # {} /\ registry' = MoveToEnd(label[t]) /\ uses' = Used(label[t])
      BY <2>2 DEF Hit
    <3> QED
      BY <3>1, LookupLru
  <2>3. ASSUME NEW t \in Threads, Miss(t) PROVE I'
    <3>1. /\ registry' = MoveToEnd(label[t])
          /\ uses' = IF Slots(label[t]) = {} THEN uses ELSE Used(label[t])
      BY <2>3 DEF Miss
    <3>2. CASE Slots(label[t]) = {}
      BY <3>1, <3>2 DEF MoveToEnd
    <3> QED
      BY <3>1, <3>2, LookupLru
  <2>4. ASSUME NEW t \in Threads, Put(t) PROVE I'
    <3>1. /\ pc[t] = "building" /\ Pending(t) = {}
          /\ registry' = Stored(label[t], Assembled(t)) /\ uses' = Used(label[t])
      BY <2>4 DEF Put
    <3>2. [key |-> label[t], scene |-> Assembled(t)] \in Entries
      BY <3>1, AssembledIsSound DEF Live
    <3> QED
      BY <3>1, <3>2, StoredLru
  <2>5. CASE Clear
    BY <2>5, BoundsAssumption, EmptySeq DEF Clear, Lru
  <2> HIDE DEF I
  <2> QED
    BY <2>1, <2>2, <2>3, <2>4, <2>5
    DEF Next, Step, vars, outside, locals, Author, Drop, Edit, Begin, MakeKey, ReadStructures,
        TakeCandidates, Build, Raise
<1>3. I => KeepsRecentlyUsed
  <2> SUFFICES ASSUME I PROVE KeepsRecentlyUsed
    OBVIOUS
  <2> DEFINE n == Len(registry)
             m == Len(uses)
             kept == [i \in DOMAIN registry |-> registry[i].key]
  <2>1. /\ registry \in Seq(Entries) /\ uses \in Seq(Keys) /\ DOMAIN registry = 1..n
        /\ n \in Nat /\ m \in Nat /\ n <= m
    BY LenProperties, BoundsAssumption DEF Lru
  <2>2. kept \in Seq(Keys) /\ Len(kept) = n
    <3>1. kept \in [1..n -> Keys]
      BY <2>1, ElementOfSeq DEF Entries
    <3> QED
      BY <2>1, <3>1, SeqDef, LenProperties
  <2>3. PICK b : b = SubSeq(uses, m - n + 1, m)
    OBVIOUS
  <2>4. b \in Seq(Keys) /\ Len(b) = n /\ \A i \in 1..n : b[i] = uses[m - n + i]
    BY <2>1, <2>3, SubSeqProperties
  <2>5. \A i \in 1..n : kept[i] = b[i]
    BY <2>1, <2>4 DEF Lru
  <2> HIDE DEF kept
  <2>6. kept = b
    BY <2>1, <2>2, <2>4, <2>5, SeqEqual
  <2> QED
    BY <2>2, <2>3, <2>6 DEF KeepsRecentlyUsed, Lru, kept
<1> QED
  BY <1>1, <1>2, <1>3, Inductive, PTL DEF Spec
-----------------------------------------------------------------------------
(***************************************************************************)
(* The registry implements CompileContract: a call maps to what it asked   *)
(* for and to the contents of what it got. Begin is Ask, a hit or a put is *)
(* Serve, a raise is Fail, an edit is Edit, and the rest stutters. Serve   *)
(* needs that each part was built from the caller's world                  *)
(* (ServesTheAskedWorld), at revisions no older than the call              *)
(* (NoOmittedInvalidation) and none still to come: the last is PastInv, an *)
(* invariant of everything kept or being built.                            *)
(***************************************************************************)
\* Store s, as part p, saw nothing newer than the revisions r.
Past(s, p, r) == \A d \in Reads[p] : s.saw[d] <= r[Leaf[s.of][d]]

PastEntries(r) == {e \in Entries : \A p \in Parts : Past(e.scene.stores[p], p, r)}

PastCall(t) ==
  /\ pc[t] \in {"structured", "building"} =>
       \A d \in Spatial : seen[t][d] <= rev[Leaf[asked[t].world][d]]
  /\ pc[t] = "building" => \A p \in Parts : stores[t][p] # NoStore => Past(stores[t][p], p, rev)
  /\ pc[t] = "done" => \A p \in Parts : Past(result[t].stores[p], p, rev)

PastInv == registry \in Seq(PastEntries(rev)) /\ \A t \in Threads : PastCall(t)

-----------------------------------------------------------------------------
\* What is past stays past.
LEMMA PastGrows ==
  ASSUME NEW p \in Parts, NEW s \in Store(p),
         NEW r \in [Objects -> Revisions], NEW q \in [Objects -> Revisions],
         \A o \in Objects : r[o] <= q[o], Past(s, p, r)
  PROVE  Past(s, p, q)
<1> SUFFICES ASSUME NEW d \in Reads[p] PROVE s.saw[d] <= q[Leaf[s.of][d]]
  BY DEF Past
<1>1. s.saw[d] <= r[Leaf[s.of][d]]
  BY DEF Past
<1>2. s.saw[d] \in Nat /\ Leaf[s.of][d] \in Objects
  BY ReadsDomains, WorldsAssumption DEF Store, Revisions
<1>3. r[Leaf[s.of][d]] \in Nat /\ q[Leaf[s.of][d]] \in Nat
  BY <1>2 DEF Revisions
<1> QED
  BY <1>1, <1>2, <1>3

LEMMA EntryStores ==
  ASSUME NEW e \in Entries, NEW p \in Parts
  PROVE  e.scene.stores[p] \in Store(p)
BY DEF Entries, Scenes, Serves

LEMMA MoreRevisions ==
  ASSUME NEW r \in [Objects -> Revisions], NEW q \in [Objects -> Revisions],
         \A o \in Objects : r[o] <= q[o]
  PROVE  PastEntries(r) \subseteq PastEntries(q)
BY EntryStores, PastGrows DEF PastEntries

LEMMA WiderSeq ==
  ASSUME NEW S, NEW T, S \subseteq T, NEW s \in Seq(S)
  PROVE  s \in Seq(T)
<1>1. s \in [1..Len(s) -> S] /\ Len(s) \in Nat
  BY LenProperties
<1>2. s \in [1..Len(s) -> T]
  BY <1>1
<1> QED
  BY <1>1, <1>2, SeqDef

\* A reuse takes what the registry has.
LEMMA ReusePast ==
  ASSUME registry \in Seq(Entries), registry \in Seq(PastEntries(rev)),
         NEW S \in SUBSET (DOMAIN registry), NEW p \in Parts, Reuse(S, p) # NoStore
  PROVE  Past(Reuse(S, p), p, rev)
<1>1. PICK i \in S : Reuse(S, p) = registry[i].scene.stores[p]
  BY ReuseFrom
<1>2. registry[i] \in PastEntries(rev)
  BY ElementOfSeq, LenProperties
<1> QED
  BY <1>1, <1>2 DEF PastEntries

\* A step of one call leaves the others as they are.
LEMMA PastFrame ==
  ASSUME PastInv, rev' = rev, NEW t \in Threads, Alone(t), PastCall(t)'
  PROVE  \A u \in Threads : PastCall(u)'
<1> SUFFICES ASSUME NEW u \in Threads, u # t PROVE PastCall(u)'
  OBVIOUS
<1>1. PastCall(u) /\ /\ pc'[u] = pc[u] /\ asked'[u] = asked[u]
                     /\ seen'[u] = seen[u] /\ stores'[u] = stores[u] /\ result'[u] = result[u]
  BY DEF PastInv, Alone
<1> QED
  BY <1>1 DEF PastCall

-----------------------------------------------------------------------------
LEMMA EditPast ==
  ASSUME IInv, PastInv, NEW o \in Objects, Edit(o)
  PROVE  PastInv'
<1>1. /\ rev' = [rev EXCEPT ![o] = @ + 1] /\ rev[o] < MaxEdits
      /\ UNCHANGED <<registry, pc, asked, label, seen, stores, result>>
  BY DEF Edit, locals
<1>2. rev \in [Objects -> Revisions] /\ rev' \in [Objects -> Revisions]
  BY <1>1, BoundsAssumption DEF IInv, TypeInv, Revisions
<1>3. \A u \in Objects : rev[u] <= rev'[u]
  BY <1>1, <1>2 DEF Revisions
<1>4. PICK q : q = rev'
  OBVIOUS
<1>5. registry \in Seq(PastEntries(q))
  BY <1>2, <1>3, <1>4, MoreRevisions, WiderSeq DEF PastInv
<1>6. ASSUME NEW t \in Threads PROVE PastCall(t)'
  <2>1. PastCall(t) /\ OneCallInv(t)
    BY DEF PastInv, IInv, CallInv
  <2>2. ASSUME pc[t] \in {"structured", "building"}, NEW d \in Spatial
        PROVE  seen[t][d] <= rev'[Leaf[asked[t].world][d]]
    <3>1. seen[t][d] <= rev[Leaf[asked[t].world][d]] /\ seen[t][d] \in Nat
      BY <2>1, <2>2 DEF PastCall, OneCallInv, SeenInv, Revisions
    <3>2. Leaf[asked[t].world][d] \in Objects
      BY <2>1, <2>2, WorldsAssumption DEF OneCallInv, RunningInv, AskedSet, Running, Steps, Spatial, Domains
    <3> QED
      BY <1>2, <1>3, <3>1, <3>2 DEF Revisions
  <2>3. ASSUME pc[t] = "building", NEW p \in Parts, stores[t][p] # NoStore
        PROVE  Past(stores[t][p], p, q)
    <3>1. Past(stores[t][p], p, rev)
      BY <2>1, <2>3 DEF PastCall
    <3>2. stores[t][p] \in Store(p)
      BY <2>1, <2>3 DEF OneCallInv, StoresInv, Serves
    <3> QED
      BY <1>2, <1>3, <1>4, <3>1, <3>2, PastGrows
  <2>4. ASSUME pc[t] = "done", NEW p \in Parts
        PROVE  Past(result[t].stores[p], p, q)
    <3>1. Past(result[t].stores[p], p, rev)
      BY <2>1, <2>4 DEF PastCall
    <3>2. result[t].stores[p] \in Store(p)
      BY <2>1, <2>4 DEF OneCallInv, DoneInv, Scenes, Serves
    <3> QED
      BY <1>2, <1>3, <1>4, <3>1, <3>2, PastGrows
  <2> QED
    BY <1>1, <1>4, <2>2, <2>3, <2>4 DEF PastCall
<1> QED
  BY <1>1, <1>4, <1>5, <1>6 DEF PastInv

LEMMA BeginPast ==
  ASSUME IInv, PastInv, NEW t \in Threads, NEW w \in Worlds, NEW f \in Frequencies, Begin(t, w, f)
  PROVE  PastInv'
<1>1. /\ pc' = [pc EXCEPT ![t] = "begun"] /\ asked' = [asked EXCEPT ![t] = asked'[t]]
      /\ result' = [result EXCEPT ![t] = None]
      /\ UNCHANGED <<rev, registry, label, seen, stores>>
  BY DEF Begin, outside, IInv, TypeInv
<1>2. pc'[t] = "begun" /\ Alone(t)
  BY <1>1 DEF IInv, TypeInv, Alone
<1>3. PastCall(t)'
  BY <1>2 DEF PastCall
<1> QED
  BY <1>1, <1>2, <1>3, PastFrame DEF PastInv

LEMMA ReadStructuresPast ==
  ASSUME IInv, PastInv, NEW t \in Threads, ReadStructures(t)
  PROVE  PastInv'
<1>1. /\ pc' = [pc EXCEPT ![t] = "structured"]
      /\ seen' = [seen EXCEPT ![t] = [d \in Spatial |-> rev[Leaf[asked[t].world][d]]]]
      /\ UNCHANGED <<rev, registry, asked, label, stores, result>> /\ pc[t] = "missed"
  BY DEF ReadStructures, outside
<1>2. /\ pc'[t] = "structured" /\ Alone(t)
      /\ seen'[t] = [d \in Spatial |-> rev[Leaf[asked[t].world][d]]]
  BY <1>1 DEF IInv, TypeInv, Alone
<1>3. RunningInv(t)
  BY <1>1 DEF IInv, CallInv, OneCallInv, Running, Steps
<1>4. \A d \in Spatial : Leaf[asked[t].world][d] \in Objects
  BY <1>3, WorldsAssumption DEF RunningInv, AskedSet, Spatial, Domains
<1>5. \A d \in Spatial : seen'[t][d] <= rev[Leaf[asked[t].world][d]]
  BY <1>2, <1>4 DEF IInv, TypeInv, Revisions
<1>6. PastCall(t)'
  BY <1>1, <1>2, <1>5 DEF PastCall
<1> QED
  BY <1>1, <1>2, <1>6, PastFrame DEF PastInv

LEMMA TakeCandidatesPast ==
  ASSUME IInv, PastInv, NEW t \in Threads, TakeCandidates(t)
  PROVE  PastInv'
<1>1. /\ pc' = [pc EXCEPT ![t] = "building"] /\ pc[t] = "structured"
      /\ UNCHANGED <<rev, registry, asked, label, seen, result>>
  BY DEF TakeCandidates, outside
<1>2. /\ pc'[t] = "building" /\ Alone(t)
      /\ stores'[t] = [p \in Parts |-> CASE p = "rayd"        -> RayDReuse(t)
                                        [] p = "geometry"    -> GeometryReuse(t)
                                        [] p = "materials"   -> MaterialsReuse(t)
                                        [] p = "assignments" -> AssignmentsReuse(t)
                                        [] p = "diagonals"   -> DiagonalsReuse(t)]
  BY <1>1 DEF TakeCandidates, IInv, TypeInv, Alone
<1>3. registry \in Seq(Entries) /\ registry \in Seq(PastEntries(rev))
  BY DEF IInv, TypeInv, PastInv
<1>4. \A p \in Parts : \E S \in SUBSET (DOMAIN registry) : stores'[t][p] = Reuse(S, p)
  <2>1. \E S \in SUBSET (DOMAIN registry) : RayDReuse(t) = Reuse(S, "rayd")
    BY DEF RayDReuse
  <2>2. \E S \in SUBSET (DOMAIN registry) : GeometryReuse(t) = Reuse(S, "geometry")
    BY DEF GeometryReuse
  <2>3. \E S \in SUBSET (DOMAIN registry) : MaterialsReuse(t) = Reuse(S, "materials")
    BY DEF MaterialsReuse
  <2>4. \E S \in SUBSET (DOMAIN registry) : AssignmentsReuse(t) = Reuse(S, "assignments")
    BY DEF AssignmentsReuse
  <2>5. \E S \in SUBSET (DOMAIN registry) : DiagonalsReuse(t) = Reuse(S, "diagonals")
    BY DEF DiagonalsReuse
  <2> QED
    BY <1>2, <2>1, <2>2, <2>3, <2>4, <2>5 DEF Parts
<1>5. \A p \in Parts : stores'[t][p] # NoStore => Past(stores'[t][p], p, rev)
  BY <1>3, <1>4, ReusePast
<1>6. \A d \in Spatial : seen[t][d] <= rev[Leaf[asked[t].world][d]]
  BY <1>1 DEF PastInv, PastCall
<1>7. PastCall(t)'
  BY <1>1, <1>2, <1>5, <1>6 DEF PastCall
<1> QED
  BY <1>1, <1>2, <1>7, PastFrame DEF PastInv

LEMMA BuildPast ==
  ASSUME IInv, PastInv, NEW t \in Threads, NEW p \in Parts, Build(t, p)
  PROVE  PastInv'
<1> DEFINE w == asked[t].world
<1>1. pc[t] = "building" /\ NextPart(t, p) /\ UNCHANGED <<rev, registry, pc, asked, label, seen, result>>
  BY DEF Build, outside
<1>2. PICK saw \in [Reads[p] -> 0..MaxEdits] :
        /\ \A d \in Reads[p] : saw[d] \in SeenBy(t, p, d)
        /\ stores' = [stores EXCEPT ![t][p] =
             [by |-> asked[t].serial, on |-> Base(t, p), of |-> w, saw |-> saw,
              hertz |-> IF p = "materials" THEN asked[t].hertz ELSE 0]]
  BY DEF Build
<1>3. PICK b : b = [by |-> asked[t].serial, on |-> Base(t, p), of |-> w, saw |-> saw,
                    hertz |-> IF p = "materials" THEN asked[t].hertz ELSE 0]
  OBVIOUS
<1>4. b.of = w /\ b.saw = saw
  BY <1>3
<1>5. /\ Alone(t) /\ stores'[t] = [stores[t] EXCEPT ![p] = b]
      /\ \A q \in Parts : stores'[t][q] = IF q = p THEN b ELSE stores[t][q]
  BY <1>1, <1>2, <1>3 DEF IInv, TypeInv, Alone
<1>6. RunningInv(t) /\ StoresInv(t) /\ PastCall(t) /\ p \in Parts
  BY <1>1 DEF IInv, CallInv, OneCallInv, PastInv, Running, Steps
<1>7. \A d \in Domains : Leaf[w][d] \in Objects /\ rev[Leaf[w][d]] \in Nat
  BY <1>6, WorldsAssumption DEF RunningInv, AskedSet, IInv, TypeInv, Revisions
<1>8. Past(b, p, rev)
  <2> SUFFICES ASSUME NEW d \in Reads[p] PROVE saw[d] <= rev[Leaf[w][d]]
    BY <1>4 DEF Past
  <2>1. d \in Domains /\ saw[d] \in SeenBy(t, p, d)
    BY <1>2, ReadsDomains
  <2>2. CASE p = "geometry"
    <3>1. stores[t]["rayd"] # NoStore
      BY <1>1, <2>2, BuiltInOrder
    <3>2. /\ Past(stores[t]["rayd"], "rayd", rev)
          /\ Serves(stores[t]["rayd"], "rayd", w, label[t].versions)
      BY <1>1, <1>6, <3>1 DEF PastCall, StoresInv, Parts
    <3>3. d \in Reads["rayd"]
      BY <2>2 DEF Reads, Parts
    <3>4. stores[t]["rayd"].saw[d] <= rev[Leaf[w][d]]
      BY <3>2, <3>3 DEF Past, Serves
    <3> QED
      BY <2>1, <2>2, <3>4 DEF SeenBy
  <2>3. CASE p # "geometry" /\ d \in Spatial
    <3>1. saw[d] \in {seen[t][d], rev[Leaf[w][d]]}
      BY <2>1, <2>3 DEF SeenBy
    <3>2. seen[t][d] <= rev[Leaf[w][d]]
      BY <1>1, <1>6, <2>3 DEF PastCall
    <3> QED
      BY <1>7, <2>1, <3>1, <3>2
  <2>4. CASE p # "geometry" /\ d \notin Spatial
    <3>1. saw[d] = rev[Leaf[w][d]]
      BY <2>1, <2>4 DEF SeenBy
    <3> QED
      BY <1>7, <2>1, <3>1
  <2> QED
    BY <2>2, <2>3, <2>4
<1>9. PastCall(t)'
  BY <1>1, <1>5, <1>6, <1>8 DEF PastCall
<1> QED
  BY <1>1, <1>5, <1>9, PastFrame DEF PastInv

LEMMA HitPast ==
  ASSUME IInv, PastInv, NEW t \in Threads, Hit(t)
  PROVE  PastInv'
<1>1. /\ pc' = [pc EXCEPT ![t] = "done"] /\ rev' = rev /\ asked' = asked
      /\ registry' = MoveToEnd(label[t]) /\ Leave(t, "done")
  BY DEF Hit, Leave, outside
<1>2. PICK i \in Slots(label[t]) : result' = [result EXCEPT ![t] = registry[i].scene]
  BY DEF Hit
<1>3. /\ pc'[t] = "done" /\ Alone(t) /\ result'[t] = registry[i].scene
  BY <1>1, <1>2 DEF IInv, TypeInv, Alone, Leave
<1>4. registry[i] \in PastEntries(rev)
  BY <1>2, ElementOfSeq, LenProperties DEF Slots, PastInv
<1>5. PastCall(t)'
  BY <1>1, <1>3, <1>4 DEF PastCall, PastEntries
<1>6. registry' \in Seq(PastEntries(rev'))
  BY <1>1, MoveToEndSeq DEF PastInv
<1> QED
  BY <1>1, <1>3, <1>5, <1>6, PastFrame DEF PastInv

LEMMA PutPast ==
  ASSUME IInv, PastInv, NEW t \in Threads, Put(t)
  PROVE  PastInv'
<1>1. PICK a : a = Assembled(t)
  OBVIOUS
<1>2. /\ pc[t] = "building" /\ Pending(t) = {} /\ pc' = [pc EXCEPT ![t] = "done"] /\ rev' = rev
      /\ registry' = Stored(label[t], a) /\ result' = [result EXCEPT ![t] = a]
      /\ Leave(t, "done")
  BY <1>1 DEF Put, Leave, outside
<1>3. pc'[t] = "done" /\ Alone(t) /\ result'[t] = a
  BY <1>2 DEF IInv, TypeInv, Alone, Leave
<1>4. [key |-> label[t], scene |-> a] \in Entries /\ a.stores = stores[t]
  BY <1>1, <1>2, AssembledIsSound DEF Live, Assembled
<1>5. \A p \in Parts : Past(a.stores[p], p, rev)
  <2>1. \A p \in Parts : stores[t][p] # NoStore
    BY <1>4, EntryStores, ServesIsStore DEF Entries, Scenes
  <2> QED
    BY <1>2, <1>4, <2>1 DEF PastInv, PastCall
<1>6. [key |-> label[t], scene |-> a] \in PastEntries(rev)
  BY <1>4, <1>5 DEF PastEntries
<1>7. registry' \in Seq(PastEntries(rev'))
  BY <1>2, <1>6, StoredSeq DEF PastInv
<1>8. PastCall(t)'
  BY <1>2, <1>3, <1>5 DEF PastCall
<1> QED
  BY <1>2, <1>3, <1>7, <1>8, PastFrame DEF PastInv

\* The steps after which a call has neither read nor got anything yet.
LEMMA QuietPast ==
  ASSUME IInv, PastInv, NEW t \in Threads, MakeKey(t) \/ Miss(t) \/ Raise(t)
  PROVE  PastInv'
<1>1. rev' = rev /\ (registry' = registry \/ registry' = MoveToEnd(label[t]))
  BY DEF MakeKey, Miss, Raise, outside
<1>2. Alone(t) /\ pc'[t] \in {"keyed", "missed", "idle"}
  BY DEF MakeKey, Miss, Raise, Leave, locals, Alone, IInv, TypeInv
<1>3. PastCall(t)'
  BY <1>2 DEF PastCall
<1>4. registry' \in Seq(PastEntries(rev'))
  BY <1>1, MoveToEndSeq DEF PastInv
<1> QED
  BY <1>1, <1>2, <1>3, <1>4, PastFrame DEF PastInv

LEMMA OutsidePast ==
  ASSUME PastInv, (\E x \in Roots : Author(x) \/ Drop(x)) \/ Clear \/ UNCHANGED vars
  PROVE  PastInv'
<1>1. /\ UNCHANGED <<rev, pc, asked, seen, stores, result>>
      /\ registry' = registry \/ registry' = <<>>
  BY DEF Author, Drop, Clear, vars, outside, locals
<1>2. registry' \in Seq(PastEntries(rev'))
  BY <1>1, EmptySeq DEF PastInv
<1> QED
  BY <1>1, <1>2 DEF PastInv, PastCall

\* Nothing kept or returned was built from a revision still to come.
LEMMA PastIsInvariant == Spec => []PastInv
<1>1. Init => PastInv
  BY EmptySeq DEF Init, PastInv, PastCall
<1>2. IInv /\ PastInv /\ [Next]_vars => PastInv'
  <2> SUFFICES ASSUME IInv, PastInv, [Next]_vars PROVE PastInv'
    OBVIOUS
  <2>1. ASSUME NEW t \in Threads, Step(t) PROVE PastInv'
    BY <2>1, QuietPast, HitPast, ReadStructuresPast, TakeCandidatesPast, BuildPast, PutPast DEF Step
  <2> QED
    BY <2>1, OutsidePast, EditPast, BeginPast DEF Next
<1> QED
  BY <1>1, <1>2, Inductive, PTL DEF Spec

-----------------------------------------------------------------------------
\* What the contract sees of call t.
Asked(t) == IF pc[t] = "idle" THEN [none |-> TRUE]
            ELSE [world |-> asked[t].world, start |-> asked[t].start]
Served(t) == IF pc[t] = "done" THEN Contents(result[t]) ELSE [nothing |-> TRUE]

\* The contract's variables.
Call == [t \in Threads |-> IF pc[t] = "idle" THEN [none |-> TRUE]
                           ELSE [world |-> asked[t].world, start |-> asked[t].start]]
Got == [t \in Threads |-> IF pc[t] = "done" THEN Contents(result[t]) ELSE [nothing |-> TRUE]]

LEMMA ServeMeans ==
  ASSUME NEW t \in Threads, NEW w, NEW got,
         Call[t] # Contract!NoCall, Got[t] = Contract!NotServed,
         w = Call[t].world, got = Got'[t],
         DOMAIN got = Parts,
         \A p \in Parts :
           /\ DOMAIN got[p] = Reads[p]
           /\ \A d \in Reads[p] :
                /\ got[p][d].object = Leaf[w][d]
                /\ got[p][d].revision \in Call[t].start[Leaf[w][d]]..rev[Leaf[w][d]],
         Got' = [Got EXCEPT ![t] = got], rev' = rev, Call' = Call
  PROVE  Contract!Serve(t)
<1>1. (/\ Call[t] # Contract!NoCall /\ Got[t] = Contract!NotServed
       /\ LET world == Call[t].world
              g == Got'[t]
          IN /\ DOMAIN g = Parts
             /\ \A p \in Parts :
                  /\ DOMAIN g[p] = Reads[p]
                  /\ \A d \in Reads[p] :
                       /\ g[p][d].object = Leaf[world][d]
                       /\ g[p][d].revision \in Call[t].start[Leaf[world][d]]..rev[Leaf[world][d]]
             /\ Got' = [Got EXCEPT ![t] = g]
       /\ UNCHANGED <<rev, Call>>)
      => Contract!Serve(t)
  BY Zenon DEF Contract!Serve, Call, Got
<1> QED
  BY <1>1

LEMMA AskedIsNoCall == \A t : Asked(t) = Contract!NoCall <=> pc[t] = "idle"
<1>1. \A w, s : [world |-> w, start |-> s] # [none |-> TRUE]
  OBVIOUS
<1> QED
  BY <1>1 DEF Asked, Contract!NoCall

\* A step of one call the contract sees nothing of.
LEMMA Unseen ==
  ASSUME NEW t \in Threads, Alone(t), rev' = rev, Asked(t)' = Asked(t), Served(t)' = Served(t)
  PROVE  UNCHANGED Contract!vars
<1>1. \A u \in Threads : Asked(u)' = Asked(u) /\ Served(u)' = Served(u)
  BY DEF Alone, Asked, Served
<1> QED
  BY <1>1 DEF Contract!vars, Asked, Served

\* A step by which call t gets a runtime serves it.
LEMMA SeenServe ==
  ASSUME IInv, IInv', PastInv', ServesTheAskedWorld', NoOmittedInvalidation',
         NEW t \in Threads, Alone(t), rev' = rev, asked' = asked,
         pc[t] \in {"keyed", "building"}, pc'[t] = "done"
  PROVE  Contract!Serve(t)
<1> DEFINE w == asked[t].world
           s == result'[t]
           got == Contents(s)
<1>1. /\ Asked(t) = [world |-> w, start |-> asked[t].start] /\ Asked(t) # Contract!NoCall
      /\ Served(t) = Contract!NotServed /\ Served(t)' = got
  BY AskedIsNoCall DEF Asked, Served, Contract!NotServed, Contents
<1>2. \A u \in Threads : u # t => Asked(u)' = Asked(u) /\ Served(u)' = Served(u)
  BY DEF Alone, Asked, Served
<1>3. Asked(t)' = Asked(t)
  BY DEF Asked
<1>4. DOMAIN got = Parts /\ \A p \in Parts : DOMAIN got[p] = Reads[p]
  BY DEF Contents
<1>5. ASSUME NEW p \in Parts, NEW d \in Reads[p]
      PROVE  /\ got[p][d].object = Leaf[w][d]
             /\ got[p][d].revision \in asked[t].start[Leaf[w][d]]..rev[Leaf[w][d]]
  <2>1. got[p][d].object = Leaf[s.stores[p].of][d] /\ got[p][d].revision = s.stores[p].saw[d]
    BY DEF Contents
  <2>2. Leaf[s.stores[p].of][d] = Leaf[w][d]
    BY DEF ServesTheAskedWorld, Returned
  <2>3. s.stores[p].saw[d] >= asked[t].start[Leaf[w][d]]
    BY DEF NoOmittedInvalidation, Returned
  <2>4. s.stores[p].saw[d] <= rev[Leaf[w][d]]
    BY <2>2 DEF PastInv, PastCall, Past
  <2>5. s.stores[p] \in Store(p)
    BY DEF IInv, CallInv, OneCallInv, DoneInv, Scenes, Serves
  <2>6. s.stores[p].saw[d] \in Nat
    BY <2>5 DEF Store, Revisions
  <2>7. asked[t] \in AskedSet
    BY DEF IInv, CallInv, OneCallInv, RunningInv, Running, Steps
  <2>8. Leaf[w][d] \in Objects
    BY <2>7, ReadsDomains, WorldsAssumption DEF AskedSet
  <2>9. asked[t].start[Leaf[w][d]] \in Nat /\ rev[Leaf[w][d]] \in Nat
    BY <2>7, <2>8 DEF AskedSet, Revisions, IInv, TypeInv
  <2> QED
    BY <2>1, <2>2, <2>3, <2>4, <2>6, <2>9
<1> HIDE DEF got, s, w
<1>6. Call = [u \in Threads |-> Asked(u)] /\ Call' = [u \in Threads |-> Asked(u)']
  BY DEF Call, Asked
<1>7. Got = [u \in Threads |-> Served(u)] /\ Got' = [u \in Threads |-> Served(u)']
  BY DEF Got, Served
<1>8. /\ Call[t] = [world |-> w, start |-> asked[t].start] /\ Call[t] # Contract!NoCall
      /\ Call' = Call
  BY <1>1, <1>2, <1>3, <1>6
<1>9. Got[t] = Contract!NotServed /\ got = Got'[t] /\ Got' = [Got EXCEPT ![t] = got]
  BY <1>1, <1>2, <1>7
<1>10. w = Call[t].world /\ asked[t].start = Call[t].start
  BY <1>8
<1> QED
  BY <1>4, <1>5, <1>8, <1>9, <1>10, ServeMeans

LEMMA SeenBegin ==
  ASSUME IInv, NEW t \in Threads, NEW w \in Worlds, NEW f \in Frequencies, Begin(t, w, f)
  PROVE  Contract!Ask(t, w)
<1>1. /\ pc' = [pc EXCEPT ![t] = "begun"] /\ result' = [result EXCEPT ![t] = None] /\ rev' = rev
      /\ asked' = [asked EXCEPT ![t] = [world |-> w, frequency |-> f, start |-> rev,
                                        hertz |-> Value(f), serial |-> calls + 1]]
  BY DEF Begin, outside
<1>2. /\ pc'[t] = "begun" /\ asked'[t].world = w /\ asked'[t].start = rev
      /\ \A u \in Threads : u # t => pc'[u] = pc[u] /\ asked'[u] = asked[u] /\ result'[u] = result[u]
  BY <1>1 DEF IInv, TypeInv
<1>3. Asked(t)' = [world |-> w, start |-> rev] /\ Served(t)' = Contract!NotServed
  BY <1>2 DEF Asked, Served, Contract!NotServed
<1>4. \A u \in Threads : u # t => Asked(u)' = Asked(u) /\ Served(u)' = Served(u)
  BY <1>2 DEF Asked, Served
<1>5. [u \in Threads |-> Asked(u)]' = [[u \in Threads |-> Asked(u)] EXCEPT ![t] = [world |-> w, start |-> rev]]
  BY <1>3, <1>4
<1>6. [u \in Threads |-> Served(u)]' = [[u \in Threads |-> Served(u)] EXCEPT ![t] = Contract!NotServed]
  BY <1>3, <1>4
<1> QED
  BY <1>1, <1>5, <1>6 DEF Contract!Ask, Asked, Served

LEMMA SeenRaise ==
  ASSUME IInv, NEW t \in Threads, Raise(t)
  PROVE  Contract!Fail(t)
<1>1. pc[t] \in {"missed", "building"} /\ Leave(t, "idle") /\ rev' = rev /\ result' = result
  BY DEF Raise, outside
<1>2. /\ pc'[t] = "idle" /\ asked' = asked
      /\ \A u \in Threads : u # t => pc'[u] = pc[u]
  BY <1>1 DEF Leave, IInv, TypeInv
<1>3. /\ Asked(t)' = Contract!NoCall /\ Asked(t) # Contract!NoCall
      /\ Served(t)' = Contract!NotServed /\ Served(t) = Contract!NotServed
  BY <1>1, <1>2, AskedIsNoCall DEF Asked, Served, Contract!NoCall, Contract!NotServed
<1>4. \A u \in Threads : u # t => Asked(u)' = Asked(u) /\ Served(u)' = Served(u)
  BY <1>1, <1>2 DEF Asked, Served
<1>5. [u \in Threads |-> Asked(u)]' = [[u \in Threads |-> Asked(u)] EXCEPT ![t] = Contract!NoCall]
  BY <1>3, <1>4
<1>6. [u \in Threads |-> Served(u)]' = [u \in Threads |-> Served(u)]
  BY <1>3, <1>4
<1> QED
  BY <1>1, <1>3, <1>5, <1>6 DEF Contract!Fail, Asked, Served

LEMMA SeenEdit ==
  ASSUME IInv, NEW o \in Objects, Edit(o)
  PROVE  Contract!Edit(o)
BY DEF Edit, locals, Contract!Edit

\* The steps between: a call reads, looks up, reuses and builds unseen.
LEMMA SeenStep ==
  ASSUME IInv, IInv', PastInv', ServesTheAskedWorld', NoOmittedInvalidation',
         NEW t \in Threads, Step(t)
  PROVE  Contract!Serve(t) \/ Contract!Fail(t) \/ UNCHANGED Contract!vars
<1>1. ASSUME Hit(t) \/ Put(t) PROVE Contract!Serve(t)
  <2>1. /\ pc[t] \in {"keyed", "building"} /\ pc' = [pc EXCEPT ![t] = "done"]
        /\ rev' = rev /\ Leave(t, "done") /\ \E r : result' = [result EXCEPT ![t] = r]
    BY <1>1 DEF Hit, Put, Leave, outside
  <2>2. Alone(t) /\ asked' = asked /\ pc'[t] = "done"
    BY <2>1 DEF Leave, Alone, IInv, TypeInv
  <2> QED
    BY <2>1, <2>2, SeenServe
<1>2. CASE Raise(t)
  BY <1>2, SeenRaise
<1>3. ASSUME MakeKey(t) \/ Miss(t) \/ ReadStructures(t) \/ TakeCandidates(t) \/ (\E p \in Parts : Build(t, p))
      PROVE  UNCHANGED Contract!vars
  <2>1. /\ rev' = rev /\ asked' = asked /\ result' = result
        /\ pc[t] \notin {"idle", "done"} /\ pc'[t] \notin {"idle", "done"}
        /\ Alone(t)
    BY <1>3 DEF MakeKey, Miss, ReadStructures, TakeCandidates, Build, outside, locals, Alone, IInv, TypeInv
  <2>2. Asked(t)' = Asked(t) /\ Served(t)' = Served(t)
    BY <2>1 DEF Asked, Served
  <2> QED
    BY <2>1, <2>2, Unseen
<1> QED
  BY <1>1, <1>2, <1>3 DEF Step

LEMMA SeenNothing ==
  ASSUME (\E x \in Roots : Author(x) \/ Drop(x)) \/ Clear \/ UNCHANGED vars
  PROVE  UNCHANGED Contract!vars
<1>1. UNCHANGED <<rev, pc, asked, result>>
  BY DEF Author, Drop, Clear, vars, outside, locals
<1> QED
  BY <1>1 DEF Contract!vars, Contents

\* Whatever it keeps, reuses and evicts, and however calls and edits
\* interleave, compile is indistinguishable from one that has no cache and
\* builds each runtime from the caller's world during the call.
THEOREM RegistryImplementsContract == Spec => ImplementsContract
<1>1. Init => Contract!Init
  BY DEF Init, Contract!Init, Contract!NoCall, Contract!NotServed
<1>2. IInv /\ IInv' /\ PastInv' /\ ServesTheAskedWorld' /\ NoOmittedInvalidation' /\ [Next]_vars
        => [Contract!Next]_(Contract!vars)
  <2> SUFFICES ASSUME IInv, IInv', PastInv', ServesTheAskedWorld', NoOmittedInvalidation', [Next]_vars
               PROVE  [Contract!Next]_(Contract!vars)
    OBVIOUS
  <2>1. CASE (\E x \in Roots : Author(x) \/ Drop(x)) \/ Clear \/ UNCHANGED vars
    BY <2>1, SeenNothing
  <2>2. ASSUME NEW o \in Objects, Edit(o) PROVE Contract!Next
    BY <2>2, SeenEdit DEF Contract!Next
  <2>3. ASSUME NEW t \in Threads, NEW w \in Worlds, NEW f \in Frequencies, Begin(t, w, f)
        PROVE  Contract!Next
    BY <2>3, SeenBegin DEF Contract!Next
  <2>4. ASSUME NEW t \in Threads, Step(t) PROVE Contract!Next \/ UNCHANGED Contract!vars
    BY <2>4, SeenStep DEF Contract!Next
  <2> QED
    BY <2>1, <2>2, <2>3, <2>4 DEF Next
<1> QED
  BY <1>1, <1>2, Inductive, PastIsInvariant, CacheIsPrecise, CacheIsFresh, PTL
     DEF Spec, ImplementsContract, Contract!Spec
=============================================================================
