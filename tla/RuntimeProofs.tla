---------------------------- MODULE RuntimeProofs ----------------------------
(***************************************************************************)
(* Proofs about the composition of MCRuntime: what is proved of a scene's  *)
(* resources and of the loader holds of a process that has either, for any *)
(* threads, addresses, builds and bounds.                                  *)
(*                                                                         *)
(* The argument: a behaviour stays in the part it started in, and is there *)
(* a behaviour of that part's module: of SceneResources, whose theorems    *)
(* are instantiated, or of NativeLoader, whose invariant is below.         *)
(***************************************************************************)
EXTENDS MCRuntime, FiniteSetTheorems, TLAPS

TablesThm == INSTANCE SceneResourcesProofs WITH
  Kinds <- {"replay", "screens"}, Modes <- {"refined"}
EdgesThm == INSTANCE SceneResourcesProofs WITH
  Threads <- {caller}, Kinds <- {"candidates", "replay"}, Modes <- {"refined", "imported"}
KirchhoffThm == INSTANCE SceneResourcesProofs WITH
  Threads <- {caller}, Kinds <- {"kirchhoff"}, Modes <- {"refined"}

In(p) == part = p

-----------------------------------------------------------------------------
\* Each instance has its own copy of the library's operators.
LEMMA FiniteIsFinite ==
  ASSUME NEW S
  PROVE  /\ Tables!IsFiniteSet(S) <=> TablesThm!IsFiniteSet(S)
         /\ Edges!IsFiniteSet(S) <=> EdgesThm!IsFiniteSet(S)
         /\ Kirchhoff!IsFiniteSet(S) <=> KirchhoffThm!IsFiniteSet(S)
BY DEF Tables!IsFiniteSet, TablesThm!IsFiniteSet, Edges!IsFiniteSet, EdgesThm!IsFiniteSet,
       Kirchhoff!IsFiniteSet, KirchhoffThm!IsFiniteSet

LEMMA CardinalityIsCardinality ==
  ASSUME NEW S
  PROVE  /\ Tables!Cardinality(S) = TablesThm!Cardinality(S)
         /\ Edges!Cardinality(S) = EdgesThm!Cardinality(S)
         /\ Kirchhoff!Cardinality(S) = KirchhoffThm!Cardinality(S)
BY DEF Tables!Cardinality, TablesThm!Cardinality, Edges!Cardinality, EdgesThm!Cardinality,
       Kirchhoff!Cardinality, KirchhoffThm!Cardinality

-----------------------------------------------------------------------------
\* A behaviour of the replay tables and phase screens is one of its module.
LEMMA TablesPart ==
  Spec => [](In("tables") => Tables!TypeOK /\ Tables!ResourcesAreCurrent)
<1>1. TablesThm!ConstantsAssumption
  BY RuntimeAssumption DEF RuntimeAssumption,
        Tables!ConstantsAssumption, Tables!AllKinds, TablesThm!ConstantsAssumption,
        TablesThm!AllKinds,
        Tables!IsFiniteSet, TablesThm!IsFiniteSet
<1>2. Init => ~In("tables") \/ TablesThm!Init
  BY DEF Init, In,
        Tables!AllKinds, Tables!None, Tables!Idle, Tables!Init, TablesThm!AllKinds,
        TablesThm!None, TablesThm!Idle, TablesThm!Init
<1>3. Tables!Next <=> TablesThm!Next
  BY ONLY DEF
        Tables!AllKinds, Tables!TableKinds, Tables!ConstantsAssumption, Tables!None,
        Tables!Leaves, Tables!Idle, Tables!InFlight, Tables!TableState,
        Tables!KirchhoffKey, Tables!ScreenToken, Tables!KeyOf, Tables!Table,
        Tables!ReplayTables, Tables!KirchhoffTables, Tables!PhaseScreens,
        Tables!EdgeCandidates, Tables!Built, Tables!Entry, Tables!InUse,
        Tables!MarkLeaf, Tables!EditLeaf, Tables!Args, Tables!Begin, Tables!KeptEdges,
        Tables!BuildEdges, Tables!KeepEdges, Tables!TakeKey, Tables!ReadsAgain,
        Tables!Hits, Tables!LookUp, Tables!Build, Tables!BuildRaises, Tables!Store,
        Tables!Return, Tables!Done, Tables!Backward, Tables!Init, Tables!Next,
        TablesThm!AllKinds, TablesThm!TableKinds, TablesThm!ConstantsAssumption,
        TablesThm!None, TablesThm!Leaves, TablesThm!Idle, TablesThm!InFlight,
        TablesThm!TableState, TablesThm!KirchhoffKey, TablesThm!ScreenToken,
        TablesThm!KeyOf, TablesThm!Table, TablesThm!ReplayTables,
        TablesThm!KirchhoffTables, TablesThm!PhaseScreens, TablesThm!EdgeCandidates,
        TablesThm!Built, TablesThm!Entry, TablesThm!InUse, TablesThm!MarkLeaf,
        TablesThm!EditLeaf, TablesThm!Args, TablesThm!Begin, TablesThm!KeptEdges,
        TablesThm!BuildEdges, TablesThm!KeepEdges, TablesThm!TakeKey,
        TablesThm!ReadsAgain, TablesThm!Hits, TablesThm!LookUp, TablesThm!Build,
        TablesThm!BuildRaises, TablesThm!Store, TablesThm!Return, TablesThm!Done,
        TablesThm!Backward, TablesThm!Init, TablesThm!Next,
        Tables!IsFiniteSet, TablesThm!IsFiniteSet, Tables!Cardinality, TablesThm!Cardinality
<1>4. [Next]_vars /\ In("tables") => In("tables")' /\ [TablesThm!Next]_TablesThm!vars
  BY <1>3 DEF Next, In, vars, resourceVars, loaderVars, TablesThm!vars
<1>5. [Next]_vars /\ ~In("tables") => ~In("tables")'
  BY DEF Next, In, vars
<1>6. TablesThm!Spec => []TablesThm!TypeOK
  BY <1>1, TablesThm!TypeCorrect
<1>7. TablesThm!Spec => []TablesThm!ResourcesAreCurrent
  <2>1. "candidates" \in {"replay", "screens"} => TablesThm!OneThread
    OBVIOUS
  <2>. QED BY <1>1, <2>1, TablesThm!ResourcesCurrent
<1>8. TablesThm!TypeOK /\ TablesThm!ResourcesAreCurrent => Tables!TypeOK /\ Tables!ResourcesAreCurrent
  BY ONLY DEF
        Tables!AllKinds, Tables!TableKinds, Tables!Leaves, Tables!None, Tables!InFlight,
        Tables!Tables, Tables!Selections, Tables!Steps, Tables!Served,
        Tables!TrueDuring, Tables!ReplayIsCurrent, Tables!EveryReplayGoesBack,
        Tables!ScreensAreCurrentAlone, Tables!CandidatesMatchTheirSelection,
        Tables!ResourcesAreCurrent, Tables!TypeOK, TablesThm!AllKinds,
        TablesThm!TableKinds, TablesThm!Leaves, TablesThm!None, TablesThm!InFlight,
        TablesThm!Tables, TablesThm!Selections, TablesThm!Steps, TablesThm!Served,
        TablesThm!TrueDuring, TablesThm!ReplayIsCurrent, TablesThm!EveryReplayGoesBack,
        TablesThm!ScreensAreCurrentAlone, TablesThm!CandidatesMatchTheirSelection,
        TablesThm!ResourcesAreCurrent, TablesThm!TypeOK
<1>. QED BY <1>2, <1>4, <1>5, <1>6, <1>7, <1>8, PTL DEF Spec, TablesThm!Spec

\* A behaviour of the edge candidates is one of its module.
LEMMA EdgesPart ==
  Spec => [](In("edges") => Edges!TypeOK /\ Edges!ResourcesAreCurrent)
<1>1. EdgesThm!ConstantsAssumption
  BY RuntimeAssumption DEF RuntimeAssumption,
        Edges!ConstantsAssumption, Edges!AllKinds, EdgesThm!ConstantsAssumption,
        EdgesThm!AllKinds,
        Edges!IsFiniteSet, EdgesThm!IsFiniteSet
<1>2. Init => ~In("edges") \/ EdgesThm!Init
  BY DEF Init, In,
        Edges!AllKinds, Edges!None, Edges!Idle, Edges!Init, EdgesThm!AllKinds,
        EdgesThm!None, EdgesThm!Idle, EdgesThm!Init
<1>3. Edges!Next <=> EdgesThm!Next
  BY ONLY DEF
        Edges!AllKinds, Edges!TableKinds, Edges!ConstantsAssumption, Edges!None,
        Edges!Leaves, Edges!Idle, Edges!InFlight, Edges!TableState, Edges!KirchhoffKey,
        Edges!ScreenToken, Edges!KeyOf, Edges!Table, Edges!ReplayTables,
        Edges!KirchhoffTables, Edges!PhaseScreens, Edges!EdgeCandidates, Edges!Built,
        Edges!Entry, Edges!InUse, Edges!MarkLeaf, Edges!EditLeaf, Edges!Args,
        Edges!Begin, Edges!KeptEdges, Edges!BuildEdges, Edges!KeepEdges, Edges!TakeKey,
        Edges!ReadsAgain, Edges!Hits, Edges!LookUp, Edges!Build, Edges!BuildRaises,
        Edges!Store, Edges!Return, Edges!Done, Edges!Backward, Edges!Init, Edges!Next,
        EdgesThm!AllKinds, EdgesThm!TableKinds, EdgesThm!ConstantsAssumption,
        EdgesThm!None, EdgesThm!Leaves, EdgesThm!Idle, EdgesThm!InFlight,
        EdgesThm!TableState, EdgesThm!KirchhoffKey, EdgesThm!ScreenToken,
        EdgesThm!KeyOf, EdgesThm!Table, EdgesThm!ReplayTables, EdgesThm!KirchhoffTables,
        EdgesThm!PhaseScreens, EdgesThm!EdgeCandidates, EdgesThm!Built, EdgesThm!Entry,
        EdgesThm!InUse, EdgesThm!MarkLeaf, EdgesThm!EditLeaf, EdgesThm!Args,
        EdgesThm!Begin, EdgesThm!KeptEdges, EdgesThm!BuildEdges, EdgesThm!KeepEdges,
        EdgesThm!TakeKey, EdgesThm!ReadsAgain, EdgesThm!Hits, EdgesThm!LookUp,
        EdgesThm!Build, EdgesThm!BuildRaises, EdgesThm!Store, EdgesThm!Return,
        EdgesThm!Done, EdgesThm!Backward, EdgesThm!Init, EdgesThm!Next,
        Edges!IsFiniteSet, EdgesThm!IsFiniteSet, Edges!Cardinality, EdgesThm!Cardinality
<1>4. [Next]_vars /\ In("edges") => In("edges")' /\ [EdgesThm!Next]_EdgesThm!vars
  BY <1>3 DEF Next, In, vars, resourceVars, loaderVars, EdgesThm!vars
<1>5. [Next]_vars /\ ~In("edges") => ~In("edges")'
  BY DEF Next, In, vars
<1>6. EdgesThm!Spec => []EdgesThm!TypeOK
  BY <1>1, EdgesThm!TypeCorrect
<1>7. EdgesThm!Spec => []EdgesThm!ResourcesAreCurrent
  <2>1. EdgesThm!OneThread
    BY DEF EdgesThm!OneThread
  <2>. QED BY <1>1, <2>1, EdgesThm!ResourcesCurrent
<1>8. EdgesThm!TypeOK /\ EdgesThm!ResourcesAreCurrent => Edges!TypeOK /\ Edges!ResourcesAreCurrent
  BY ONLY DEF
        Edges!AllKinds, Edges!TableKinds, Edges!Leaves, Edges!None, Edges!InFlight,
        Edges!Tables, Edges!Selections, Edges!Steps, Edges!Served, Edges!TrueDuring,
        Edges!ReplayIsCurrent, Edges!EveryReplayGoesBack, Edges!ScreensAreCurrentAlone,
        Edges!CandidatesMatchTheirSelection, Edges!ResourcesAreCurrent, Edges!TypeOK,
        EdgesThm!AllKinds, EdgesThm!TableKinds, EdgesThm!Leaves, EdgesThm!None,
        EdgesThm!InFlight, EdgesThm!Tables, EdgesThm!Selections, EdgesThm!Steps,
        EdgesThm!Served, EdgesThm!TrueDuring, EdgesThm!ReplayIsCurrent,
        EdgesThm!EveryReplayGoesBack, EdgesThm!ScreensAreCurrentAlone,
        EdgesThm!CandidatesMatchTheirSelection, EdgesThm!ResourcesAreCurrent,
        EdgesThm!TypeOK
<1>. QED BY <1>2, <1>4, <1>5, <1>6, <1>7, <1>8, PTL DEF Spec, EdgesThm!Spec

\* A behaviour of the Kirchhoff tables is one of its module.
LEMMA KirchhoffPart ==
  Spec => [](In("kirchhoff") => Kirchhoff!TypeOK)
<1>1. KirchhoffThm!ConstantsAssumption
  BY RuntimeAssumption DEF RuntimeAssumption,
        Kirchhoff!ConstantsAssumption, Kirchhoff!AllKinds,
        KirchhoffThm!ConstantsAssumption, KirchhoffThm!AllKinds,
        Kirchhoff!IsFiniteSet, KirchhoffThm!IsFiniteSet
<1>2. Init => ~In("kirchhoff") \/ KirchhoffThm!Init
  BY DEF Init, In,
        Kirchhoff!AllKinds, Kirchhoff!None, Kirchhoff!Idle, Kirchhoff!Init,
        KirchhoffThm!AllKinds, KirchhoffThm!None, KirchhoffThm!Idle, KirchhoffThm!Init
<1>3. Kirchhoff!Next <=> KirchhoffThm!Next
  BY ONLY DEF
        Kirchhoff!AllKinds, Kirchhoff!TableKinds, Kirchhoff!ConstantsAssumption,
        Kirchhoff!None, Kirchhoff!Leaves, Kirchhoff!Idle, Kirchhoff!InFlight,
        Kirchhoff!TableState, Kirchhoff!KirchhoffKey, Kirchhoff!ScreenToken,
        Kirchhoff!KeyOf, Kirchhoff!Table, Kirchhoff!ReplayTables,
        Kirchhoff!KirchhoffTables, Kirchhoff!PhaseScreens, Kirchhoff!EdgeCandidates,
        Kirchhoff!Built, Kirchhoff!Entry, Kirchhoff!InUse, Kirchhoff!MarkLeaf,
        Kirchhoff!EditLeaf, Kirchhoff!Args, Kirchhoff!Begin, Kirchhoff!KeptEdges,
        Kirchhoff!BuildEdges, Kirchhoff!KeepEdges, Kirchhoff!TakeKey,
        Kirchhoff!ReadsAgain, Kirchhoff!Hits, Kirchhoff!LookUp, Kirchhoff!Build,
        Kirchhoff!BuildRaises, Kirchhoff!Store, Kirchhoff!Return, Kirchhoff!Done,
        Kirchhoff!Backward, Kirchhoff!Init, Kirchhoff!Next, KirchhoffThm!AllKinds,
        KirchhoffThm!TableKinds, KirchhoffThm!ConstantsAssumption, KirchhoffThm!None,
        KirchhoffThm!Leaves, KirchhoffThm!Idle, KirchhoffThm!InFlight,
        KirchhoffThm!TableState, KirchhoffThm!KirchhoffKey, KirchhoffThm!ScreenToken,
        KirchhoffThm!KeyOf, KirchhoffThm!Table, KirchhoffThm!ReplayTables,
        KirchhoffThm!KirchhoffTables, KirchhoffThm!PhaseScreens,
        KirchhoffThm!EdgeCandidates, KirchhoffThm!Built, KirchhoffThm!Entry,
        KirchhoffThm!InUse, KirchhoffThm!MarkLeaf, KirchhoffThm!EditLeaf,
        KirchhoffThm!Args, KirchhoffThm!Begin, KirchhoffThm!KeptEdges,
        KirchhoffThm!BuildEdges, KirchhoffThm!KeepEdges, KirchhoffThm!TakeKey,
        KirchhoffThm!ReadsAgain, KirchhoffThm!Hits, KirchhoffThm!LookUp,
        KirchhoffThm!Build, KirchhoffThm!BuildRaises, KirchhoffThm!Store,
        KirchhoffThm!Return, KirchhoffThm!Done, KirchhoffThm!Backward,
        KirchhoffThm!Init, KirchhoffThm!Next,
        Kirchhoff!IsFiniteSet, KirchhoffThm!IsFiniteSet, Kirchhoff!Cardinality, KirchhoffThm!Cardinality
<1>4. [Next]_vars /\ In("kirchhoff") => In("kirchhoff")' /\ [KirchhoffThm!Next]_KirchhoffThm!vars
  BY <1>3 DEF Next, In, vars, resourceVars, loaderVars, KirchhoffThm!vars
<1>5. [Next]_vars /\ ~In("kirchhoff") => ~In("kirchhoff")'
  BY DEF Next, In, vars
<1>6. KirchhoffThm!Spec => []KirchhoffThm!TypeOK
  BY <1>1, KirchhoffThm!TypeCorrect
<1>7. KirchhoffThm!TypeOK => Kirchhoff!TypeOK
  BY ONLY DEF
        Kirchhoff!AllKinds, Kirchhoff!TableKinds, Kirchhoff!Leaves, Kirchhoff!None,
        Kirchhoff!InFlight, Kirchhoff!Tables, Kirchhoff!Selections, Kirchhoff!Steps,
        Kirchhoff!Served, Kirchhoff!TrueDuring, Kirchhoff!ReplayIsCurrent,
        Kirchhoff!EveryReplayGoesBack, Kirchhoff!ScreensAreCurrentAlone,
        Kirchhoff!CandidatesMatchTheirSelection, Kirchhoff!TypeOK,
        KirchhoffThm!AllKinds, KirchhoffThm!TableKinds, KirchhoffThm!Leaves,
        KirchhoffThm!None, KirchhoffThm!InFlight, KirchhoffThm!Tables,
        KirchhoffThm!Selections, KirchhoffThm!Steps, KirchhoffThm!Served,
        KirchhoffThm!TrueDuring, KirchhoffThm!ReplayIsCurrent,
        KirchhoffThm!EveryReplayGoesBack, KirchhoffThm!ScreensAreCurrentAlone,
        KirchhoffThm!CandidatesMatchTheirSelection, KirchhoffThm!TypeOK
<1>. QED BY <1>2, <1>4, <1>5, <1>6, <1>7, PTL DEF Spec, KirchhoffThm!Spec

-----------------------------------------------------------------------------
(* The loader, for any threads, builds and number of edits.                *)
(*                                                                         *)
(* The argument: whatever names a build - the fingerprint file, the        *)
(* developer variables, the lock - is vouched for when it is read and ever *)
(* after, so a module that passed validation is trusted wherever it is     *)
(* kept; a package or a developer file is never removed, so that a process *)
(* that began with a package takes no developer branch, and one without a  *)
(* developer file that registers itself never loses what it imported; and  *)
(* a call that began in a right world finds at each of its steps what the  *)
(* next one asks for.                                                      *)

LoaderEntries == [expect : Loader!Prints, module : Loader!Modules]

LoaderCalls ==
  [pc : {"idle", "find", "import", "sidecar", "validate", "keep", "describe", "answered",
         "refused"},
   want : {"none", "extension", "info"}, branch : {"none", "package", "developer"},
   module : Loader!AtMostOne(Loader!Modules), expect : Loader!Prints \cup {"none"}]

LoaderTyped ==
  /\ disk \in [package : Loader!AtMostOne(Builds), sidecar : Loader!Prints \cup {"none"},
               lock : Loader!Locks, developer : Loader!AtMostOne(Builds)]
  /\ env \in {"unset", "partial"} \cup Loader!Prints
  /\ build \in [registers : BOOLEAN, shipped : BOOLEAN]
  /\ loaded \in Loader!AtMostOne(Loader!Modules)
  /\ cache \in [package : Loader!AtMostOne(Loader!Modules),
                developer : Loader!AtMostOne(LoaderEntries),
                extension : Loader!AtMostOne(Loader!Modules),
                info : Loader!AtMostOne(Loader!Modules)]
  /\ call \in [Threads -> LoaderCalls]
  /\ right \in [Threads -> BOOLEAN]

Trusted(m) ==
  /\ m.build.genuine
  /\ <<m.home, m.build.print>> \in vouched
  /\ <<"lock", m.build.rayd>> \in vouched

AllTrusted(S) == \A m \in S : Trusted(m)

\* What a call holds was vouched for, or will be compared with what was.
CallVouched(c) ==
  /\ c.pc \in {"keep", "describe", "answered"} => AllTrusted(c.module)
  /\ c.pc = "import" => c.branch # "none"
  /\ c.pc = "import" /\ c.branch = "developer" => <<"developer", c.expect>> \in vouched
  /\ c.pc = "sidecar" => c.branch = "package"
  /\ c.pc = "validate" =>
       /\ c.branch # "none" /\ <<c.branch, c.expect>> \in vouched
       /\ c.branch = "developer" => \A m \in c.module : m.home = "developer"

VouchInv ==
  /\ Loader!Vouching(disk, env) \subseteq vouched
  /\ AllTrusted(cache.package) /\ AllTrusted(cache.extension) /\ AllTrusted(cache.info)
  /\ \A e \in cache.developer : Trusted(e.module) /\ e.module.build.print = e.expect
  /\ \A t \in Threads : CallVouched(call[t])

OfThePackage(S) == \A m \in S : m.home = "package"

\* A process that began with a package never looks at a developer build.
ShippedInv ==
  /\ OfThePackage(cache.package)
  /\ build.shipped =>
       /\ disk.package # {}
       /\ OfThePackage(loaded) /\ OfThePackage(cache.extension) /\ OfThePackage(cache.info)
       /\ \A t \in Threads : call[t].branch # "developer" /\ OfThePackage(call[t].module)

\* No developer file can replace what the module table has.
Settled == ~build.registers \/ disk.developer = {}

Imported(c) == c.branch = "package" /\ c.pc \in {"sidecar", "validate"} => c.module \subseteq loaded

SettledInv ==
  /\ disk.developer = {} => \A t \in Threads : call[t].branch # "developer"
  /\ Settled => cache.package \subseteq loaded /\ \A t \in Threads : Imported(call[t])

\* The two worlds in which a build should be taken.
PackageFits(b) ==
  /\ b \in disk.package /\ Loader!Takes(b) /\ disk.sidecar = b.print
  /\ loaded \subseteq {[build |-> b, home |-> "package"]}

DeveloperFits(b) ==
  /\ disk.package = {} /\ loaded = {}
  /\ b \in disk.developer /\ Loader!Takes(b) /\ env = b.print

\* A call that began in such a world and build b.
OnTrack(c, b) ==
  /\ Settled
  /\ PackageFits(b) \/ DeveloperFits(b)
  /\ c.pc # "refused"
  /\ c.pc \in {"import", "sidecar", "validate"} =>
       \/ c.branch = "package" /\ PackageFits(b)
       \/ c.branch = "developer" /\ DeveloperFits(b) /\ c.expect = env
  /\ c.pc \in {"sidecar", "validate"} => c.module = {[build |-> b, home |-> c.branch]}
  /\ c.pc = "validate" => c.expect = b.print
  /\ c.pc \in {"keep", "describe"} => \A m \in c.module : m.build.genuine /\ m.build.rayd = disk.lock

RightInv == \A t \in Threads : right[t] => \E b \in Builds : OnTrack(call[t], b)

LoaderInv == LoaderTyped /\ VouchInv /\ ShippedInv /\ SettledInv /\ RightInv

-----------------------------------------------------------------------------
(* Sets of at most one element. *)

LEMMA AtMostOneIs ==
  ASSUME NEW S, NEW A
  PROVE  A \in Loader!AtMostOne(S) <=> A = {} \/ \E x \in S : A = {x}
BY DEF Loader!AtMostOne

LEMMA AtMostOneSub ==
  ASSUME NEW S, NEW A \in Loader!AtMostOne(S)
  PROVE  A \subseteq S /\ \A x, y \in A : x = y
BY AtMostOneIs

\* The instance has its own copy of the library's operator.
LEMMA LoaderCardinality ==
  ASSUME NEW S
  PROVE  Loader!Cardinality(S) = Cardinality(S)
BY ONLY Zenon DEF Loader!Cardinality, Cardinality

LEMMA AtMostOneCardinality ==
  ASSUME NEW S, NEW A \in Loader!AtMostOne(S)
  PROVE  Loader!Cardinality(A) <= 1
<1>1. A = {} \/ \E x \in S : A = {x}
  BY AtMostOneIs
<1>2. Loader!Cardinality({}) = 0
  BY FS_EmptySet, LoaderCardinality
<1>3. \A x \in S : Loader!Cardinality({x}) = 1
  BY FS_Singleton, LoaderCardinality
<1> QED
  BY <1>1, <1>2, <1>3
-----------------------------------------------------------------------------
LEMMA InitIInv == ASSUME Loader!BuildsAssumption PROVE Loader!Init => LoaderInv
<1> SUFFICES ASSUME Loader!Init PROVE LoaderInv
  OBVIOUS
<1> USE DEF Loader!Init
<1>1. {} \in Loader!AtMostOne(Loader!Modules) /\ {} \in Loader!AtMostOne(LoaderEntries)
  BY AtMostOneIs
<1>2. LoaderTyped
  BY <1>1 DEF LoaderTyped, LoaderCalls, Loader!Idle
<1>3. VouchInv
  BY DEF VouchInv, AllTrusted, CallVouched, Loader!Idle
<1>4. ShippedInv
  BY DEF ShippedInv, OfThePackage, Loader!Idle
<1>5. SettledInv
  BY DEF SettledInv, Imported, Loader!Idle
<1>6. RightInv
  BY DEF RightInv
<1> QED
  BY <1>2, <1>3, <1>4, <1>5, <1>6 DEF LoaderInv

-----------------------------------------------------------------------------
(* A step of thread t that leaves the files, the variables and the module   *)
(* table alone, and stores only trusted modules, of the package where there *)
(* was one.                                                                 *)

LEMMA QuietStep ==
  ASSUME LoaderInv, NEW t \in Threads, NEW c \in LoaderCalls, call' = [call EXCEPT ![t] = c],
         UNCHANGED <<disk, env, build, loaded, vouched>>,
         cache' \in [package : Loader!AtMostOne(Loader!Modules),
                     developer : Loader!AtMostOne(LoaderEntries),
                     extension : Loader!AtMostOne(Loader!Modules),
                     info : Loader!AtMostOne(Loader!Modules)],
         \A m \in (cache'.package \cup cache'.extension \cup cache'.info) :
           Trusted(m) /\ (build.shipped => m.home = "package"),
         OfThePackage(cache'.package),
         \A e \in cache'.developer : Trusted(e.module) /\ e.module.build.print = e.expect,
         Settled => cache'.package \subseteq loaded,
         CallVouched(c), Settled => Imported(c),
         build.shipped => c.branch # "developer" /\ OfThePackage(c.module),
         disk.developer = {} => c.branch # "developer",
         right' \in [Threads -> BOOLEAN],
         \A u \in Threads \ {t} : right'[u] = right[u],
         right'[t] => \E b \in Builds : OnTrack(c, b)
  PROVE  LoaderInv'
<1>1. call'[t] = c /\ \A u \in Threads \ {t} : call'[u] = call[u]
  BY DEF LoaderInv, LoaderTyped
<1>2. LoaderTyped'
  BY DEF LoaderInv, LoaderTyped
<1>3. VouchInv'
  <2>1. \A u \in Threads : CallVouched(call[u])'
    BY <1>1 DEF LoaderInv, VouchInv, CallVouched, AllTrusted, Trusted
  <2> QED
    BY <2>1 DEF LoaderInv, VouchInv, AllTrusted, Trusted, Loader!Vouching
<1>4. ShippedInv'
  BY <1>1 DEF LoaderInv, ShippedInv, OfThePackage
<1>5. SettledInv'
  BY <1>1 DEF LoaderInv, SettledInv, Imported, Settled
<1>6. RightInv'
  <2> SUFFICES ASSUME NEW u \in Threads, right'[u]
               PROVE  \E b \in Builds : OnTrack(call[u], b)'
    BY DEF RightInv
  <2>1. PICK b \in Builds : OnTrack(call'[u], b)
    BY <1>1 DEF LoaderInv, RightInv
  <2>2. OnTrack(call[u], b)'
    BY <2>1 DEF OnTrack, Settled, PackageFits, DeveloperFits, Loader!Takes
  <2> QED
    BY <2>2
<1> QED
  BY <1>2, <1>3, <1>4, <1>5, <1>6 DEF LoaderInv

\* What a thread's state says of its own call, for the steps below.
LEMMA OwnCall ==
  ASSUME LoaderInv, NEW t \in Threads
  PROVE  /\ call[t] \in LoaderCalls /\ CallVouched(call[t])
         /\ Settled => Imported(call[t])
         /\ build.shipped => call[t].branch # "developer" /\ OfThePackage(call[t].module)
         /\ disk.developer = {} => call[t].branch # "developer"
         /\ right[t] => \E b \in Builds : OnTrack(call[t], b)
         /\ right[t] \in BOOLEAN
BY DEF LoaderInv, LoaderTyped, VouchInv, SettledInv, ShippedInv, RightInv

\* What the caches hold.
LEMMA OwnCache ==
  ASSUME LoaderInv
  PROVE  /\ cache \in [package : Loader!AtMostOne(Loader!Modules),
                       developer : Loader!AtMostOne(LoaderEntries),
                       extension : Loader!AtMostOne(Loader!Modules),
                       info : Loader!AtMostOne(Loader!Modules)]
         /\ \A m \in (cache.package \cup cache.extension \cup cache.info) :
              Trusted(m) /\ (build.shipped => m.home = "package")
         /\ OfThePackage(cache.package)
         /\ \A e \in cache.developer : Trusted(e.module) /\ e.module.build.print = e.expect
         /\ Settled => cache.package \subseteq loaded
BY DEF LoaderInv, LoaderTyped, VouchInv, SettledInv, ShippedInv, OfThePackage, AllTrusted

LEMMA AskIInv ==
  ASSUME LoaderInv, NEW t \in Threads, NEW want \in {"extension", "info"}, Loader!Ask(t, want)
  PROVE  LoaderInv'
<1> DEFINE known == IF want = "info" /\ cache.info # {} THEN cache.info ELSE cache.extension
           c == [Loader!Idle EXCEPT !.want = want, !.module = known,
                   !.pc = IF known = {} THEN "find"
                          ELSE IF want = "info" /\ cache.info = {} THEN "describe"
                          ELSE "answered"]
<1>1. c \in LoaderCalls /\ c.module = known /\ c.branch = "none"
      /\ c.pc \in {"find", "describe", "answered"} /\ (c.pc = "find" => known = {})
      /\ (c.pc = "describe" => known = cache.extension)
  BY DEF LoaderCalls, Loader!Idle, LoaderInv, LoaderTyped
<1>2. call' = [call EXCEPT ![t] = c]
  BY DEF Loader!Ask, Loader!Goes
<1>3. \A m \in known : Trusted(m) /\ (build.shipped => m.home = "package")
  BY OwnCache
<1>4. Loader!RightWorld => \E b \in Builds : OnTrack(c, b)
  <2> SUFFICES ASSUME Loader!RightWorld PROVE \E b \in Builds : OnTrack(c, b)
    OBVIOUS
  <2>1. disk.package \subseteq Builds /\ disk.developer \subseteq Builds
    BY AtMostOneSub DEF LoaderInv, LoaderTyped
  <2>2. PICK b \in Builds : PackageFits(b) \/ DeveloperFits(b)
    BY <2>1 DEF Loader!RightWorld, PackageFits, DeveloperFits
  <2>3. Settled /\ \A m \in cache.extension : m.build.rayd = disk.lock /\ m.build.genuine
    BY OwnCache DEF Loader!RightWorld, Settled, Trusted
  <2> HIDE DEF c, known
  <2> QED
    BY <1>1, <2>2, <2>3 DEF OnTrack
<1>5. right'[t] = Loader!RightWorld /\ \A u \in Threads \ {t} : right'[u] = right[u]
  BY DEF Loader!Ask, LoaderInv, LoaderTyped
<1>6. Loader!RightWorld \in BOOLEAN
  BY DEF Loader!RightWorld
<1>7. right' \in [Threads -> BOOLEAN]
  BY <1>6 DEF Loader!Ask, LoaderInv, LoaderTyped
<1>8. CallVouched(c) /\ Imported(c) /\ OfThePackage({}) /\ (build.shipped => OfThePackage(c.module))
  BY <1>1, <1>3 DEF CallVouched, Imported, OfThePackage, AllTrusted
<1>9. UNCHANGED <<disk, env, build, loaded, cache, vouched>>
  BY DEF Loader!Ask
<1> HIDE DEF c, known
<1> QED
  BY <1>1, <1>2, <1>4, <1>5, <1>7, <1>8, <1>9, OwnCache, QuietStep

\* Steps of a call do not touch the history of what was right.
LEMMA RightFrame ==
  ASSUME LoaderInv, NEW t \in Threads, UNCHANGED right
  PROVE  right' \in [Threads -> BOOLEAN] /\ \A u \in Threads : right'[u] = right[u]
BY DEF LoaderInv, LoaderTyped

LEMMA ReturnIInv ==
  ASSUME LoaderInv, NEW t \in Threads, Loader!Return(t)
  PROVE  LoaderInv'
<1>1. Loader!Idle \in LoaderCalls /\ CallVouched(Loader!Idle) /\ Imported(Loader!Idle)
      /\ OfThePackage(Loader!Idle.module)
      /\ Loader!Idle.branch = "none"
  BY AtMostOneIs DEF Loader!Idle, LoaderCalls, CallVouched, Imported, OfThePackage
<1>2. right' \in [Threads -> BOOLEAN] /\ ~right'[t] /\ \A u \in Threads \ {t} : right'[u] = right[u]
  BY DEF Loader!Return, LoaderInv, LoaderTyped
<1>3. call' = [call EXCEPT ![t] = Loader!Idle]
      /\ UNCHANGED <<disk, env, build, loaded, cache, vouched>>
  BY DEF Loader!Return, Loader!Goes
<1> QED
  BY <1>1, <1>2, <1>3, OwnCache, QuietStep

\* A refusal is of a call that was not in a right world.
LEMMA RefuseIInv ==
  ASSUME LoaderInv, NEW t \in Threads, Loader!Refuse(t), ~right[t],
         UNCHANGED <<disk, env, build, loaded, cache, vouched, right>>
  PROVE  LoaderInv'
<1> DEFINE c == [call[t] EXCEPT !.pc = "refused"]
<1>1. c \in LoaderCalls /\ c.pc = "refused" /\ c.branch = call[t].branch
      /\ c.module = call[t].module
  BY OwnCall DEF LoaderCalls
<1>2. CallVouched(c) /\ Imported(c)
  BY <1>1 DEF CallVouched, Imported
<1>3. call' = [call EXCEPT ![t] = c]
  BY DEF Loader!Refuse, Loader!Goes
<1> HIDE DEF c
<1> QED
  BY <1>1, <1>2, <1>3, OwnCall, OwnCache, RightFrame, QuietStep

LEMMA ReadSidecarIInv ==
  ASSUME Loader!BuildsAssumption, LoaderInv, NEW t \in Threads, Loader!ReadSidecar(t)
  PROVE  LoaderInv'
<1>1. call[t].pc = "sidecar" /\ call[t].branch = "package"
      /\ UNCHANGED <<disk, env, build, loaded, cache, vouched, right>>
  BY OwnCall DEF Loader!ReadSidecar, Loader!At, CallVouched
<1>2. right[t] => disk.sidecar # "none"
  BY <1>1, OwnCall DEF OnTrack, PackageFits, Loader!BuildsAssumption
<1>3. CASE disk.sidecar = "none"
  BY <1>1, <1>2, <1>3, RefuseIInv DEF Loader!ReadSidecar
<1>4. CASE disk.sidecar # "none"
  <2> DEFINE c == [call[t] EXCEPT !.pc = "validate", !.expect = disk.sidecar]
  <2>1. c \in LoaderCalls /\ c.pc = "validate" /\ c.branch = "package"
        /\ c.module = call[t].module /\ c.expect = disk.sidecar
    BY <1>1, OwnCall DEF LoaderCalls, LoaderInv, LoaderTyped
  <2>2. call' = [call EXCEPT ![t] = c]
    BY <1>4 DEF Loader!ReadSidecar, Loader!Goes
  <2>3. CallVouched(c) /\ (Settled => Imported(c))
    BY <1>1, <2>1, OwnCall DEF CallVouched, Imported, LoaderInv, VouchInv, Loader!Vouching
  <2>4. ASSUME NEW b \in Builds, OnTrack(call[t], b) PROVE OnTrack(c, b)
    BY <1>1, <2>1, <2>4 DEF OnTrack, PackageFits
  <2> HIDE DEF c
  <2> QED
    BY <1>1, <2>1, <2>2, <2>3, <2>4, OwnCall, OwnCache, RightFrame, QuietStep
<1> QED
  BY <1>3, <1>4

LEMMA FindIInv ==
  ASSUME Loader!BuildsAssumption, LoaderInv, NEW t \in Threads, Loader!Find(t)
  PROVE  LoaderInv'
<1>1. call[t].pc = "find" /\ UNCHANGED <<disk, env, build, loaded, cache, vouched, right>>
  BY DEF Loader!Find, Loader!At
<1>2. CASE Loader!PackageIsFound
  <2> DEFINE c == [call[t] EXCEPT !.branch = "package", !.module = cache.package,
                     !.pc = IF cache.package = {} THEN "import" ELSE "keep"]
  <2>1. c \in LoaderCalls /\ c.pc \in {"import", "keep"} /\ c.branch = "package"
        /\ c.module = cache.package
    BY OwnCall, OwnCache DEF LoaderCalls
  <2>2. call' = [call EXCEPT ![t] = c]
    BY <1>2 DEF Loader!Find, Loader!Goes
  <2>3. CallVouched(c) /\ Imported(c) /\ (build.shipped => OfThePackage(c.module))
    BY <2>1, OwnCache DEF CallVouched, Imported, AllTrusted
  <2>4. ASSUME NEW b \in Builds, OnTrack(call[t], b) PROVE OnTrack(c, b)
    <3>1. PackageFits(b)
      BY <1>2, <2>4 DEF Loader!PackageIsFound, OnTrack, DeveloperFits
    <3>2. \A m \in cache.package : m.build.genuine /\ m.build.rayd = disk.lock
      BY <2>4, <3>1, OwnCache DEF OnTrack, PackageFits, Loader!Takes
    <3> HIDE DEF c
    <3> QED
      BY <2>1, <2>4, <3>1, <3>2 DEF OnTrack
  <2> HIDE DEF c
  <2> QED
    BY <1>1, <2>1, <2>2, <2>3, <2>4, OwnCall, OwnCache, RightFrame, QuietStep
<1>3. CASE ~Loader!PackageIsFound /\ env \in Loader!Prints /\ disk.developer # {}
  <2> DEFINE hit == {e.module : e \in {x \in cache.developer : x.expect = env}}
             c == [call[t] EXCEPT !.branch = "developer", !.module = hit,
                     !.expect = env, !.pc = IF hit = {} THEN "import" ELSE "keep"]
  <2>1. hit \in Loader!AtMostOne(Loader!Modules)
    <3>1. cache.developer = {} \/ \E e \in LoaderEntries : cache.developer = {e}
      BY OwnCache, AtMostOneIs
    <3>2. ASSUME NEW e \in LoaderEntries, cache.developer = {e} PROVE hit = {} \/ hit = {e.module}
      BY <3>2
    <3>3. cache.developer = {} => hit = {}
      OBVIOUS
    <3> QED
      BY <3>1, <3>2, <3>3, AtMostOneIs DEF LoaderEntries
  <2>2. c \in LoaderCalls /\ c.pc \in {"import", "keep"} /\ c.branch = "developer"
        /\ c.module = hit /\ c.expect = env
    BY <1>3, <2>1, OwnCall DEF LoaderCalls
  <2>3. call' = [call EXCEPT ![t] = c]
    BY <1>3 DEF Loader!Find, Loader!Goes
  <2>4. AllTrusted(hit) /\ \A m \in hit : m.build.print = env
    BY OwnCache DEF AllTrusted
  <2>5. CallVouched(c) /\ Imported(c)
    <3>1. <<"developer", env>> \in vouched
      BY <1>3 DEF LoaderInv, VouchInv, Loader!Vouching
    <3> HIDE DEF c, hit
    <3> QED
      BY <2>2, <2>4, <3>1 DEF CallVouched, Imported
  <2>6. ~build.shipped
    BY <1>3 DEF Loader!PackageIsFound, LoaderInv, ShippedInv
  <2>7. ASSUME NEW b \in Builds, OnTrack(call[t], b) PROVE OnTrack(c, b)
    <3>1. DeveloperFits(b)
      BY <1>3, <2>7 DEF Loader!PackageIsFound, OnTrack, PackageFits
    <3> HIDE DEF c, hit
    <3>2. \A m \in hit : m.build \in Builds /\ m.build.genuine /\ m.build.print = b.print
      <4>1. hit \subseteq Loader!Modules /\ env = b.print
        BY <2>1, <3>1, AtMostOneSub DEF DeveloperFits
      <4> QED
        BY <2>4, <4>1 DEF AllTrusted, Trusted, Loader!Modules
    <3>3. \A m \in hit : m.build.genuine /\ m.build.rayd = disk.lock
      BY <3>1, <3>2 DEF Loader!BuildsAssumption, DeveloperFits, Loader!Takes
    <3> QED
      BY <2>2, <2>7, <3>1, <3>3 DEF OnTrack
  <2> HIDE DEF c, hit
  <2> QED
    BY <1>1, <1>3, <2>2, <2>3, <2>5, <2>6, <2>7, OwnCall, OwnCache, RightFrame, QuietStep
<1>4. CASE ~Loader!PackageIsFound /\ ~(env \in Loader!Prints /\ disk.developer # {})
  <2>1. ~right[t]
    BY <1>4, OwnCall DEF Loader!PackageIsFound, OnTrack, PackageFits, DeveloperFits, Loader!Prints
  <2> QED
    BY <1>1, <1>4, <2>1, RefuseIInv DEF Loader!Find
<1> QED
  BY <1>2, <1>3, <1>4

LEMMA ValidateIInv ==
  ASSUME LoaderInv, NEW t \in Threads, Loader!Validate(t)
  PROVE  LoaderInv'
<1> DEFINE c == call[t]  d == [c EXCEPT !.pc = "keep"]
<1>1. c.pc = "validate" /\ UNCHANGED <<disk, env, build, loaded, vouched, right>>
  BY DEF Loader!Validate, Loader!At
<1>2. c \in LoaderCalls /\ CallVouched(c) /\ c.module \in Loader!AtMostOne(Loader!Modules)
      /\ c.expect \in Loader!Prints \cup {"none"}
  BY OwnCall DEF LoaderCalls
<1>3. CASE \E m \in c.module : Loader!Valid(c, m)
  <2>1. PICK m \in Loader!Modules : c.module = {m} /\ Loader!Valid(c, m)
    BY <1>2, <1>3, AtMostOneIs
  <2>2. m.home = c.branch /\ <<m.home, m.build.print>> \in vouched
    BY <1>1, <1>2, <2>1 DEF Loader!Valid, CallVouched, LoaderCalls
  <2>3. Trusted(m)
    BY <2>1, <2>2 DEF Loader!Valid, Trusted, LoaderInv, VouchInv, Loader!Vouching
  <2>4. d \in LoaderCalls /\ d.pc = "keep" /\ d.branch = c.branch /\ d.module = {m}
    BY <1>2, <2>1 DEF LoaderCalls
  <2>5. call' = [call EXCEPT ![t] = d]
    BY <1>3 DEF Loader!Validate, Loader!Goes
  <2>6. m.build \in Builds /\ m.build.print \in Loader!Prints /\ c.expect = m.build.print
    BY <2>1 DEF Loader!Modules, Loader!Prints, Loader!Valid
  <2>7. CallVouched(d) /\ Imported(d)
    BY <2>3, <2>4 DEF CallVouched, Imported, AllTrusted
  <2>8. ASSUME NEW b \in Builds, OnTrack(c, b) PROVE OnTrack(d, b)
    <3> HIDE DEF d
    <3> QED
      BY <1>1, <2>1, <2>4, <2>8 DEF OnTrack, Loader!Valid
  <2>9. /\ cache' \in [package : Loader!AtMostOne(Loader!Modules),
                       developer : Loader!AtMostOne(LoaderEntries),
                       extension : Loader!AtMostOne(Loader!Modules),
                       info : Loader!AtMostOne(Loader!Modules)]
        /\ cache'.package = cache.package \/ (c.branch = "package" /\ cache'.package = {m})
        /\ cache'.extension = cache.extension /\ cache'.info = cache.info
        /\ cache'.developer = cache.developer \/ cache'.developer = {[expect |-> c.expect, module |-> m]}
    <3>1. CASE c.branch = "package"
      <4>1. cache' = [cache EXCEPT !.package = Loader!Stored(@, {m})]
        BY <1>3, <2>1, <3>1 DEF Loader!Validate
      <4>2. Loader!Stored(cache.package, {m}) \in Loader!AtMostOne(Loader!Modules)
        BY OwnCache, AtMostOneIs DEF Loader!Stored
      <4> QED
        BY <3>1, <4>1, <4>2, OwnCache DEF Loader!Stored
    <3>2. CASE c.branch # "package"
      <4> DEFINE new == {[expect |-> c.expect, module |-> n] : n \in c.module}
      <4>1. cache' = [cache EXCEPT !.developer = IF \E e \in @ : e.expect = c.expect THEN @ ELSE new]
        BY <1>3, <3>2 DEF Loader!Validate
      <4>2. new = {[expect |-> c.expect, module |-> m]}
        BY <2>1
      <4>3. new \in Loader!AtMostOne(LoaderEntries)
        BY <2>6, <4>2, AtMostOneIs DEF LoaderEntries
      <4> HIDE DEF new
      <4> QED
        BY <4>1, <4>2, <4>3, OwnCache
    <3> QED
      BY <3>1, <3>2
  <2>10. /\ \A n \in (cache'.package \cup cache'.extension \cup cache'.info) :
              Trusted(n) /\ (build.shipped => n.home = "package")
         /\ OfThePackage(cache'.package)
         /\ Settled => cache'.package \subseteq loaded
    BY <1>1, <2>1, <2>2, <2>3, <2>9, OwnCache, OwnCall DEF OfThePackage, Imported
  <2>11. \A e \in cache'.developer : Trusted(e.module) /\ e.module.build.print = e.expect
    BY <2>3, <2>6, <2>9, OwnCache
  <2>12. build.shipped => d.branch # "developer" /\ OfThePackage(d.module)
    BY <2>1, <2>4, OwnCall
  <2> HIDE DEF d
  <2> QED
    BY <1>1, <2>4, <2>5, <2>7, <2>8, <2>9, <2>10, <2>11, <2>12, OwnCall, RightFrame, QuietStep
<1>4. CASE ~ \E m \in c.module : Loader!Valid(c, m)
  <2>1. ASSUME NEW b \in Builds, OnTrack(c, b) PROVE FALSE
    <3>1. Loader!Takes(b) /\ c.module = {[build |-> b, home |-> c.branch]} /\ c.expect = b.print
          /\ c.branch \in {"package", "developer"}
      BY <1>1, <2>1 DEF OnTrack, PackageFits, DeveloperFits
    <3>2. Loader!Valid(c, [build |-> b, home |-> c.branch])
      BY <3>1 DEF Loader!Valid, Loader!Takes
    <3> QED
      BY <1>4, <3>1, <3>2
  <2>2. ~right[t]
    BY <2>1, OwnCall
  <2> QED
    BY <1>1, <1>4, <2>2, RefuseIInv DEF Loader!Validate
<1> QED
  BY <1>3, <1>4

LEMMA KeepIInv ==
  ASSUME LoaderInv, NEW t \in Threads, Loader!Keep(t)
  PROVE  LoaderInv'
<1> DEFINE c == [call[t] EXCEPT !.pc = IF call[t].want = "info" THEN "describe" ELSE "answered"]
<1>1. call[t].pc = "keep" /\ UNCHANGED <<disk, env, build, loaded, vouched, right>>
  BY DEF Loader!Keep, Loader!At
<1>2. c \in LoaderCalls /\ c.pc \in {"describe", "answered"} /\ c.branch = call[t].branch
      /\ c.module = call[t].module /\ c.module \in Loader!AtMostOne(Loader!Modules)
  BY OwnCall DEF LoaderCalls
<1>3. call' = [call EXCEPT ![t] = c]
  BY DEF Loader!Keep, Loader!Goes
<1>4. AllTrusted(c.module) /\ CallVouched(c) /\ Imported(c)
  BY <1>1, <1>2, OwnCall DEF CallVouched, Imported
<1>5. /\ cache' \in [package : Loader!AtMostOne(Loader!Modules),
                     developer : Loader!AtMostOne(LoaderEntries),
                     extension : Loader!AtMostOne(Loader!Modules),
                     info : Loader!AtMostOne(Loader!Modules)]
      /\ cache'.package = cache.package /\ cache'.info = cache.info
      /\ cache'.developer = cache.developer
      /\ cache'.extension = cache.extension \/ cache'.extension = c.module
  <2>1. cache' = [cache EXCEPT !.extension = Loader!Stored(@, c.module)]
    BY <1>2 DEF Loader!Keep
  <2> HIDE DEF c
  <2> QED
    BY <1>2, <2>1, OwnCache DEF Loader!Stored
<1>6. ASSUME NEW b \in Builds, OnTrack(call[t], b) PROVE OnTrack(c, b)
  <2> HIDE DEF c
  <2> QED
    BY <1>1, <1>2, <1>6 DEF OnTrack
<1>7. \A m \in (cache'.package \cup cache'.extension \cup cache'.info) :
        Trusted(m) /\ (build.shipped => m.home = "package")
  <2> HIDE DEF c
  <2> QED
    BY <1>2, <1>4, <1>5, OwnCache, OwnCall DEF AllTrusted, OfThePackage
<1> HIDE DEF c
<1> QED
  BY <1>1, <1>2, <1>3, <1>4, <1>5, <1>6, <1>7, OwnCall, OwnCache, RightFrame, QuietStep

LEMMA DescribeIInv ==
  ASSUME LoaderInv, NEW t \in Threads, Loader!Describe(t)
  PROVE  LoaderInv'
<1> DEFINE fits == \A m \in call[t].module : m.build.genuine /\ m.build.rayd = disk.lock
<1>1. call[t].pc = "describe" /\ UNCHANGED <<disk, env, build, loaded, vouched, right>>
  BY DEF Loader!Describe, Loader!At
<1>2. CASE fits
  <2> DEFINE c == [call[t] EXCEPT !.pc = "answered"]
  <2>1. c \in LoaderCalls /\ c.pc = "answered" /\ c.branch = call[t].branch
        /\ c.module = call[t].module /\ c.module \in Loader!AtMostOne(Loader!Modules)
    BY OwnCall DEF LoaderCalls
  <2>2. call' = [call EXCEPT ![t] = c]
    BY <1>2 DEF Loader!Describe, Loader!Goes
  <2>3. AllTrusted(c.module) /\ CallVouched(c) /\ Imported(c)
    BY <1>1, <2>1, OwnCall DEF CallVouched, Imported
  <2>4. /\ cache' \in [package : Loader!AtMostOne(Loader!Modules),
                       developer : Loader!AtMostOne(LoaderEntries),
                       extension : Loader!AtMostOne(Loader!Modules),
                       info : Loader!AtMostOne(Loader!Modules)]
        /\ cache'.package = cache.package /\ cache'.extension = cache.extension
        /\ cache'.developer = cache.developer
        /\ cache'.info = cache.info \/ cache'.info = c.module
    <3>1. cache' = [cache EXCEPT !.info = Loader!Stored(@, c.module)]
      BY <1>2, <2>1 DEF Loader!Describe
    <3> HIDE DEF c
    <3> QED
      BY <2>1, <3>1, OwnCache DEF Loader!Stored
  <2>5. ASSUME NEW b \in Builds, OnTrack(call[t], b) PROVE OnTrack(c, b)
    <3> HIDE DEF c
    <3> QED
      BY <1>1, <2>1, <2>5 DEF OnTrack
  <2> HIDE DEF c
  <2>6. \A m \in (cache'.package \cup cache'.extension \cup cache'.info) :
          Trusted(m) /\ (build.shipped => m.home = "package")
    BY <2>1, <2>3, <2>4, OwnCache, OwnCall DEF AllTrusted, OfThePackage
  <2> QED
    BY <1>1, <2>1, <2>2, <2>3, <2>4, <2>5, <2>6, OwnCall, OwnCache, RightFrame, QuietStep
<1>3. CASE ~fits
  <2>1. ~right[t]
    BY <1>1, <1>3, OwnCall DEF OnTrack
  <2> QED
    BY <1>1, <1>3, <2>1, RefuseIInv DEF Loader!Describe
<1> QED
  BY <1>2, <1>3

(* A step of thread t that imports: while no developer file can replace it, *)
(* what the module table had stays, and the worlds that fit a build do.     *)

LEMMA ImportStep ==
  ASSUME LoaderInv, NEW t \in Threads, NEW c \in LoaderCalls, call' = [call EXCEPT ![t] = c],
         UNCHANGED <<disk, env, build, cache, vouched, right>>,
         loaded' \in Loader!AtMostOne(Loader!Modules),
         Settled => loaded \subseteq loaded',
         build.shipped => OfThePackage(loaded'),
         \A b \in Builds : Settled /\ PackageFits(b) => PackageFits(b)',
         \A b \in Builds : Settled /\ DeveloperFits(b) => DeveloperFits(b)',
         CallVouched(c), Settled /\ c.branch = "package" => c.module \subseteq loaded',
         build.shipped => c.branch # "developer" /\ OfThePackage(c.module),
         disk.developer = {} => c.branch # "developer",
         \A b \in Builds : OnTrack(call[t], b) => OnTrack(c, b)'
  PROVE  LoaderInv'
<1>1. call'[t] = c /\ \A u \in Threads \ {t} : call'[u] = call[u]
  BY DEF LoaderInv, LoaderTyped
<1>2. LoaderTyped'
  BY DEF LoaderInv, LoaderTyped
<1>3. VouchInv'
  <2>1. \A u \in Threads : CallVouched(call[u])'
    BY <1>1 DEF LoaderInv, VouchInv, CallVouched, AllTrusted, Trusted
  <2> QED
    BY <2>1 DEF LoaderInv, VouchInv, AllTrusted, Trusted, Loader!Vouching
<1>4. ShippedInv'
  BY <1>1 DEF LoaderInv, ShippedInv, OfThePackage
<1>5. SettledInv'
  BY <1>1 DEF LoaderInv, SettledInv, Imported, Settled
<1>6. RightInv'
  <2> SUFFICES ASSUME NEW u \in Threads, right[u]
               PROVE  \E b \in Builds : OnTrack(call[u], b)'
    BY DEF RightInv
  <2>1. PICK b \in Builds : OnTrack(call[u], b)
    BY DEF LoaderInv, RightInv
  <2>2. CASE u = t
    BY <1>1, <2>1, <2>2
  <2>3. CASE u # t
    <3>1. call'[u] = call[u] /\ Settled
      BY <1>1, <2>1, <2>3 DEF OnTrack
    <3>2. /\ PackageFits(b) => PackageFits(b)'
          /\ DeveloperFits(b) => DeveloperFits(b)'
      BY <3>1
    <3> QED
      BY <2>1, <3>1, <3>2 DEF OnTrack, Settled
  <2> QED
    BY <2>2, <2>3
<1> QED
  BY <1>2, <1>3, <1>4, <1>5, <1>6 DEF LoaderInv

LEMMA ImportPackageIInv ==
  ASSUME LoaderInv, NEW t \in Threads, Loader!ImportPackage(t)
  PROVE  LoaderInv'
<1> DEFINE fresh == {[build |-> b, home |-> "package"] : b \in disk.package}
<1>1. call[t].pc = "import" /\ call[t].branch = "package"
      /\ UNCHANGED <<disk, env, build, cache, vouched, right>>
  BY DEF Loader!ImportPackage, Loader!At
<1>2. loaded' = IF loaded # {} THEN loaded ELSE fresh
  BY DEF Loader!ImportPackage
<1>3. fresh \in Loader!AtMostOne(Loader!Modules)
  <2>1. disk.package = {} \/ \E b \in Builds : disk.package = {b}
    BY AtMostOneIs DEF LoaderInv, LoaderTyped
  <2>2. disk.package = {} => fresh = {}
    OBVIOUS
  <2>3. ASSUME NEW b \in Builds, disk.package = {b}
        PROVE  fresh = {[build |-> b, home |-> "package"]}
    BY <2>3
  <2>4. \A b \in Builds : [build |-> b, home |-> "package"] \in Loader!Modules
    BY DEF Loader!Modules
  <2> HIDE DEF fresh
  <2> QED
    BY <2>1, <2>2, <2>3, <2>4, AtMostOneIs
<1>4. loaded' \in Loader!AtMostOne(Loader!Modules) /\ loaded \subseteq loaded'
  BY <1>2, <1>3 DEF LoaderInv, LoaderTyped
<1>5. build.shipped => OfThePackage(loaded')
  BY <1>2 DEF LoaderInv, ShippedInv, OfThePackage
<1>6. ASSUME NEW b \in Builds, PackageFits(b)
      PROVE  PackageFits(b)' /\ loaded' = {[build |-> b, home |-> "package"]}
  <2>1. disk.package = {b}
    BY <1>6, AtMostOneSub DEF PackageFits, LoaderInv, LoaderTyped
  <2>2. loaded' = {[build |-> b, home |-> "package"]}
    BY <1>2, <1>6, <2>1 DEF PackageFits
  <2> QED
    BY <1>1, <1>6, <2>2 DEF PackageFits, Loader!Takes
<1>7. ASSUME NEW b \in Builds, DeveloperFits(b) PROVE DeveloperFits(b)'
  BY <1>1, <1>2, <1>7 DEF DeveloperFits, Loader!Takes
<1>8. PICK c \in LoaderCalls : /\ call' = [call EXCEPT ![t] = c]
                         /\ c.pc = "sidecar" /\ c.branch = "package" /\ c.module = loaded'
  <2> DEFINE d == [call[t] EXCEPT !.pc = "sidecar", !.module = loaded']
  <2>1. d \in LoaderCalls /\ d.pc = "sidecar" /\ d.branch = "package" /\ d.module = loaded'
    BY <1>1, <1>4, OwnCall DEF LoaderCalls
  <2>2. call' = [call EXCEPT ![t] = d]
    BY DEF Loader!ImportPackage, Loader!Goes
  <2> HIDE DEF d
  <2> QED
    BY <2>1, <2>2
<1>9. CallVouched(c)
  BY <1>8 DEF CallVouched
<1>10. ASSUME NEW b \in Builds, OnTrack(call[t], b) PROVE OnTrack(c, b)'
  <2>1. PackageFits(b)
    BY <1>1, <1>10 DEF OnTrack
  <2>2. Settled'
    BY <1>1, <1>10 DEF OnTrack, Settled
  <2>3. c.pc = "sidecar" /\ c.branch = "package" /\ c.module = {[build |-> b, home |-> "package"]}
    BY <1>6, <1>8, <2>1
  <2>4. PackageFits(b)'
    BY <1>6, <2>1
  <2> QED
    BY <2>2, <2>3, <2>4 DEF OnTrack
<1> HIDE DEF fresh
<1> QED
  BY <1>1, <1>4, <1>5, <1>6, <1>7, <1>8, <1>9, <1>10, ImportStep

LEMMA ImportDeveloperIInv ==
  ASSUME LoaderInv, NEW t \in Threads, Loader!ImportDeveloper(t)
  PROVE  LoaderInv'
<1> DEFINE fresh == {[build |-> b, home |-> "developer"] : b \in disk.developer}
           mine == {m \in loaded : build.registers /\ m.home = "developer"}
           got == IF mine = {} THEN fresh ELSE mine
<1>1. call[t].pc = "import" /\ call[t].branch = "developer" /\ disk.developer # {}
      /\ ~build.shipped /\ UNCHANGED <<disk, env, build, cache, vouched, right>>
  BY OwnCall DEF Loader!ImportDeveloper, Loader!At
<1>2. fresh \in Loader!AtMostOne(Loader!Modules)
  <2>1. disk.developer = {} \/ \E b \in Builds : disk.developer = {b}
    BY AtMostOneIs DEF LoaderInv, LoaderTyped
  <2>2. disk.developer = {} => fresh = {}
    OBVIOUS
  <2>3. ASSUME NEW b \in Builds, disk.developer = {b}
        PROVE  fresh = {[build |-> b, home |-> "developer"]}
    BY <2>3
  <2>4. \A b \in Builds : [build |-> b, home |-> "developer"] \in Loader!Modules
    BY DEF Loader!Modules
  <2> HIDE DEF fresh
  <2> QED
    BY <2>1, <2>2, <2>3, <2>4, AtMostOneIs
<1>3. got \in Loader!AtMostOne(Loader!Modules) /\ \A m \in got : m.home = "developer"
  <2>1. loaded \in Loader!AtMostOne(Loader!Modules) /\ mine \subseteq loaded
    BY DEF LoaderInv, LoaderTyped
  <2>2. mine \in Loader!AtMostOne(Loader!Modules)
    <3> HIDE DEF mine
    <3> QED
      BY <2>1, AtMostOneIs
  <2>3. \A m \in mine \cup fresh : m.home = "developer"
    OBVIOUS
  <2> HIDE DEF mine, fresh
  <2> QED
    BY <1>2, <2>2, <2>3
<1>4. PICK c \in LoaderCalls : /\ call' = [call EXCEPT ![t] = c]
                         /\ c.pc = "validate" /\ c.branch = "developer" /\ c.module = got
                         /\ c.expect = call[t].expect
  <2> DEFINE d == [call[t] EXCEPT !.pc = "validate", !.module = got]
  <2>1. d \in LoaderCalls /\ d.pc = "validate" /\ d.branch = "developer" /\ d.module = got
        /\ d.expect = call[t].expect
    <3> HIDE DEF got
    <3> QED
      BY <1>1, <1>3, OwnCall DEF LoaderCalls
  <2>2. call' = [call EXCEPT ![t] = d]
    BY DEF Loader!ImportDeveloper, Loader!Goes
  <2> HIDE DEF d
  <2> QED
    BY <2>1, <2>2
<1>5. loaded' = IF ~build.registers THEN loaded ELSE got
  <2>1. call'[t].module = got
    BY <1>4 DEF LoaderInv, LoaderTyped
  <2> HIDE DEF got
  <2> QED
    BY <2>1 DEF Loader!ImportDeveloper
<1>6. Settled => loaded' = loaded
  BY <1>1, <1>5 DEF Settled
<1>7. loaded' \in Loader!AtMostOne(Loader!Modules)
  BY <1>3, <1>5 DEF LoaderInv, LoaderTyped
<1>8. \A b \in Builds : /\ Settled /\ PackageFits(b) => PackageFits(b)'
                        /\ Settled /\ DeveloperFits(b) => DeveloperFits(b)'
  BY <1>1, <1>6 DEF PackageFits, DeveloperFits, Loader!Takes
<1>9. CallVouched(c)
  BY <1>1, <1>3, <1>4, OwnCall DEF CallVouched
<1>10. ASSUME NEW b \in Builds, OnTrack(call[t], b) PROVE OnTrack(c, b)'
  <2>1. Settled /\ DeveloperFits(b) /\ call[t].expect = env
    BY <1>1, <1>10 DEF OnTrack
  <2>2. disk.developer = {b} /\ loaded = {} /\ env = b.print
    BY <2>1, AtMostOneSub DEF DeveloperFits, LoaderInv, LoaderTyped
  <2>3. got = {[build |-> b, home |-> "developer"]}
    BY <2>2
  <2>4. Settled' /\ DeveloperFits(b)'
    BY <1>1, <1>8, <2>1 DEF Settled
  <2> HIDE DEF got
  <2>5. c.pc = "validate" /\ c.branch = "developer" /\ c.expect = env' /\ c.expect = b.print
        /\ c.module = {[build |-> b, home |-> c.branch]}
    BY <1>1, <1>4, <2>1, <2>2, <2>3
  <2> QED
    BY <2>4, <2>5 DEF OnTrack
<1> HIDE DEF got
<1> QED
  BY <1>1, <1>4, <1>6, <1>7, <1>8, <1>9, <1>10, ImportStep

LEMMA EditIInv ==
  ASSUME LoaderInv, Loader!Edit
  PROVE  LoaderInv'
<1>1. UNCHANGED <<build, loaded, cache, call>> /\ vouched \subseteq vouched'
      /\ Loader!Vouching(disk', env') \subseteq vouched' /\ right' = [t \in Threads |-> FALSE]
  BY DEF Loader!Edit
<1>2. \A b \in Builds : {b} \in Loader!AtMostOne(Builds)
  BY AtMostOneIs
<1>3. /\ disk' \in [package : Loader!AtMostOne(Builds), sidecar : Loader!Prints \cup {"none"},
                    lock : Loader!Locks, developer : Loader!AtMostOne(Builds)]
      /\ env' \in {"unset", "partial"} \cup Loader!Prints
      /\ disk'.package = {} => disk.package = {}
      /\ disk'.developer = {} => disk.developer = {}
  BY <1>2 DEF Loader!Edit, LoaderInv, LoaderTyped
<1>4. LoaderTyped'
  BY <1>1, <1>3 DEF LoaderInv, LoaderTyped
<1>5. VouchInv'
  <2>1. \A m : Trusted(m) => Trusted(m)'
    BY <1>1 DEF Trusted
  <2>2. \A t \in Threads : CallVouched(call[t])'
    BY <1>1, <2>1 DEF LoaderInv, VouchInv, CallVouched, AllTrusted
  <2> QED
    BY <1>1, <2>1, <2>2 DEF LoaderInv, VouchInv, AllTrusted, Loader!Vouching
<1>6. ShippedInv' /\ SettledInv'
  BY <1>1, <1>3 DEF LoaderInv, ShippedInv, SettledInv, OfThePackage, Settled, Imported
<1>7. RightInv'
  BY <1>1 DEF RightInv
<1> QED
  BY <1>4, <1>5, <1>6, <1>7 DEF LoaderInv

LEMMA NextIInv ==
  ASSUME Loader!BuildsAssumption, LoaderInv, [Loader!Next]_Loader!vars
  PROVE  LoaderInv'
<1>1. CASE UNCHANGED Loader!vars
  <2> USE <1>1 DEF Loader!vars, LoaderInv
  <2>1. LoaderTyped'
    BY DEF LoaderTyped
  <2>2. \A t \in Threads : CallVouched(call[t])'
    BY DEF VouchInv, CallVouched, AllTrusted, Trusted
  <2>3. VouchInv'
    BY <2>2 DEF VouchInv, Loader!Vouching, AllTrusted, Trusted
  <2>4. ShippedInv' /\ SettledInv'
    BY DEF ShippedInv, OfThePackage, SettledInv, Settled, Imported
  <2>5. ASSUME NEW t \in Threads, NEW b \in Builds, OnTrack(call[t], b)
        PROVE  OnTrack(call[t], b)'
    BY <2>5 DEF OnTrack, Settled, PackageFits, DeveloperFits, Loader!Takes
  <2>6. RightInv'
    BY <2>5 DEF RightInv
  <2> QED
    BY <2>1, <2>3, <2>4, <2>6
<1>2. CASE Loader!Next
  BY <1>2, AskIInv, FindIInv, ImportPackageIInv, ImportDeveloperIInv, ReadSidecarIInv,
     ValidateIInv, KeepIInv, DescribeIInv, ReturnIInv, EditIInv DEF Loader!Next, Loader!Step
<1> QED
  BY <1>1, <1>2

-----------------------------------------------------------------------------
\* In every state, through races, edits and refused imports: what is kept was
\* vouched for, a package is never left for a developer build, and a call that
\* began in a right world finds what its next step asks for.
LEMMA LoaderInductive ==
  ASSUME Loader!BuildsAssumption
  PROVE  Loader!Spec => []LoaderInv
<1>1. Loader!Init => LoaderInv
  BY InitIInv
<1>2. LoaderInv /\ [Loader!Next]_Loader!vars => LoaderInv'
  BY NextIInv
<1> QED
  BY <1>1, <1>2, PTL DEF Loader!Spec

LEMMA LoaderTypeCorrect ==
  ASSUME Loader!BuildsAssumption
  PROVE  Loader!Spec => []Loader!TypeOK
<1>1. LoaderInv => Loader!TypeOK
  <2> SUFFICES ASSUME LoaderInv PROVE Loader!TypeOK
    OBVIOUS
  <2>1. \A S \in {loaded, cache.package, cache.extension, cache.info} :
          S \subseteq Loader!Modules /\ Loader!Cardinality(S) <= 1
    BY AtMostOneSub, AtMostOneCardinality DEF LoaderInv, LoaderTyped
  <2>2. cache.developer \subseteq LoaderEntries /\ Loader!Cardinality(cache.developer) <= 1
    BY AtMostOneSub, AtMostOneCardinality DEF LoaderInv, LoaderTyped
  <2>3. \A t \in Threads : call[t].module \subseteq Loader!Modules
    BY AtMostOneSub DEF LoaderInv, LoaderTyped, LoaderCalls
  <2> QED
    BY <2>1, <2>2, <2>3 DEF Loader!TypeOK, LoaderInv, LoaderTyped, LoaderEntries
<1> QED
  BY <1>1, LoaderInductive, PTL

\* native_extension() and build_info() hand out and keep only builds that were
\* vouched for, the package's where there was one, and do not remember refusals.
LEMMA LoaderRightBuild ==
  ASSUME Loader!BuildsAssumption
  PROVE  Loader!Spec => []Loader!RightBuildIsLoaded
<1>1. LoaderInv => Loader!RightBuildIsLoaded
  <2> SUFFICES ASSUME LoaderInv PROVE Loader!RightBuildIsLoaded
    OBVIOUS
  <2>1. \A t \in Threads : Loader!At(t, "answered") => AllTrusted(call[t].module)
    BY DEF LoaderInv, VouchInv, CallVouched, Loader!At
  <2>2. Loader!OnlyVouchedBuilds
    <3>1. \A m \in Loader!HandedOut : Trusted(m)
      BY <2>1 DEF Loader!HandedOut, AllTrusted
    <3>2. \A m \in Loader!HandedOut \cup cache.package \cup cache.extension \cup cache.info : Trusted(m)
      BY <3>1, OwnCache
    <3> QED
      BY <3>2 DEF Loader!OnlyVouchedBuilds, Trusted
  <2>3. Loader!PackageShadowsDeveloper
    BY OwnCache DEF Loader!PackageShadowsDeveloper, Loader!HandedOut, LoaderInv, ShippedInv,
       OfThePackage
  <2>4. Loader!PackageIsOfThePackage
    BY OwnCache DEF Loader!PackageIsOfThePackage, OfThePackage
  <2>5. Loader!RightWorldIsAccepted
    BY DEF Loader!RightWorldIsAccepted, LoaderInv, RightInv, OnTrack, Loader!At
  <2> QED
    BY <2>2, <2>3, <2>4, <2>5 DEF Loader!RightBuildIsLoaded
<1> QED
  BY <1>1, LoaderInductive, PTL

\* A behaviour of the loader is one of its module.
LEMMA LoaderPart ==
  Spec => [](In("loader") => Loader!TypeOK /\ Loader!RightBuildIsLoaded)
<1>1. Loader!BuildsAssumption
  BY RuntimeAssumption DEF RuntimeAssumption
<1>2. Init => ~In("loader") \/ Loader!Init
  BY DEF Init, In
<1>3. [Next]_vars /\ In("loader") => In("loader")' /\ [Loader!Next]_Loader!vars
  BY DEF Next, In, vars, resourceVars, loaderVars, Loader!vars
<1>4. [Next]_vars /\ ~In("loader") => ~In("loader")'
  BY DEF Next, In, vars
<1>5. Loader!Spec => []Loader!TypeOK
  BY <1>1, LoaderTypeCorrect
<1>6. Loader!Spec => []Loader!RightBuildIsLoaded
  BY <1>1, LoaderRightBuild
<1>. QED BY <1>2, <1>3, <1>4, <1>5, <1>6, PTL DEF Spec, Loader!Spec

-----------------------------------------------------------------------------
\* The variables of the part a process is in are well typed, for any threads,
\* builds and bounds.
THEOREM TypeCorrect == Spec => []TypeOK
<1>1. /\ In("tables") => Tables!TypeOK
      /\ In("edges") => Edges!TypeOK
      /\ In("kirchhoff") => Kirchhoff!TypeOK
      /\ In("loader") => Loader!TypeOK
      => TypeOK
  BY DEF TypeOK, In
<1>. QED BY <1>1, TablesPart, EdgesPart, KirchhoffPart, LoaderPart, PTL

\* What the caches of a compiled scene hand out is what a fresh build would
\* give, for any number of threads, edits, nodes and addresses; the edge
\* candidates, found by address alone, for one caller.
THEOREM ResourcesCurrent == Spec => []ResourcesAreCurrent
<1>1. /\ In("tables") => Tables!TypeOK /\ Tables!ResourcesAreCurrent
      /\ In("edges") => Edges!TypeOK /\ Edges!ResourcesAreCurrent
      => ResourcesAreCurrent
  BY DEF ResourcesAreCurrent, In
<1>. QED BY <1>1, TablesPart, EdgesPart, PTL

\* native_extension() and build_info() hand out and keep only builds that were
\* vouched for, the package's where there is one, and remember no refusal.
THEOREM RightBuild == Spec => []RightBuildIsLoaded
<1>1. (In("loader") => Loader!TypeOK /\ Loader!RightBuildIsLoaded) => RightBuildIsLoaded
  BY DEF RightBuildIsLoaded, In
<1>. QED BY <1>1, LoaderPart, PTL
=============================================================================
