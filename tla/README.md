# witwin-channel in TLA+: models, checks and proofs

witwin-channel (`src/`) computes radio channels between transmitters and
receivers in a 3-D world, differentiably, on one CUDA device. Its Python code
(`src/witwin/channel`) decides what is compiled, cached, reused, replayed and
rejected. Its native code (`src/native/channel`) discovers and evaluates paths
with kernels that share device counters and a failure word. This directory
describes in TLA+ the parts whose correctness rests on order, identity and
concurrency; TLC checks them on small instances and TLAPS proves the main facts
for every value of the constants.

Contents: 1 the system; 2 the modules and the code they model; 3 what the runs
check; 4 bounds; 5 fairness; 6 findings; 7 what is proved; 8 what is only
model-checked; 9 what is not modelled; 10 the plan; 11 running it.

## 1. The system

| part | state | operations | interacts with |
|---|---|---|---|
| Scene compile registry (`scene/compiler.py`) | an OrderedDict of compiled runtimes under a lock, at most `_CACHE_LIMIT`; each runtime has a RayD scene, geometry, material and assignment stores, diagonals, versions, frequency | `compile`, `clear_compile_cache`, `require_reference_frequency` | reads the four versions of a witwin.core world and the revisions of its tensors; builds through RayD and the native extension; every solver compiles through it |
| Scene resources (`scene/compiler.py` 429-557, `scene/resources.py`) | replay tables cached on a runtime behind a signature of autograd flags and revisions; lazily packed phase-screen and Kirchhoff resources; the `runtime_cache` of a RayD scene | `fixed_reevaluation_tables`, `kirchhoff_resources`, `phase_screen_resources`, RayD scene build, edge refinement | the consumer's replay, the scattering solvers |
| Capacity failure transaction (`runtime.py`, `propagation/enumerated.py`, `kernels/capacity.cu`) | a device failure word of 32 bits shared by every kernel of a solve; launch counters on the host | state create, producer bits (`atomicOr`), sanitize, terminal launch | every producer kernel; the caller sees a whole result or an error |
| Canonical path selection (`kernels/evaluated_paths.cu`, `propagation/topology.py`) | candidate rows, sort keys, winners, pair offsets, a control record | validate, sort, group, shortest winner, `max_paths`, compact | discovery produces rows; solvers and the consumer read them |
| Fixed-topology consumer (`propagation/consumer.py`) | a frozen topology with the versions of the world it was discovered in; prepared rows | `evaluate`, `prepare_fixed_topology`, `reevaluate`, `rediscovery_required`, `replicate_over_slots`, `evaluate_time_varying` | compiled runtimes, the replay kernels, the capacity transaction |
| Endpoints (`scene/endpoints.py`) | expanded endpoint slots of a request | normalise, expand arrays and slots | consumer and solvers |
| Enumerated propagation and fields (`propagation/`, `kernels/fields.py`, `fields.cu`) | none between calls | stages of discovery, complex transfer of a path | solvers |
| Path and deterministic solvers (`path.py`, `deterministic.py`) | none between calls | discovery by interaction kind, sanitizing, assembly of results, terminal check | registry, selection, fields, capacity |
| Monte Carlo and BDPT solvers (`montecarlo/`) | random streams, chunk accumulators, device slots | sampling, connection, contribution reduction | registry, capacity, compaction |
| Interactions (`interactions/`) | none between calls | LOS, reflection, diffraction, transmission, scattering, coupled rows | solvers, RayD |
| Derivative companions (`runtime.py` 720-1009, `kernels/*.py`, `montecarlo/bdpt.py`) | one `autograd.Function` per differentiable native operation; a launch ledger | forward, `setup_context`, `backward`, `jvp`, the first-order guard | every solver under `ad_mode` |
| Native loader and budget (`runtime.py` 130-577, 1160-1290) | four caches of a process, the interpreter's module table, environment and files it does not own; byte estimates | choose, vet, import, cache; checked sums and products | every kernel facade, the Monte Carlo solvers |
| Materials, components, capabilities, deployment | immutable descriptions | validation | compile and solvers |
| Kernel facades and bindings (`kernels/*.py`, `native/channel/binding`) | none | argument checks and launches | native extension |

### How the parts meet

A solver compiles the world (registry), normalises its endpoints, discovers
candidate rows by interaction kind on the device, selects canonical rows,
evaluates fields, and publishes a result. `propagation.evaluate` keeps the rows
as a frozen topology that `reevaluate` replays later against a world compiled
again. The host enqueues kernels on one stream and waits only where it needs a
count; a fault found on the device travels in the failure word and becomes a
trap in the terminal kernel.

### Behaviours that are hard

- `compile` is called from several threads, and only the three registry methods
  hold its lock. Versions, tensors and the frequency are read at different
  moments of one call, and the world may be edited between any two of them.
- Keys and input identities hold Python `id()`s, which the allocator gives again
  to new objects.
- Every part of a runtime is cached under its own inputs, so a runtime can be a
  mixture of parts built by different calls at different revisions.
- The device runs behind the host. Threads of one kernel read the failure word
  while others set it, so how much a failing kernel did depends on the schedule;
  threads of the winner kernel write one another's flags.
- Buffers come from `at::empty`: what a reset forgets is another allocation's
  contents.
- The trap is sticky: whichever operation traps first, every later
  synchronization of the context raises.
- A topology outlives the world it was found in; ids, versions and
  `data_ptr`s stand for objects that may have been edited or freed.

### What makes each part correct

- Registry: a returned runtime is the asked world's, at contents no older than
  the call, with parts that index one another; a key names one world; the cache
  is an LRU of its limit; a caller cannot tell it from no cache.
- Resources: what a signature admits is what a fresh build would give; a lazy
  resource once returned stays the one in use.
- Capacity: all or nothing for the caller; nothing truncated; no out-of-range
  table read; inert before the trap; only the terminal kernel traps; every solve
  is answered.
- Selection: one winner per identity and pair, the shortest, independent of the
  order rows arrived in and threads ran in (it is not, finding 5); offsets
  partition the rows; the native and the Python selection agree.
- Consumer: a replay happens only in a world the topology is valid for; rows
  replicated over slots stay in their slot.
- Solvers, Monte Carlo, loader: slots handed out by `atomicAdd` are distinct
  and bounded; memory estimates never wrap.

PROJECT.json lists every component with its status, and under "hazards" every
place in the code where one of these can go wrong, with the property that would
notice.

## 2. Modules

One module per component, named for it. A module of instances (`MC...`) chooses
constants for TLC; a module of proofs (`...Proofs`) extends the module it is
about.

| module | what it is |
|---|---|
| `SceneCompile` | compile, its registry and its callers |
| `CompileContract` | what compile promises, without a cache |
| `CompileRefinement` | the mapping under which `SceneCompile` implements it |
| `CapacityTransaction` | one solve with transmission: host, device, failure word, caller |
| `FixedTopology` | frozen topologies and the worlds they are replayed in |
| `SlotReplay` | rows tiled over slots, bound to endpoints, replayed bucket by bucket |
| `WidebandGrid` | frequency columns of a replay, and their rounding to float32 |
| `SceneResources` | lazily built resources under threads, edits and autograd marks |
| `EdgeRefinement` | which records of the native edge table become wedges |
| `NativeLoader` | choosing, vetting and caching the compiled extension |
| `CandidateStreams` | how the searches walk their candidates |
| `CanonicalSelect` | which discovered rows become paths |
| `EnumeratedFields` | which evaluator writes which column of which row |
| `ScatterChains` | rows over rough surfaces, and chains of reflections around them |
| `PathResult` | packing, arrays, filtering and beamforming of the path solver |
| `FieldAccumulation` | the accumulator of the deterministic solver and its derivatives |
| `DeterministicSolve` | one deterministic solve (extends `FieldAccumulation`) |
| `BasicSolve` | one solve of Monte Carlo Basic |
| `BdptSampler` | one light subpath of the shooting sampler |
| `Bdpt` | one BDPT solve (extends `BdptSampler`: the sampler's steps are steps of a solve) |
| `AdCompanions` | what every differentiable native operation answers and refuses |
| `AdPass` | a differentiation of each solver route, in reverse and in forward mode |

| instances | of |
|---|---|
| `MCSceneCompile` | `CompileRefinement` (and so `SceneCompile`): worlds, identities, frequencies |
| `MCCapacityTransaction` | `CapacityTransaction`: two rows |
| `MCConsumer` | `FixedTopology`, `SlotReplay`, `WidebandGrid` |
| `MCDiscovery` | `EdgeRefinement`, `CandidateStreams` twice, `CanonicalSelect` twice, `EnumeratedFields`, `ScatterChains` |
| `MCSolvers` | `Bdpt` and its sampler, `PathResult`, `DeterministicSolve`, `BasicSolve`, `AdPass` |
| `MCRuntime` | `SceneResources` three times, `NativeLoader` |
| `MCSlotReplay`, `MCCandidateStreams`, `MCCanonicalSelect`, `MCEnumeratedFields`, `MCScatterChains`, `MCPathResult`, `MCDeterministicSolve`, `MCBasicSolve` | only data: the topologies, rows, scenes and configurations the four modules above are given |

| proofs | about |
|---|---|
| `SceneCompileProofs` | the registry, and that it implements its contract |
| `CapacityProofs` | the capacity transaction |
| `ConsumerProofs` | frozen topologies, rows over slots, frequency grids, as parts of `MCConsumer` |
| `DiscoveryProofs` | edge tables and enumerated solves, as parts of `MCDiscovery` |
| `FieldProofs` | sums over finite sets; the deterministic solve, its totals and its derivative companions |
| `SolversProofs` | the light subpath, the BDPT solve, the maps of Basic, and all solvers as parts of `MCSolvers` (extends `FieldProofs`) |
| `SceneResourcesProofs`, `RuntimeProofs` | scene resources; the loader, and both as parts of `MCRuntime` |

`MCConsumer`, `MCDiscovery`, `MCSolvers` and `MCRuntime` hold several components
that share no state: the code calls them one after another, each on the finished
answer of the one before, or from callers of their own. A behaviour is therefore
of one part, chosen in `Init` (`part`), and the variables of the others stay
empty; a property is the conjunction of what each part promises, with
`part = p => ...` before each (`OfDeterministic` for the two parts of the deterministic solver). `MCConsumer` EXTENDS `FixedTopology`,
`MCDiscovery` EXTENDS `EdgeRefinement` and `MCSolvers` EXTENDS `Bdpt`, so that the
theorems about these modules speak of the very properties the runs check; the variables of the extended module
are at rest in the other parts. `MCConsumer`, `MCRuntime`, `MCSolvers` and, for the rows of enumerated solves, `MCDiscovery` have constants of their own, so that
`ConsumerProofs`, `RuntimeProofs`, `SolversProofs` and `DiscoveryProofs` are about any topologies, grids, threads, builds, scenes, rows and bounds and not about TLC's.

### SceneCompile

State: `registry` is the OrderedDict of `_CompileRegistry`, oldest first;
`rev[o]` the number of in-place edits of object `o` (what `_version` shows);
`addr[o]` its address, which returns to the allocator's pool when nothing refers
to it; `held` what callers keep; per thread `pc`, `asked`, `label` (the key),
`seen`, `stores`, `result` are the locals of a call. `calls` names calls, `uses`
is history.

A *store* records who built it (`by`), on which other store (`on`), from which
world (`of`), at which revisions (`saw`) and frequency (`hertz`): what a
property can tell apart, in place of vertex buffers and encoded materials.

| action | code |
|---|---|
| `Begin` | entry of `compile`, `_frequency_value` |
| `MakeKey` | the four versions and `_cache_key`; each version is a walk of its own, so its revision is of any moment since the start |
| `Hit`, `Miss` | `registry.get` and the `source is world` test |
| `ReadStructures` | `_runtime_structures`: conversions that may copy or alias |
| `TakeCandidates` | `candidates()` and the five reuse decisions on that snapshot |
| `Build` | one of RayD scene, geometry, materials, assignments, diagonals, in the code's order |
| `Put` | assembling the `CompiledScene`, `registry.put` with its eviction |
| `Raise` | any exception between |
| `Clear` | `clear_compile_cache` |
| `Author`, `Drop`, `Edit` | the callers: create and drop worlds and tensors, edit in place |

### CapacityTransaction

State: `route` of the solve; `launched` and `retired` count the kernels the host
has enqueued and the device has completed, so the stream is
`Program[route][retired + 1 .. launched]`; `pending` the rows the running kernel
has still to handle; `failed` whether the failure word is non-zero and
`boundary` whether it was when the kernel started; `hits` what RayD reported of
each row; `block`, `candidates`, `guardrails` the topology block (in Basic, the
wall products); `slots` and `live` the evaluated rows and those not inert;
`result` what was written for the caller; `trapped`; `status` and `answer` of the
host call. `found` is history.

`Program` is the order in which each route enqueues its kernels, `Waits` after
which of them the host needs a value and waits. One action per kernel; preflight,
pack and the wall products, whose threads affect one another through the word,
take one step per row, in any order, reading the word before or after other rows
set it (`MayGoOn`, `MayStop`). The host runs ahead (`HostLaunch`), may raise
between any two launches (`HostFails`), hears of a trap when it waits
(`HostHears`); the caller synchronizes when it reads (`CallerReads`).

| route | code |
|---|---|
| `oracle` | `evaluate_enumerated_paths` with its default arguments (BDPT) |
| `path`, `path_scattering` | `path._pipeline_solve_base` without and with a scattering component, then `from_evaluated_paths` and the terminal check |
| `deterministic` | `deterministic._pipeline_solve` |
| `consumer` | `propagation.evaluate` |
| `basic` | Monte Carlo Basic with its wall products |

### The consumer: FixedTopology, SlotReplay, WidebandGrid

`FixedTopology` has worlds whose four domains (topology, geometry, material,
assignment) are edited in place at any moment, also between the version reads of
one compile. A version is a hash of contents, so contents stand for versions. A
scene holds what its compile read, a topology what its scene recorded; a
topology may also be built by hand, without provenance. `Replay` has the checks
of `reevaluate`, `Poll` those of `rediscovery_required` with `revalidate_source`.
A compile during which the world changed may record versions that never were of
one moment; `LabelsNameTheSameWorld` speaks of scenes that were not torn.

`SlotReplay` is index arithmetic: `Prepare` partitions the rows by component and
depth, `Replicate` tiles rows and buckets, `Reevaluate`, `ReevaluateRaw` and
`EvaluateTimeVarying` bind them to endpoint batches (`prepared_row_gather`),
`ReplayBucket` overwrites the blank outputs of its rows. The caller may pass
wrong per-slot counts to `Replicate`: nothing there checks them, and the check of
stable ids at binding is what keeps rows in their slot.

`WidebandGrid` rounds to a float of `Precision` bits, ties to even, as the cast
in the bridge does: the refusal of close columns is at full precision, the launch
is not.

### Derivatives: AdCompanions, AdPass

`AdCompanions` has one record per `autograd.Function`: what each continuous
output is computed from, the inputs whose gradient `backward` returns and whose
tangent `jvp` reads, those each refuses by name, and when a length or direction
is live. A group of tensors all companions treat alike is one value. Its `Routes`
are the sequences in which a solver applies them. A pass of `AdPass` applies the
companions of one route (`Record`), walks the tape back from one output
(`Backward`), then does the same with dual inputs (`Dual`); instead of numbers,
it follows the chains of outputs along which a derivative came, so a product of
derivatives that is dropped, doubled or sent to the wrong input is seen.
`FirstOrderOnly` and the refusals of composed transforms answer second
derivatives. The coherent collection of BDPT, which detaches the transmitter power
(section 6), is not among the routes.

### Resources: SceneResources, EdgeRefinement

A call takes its key, looks up, builds, stores and returns in separate steps;
calls of two threads interleave and a leaf is edited at any time. A value carries
the version it was built from and, when its leaf was marked, a graph node that a
backward pass frees. Leaves are marked for differentiation between calls only.
Two overlapping calls for phase screens may return the older one: the property
speaks of a call that ran alone. Edge candidates are found by the address of the
selection; with two threads and both edge modes a reused address could match,
which the run does not combine.

`EdgeRefinement` takes every small table of edge records: two records of one edge
from two structures become one wedge, flat seams go, the boundary policy decides
the rest. With three structures at one edge the first two in table order merge.

### Discovery to fields: CandidateStreams, CanonicalSelect, EnumeratedFields

`CandidateStreams` counts each candidate space, decodes linear indices by div and
mod as the code does and asks the ray tracer in requests of bounded size.
`CanonicalSelect` has one action per kernel: validate, one stable sort pass per
key, adjacent identities, selection of the winners, caps, publish. The exception is
the kernel that marks the shortest row of each group, `shortest_winner_kernel`, whose
threads affect one another: the thread of a position clears its flag (`ClearOwn`), and
the thread at the start of a group then sets the flag of the position it
awards (`Award`), which may be another thread's and be cleared after. The threads take these steps in any order, from
flags `at::empty` left set or clear. A path is `Exposed` to
this when the row that sorts first in it is not a shortest one; the properties say what
holds of every schedule, and what exposed paths may lose (finding 5).
`Reference` is the Python route over the same rows (`KernelsAgree`, when no flag
was cleared after it was set), `Pullback` the gradient of the columns.

`EnumeratedFields` appends a block per component, merges them in the order of
`Passes` (pair, depth, component, then columns of lower rank), keeps the first rows
of the solve, the default, or of each pair when `max_paths` caps them, and
lets each evaluator write some of the shared columns of its rows; a column is the
power of the transmitter amplitude it carries, the factors multiplied into it and
the leaves it depends on. Its rows are found once each: duplicates are `CanonicalSelect`'s.

### Rough surfaces: ScatterChains

Samples of faces without a screen by transmitter and receiver chunk, one coherent
integral for each structure with a screen, and chains: legs discovered from each
endpoint, joined at a face by div and mod, capped, frozen, evaluated one
transmitter at a time and appended. Radiometry is RayD's and is a table.

### Solvers: PathResult, DeterministicSolve, BasicSolve, Bdpt

One action per stage of a solve, in the code's order, from the configuration to
the terminal check. Tensors of `PathResult` are sequences in row-major order, so a
reshape is the identity on memory and a permute is not. `FieldAccumulation` uses
Gaussian integers; `DeterministicSolve` follows the switches `coherent` and
`scattering_coherent`, exact diffraction on a grid, layout, counts and the cut
flag. `BasicSolve` has the budget arithmetic with the largest integer as a
constant. A path of `Bdpt` is the word of its events; `BdptSampler` keeps the
power of a subpath as the list, bounce by bounce, of what it was divided by and
attenuated with; `Bdpt` decides which routes find which words.

### NativeLoader

`disk` and `env` are what installers and users change, `loaded` is the module
table, `cache` the four `lru_cache`s, which hold no lock while they compute and
keep only successes. One action per step of a load; an edit may come between any
two. A build is the tuple its `build_info` tells apart; one build claims a
fingerprint it does not have.

## 3. Runs

| run | instance | properties, and what they say |
|---|---|---|
| `compile_threads` | 2 threads, 2 worlds that share a mesh and neither material nor assignment, the mesh edited at any moment | `TypeOK`; `NoOmittedInvalidation`: no part of a returned runtime is older than the call; `StoresFitTogether`: they index one another; `ServesTheAskedWorld`: each was built from the caller's world |
| `compile_reuse` | 1 thread, 2 unrelated worlds of equal versions, addresses that come back, a tensor frequency | `KeyIdNamesOneWorld`: an `id()` in a key names one world; `KeepsRecentlyUsed`: the registry is an exact LRU of keys; `RecordsAtTheAskedFrequency`; `ImplementsContract`: the registry implements a compile that keeps nothing |
| `capacity` | all six routes, 2 rows, every fault, every residue of `at::empty`, every schedule | `TypeOK`; `InBounds`: no out-of-range read of the face table; `NothingTruncated`; `InertAtTheTrap`; `TrapsOnlyAtTheTerminal`; `AllOrNothing`: a whole result or an error; `EverySolveIsAnswered`, under fairness |
| `consumer` | parts world, slots, wideband | `TypeOK`; `LabelsNameTheSameWorld`: a replay reads labels that still name what they named; `PollsAreHonest`: a poll predicts the replay; `TiledReplayIsExact`: a replicated topology answers as one call per instant, rows in their slots; `ColumnsAreDistinctOffTies`: columns of an admitted grid are distinct launches unless a frequency lies half-way between two floats |
| `discovery` | parts edges, reflections, coupled, mixed rows, pairs, fields, chains | `TypeOK`; `EachEdgeIsOneWedge`; `EachCandidateOnce`: every candidate is asked once, in requests that fit; `ShortestOfEachPath`: never two rows per event sequence, only the shortest, none lost whose shortest row sorts first, whatever the order of discovery and of threads, caps per pair, tensor route as native; `RowsAreEvaluatedOnce`: by their own evaluator, in one power convention; `EachRoughWayOnce` |
| `solvers` | parts paths, fields, differentiated, sampler, bdpt, basic, routes | `TypeOK`; `EachPairKeepsItsPaths`; `NothingOfAFailedSolve`; `TotalsFollowTheRows`; `CompanionsAreTheDerivative`; `SubpathsArePaidOnce`: each selection on a row's way is paid for once, and no bounce in view is forgotten; `EachPathByOneRoute`: enumerations and sampler divide the paths of a BDPT solve, and each requested one is counted; `EachContributionOnce`: of Basic; `NothingDropped`: on every listed route, for every set of up to three leaves and every output, a derivative that goes in comes out along a chain of companions or is refused (known gaps apart, finding 2); `ModesAnswerAlike`: reverse and forward mode agree, and two compositions of them are refused |
| `runtime` | parts tables, edges, kirchhoff, loader | `TypeOK`; `ResourcesAreCurrent`: what a cache hands out is what a fresh build would give; `RightBuildIsLoaded` |
| `capacity_converter` | route path | violation, finding 1 |
| `ad_arrival` | diffraction | violation, finding 2 |
| `resources_kirchhoff` | part kirchhoff | violation, finding 3 |
| `bdpt_order` | part bdpt, configured with order two | violation, finding 4 |
| `selection_shuffle` | part mixed rows | violation, finding 5 |

Every property of a passing run has at least one mutant: a plausible slip in one
mapped definition (an unversioned reuse, a hit that does not refresh, a counter
that is not reset, a sanitizer that forgets the vector field, a shifted digit)
under which TLC finds the property violated in the same run. A property of a
run with several parts has one for each thing it joins that is worth breaking.

## 4. Bounds, and why they are enough

- `compile_threads`, `compile_reuse`: `CacheLimit` is 2 where the code has 32:
  eviction needs one entry more than the limit, and the order of use needs two.
  `MaxCalls` 3 lets one runtime be built, one be reused or evicted and one be
  served from what is left. `MaxEdits` 1: a property compares a revision with one
  earlier one. Two worlds, because every reuse decision relates two. `compile_reuse` has
  one thread: the contract speaks of each caller separately, and interleavings
  are in `compile_threads`.
- `capacity`: two rows, because the races are between one row that fails and one
  that does not yet know; all reports occur in both. Counters start at any value
  up to the number of rows, enough to tell a missing reset.
- `consumer`: one world, one label domain, two contents, one scene and two
  handles: every check compares a handle with one scene. Up to three slots, so a
  shift by the wrong count of slot one and of slot two differ; two endpoints a
  slot, so a source and a sink count can differ. Three bits of precision, because
  rounding depends on the last bit, the tie and the binade only; references 16
  to 31 are one binade and offsets leave it on both sides.
- `discovery`: three edge records are a pair and a stranger, or three structures
  at one edge. Up to four receivers, three planes and three edges, limits that
  cut a block in the middle, at its end and never. Three rows are one duplicate
  pair with a stranger between, over two pairs of endpoints one above the cap, and
  three threads, one more than the two that share a flag. Two residues stand for
  all, since every thread overwrites its own flag before any is read.
  Fourteen rows cover every evaluator. Two rough faces and up to six legs.
- `solvers`: two transmitters or receivers show a swapped or shifted index;
  gains, fields and samples differ between rows so that a swap changes a total.
  Four bounces and scattering orders to three: one scatter beyond the cap and a
  bounce after it; two bounces in `Bdpt`, because routes overlap in words of
  length one and two.
  The part routes has no bound but its routes and three leaves.
- `runtime`: two threads, two edits of a leaf, one more node than a thread can
  free, three addresses of which one comes back; two genuine builds against two
  RayD releases and one that claims a fingerprint it does not have, one edit at
  any step.

The theorems of section 7 remove these bounds for what they state.

All runs but `capacity` set `CHECK_DEADLOCK FALSE`: calls, edits and stages end
there. In `CapacityTransaction` the end is the explicit stutter `Idle`, allowed
only when the caller has its answer and the stream is idle, so TLC's deadlock
check in `capacity` is a check that no solve gets stuck.

## 5. Fairness

All modules but `CapacityTransaction` are checked for safety only; a solve is
a straight line of stages whose loops run over finite ranges, and `compile` has
no retry, wait or callback whose progress would be in question beyond the
registry lock, which is never held across a call.
`CapacityTransaction!FairSpec` assumes weak fairness of `Host` (a Python thread
runs on until it returns, raises or waits), of `Device` (CUDA eventually runs a
kernel at the head of its stream) and of `CallerReads` (the caller looks at what
it got). It does not assume that the host fails: `HostFails` has no fairness.

## 6. Findings

Each is a run whose property is what the documentation, a comment or a name in
the source says, violated by what the code does; PROJECT.json quotes both.

1. `capacity_converter`: the Path documentation says a compaction always
   precedes the result converter; without scattering it does not, and a failed
   solve traps in the converter's assertion (path.py:273), not in the terminal
   check. The caller still gets an error.
2. `ad_arrival`: a time-of-arrival loss is documented to work; diffraction and
   coupled rows keep the length their discovery wrote, so its derivative is
   silently absent (propagation/fields.py:736).
3. `resources_kirchhoff`: Kirchhoff tables built for a detached roughness are
   served after the tensor became a leaf, without a graph to it
   (scene/compiler.py:535).
4. `bdpt_order`: `max_scattering_order` of a BDPT configuration never reaches the
   sampler (montecarlo/bdpt.py:4019).
5. `selection_shuffle`: a test is named for, and asserts, that selection does not
   depend on the order rows arrive in. Inside one launch, without a barrier, the thread of a position
   clears the flag (native/channel/kernels/evaluated_paths.cu:271) that the thread
   at the start of its group sets (:305); when the clearing comes last, a path whose
   first row is not its shortest is lost. Threads of a warp usually run in step,
   which hides this in small tables, as in the test's eight rows; a group that
   spans two warps has no such help, and CUDA promises it to neither.

### Other divergences met while reading

The models follow the code in each; no run is kept for them.

- `scene/compiler.py:1320`: two threads that miss together each build a runtime,
  where ADR-034 promises one per key; the second replaces the first's.
- `scene/compiler.py:1433`: the revision of a tensor frequency is recorded when
  the runtime is assembled, so after an edit during compile
  `require_reference_frequency` accepts a runtime with the records of before.
- `propagation/consumer.py:3502`: `evaluate` enqueues the terminal check before
  the batch is written; results are documented to be inert by then.
- `propagation/consumer.py:3646`: two admitted offsets half-way between two
  floats become one launch. `propagation/consumer.py:73`: above the next
  power of two a launch is up to a whole resolution away, not half of one.
- `kernels/fields.py:1615`: forward mode drops the tangents of a transmission
  row's length when only duals are live, which ADR-038 excludes.
- `montecarlo/bdpt.py:160` refuses no combination with derivatives, which the
  capability table lists as refused. `montecarlo/bdpt.py:3493`: rows may be deeper than the
  depth the result reports. `montecarlo/bdpt.py:3604`: the coherent collection detaches the
  transmitter power.
- `propagation/geometry.py:153`: face groups are kept per RayD scene but depend on
  surface labels, which scenes that share one may not share.
- `propagation/fields.py:736`: a power leaf puts diffraction rows on a graph in
  `ad_mode="none"`.
- `path.py:756`: `filter_by_type` drops the vectors of the paths it keeps.
  `path.py:1576`: scattering rows are appended beyond `max_paths`. `path.py:1247`:
  an empty result keeps one antenna. `path.py:1257`: weights on an empty solve
  raise after it.
- `deterministic.py:87` accepts the scope `per_pair`, which is documented as
  refused; `:835` exports scattering rows beyond `max_paths`; `:520` accepts
  transmission and scattering at depth 0 and finds none; `:880` replaces a power
  that has a graph by one that has none.
- `montecarlo/basic.py:1566`: the gain of a grid is a matrix, not a grid; `:1197`: derivatives
  with scattering are not refused; `:456`: the byte estimate leaves out the ends
  of the transmission rays. `kernels/montecarlo.py:257`: the sum's forward
  derivative is not in the launch ledger.

## 7. What is proved

By TLAPS, for every value of the constants that satisfies the named assumptions.
TLC checks every property below on the bounds of section 4 as well.

| theorem | property of the run |
|---|---|
| `SceneCompileProofs!TypeCorrect` | compile_threads `TypeOK` |
| `SceneCompileProofs!CacheIsPrecise` | compile_threads `ServesTheAskedWorld` |
| `SceneCompileProofs!CacheIsFresh` | compile_threads `NoOmittedInvalidation` |
| `SceneCompileProofs!StoresOfOneScene` | compile_threads `StoresFitTogether` |
| `SceneCompileProofs!RecordsAreOfTheFrequency` | compile_reuse `RecordsAtTheAskedFrequency` |
| `SceneCompileProofs!KeysNameWorlds` | compile_reuse `KeyIdNamesOneWorld` |
| `SceneCompileProofs!RegistryIsLru` | compile_reuse `KeepsRecentlyUsed` |
| `SceneCompileProofs!RegistryImplementsContract` | compile_reuse `ImplementsContract` |
| `CapacityProofs!TypeCorrect` | capacity `TypeOK` |
| `CapacityProofs!TableReadsInBounds` | capacity `InBounds` |
| `CapacityProofs!BlockIsNotTruncated` | capacity `NothingTruncated` |
| `CapacityProofs!AnswersAreAllOrNothing` | capacity `AllOrNothing` |
| `CapacityProofs!OnlyTheTerminalTraps` | capacity `TrapsOnlyAtTheTerminal` |
| `CapacityProofs!InertWhenTrapped` | capacity `InertAtTheTrap` |
| `ConsumerProofs!TypeCorrect` | consumer `TypeOK` |
| `ConsumerProofs!LabelsAreOfTheWorld` | consumer `LabelsNameTheSameWorld` |
| `ConsumerProofs!PollsMayBeActedOn` | consumer `PollsAreHonest` |
| `ConsumerProofs!ConsumerWorld` | the three above, in the instances of `MCConsumer` |
| `ConsumerProofs!TiledReplayExact` | consumer `TiledReplayIsExact` |
| `ConsumerProofs!ColumnsDistinct` | consumer `ColumnsAreDistinctOffTies` |
| `DiscoveryProofs!DiscoveryTypeCorrect` | discovery `TypeOK` |
| `DiscoveryProofs!DiscoveryOneWedge` | discovery `EachEdgeIsOneWedge` |
| `DiscoveryProofs!EvaluatedOnce` | discovery `RowsAreEvaluatedOnce` |
| `SolversProofs!SolversTypeCorrect` | solvers `TypeOK` |
| `SolversProofs!SolversPay`, `SolversProofs!SamplerPays` | solvers `SubpathsArePaidOnce` |
| `SolversProofs!SolversDivideThePaths` | solvers `EachPathByOneRoute` |
| `SolversProofs!ContributionsOnce` | solvers `EachContributionOnce` |
| `SolversProofs!TotalsAreOfTheRows` | solvers `TotalsFollowTheRows` |
| `SolversProofs!CompanionsDerive` | solvers `CompanionsAreTheDerivative` |
| `SolversProofs!FailedSolvesShowNothing` | solvers `NothingOfAFailedSolve` |
| `RuntimeProofs!TypeCorrect` | runtime `TypeOK` |
| `RuntimeProofs!ResourcesCurrent` | runtime `ResourcesAreCurrent` |
| `RuntimeProofs!RightBuild` | runtime `RightBuildIsLoaded` |

**`SceneCompileProofs`** assumes `BoundsAssumption` (positive limit, natural
bounds), `WorldsAssumption` (worlds, objects and frequencies are what they are
called) and `CoreVersionsAssumption`: two worlds with one mesh input and
equal spatial stamps have the same mesh contents, which is what compile relies on
of witwin.core's versions.

The properties speak of returned runtimes only, and none is inductive: what a
call returns may have been registered long ago by a call that has since returned,
for a world since edited. The invariant therefore says of *every registered
entry* that each part was built from the contents of its source, at revisions no
older than the versions in its key (`Entries`), and of every call under way the
same about its label and the stores obtained so far. It also needs a fact about
addresses: live objects have distinct ones, and a registered entry keeps its
source alive. Equal ids at a reuse then mean the same object, equal versions
mean contents at least as new, and each of the five reuse decisions has a lemma.
Stable ids and poses, which are the same for all worlds of the runs, are covered
by `CacheIsPrecise` for any worlds.

`RegistryIsLru` has an invariant of its own, `Lru(registry, uses)`: `uses` is
the history of keys put or found, each kept at its last use, and the registry is
the last `CacheLimit` of them, in order. The lemmas are about removing one element
of a sequence without duplicates and appending it: what is a suffix stays one.

`RegistryImplementsContract` is `Spec => ImplementsContract`, the refinement. A call maps to what it asked for and to the contents of what it got:
`Begin` is the contract's `Ask`, `Hit` and `Put` are `Serve`, `Raise` is `Fail`,
`Edit` is `Edit`, the rest stutters. `Serve` needs contents that were the
caller's world's at moments of the call. That they are not older is `CacheIsFresh`;
that they are not newer than the present is `PastInv`, a second invariant of all
that is kept or being built, since edits only move on.

**`CapacityProofs`** assumes `RoutesAssumption` and `RowsAssumption` (finitely
many rows, none called like another payload). The two properties findings touch
name their exceptions themselves: `TrapsOnlyAtTheTerminal` excepts the route
`path`, `InertAtTheTrap` that and `consumer`.

What the device has done is a prefix of the route's program, so the invariant
says what holds once a kernel has completed (`Done`) or while it is next (`At`):
`WordInv` (the word is set only by a fault, and by each fault handled so far),
`BlockInv` and `CountInv` (exact while the word is clear, blank after the
sanitizer of a failed solve), `PathInv` (what is live and which slots exist) and
`TrapInv` (what a trap, a return and an answer imply). The only facts about the
six programs are the lemmas about `OrderAt`: for each kernel, which others have
run and which have not when it runs. A new route costs one such lemma.

**`ConsumerProofs`** is about `MCConsumer` for any value of its constants that satisfies
`ConsumerAssumption`. Of `FixedTopology` that is `DomainsAssumption` (label domains are among
the four) and `NoneAssumption` (a missing stamp is no contents). The stamp of a
handle and the contents its rows were found in come from one scene, so they
agree unless that scene was torn; what a poll passed against the live source
(`quiet`, a history) stays true until an edit of that world undoes it. The
rest is a case analysis of what `MovedDomain` can report, in a frozen world
and in one whose geometry alone may move.

Of `SlotReplay` it assumes that a topology is a list of rows of integers with a
natural width, that stable ids are integers and that bounds are natural
(`TopologiesAssumption`, `BatchesAssumption`, `BoundsAssumption`); any number of
slots, rows, sources and sinks. `SlotInv` says what the rows are: a tiling of the
frozen ones (`TileOf`), with the per-slot counts of whoever tiled them, right or
wrong; and of a request that was accepted, that its pairs and offsets are those of
its rows. The rest is what a tiling is. Row `t*K + r` has a pair `t` slots further on
than row `r` (`TilePairs`), so the contract of a stacked call is that of each
instant (`OneCall`), and the counts that make the offsets repeat (`RepeatsBelow`).
Under wrong counts the copies of a row have the same stable ids in slots that the
order of pairs makes climb; a slot with distinct ids has one place for them, so T copies
climb through T slots, one each (`Climbs`, `CopiesKeepTheirSlots`). Of sorted
pairs, those below a pair come first, so counting them finds where it begins
(`Segments`). Buckets partition the rows by kind and, tiled, still do
(`Partitioned`, `TiledBucketsFit`), so a row is answered by a bucket of its own kind.

Of `WidebandGrid` it assumes at least two bits of precision, positive references
and frequencies within the range of the format (`RangeAssumption`). A launch is at most half a
unit of the float format away from its frequency (`Rounded`); admitted
frequencies are a unit of the reference's binade apart, so of two in that binade
that meet both moved by half, to the even neighbour between them.

**`DiscoveryProofs`** is about `MCDiscovery`, of which it uses the edge tables and the
enumerated solves. Edge tables need no assumption. Two records of one edge are told
apart by how many of that edge stand before them; a record that survives is the
first of its edge, so of two that survive both are first and they are one; where
two structures meet, the first has a second, and is a wedge with its normal.
That there is a first is the one use of well-foundedness (of strict inclusion
of the finite sets of positions before).

Enumerated solves assume `FieldsAssumption`: finitely many rows, told apart by what
they are sorted by (pair, depth, component, lower columns), leaves of the five kinds and
caps of the solve or of each pair.
The position of a row is how many stand before it, which is a bijection of the rows
with their positions (`InOrderIsSorted`), so every block and every result is a sorted
list without repetitions, capped or not. `FieldsInv` then says what a row has
become as a function of how many evaluators have run: each row is taken by
one of the six (`TakenInTurn`), and only a list of searches that passed the configuration's checks
makes it so (`BlocksAreSearches`: a chain deeper than its evaluator loops over would never be
taken). The offsets of a pair cut the result because the rows of the pairs below one
are the first ones (`FirstOnes`).

**`SolversProofs`** is about `MCSolvers` for any value of its constants that satisfies
`SolversAssumption`; a behaviour stays in the part it began in. The assumptions are,
for BDPT, `BoundsAssumption` (a bounce and an order at least) and
`ConfigAssumption` (what depths and scenes are; nothing is behind a wall in a scene
without structures); for Basic, that amounts are natural numbers and that a scene
gives them for each of its transmitters and cells (`InputsAssumption`). `SamplerInv` says of the subpath that its factors are
those of its word followed throughout (`Followed`), which is what a word without
a scatter owes; a word that ends in a scatter vertex owes that vertex the chance of
its selection only, and that is why a connection is built from the subpath as
it arrived. `Remembered` says that the rows of mixed paths exist at every moment
of the walk and not only at its end, which is what `NoBounceIsForgotten` asks.
`SamplerPays` is about the sampler by itself, so about orders above one too, which
no solve passes it (finding 4). For a solve, `RouteSound` tells from the
events of a row which route found it: two routes never find words with the same
events, the direct path apart, of whose two routes a solve takes one. `Progress`
has one conjunct per class: past its stage, the class is counted. That live
vertices are never sampled follows from what `Validate` let pass and from
`WalkOfSolve`: a walk has begun only in a solve that reaches the sampler.
A path is a list of events here, so that what the proofs leave open is
what it is worth, and the deeper words of a class, which are those of
`Enumerated` by definition.

In a solve of Basic each map is, from the step that makes it until a failed solve
blanks them all, a function of the configuration and the scene, and the invariant
says which (`BasicInv`). The rest is about finite sums, which the library
defines by recursion over a CHOOSE: `AddsExists` shows that the recursion has
a solution, by the smaller subsets, and the lemmas after it are what a sum is used
for (take one out, split, interchange). That the gains add up to
the powers is an interchange; that scattering deposits each receiver's
row once although it goes through them in chunks is arithmetic of quotients
(`Remainders`); that the limit holds is one lemma for every checked product, which is
either `Refused` for good or the number itself. That a failed solve shows nothing needs the order of the
last two steps in Path and Deterministic and the blanked maps in Basic.

For a deterministic solve (**`FieldProofs`**; the parts `fields` and `differentiated`
are one instance, `Field`, which the theorems are about in both), `PathsAssumption` and `GridFillsReceivers` say what the
instances are: searches find paths of their own kinds between the ends there are, and
a grid has as many cells as receivers. `FieldInv` says of each stage what it made
and that nothing later changes it: rows are rows of searched components as long as
capacity suffices (`FieldIntact`), totals are those accumulated from them, the result is
laid out from the totals, with the exact diffraction in place of the rows'
(`FinalGain`, `FinalPower`), and what separates candidates from rows is what the cap took
(`FieldCuts`). What `FieldInv` then needs is arithmetic of finite sums: a
sum over rows is the sum, over slots or over names, of the sums of each kind
(`SumByKind`); a component that is not exported has no row, so its slot holds
nothing (`UnexportedIsNothing`), which is why six slots and fewer maps have one sum.
The positions a cap keeps are counted off one by one (`PickedIs`), so picking loses none.

That the derivative companions are the derivative (`CompanionsDerive`) is shown for every
row, value, slot and output at once. What the accumulator gives for a name is a
polynomial of degree two or less in the sums of that name's slot, or of
all slots for the totals; moving one value of one row by one moves the sum
of that row's slot by one and no other, so the difference between one up and one down, in which
the second-order part cancels, is twice the forward companion's tangent (`ForwardIs`), and
the reverse companion reads the same coefficients from the other side (`ReverseIs`). That valid rows have
ids of components, which the transpose needs, is part of `FieldInv` (`AccumulatedIds`).

**`SceneResourcesProofs`** assumes `ConstantsAssumption` (finitely many threads,
known kinds, natural bounds). Marks change only between calls and versions only
grow, so the leaves that were true during a call are an interval of versions
under one mark. The key a call took bounds from below what is built or found
under it, and the leaf itself bounds it from above. A replay's graph node was
new when it was built and is never put where another call looks, so no other
backward pass frees it. `RoomInv` bounds nodes by the calls that may still make
one. For edge candidates the theorem supposes one caller: their cache compares
addresses alone, and with two threads a selection that is collected between a
lookup and its use can hand its address to another (TLC finds the property
violated there). The code keeps no lock on any of these caches; for the other
three the theorem holds of any number of threads.

**`RuntimeProofs`** is about `MCRuntime` for any value of its constants that
satisfies `RuntimeAssumption`. For the loader that is `BuildsAssumption`: among genuine builds a
fingerprint determines the RayD release built against. The fingerprint is the
SHA-256 of an identity that names it (src/CMakeLists.txt:514-515); without the
assumption a call in a right world may be refused after two edits. Whatever names
a build was vouched for when it was read and stays so (`vouched` only grows), so
a module that passed validation is trusted wherever it is kept. A package or a
developer file is never removed: a process that began with a package takes no
developer branch. And a call that began in a right world, with nothing edited
since, finds at each step what the next one asks for, one conjunct per step.

A behaviour of `MCRuntime` stays in the part it began in, and is there a behaviour of
that part's module; the theorems of `SceneResourcesProofs` are instantiated for three of
them. Instances have their own copies of definitions, so most of that is that a
definition equals its copy.

## 8. Only model-checked

- `EverySolveIsAnswered`: liveness under fairness is outside the prover.
- `EachCandidateOnce`, `ShortestOfEachPath`: mixed-radix decoding of candidate
  numbers of any depth, and a chain of stable sorts: each is a recursion over data,
  and what it computes for every input needs an induction the provers here cannot
  instantiate.
- `EachRoughWayOnce`, `EachPairKeepsItsPaths`: sequences built by stages from given
  rows, with folds; what a fold gives for every input needs induction over data.
- `NothingDropped`, `ModesAnswerAlike`: the routes are finite data, so TLC's check
  of all of them with up to three leaves is nearly all there is to know.
- The five statements that fail (section 6) are counterexamples.

## 9. Not modelled, and why

- What a store, a row or a field contains numerically; RayD, Torch, CUB and
  witwin.core, which appear only through the use the code makes of them (marked
  external in PROJECT.json's map).
- In `SceneCompile`: the encoding of geometry and materials.
- In `CapacityTransaction`: solves without transmission work, which create no
  word; the already-enqueued guard of the terminal check; several solves in
  flight on one context; the scan that compacts.
- In `FixedTopology`: what a row holds; a compile during which the world changed
  may record versions that never were of one moment, and `LabelsNameTheSameWorld`
  excepts such torn scenes.
- In `SceneResources`: face groups, kept per RayD scene; leaf marks that change
  during a call; two overlapping calls for phase screens may return the older
  one, and the property speaks of a call that ran alone.
- In `NativeLoader`: reading the environment and finding a package are one step;
  packages are never removed; `build_info` may describe another build than the
  one in use when the environment is edited between. A developer build that
  registers itself is refused loudly once another is loaded.
- In `ScatterChains`: rows for a light sample exist only when a direction is
  drawn; rows of chains do not update the counts, an integral row may fall to the
  pair cap, chains take no endpoint tensors.
- In `DeterministicSolve`: `truncated` may be false when chains were cut, and the
  exact diffraction power counts rows the cap dropped; the model follows the code
  in both.
- In `Bdpt`: the atomic slots of the connection buffers and the workspace
  estimate (a refusal is a choice).
- In `BasicSolve`: of several receivers the first grid counts; points with
  reflection or diffraction report zero; scenes without transmitters are not
  among the instances; the derivative ledger is left out.
- In `AdPass`: five companions no modelled route calls; the sums of numbers.
  Derivatives are chains of outputs along which they came.
- Everything listed as `not_modelled` or `partly` in PROJECT.json, with its
  reason there.

## 10. Plan

Done: all modules of section 2, the runs of section 3 and the theorems of section 7. Next:

1. The atomic slots of BDPT's connection buffers, and the compaction scan.
2. Face groups as one more resource, with the RayD scene they are kept on.

## 11. Running it

In this directory, `tlc -config CompileThreads.cfg MCSceneCompile.tla` and so on, with the module
and configuration of each run in PROJECT.json; the largest, `runtime`, has some
3.4 million distinct states and takes about a minute and a half. `tlapm SceneCompileProofs.tla` and
so on check the proofs, each in one to a few minutes, `FieldProofs` and `SolversProofs` in some ten each.
