------------------------ MODULE CapacityTransaction ------------------------
(***************************************************************************)
(* One solve that asks for transmission, and its capacity transaction.     *)
(*                                                                         *)
(* The host (Python) enqueues kernels on one CUDA stream and mostly runs   *)
(* ahead of the device.  The kernels of the solve share one failure word:  *)
(* a producer that meets a row it cannot represent sets a bit and goes on, *)
(* nobody reads the word on the host, sanitizer kernels blank what a       *)
(* failed solve wrote, and one terminal kernel, enqueued by the route that *)
(* owns the result, traps when a bit is set.  The trap is sticky: every    *)
(* later synchronization raises.                                           *)
(*                                                                         *)
(* Routes: "oracle" is evaluate_enumerated_paths with its default          *)
(* arguments (BDPT), "path" and "path_scattering" are path._pipeline_solve *)
(* without and with a scattering component, "deterministic", "consumer"    *)
(* (propagation.evaluate) and "basic" (Monte Carlo) are the others.        *)
(***************************************************************************)
EXTENDS Integers, Sequences, FiniteSets

CONSTANTS Rows,     \* transmitter/receiver pairs, one penetration row each
          Routes    \* the routes a solve may take

KnownRoutes == {"oracle", "path", "path_scattering", "deterministic", "consumer", "basic"}
ASSUME RoutesAssumption == Routes \subseteq KnownRoutes

\* What RayD reports of a row: a clear or blocked segment, walls that all
\* transmit, a wall of a material that does not, more walls than the capacity,
\* hit flags that contradict the hit count, a primitive outside the face table.
Faults == {"overflow", "malformed", "stray"}
Kinds == {"clear", "walls", "opaque"} \cup Faults

\* Payload of the other components: canonical rows, the diffraction vector
\* field beside them, and the rows scattering appends.
OtherRows == {"direct", "scatter"}
Vector == "vector"
Payload == Rows \cup OtherRows \cup {Vector}
Garbage == "garbage"                       \* at::empty before the first write
ASSUME RowsAssumption ==
  IsFiniteSet(Rows) /\ Rows \cap (OtherRows \cup {Vector, Garbage}) = {}

\* The kernels of each route, in the order the host enqueues them.
Program == [r \in KnownRoutes |->
  CASE r = "oracle" ->
         <<"zero", "discover", "penetrate", "init", "preflight", "pack", "block_sanitize",
           "gather", "sanitize", "vector_sanitize", "publish", "terminal">>
    [] r = "path" ->
         <<"zero", "discover", "penetrate", "init", "preflight", "pack", "block_sanitize",
           "gather", "sanitize", "vector_sanitize", "convert", "terminal">>
    [] r = "path_scattering" ->
         <<"zero", "discover", "penetrate", "init", "preflight", "pack", "block_sanitize",
           "gather", "scatter", "sanitize", "vector_sanitize", "recompact", "convert", "terminal">>
    [] r = "deterministic" ->
         <<"zero", "discover", "penetrate", "init", "preflight", "pack", "block_sanitize",
           "gather", "scatter", "sanitize", "vector_sanitize", "publish", "terminal">>
    [] r = "consumer" ->
         <<"zero", "discover", "penetrate", "init", "preflight", "pack", "block_sanitize",
           "gather", "sanitize", "vector_sanitize", "terminal", "publish">>
    [] r = "basic" ->
         <<"discover", "zero", "penetrate", "init", "walls", "block_sanitize",
           "gather", "scatter", "sanitize", "publish", "terminal">>]

\* The kernels after which the host needs a count or a scalar, and waits.
Waits == [r \in KnownRoutes |->
  CASE r = "path" -> {"gather", "vector_sanitize", "convert"}
    [] r = "path_scattering" -> {"gather", "scatter", "recompact", "convert"}
    [] r = "deterministic" -> {"gather", "scatter", "vector_sanitize"}
    [] r \in {"oracle", "consumer"} -> {"gather"}
    [] r = "basic" -> {}]

VARIABLES
  route,        \* the route of this solve
  status,       \* of the host call: "solving", "raised" or "returned"
  launched,     \* kernels enqueued
  retired,      \* kernels the device has completed
  pending,      \* rows the running kernel has not handled yet
  failed,       \* failure_state[0] # 0
  boundary,     \* the same, when the running kernel started
  hits,         \* Rows -> Kinds, what RayD reported
  block,        \* rows valid in the topology block, or with a wall product
  candidates,   \* device_candidate_count
  guardrails,   \* device_guardrail_count
  found,        \* payload the other components discovered (history)
  slots,        \* rows of the evaluated paths, inert ones included
  live,         \* payload that is not inert
  result,       \* payload of the published result
  trapped,      \* the device trapped; the context raises from here on
  answer        \* what the caller got: "none", "error" or "result"

hostVars == <<route, status, launched, answer>>
wordVars == <<failed, hits>>
blockVars == <<block, candidates, guardrails>>
pathVars == <<found, slots, live>>
vars == <<route, status, launched, retired, pending, failed, boundary, hits, block,
          candidates, guardrails, found, slots, live, result, trapped, answer>>

Init ==
  /\ route \in Routes
  /\ status = "solving" /\ answer = "none"
  /\ launched = 0 /\ retired = 0
  /\ pending = Rows
  /\ failed \in BOOLEAN /\ boundary = failed       \* at::empty
  /\ hits = [r \in Rows |-> "clear"]
  /\ block \in SUBSET Rows                          \* at::empty
  /\ candidates \in 0..Cardinality(Rows)            \* at::empty, a few values of it
  /\ guardrails \in 0..Cardinality(Rows)
  /\ found = {} /\ slots = {} /\ live = {}
  /\ result = {Garbage}
  /\ trapped = FALSE

Faulty == {r \in Rows : hits[r] \in Faults}
Penetrated == {r \in Rows : hits[r] = "walls"}
Opaque == {r \in Rows : hits[r] = "opaque"}
Completed(k) == \E i \in 1..retired : Program[route][i] = k

----------------------------------------------------------------------------
\* The host.

Waiting == /\ launched > 0 /\ retired < launched
           /\ Program[route][launched] \in Waits[route]

\* Enqueue the next kernel, running ahead of the device.
HostLaunch ==
  /\ status = "solving" /\ ~Waiting
  /\ launched < Len(Program[route])
  /\ launched' = launched + 1
  /\ UNCHANGED <<route, status, retired, pending, boundary, wordVars, blockVars, pathVars,
                 result, trapped, answer>>

\* A synchronization after the trap raises.
HostHears ==
  /\ status = "solving" /\ Waiting /\ trapped
  /\ status' = "raised"
  /\ UNCHANGED <<route, launched, retired, pending, boundary, wordVars, blockVars, pathVars,
                 result, trapped, answer>>

\* Python raises between two launches: a validation, an allocation, a gate.
HostFails ==
  /\ status = "solving" /\ ~Waiting
  /\ status' = "raised"
  /\ UNCHANGED <<route, launched, retired, pending, boundary, wordVars, blockVars, pathVars,
                 result, trapped, answer>>

HostReturns ==
  /\ status = "solving" /\ ~Waiting
  /\ launched = Len(Program[route])
  /\ status' = "returned"
  /\ UNCHANGED <<route, launched, retired, pending, boundary, wordVars, blockVars, pathVars,
                 result, trapped, answer>>

\* The caller reads what it was given: it synchronizes first.
\* Mutant of Settled: a trap does not end a synchronization.
Drained == retired = launched
Settled == trapped \/ retired = launched
CallerReads ==
  /\ answer = "none"
  /\ \/ status = "raised" /\ answer' = "error"
     \/ /\ status = "returned" /\ Settled
        /\ answer' = IF trapped THEN "error" ELSE "result"
  /\ UNCHANGED <<route, status, launched, retired, pending, boundary, wordVars, blockVars,
                 pathVars, result, trapped>>

----------------------------------------------------------------------------
\* The device. Kernels run in stream order; a kernel sees everything earlier
\* ones wrote. Single-step kernels have rows that do not affect one another.

Running(k) == ~trapped /\ retired < launched /\ Program[route][retired + 1] = k
Retire ==
  /\ retired' = retired + 1
  /\ boundary' = failed'
  /\ pending' = Rows

\* channel_capacity_failure_state_create: cudaMemsetAsync(0).
\* Mutant of ZeroWord: the word keeps what at::empty found there.
UnclearedWord == failed
ZeroWord == FALSE
Zero ==
  /\ Running("zero")
  /\ failed' = ZeroWord
  /\ UNCHANGED <<hostVars, hits, blockVars, pathVars, result, trapped>>
  /\ Retire

\* LOS, reflection, diffraction and coupled rows; only an enumerated
\* diffraction stage has a vector field.
Discover ==
  /\ Running("discover")
  /\ \E d \in SUBSET (IF route = "basic" THEN {"direct"} ELSE {"direct", Vector}) :
       /\ found' = d /\ live' = d /\ slots' = d \ {Vector}
  /\ UNCHANGED <<hostVars, wordVars, blockVars, result, trapped>>
  /\ Retire

\* RayD traces every row, and sets the bit itself when a row overflows.
Penetrate ==
  /\ Running("penetrate")
  /\ \E h \in [Rows -> Kinds] :
       /\ hits' = h
       /\ failed' = (failed \/ \E r \in Rows : h[r] = "overflow")
  /\ UNCHANGED <<hostVars, blockVars, pathVars, result, trapped>>
  /\ Retire

\* Inert rows and zero counts before the producer writes.
\* Mutant of BlankBlock: the counts are not reset.
BlankRowsOnly == block' = {} /\ UNCHANGED <<candidates, guardrails>>
BlankBlock == block' = {} /\ candidates' = 0 /\ guardrails' = 0
Blank ==
  /\ Running("init")
  /\ BlankBlock
  /\ UNCHANGED <<hostVars, wordVars, pathVars, result, trapped>>
  /\ Retire

\* A thread that reads the word while other threads set it may see either
\* value; whoever started on a failed word sees it.
MayGoOn == ~boundary
MayStop == failed

\* A row that some thread of preflight must report.
\* Mutant of Reported: primitive ids are not compared with the face table.
ReportedWithoutPrimitives(r) == hits[r] \in {"overflow", "malformed"}
Reported(r) == hits[r] \in Faults
PreflightRow ==
  /\ Running("preflight")
  /\ \E r \in pending :
       /\ pending' = pending \ {r}
       /\ \/ MayStop /\ failed' = failed
          \/ MayGoOn /\ failed' = (failed \/ Reported(r))
  /\ UNCHANGED <<hostVars, retired, boundary, hits, blockVars, pathVars, result, trapped>>

\* pack reads face_material_id at the row's primitives without a check of its
\* own, counts the penetrated rows and writes those that transmit.
PackRow ==
  /\ Running("pack")
  /\ \E r \in pending :
       /\ pending' = pending \ {r}
       /\ IF failed THEN UNCHANGED blockVars
          ELSE /\ candidates' = candidates + (IF r \in Penetrated \cup Opaque THEN 1 ELSE 0)
               /\ guardrails' = guardrails + (IF r \in Opaque THEN 1 ELSE 0)
               /\ block' = block \cup ({r} \cap Penetrated)
  /\ UNCHANGED <<hostVars, retired, boundary, wordVars, pathVars, result, trapped>>

\* The wall product checks and computes in one kernel, so a row may be written
\* before another row sets the bit.
WallRow ==
  /\ Running("walls")
  /\ \E r \in pending :
       /\ pending' = pending \ {r}
       /\ \/ MayStop /\ UNCHANGED <<failed, block>>
          \/ /\ MayGoOn
             /\ failed' = (failed \/ hits[r] \in {"malformed", "stray"})
             /\ block' = block \cup ({r} \cap Penetrated)
  /\ UNCHANGED <<hostVars, retired, boundary, hits, candidates, guardrails, pathVars, result,
                 trapped>>

RowsHandled ==
  /\ Running("preflight") \/ Running("pack") \/ Running("walls")
  /\ pending = {}
  /\ failed' = failed
  /\ UNCHANGED <<hostVars, hits, blockVars, pathVars, result, trapped>>
  /\ Retire

\* transmission_topology_sanitize and sanitize_primal.
\* Mutant of SanitizeBlock: rows written before the failure stay.
KeepTheBlock == UNCHANGED blockVars
SanitizeBlock == IF failed THEN BlankBlock ELSE UNCHANGED blockVars
BlockSanitize ==
  /\ Running("block_sanitize")
  /\ SanitizeBlock
  /\ UNCHANGED <<hostVars, wordVars, pathVars, result, trapped>>
  /\ Retire

\* torch.nonzero(valid), selection and fields; in Basic, the grid map.
Gather ==
  /\ Running("gather")
  /\ slots' = slots \cup block /\ live' = live \cup block
  /\ UNCHANGED <<hostVars, wordVars, blockVars, found, result, trapped>>
  /\ Retire

Scatter ==
  /\ Running("scatter")
  /\ \E s \in SUBSET {"scatter"} :
       found' = found \cup s /\ live' = live \cup s /\ slots' = slots \cup s
  /\ UNCHANGED <<hostVars, wordVars, blockVars, result, trapped>>
  /\ Retire

\* Shapes stay: a failed solve keeps its rows, all of them inert.
\* Mutant of Sanitized: the vector field beside the rows is forgotten.
SanitizedRowsOnly(payload) == IF failed THEN live \ (payload \ {Vector}) ELSE live
Sanitized(payload) == IF failed THEN live \ payload ELSE live
Sanitize ==
  /\ Running("sanitize")
  /\ live' = Sanitized(Rows \cup OtherRows)
  /\ UNCHANGED <<hostVars, wordVars, blockVars, found, slots, result, trapped>>
  /\ Retire

VectorSanitize ==
  /\ Running("vector_sanitize")
  /\ live' = Sanitized({Vector})
  /\ UNCHANGED <<hostVars, wordVars, blockVars, found, slots, result, trapped>>
  /\ Retire

\* compact_evaluated_paths: only the valid rows stay.
\* Mutant of Compacted: inert rows stay.
NotCompacted == slots
Compacted == slots \cap live
Recompact ==
  /\ Running("recompact")
  /\ slots' = Compacted
  /\ UNCHANGED <<hostVars, wordVars, blockVars, found, live, result, trapped>>
  /\ Retire

\* from_evaluated_paths: torch._assert_async on the endpoint ids of every row.
Convert ==
  /\ Running("convert")
  /\ UNCHANGED <<hostVars, wordVars, blockVars, pathVars>>
  /\ IF slots \subseteq live
     THEN result' = live /\ UNCHANGED trapped /\ Retire
     ELSE trapped' = TRUE /\ UNCHANGED <<result, retired, boundary, pending>>

\* Accumulation, finalization or the path batch: inert rows contribute nothing.
Publish ==
  /\ Running("publish")
  /\ result' = live
  /\ UNCHANGED <<hostVars, wordVars, blockVars, pathVars, trapped>>
  /\ Retire

Terminal ==
  /\ Running("terminal")
  /\ UNCHANGED <<hostVars, wordVars, blockVars, pathVars, result>>
  /\ IF failed THEN trapped' = TRUE /\ UNCHANGED <<retired, boundary, pending>>
               ELSE Retire /\ UNCHANGED trapped

----------------------------------------------------------------------------
Host == HostLaunch \/ HostHears \/ HostReturns
Device ==
  \/ Zero \/ Discover \/ Penetrate \/ Blank \/ PreflightRow \/ PackRow \/ WallRow \/ RowsHandled
  \/ BlockSanitize \/ Gather \/ Scatter \/ Sanitize \/ VectorSanitize \/ Recompact \/ Convert
  \/ Publish \/ Terminal

\* The solve is over: the caller has its answer and the stream is idle.
Idle == answer # "none" /\ Settled /\ UNCHANGED vars

Next == Host \/ HostFails \/ CallerReads \/ Device \/ Idle
Spec == Init /\ [][Next]_vars

\* The host runs until it returns, raises or waits; CUDA runs an enqueued
\* kernel eventually; a caller reads its result.
FairSpec == Spec /\ WF_vars(Host) /\ WF_vars(CallerReads) /\ WF_vars(Device)
----------------------------------------------------------------------------
\* Every variable has its type; counts never exceed the rows they count.
TypeOK ==
  /\ route \in Routes
  /\ status \in {"solving", "raised", "returned"}
  /\ answer \in {"none", "error", "result"}
  /\ launched \in 0..Len(Program[route]) /\ retired \in 0..launched
  /\ pending \subseteq Rows
  /\ failed \in BOOLEAN /\ boundary \in BOOLEAN /\ trapped \in BOOLEAN
  /\ hits \in [Rows -> Kinds]
  /\ block \subseteq Rows
  /\ candidates \in 0..Cardinality(Rows) /\ guardrails \in 0..Cardinality(Rows)
  /\ found \subseteq Payload /\ slots \subseteq Payload /\ live \subseteq Payload
  /\ result \subseteq Payload \cup {Garbage}

\* No thread of pack indexes the face table with a row that preflight would
\* have refused: in a solve whose word is still clear every row is sound.
InBounds ==
  Running("pack") /\ ~failed => Faulty = {}

\* Between the block's sanitizer and the end, a failed solve has no
\* transmission row and counts nothing, and one that has not failed counts and
\* keeps every penetrated row: nothing is truncated.
NothingTruncated ==
  Completed("block_sanitize") =>
    IF failed THEN block = {} /\ candidates = 0 /\ guardrails = 0
    ELSE /\ block = Penetrated
         /\ Completed("pack") => /\ candidates = Cardinality(Penetrated \cup Opaque)
                                 /\ guardrails = Cardinality(Opaque)

\* "every producer must publish its canonical inert result before the terminal
\* launch": when the device traps, nothing it wrote for the caller is usable.
\* Not so where the batch is packed after the terminal kernel (propagation.evaluate)
\* or converted by an operation that traps (Path without scattering).
InertAtTheTrap ==
  route \notin {"path", "consumer"} =>
    (trapped => result = {} /\ live = {} /\ block = {})

\* "Intermediates do not trap": only the terminal observation does.
IntermediatesDoNotTrap ==
  trapped => Program[route][retired + 1] = "terminal"

\* They do not on any route that drops or never converts inert rows.
TrapsOnlyAtTheTerminal == route # "path" => IntermediatesDoNotTrap

\* The caller of any route gets the whole result of a sound solve, or an
\* error; it gets the error of a solve with a faulty row whatever the order in
\* which host and device ran, and no error of a sound one unless Python raised.
AllOrNothing ==
  /\ answer = "result" => Faulty = {} /\ result = found \cup Penetrated
  /\ answer = "error" => Faulty # {} \/ status = "raised"

\* Every solve ends: no synchronization waits for a kernel that never runs.
EverySolveIsAnswered == <>(answer # "none")

=============================================================================
