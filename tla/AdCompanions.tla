---------------------------- MODULE AdCompanions ----------------------------
(***************************************************************************)
(* What every differentiable native operation declares to autograd: which  *)
(* inputs its backward answers, which its jvp reads, which each of the two *)
(* refuses, and which outputs carry a derivative. One definition per       *)
(* autograd.Function; values are named, and a group of tensors that every  *)
(* companion treats alike is one value. The routes at the end are the      *)
(* companions each solver applies.                                         *)
(*                                                                         *)
(*   by       what each continuous output is computed from                 *)
(*   rev, fwd inputs whose gradient backward returns / tangent jvp reads   *)
(*   noRev, noFwd  inputs that backward / jvp refuses by name              *)
(*   length, direction  outputs live only with the geometry / on request   *)
(*   geometry inputs that decide whether the length is live                *)
(*   decided  "wrapper" (duals still visible), "hook" (already unpacked)   *)
(***************************************************************************)
EXTENDS Functions, Sequences, TLC

Each(outputs, inputs) == [o \in outputs |-> inputs]

Through(values) == [v \in values |-> {v}]

Answers(by, fixed) ==
  [by |-> by,
   rev |-> UNION Range(by) \ fixed, fwd |-> UNION Range(by) \ fixed,
   noRev |-> fixed, noFwd |-> fixed,
   length |-> {}, direction |-> {}, geometry |-> {}, decided |-> "wrapper"]

\* An operation with path_length_m / delay_s (and direction) outputs.
Transport(inputs, fixed, geometry, decided, direction) ==
  [Answers(Each({"field"}, inputs \cup fixed) @@ Each({"length"} \cup direction, geometry),
           fixed)
     EXCEPT !.length = {"length"}, !.direction = direction,
            !.geometry = geometry, !.decided = decided]

Endpoints == {"source", "target"}
Slab == {"eps", "sigma", "gain", "thickness"}
Layers == {"layerThickness", "layerEps", "layerSigma"}
Antennas == {"txPower", "txPol", "rxPol"}

-----------------------------------------------------------------------------
\* kernels/fields.py

FieldFreeSpace ==
  Transport(Endpoints \cup {"freq"}, Antennas, Endpoints, "wrapper", {"direction"})

FieldReflectionSequenceFixed == Antennas \cup {"muR"}

FieldReflectionSequence ==
  LET geometry == Endpoints \cup {"positions", "normals"}
  IN  Transport(geometry \cup Slab \cup {"freq"}, FieldReflectionSequenceFixed,
                geometry, "wrapper", {"direction"})

FieldTransmissionSequenceFixed == Antennas \cup {"layerMuR"}

\* Hit positions carry an exact zero; the direction is dead whoever asks.
FieldTransmissionSequence ==
  Transport(Endpoints \cup {"normals", "freq"} \cup Layers, FieldTransmissionSequenceFixed,
            Endpoints \cup {"normals"}, "hook", {})

FieldDiffractionWedgeFixed == {"edges", "muR", "txPower"}

FieldDiffractionWedge ==
  Answers(Each({"vector", "arrival"},
               Endpoints \cup (Slab \ {"thickness"}) \cup {"freq", "vertices"}
                 \cup FieldDiffractionWedgeFixed),
          FieldDiffractionWedgeFixed)

FieldCoupledRdFixed == Antennas \cup {"muR", "wall", "edges"}

FieldCoupledRd ==
  Answers(Each({"field"}, Endpoints \cup Slab \cup {"freq", "reflectionPoint", "edgePoint"}
                            \cup FieldCoupledRdFixed),
          FieldCoupledRdFixed)

CoupledRdPrepare ==
  Answers(Each({"reflectionPoint", "edgePoint"}, Endpoints \cup {"wall", "edges"}),
          {"wall", "edges"})

FieldCoupledDdFixed == Antennas \cup {"muR", "fermatPoints", "edges"}

FieldCoupledDd ==
  Answers(Each({"field"}, Endpoints \cup Slab \cup {"freq"} \cup FieldCoupledDdFixed),
          FieldCoupledDdFixed)

\* The wall and edge tables of a scene are detached records of its vertices.
FrozenSceneTables ==
  [Answers(Each({"wall", "edges"}, {"vertices"}), {}) EXCEPT !.rev = {}, !.fwd = {}]

\* Wedge and coupled rows keep the length their discovery wrote.
FrozenRowLength ==
  [Answers(Each({"length"}, Endpoints), {}) EXCEPT !.rev = {}, !.fwd = {}]

FieldProjectComplex3 == Answers(Each({"field"}, {"vector", "arrival", "rxPol"}), {"rxPol"})

FieldRoughReflectionScale ==
  Answers(Each({"field"}, {"field", "positions", "normals", "source", "freq", "sigmaH"}), {"sigmaH"})

FieldSourceAmplitudeScale == Answers(Each({"field"}, {"field", "txPower"}), {"txPower"})

-----------------------------------------------------------------------------
\* kernels/geometry.py. Primitive ids and masks are dead outputs.

RaydReflectionEpcPaths ==
  Answers(Each({"positions", "normals"}, Endpoints \cup {"vertices"}), {})

\* The native normals are only a reference for the orientation.
RaydFaceNormals ==
  [Answers(Each({"normals"}, {"vertices"}), {}) EXCEPT !.noRev = {"rawNormals"}]

RaydSegmentPenetration ==
  Answers(Each({"crossings"}, Endpoints \cup {"vertices"}), {})

-----------------------------------------------------------------------------
\* propagation/ and kernels/topology.py: row copies under a frozen selection

PathRows == {"field", "length", "direction"}

FixedLoSGather == Answers(("source" :> {"sources"}) @@ ("target" :> {"sinks"}), {})

TransmissionTopologyPack == Answers(Each({"length"}, {"crossings"}), {})

CanonicalCompact == Answers(Through(PathRows), {})

FailureSanitize == Answers(Through(PathRows), {})

CompactEvaluatedPaths == Answers(Through(PathRows), {})

DeterministicAccumulateFlat == Answers(Each({"matrices"}, {"field"}), {})

-----------------------------------------------------------------------------
\* kernels/materials.py and kernels/scattering.py

EmLayerStack ==
  Answers(Each({"jones"}, {"cosTheta", "freq", "layerMuR"} \cup Layers), {"layerMuR"})

ScatteringEnsembleFixed == {"frames", "rxPol"}

ScatteringEnsembleEval ==
  Answers(Each({"power"}, {"rows", "samples", "tables", "coef"} \cup ScatteringEnsembleFixed),
          ScatteringEnsembleFixed)

ScatteringPatchFixed == {"patches"}

ScatteringPatchIntegralEval ==
  Answers(Each({"power"}, {"heights", "jones", "screen", "k0"} \cup ScatteringPatchFixed),
          ScatteringPatchFixed)

ScatteringChainFixed == {"frames", "txPower", "txPol", "rxPol", "muR"}

ScatteringChainGeometry == {"positions", "normals", "samples"}

\* Mutant of ScatteringChainEnsembleEval: the jvp's list of fixed inputs omits mu_r.
ChainForgetsMuR ==
  [Answers(Each({"power"}, Slab \cup {"tables", "coef", "freq"}
                             \cup ScatteringChainGeometry \cup ScatteringChainFixed),
           ScatteringChainFixed)
     EXCEPT !.rev = @ \ ScatteringChainGeometry, !.noRev = @ \cup ScatteringChainGeometry,
            !.noFwd = @ \ {"muR"}]

ScatteringChainEnsembleEval ==
  [Answers(Each({"power"}, Slab \cup {"tables", "coef", "freq"}
                             \cup ScatteringChainGeometry \cup ScatteringChainFixed),
           ScatteringChainFixed)
     EXCEPT !.rev = @ \ ScatteringChainGeometry, !.noRev = @ \cup ScatteringChainGeometry]

KirchhoffTableFixed == {"muR", "angles"}

\* Mutant of KirchhoffTableBuild: its backward returns nothing for the roughness.
TableDetachesRoughness ==
  [Answers(Each({"tables"}, {"sigmaH", "corrLength", "freq"} \cup Layers \cup KirchhoffTableFixed),
           KirchhoffTableFixed) EXCEPT !.rev = @ \ {"sigmaH"}]

\* Mutant of KirchhoffTableBuild: its jvp takes no tangent of the frequency.
TableForgetsTangent ==
  [Answers(Each({"tables"}, {"sigmaH", "corrLength", "freq"} \cup Layers \cup KirchhoffTableFixed),
           KirchhoffTableFixed) EXCEPT !.fwd = @ \ {"freq"}]

KirchhoffTableBuild ==
  Answers(Each({"tables"}, {"sigmaH", "corrLength", "freq"} \cup Layers \cup KirchhoffTableFixed),
          KirchhoffTableFixed)

-----------------------------------------------------------------------------
\* kernels/montecarlo.py

McCapacitySanitize == Answers(Through({"maps"}), {})

McFinalizeComponentMaps == Answers(Each({"totals"}, {"maps"}), {})

McLosGridMaps == Answers(Each({"maps"}, {"matrix"}), {})

\* The polarization of the dipole pattern is frozen; the pattern moves with the endpoints.
McLosPathGain == Answers(Each({"matrix"}, Endpoints \cup {"freq", "txPower"}), {"txPower"})

McReflectionTape == {"rayO", "rayD", "faceNormals"}

\* The anchor only re-bins deposits: its derivative is an exact zero.
McReflectionMap ==
  [Answers(Each({"maps"}, Slab \cup {"source", "freq", "traceT"} \cup McReflectionTape), McReflectionTape)
     EXCEPT !.noRev = @ \cup {"traceT"}]

McDiffractionEdges == {"edges", "srcPower"}

McDiffractionMap ==
  [Answers(Each({"maps"}, Slab \cup {"source", "freq", "tapeU"} \cup McDiffractionEdges), McDiffractionEdges)
     EXCEPT !.noRev = @ \cup {"tapeU"}]

McTransmissionWallFixed == {"layerMuR", "txPol"}

McTransmissionWallProduct ==
  Answers(Each({"matrix"}, {"crossings", "matrix", "freq"} \cup Layers
                             \cup McTransmissionWallFixed),
          McTransmissionWallFixed)

-----------------------------------------------------------------------------
\* montecarlo/bdpt.py

BdptReflectedSubpath == Answers(Each({"light"}, {"light", "eps", "sigma", "thickness", "freq", "muR"}), {"muR"})

BdptTransmittedSubpath == Answers(Each({"light"}, {"light", "freq", "layerMuR"} \cup Layers), {"layerMuR"})

BdptEndpointConnection == Answers(Each({"contribution"}, {"light", "sensor", "freq", "txPower"}), {})

BdptAccumulate == Answers(Each({"maps"}, {"contribution"}), {})

BdptFinalize == Answers(Each({"totals"}, {"maps"}), {})

-----------------------------------------------------------------------------
\* The companions each route applies, in order.

FieldRoutes ==
  [los |-> <<FieldFreeSpace, FailureSanitize, CompactEvaluatedPaths>>,
   reflection |-> <<RaydReflectionEpcPaths, FieldReflectionSequence, FieldRoughReflectionScale,
                    FailureSanitize, CompactEvaluatedPaths>>,
   transmission |-> <<RaydSegmentPenetration, TransmissionTopologyPack, CanonicalCompact,
                      RaydFaceNormals, FieldTransmissionSequence, FailureSanitize>>,
   diffraction |-> <<FieldDiffractionWedge, FieldProjectComplex3, FrozenRowLength, FailureSanitize>>,
   coupled |-> <<FrozenSceneTables, CoupledRdPrepare, FieldCoupledRd, FrozenRowLength, FailureSanitize>>,
   coupledDd |-> <<FrozenSceneTables, FieldCoupledDd, FrozenRowLength, FailureSanitize>>]

DeterministicRoute == [deterministic |-> FieldRoutes.reflection \o <<DeterministicAccumulateFlat>>]

FixedRoutes ==
  [fixedLos |-> <<FixedLoSGather, FieldFreeSpace, FieldSourceAmplitudeScale>>,
   fixedReflection |-> <<RaydReflectionEpcPaths, FieldReflectionSequence, FieldSourceAmplitudeScale>>]

BasicLosRoute == [basicLos |-> <<McLosPathGain, McLosGridMaps, McCapacitySanitize, McFinalizeComponentMaps>>]
BasicTransmissionRoute ==
  [basicWall |-> <<McLosPathGain, RaydSegmentPenetration, McTransmissionWallProduct, McLosGridMaps,
                   McFinalizeComponentMaps>>]
BasicReflectionRoute == [basicReflection |-> <<McReflectionMap, McCapacitySanitize, McFinalizeComponentMaps>>]
BasicDiffractionRoute == [basicWedge |-> <<McDiffractionMap, McCapacitySanitize, McFinalizeComponentMaps>>]

ScatteringRoutes ==
  [ensemble |-> <<KirchhoffTableBuild, ScatteringEnsembleEval>>,
   realization |-> <<EmLayerStack, ScatteringPatchIntegralEval>>,
   chain |-> <<ScatteringChainEnsembleEval>>]

BdptRoute ==
  [bdpt |-> <<BdptReflectedSubpath, BdptTransmittedSubpath, BdptEndpointConnection,
              BdptAccumulate, BdptFinalize>>]

Routes ==
  FieldRoutes @@ DeterministicRoute @@ FixedRoutes @@ BasicLosRoute @@ BasicTransmissionRoute
    @@ BasicReflectionRoute @@ BasicDiffractionRoute @@ ScatteringRoutes @@ BdptRoute
=============================================================================
