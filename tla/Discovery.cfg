SPECIFICATION DiscoverySpec
CONSTANTS
  Parts = {"edges", "reflections", "coupled", "mixed rows", "pairs", "fields", "chains"}
  MaxRecords = 3
  Points = {1, 2}
  Transmitters = 2
  Receivers = 2
  FieldJobs <- MCFieldJobs
  FieldWorld <- MCFieldWorld
CHECK_DEADLOCK FALSE
INVARIANTS
  TypeOK
  EachEdgeIsOneWedge
  EachCandidateOnce
  ShortestOfEachPath
  RowsAreEvaluatedOnce
  EachRoughWayOnce
