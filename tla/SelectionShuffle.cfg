SPECIFICATION DiscoverySpec
CONSTANTS
  Parts = {"mixed rows"}
  MaxRecords = 3
  Points = {1, 2}
  Transmitters = 2
  Receivers = 2
  FieldJobs <- MCFieldJobs
  FieldWorld <- MCFieldWorld
CHECK_DEADLOCK FALSE
INVARIANTS
  ShuffleKeepsThePaths
