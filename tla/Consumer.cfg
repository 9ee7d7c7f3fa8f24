SPECIFICATION ConsumerSpec
CONSTANTS
  Parts = {"world", "slots", "wideband"}
  Topologies <- MCTopologies
  Sources <- MCSources
  Sinks <- MCSinks
  MaxSlots = 3
  MaxPerSlot = 2
  Precision = 3
  Exponents = {0, 1, 2, 3, 4}
  References = {16, 17, 18, 22, 26, 29, 30, 31}
  Offsets <- MCOffsets
  MaxColumns = 3
  c1 = c1
  c2 = c2
  None = None
  LabelDomains = {"topology"}
  Worlds = {"scene"}
  Contents = {c1, c2}
  MaxScenes = 1
  MaxHandles = 2
SYMMETRY ContentSymmetry
CHECK_DEADLOCK FALSE
INVARIANTS
  TypeOK
  LabelsNameTheSameWorld
  PollsAreHonest
  TiledReplayIsExact
  ColumnsAreDistinctOffTies
