SPECIFICATION Spec
CONSTANTS
  t1 = t1
  t2 = t2
  Threads = {t1}
  Worlds <- ReuseWorlds
  Floats = {}
  Tensors = {"tuned"}
  Objects <- ReuseObjects
  Leaf <- ReuseLeaf
  RayDInput <- ReuseInput
  StableIds <- OneId
  Policy <- OnePolicy
  Stamp <- SameStamps
  Hertz <- FrequencyHz
  Home <- ReuseHome
  Mutable = {"tuned", "mesh1"}
  CacheLimit = 2
  MaxCalls = 3
  MaxEdits = 1
CHECK_DEADLOCK FALSE
INVARIANTS
  KeyIdNamesOneWorld
  KeepsRecentlyUsed
  RecordsAtTheAskedFrequency
PROPERTY ImplementsContract
