SPECIFICATION Spec
CONSTANTS
  t1 = t1
  t2 = t2
  Threads = {t1, t2}
  Worlds <- SharedWorlds
  Floats = {"3.5GHz"}
  Tensors = {}
  Objects <- SharedObjects
  Leaf <- SharedLeaf
  RayDInput <- SharedInput
  StableIds <- OneId
  Policy <- OnePolicy
  Stamp <- SameStamps
  Hertz <- FrequencyHz
  Home <- OwnHome
  Mutable = {"mesh"}
  CacheLimit = 2
  MaxCalls = 3
  MaxEdits = 1
SYMMETRY ThreadSymmetry
CHECK_DEADLOCK FALSE
INVARIANTS
  TypeOK
  NoOmittedInvalidation
  StoresFitTogether
  ServesTheAskedWorld
