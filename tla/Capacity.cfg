SPECIFICATION FairSpec
CONSTANTS
  r1 = r1
  r2 = r2
  Rows = {r1, r2}
  Routes = {"oracle", "path", "path_scattering", "deterministic", "consumer", "basic"}
INVARIANTS
  TypeOK
  InBounds
  NothingTruncated
  InertAtTheTrap
  TrapsOnlyAtTheTerminal
  AllOrNothing
PROPERTY EverySolveIsAnswered
