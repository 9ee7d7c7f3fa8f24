SPECIFICATION Spec
CONSTANTS
  r1 = r1
  r2 = r2
  Rows = {r1, r2}
  Routes = {"path"}
INVARIANT IntermediatesDoNotTrap
