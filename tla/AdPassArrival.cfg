CONSTANTS
  RouteNames = {"diffraction"}
  MaxSeeds = 3
  Skipped = {}
  Orders = {"first"}
SPECIFICATION Spec
INVARIANTS ArrivalIsDifferentiable
CHECK_DEADLOCK FALSE
