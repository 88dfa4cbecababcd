SPECIFICATION Spec
CONSTANTS
  Problem <- Problems
  Point <- Points
  Fitness <- Functions
  Nec <- Equalities
  Unsuitable = {"multi"}
  WithGradient = {"con"}
  ReturnsEarly = TRUE
  Codes <- NoStorage
  MaxEval = 2
  MaxPop = 2
  Verbosities = {0}
  UserPolicies <- BestOrSecond
  NoPoint = NoPoint
INVARIANTS
  PopulationConsistent
