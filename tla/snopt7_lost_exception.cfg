SPECIFICATION Spec
CONSTANTS
  Problem <- Problems
  Point <- Points
  Fitness <- Functions
  Nec <- Equalities
  Unsuitable = {"multi"}
  WithGradient = {"con"}
  ReturnsEarly = FALSE
  Codes <- ListedCodes
  MaxEval = 2
  MaxPop = 2
  Verbosities = {0}
  UserPolicies <- BestOrSecond
  NoPoint = NoPoint
INVARIANTS
  UserExceptionRethrown
