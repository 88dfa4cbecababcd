SPECIFICATION Spec
CONSTANTS
  Problem <- SameProblems
  Point <- Points
  Fitness <- SameFitness
  Nec <- NoneEach
  Unsuitable = {}
  Gradient <- SameGradient
  FNnz <- OneEach
  WithGradient = {"full"}
  WithHessians = {"full"}
  Garbage = {7}
  Scales = {1, 2}
  Multipliers = {0}
  RequestSets <- SomeRequests
  MaxIter = 2
  MaxPop = 1
  Verbosities = {0}
  UserPolicies <- BestOnly
  UIntModulus = 16
  NoPoint = NoPoint
INVARIANTS
  GradientOfTheObjective
