SPECIFICATION Spec
CONSTANTS
  Problem <- MixedProblems
  Point <- Points
  Fitness <- MixedFitness
  Nec <- MixedNec
  Unsuitable = {"multi"}
  Gradient <- MixedGradient
  FNnz <- MixedFNnz
  WithGradient = {"free"}
  WithHessians = {}
  Garbage = {7}
  Scales = {1}
  Multipliers = {0}
  RequestSets <- FunctionRequests
  MaxIter = 2
  MaxPop = 2
  Verbosities = {0}
  UserPolicies <- BestSecondWorst
  UIntModulus = 16
  NoPoint = NoPoint
INVARIANTS
  SolverGetsFreshAnswers
