SPECIFICATION Spec
CONSTANTS
  Problem <- OneProblem
  Point <- Points
  Fitness <- OneFitness
  Nec <- ZeroNec
  Unsuitable = {}
  Gradient <- OneGradient
  FNnz <- OneFNnz
  WithGradient = {}
  WithHessians = {}
  Garbage = {7}
  Scales = {1}
  Multipliers = {0}
  RequestSets <- FunctionRequests
  MaxIter = 3
  MaxPop = 1
  Verbosities = {0, 1, 2}
  UserPolicies <- BestOnly
  UIntModulus = 16
  NoPoint = NoPoint
INVARIANTS
  OneLinePerEvaluation
