SPECIFICATION Spec
CONSTANTS
  Problem <- MixedProblems
  Point <- Points
  Fitness <- MixedFitness
  Nec <- MixedNec
  Unsuitable = {"multi"}
  Gradient <- MixedGradient
  FNnz <- MixedFNnz
  WithGradient = {"free", "con"}
  WithHessians = {"free"}
  Garbage = {7}
  Scales = {1}
  Multipliers = {0}
  RequestSets <- FunctionOrGradient
  MaxIter = 2
  MaxPop = 2
  Verbosities = {0, 3}
  UserPolicies <- BestSecondWorst
  UIntModulus = 16
  NoPoint = NoPoint
INVARIANTS
  StaleOnlyIfInherited
  PopulationConsistent
  SolverMemoryBalanced
PROPERTIES
  ImplementsContract
  ChampionKept
