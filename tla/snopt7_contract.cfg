SPECIFICATION Spec
CONSTANTS
  Problem <- Problems
  Point <- Points
  Fitness <- Functions
  Nec <- Equalities
  Unsuitable = {"multi"}
  WithGradient = {"con"}
  ReturnsEarly = FALSE
  Codes <- AnyCode
  MaxEval = 3
  MaxPop = 2
  Verbosities = {0, 1, 2}
  UserPolicies <- BestSecondWorst
  NoPoint = NoPoint
INVARIANTS
  TypeOK
  UserExceptionNeverLost
  SolverMemoryBalanced
  PopulationConsistent
  LogSampled
  LogOfOneRun
  ScreenOutputExcludesLog
PROPERTIES
  ImplementsContract
  ChampionKept
