SPECIFICATION Spec
CONSTANTS
  Problem <- Problems
  HasGradient <- Gradients
  HasHessians <- Hessians
  CTol <- Tolerances
  Param <- Names
  Default <- Defaults
  File <- Files
  NumOptions <- Nums
  IntOptions <- Ints
  BoolOptions <- Bools
  Verbosities <- Levels
  UserPolicies <- SomePolicies
  Codes <- SomeCodes
  Results <- ListedCodes
  None = None
INVARIANTS
  TypeOK
  UserOptionsWin
  ToleranceOfThisProblem
  DerivativesOfThisProblem
  CopiesAgree
