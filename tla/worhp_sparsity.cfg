SPECIFICATION Spec
CONSTANTS
  Dim <- Three
  NCon <- Two
  Problem <- Problems
  Iterate <- Iterates
  NoIterate = NoIterate
INVARIANTS
  TypeOK
  GradientRight
  JacobianRight
  HessianRight
  HessianFormat
