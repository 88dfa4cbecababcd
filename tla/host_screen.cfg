SPECIFICATION Spec
CONSTANTS
  Thread <- Threads
  Uses <- Plugins
  Output <- Outputs
  MaxRuns = 1
  Nobody = Nobody
INVARIANTS
  ScreenOutputActive
