SPECIFICATION FairSpec
CONSTANTS
  Thread <- Threads
  Uses <- Plugins
  Output <- Outputs
  MaxRuns = 1
  Nobody = Nobody
INVARIANTS
  TypeOK
  LoadExclusive
  LibraryStaysMapped
  NothingLeftBehind
  QuietStaysQuiet
PROPERTIES
  EvolveEnds
