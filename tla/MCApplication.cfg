SPECIFICATION FairSpec
CONSTANTS
  Width = 17
  Nil = Nil
  Programs <- SomePrograms
  MaxFailures = 40
CHECK_DEADLOCK FALSE
INVARIANTS
  ExitTellsOutcome
  ValidConfigRuns
  BackoffPaces
PROPERTIES
  SignalEndsProcess
