SPECIFICATION RecordSpec
CONSTANTS
  Calls = {c1, c2}
  Closers = {k1, k2}
  PollResults = {"nil", "error"}
  ProcessResults = {"nil", "error"}
  Causes = {"canceled"}
  Overlapping = TRUE
  NoOne = NoOne
SYMMETRY Symmetry
CHECK_DEADLOCK FALSE
INVARIANTS
  TypeOK
  ResultIsJustified
  StoppedMeansDrained
  OneStopPerClose
  FlagsMatchCalls
  StoppedOnlyWhenAsked
  PanicOnlyOnSecondShutdown
