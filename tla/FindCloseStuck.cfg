SPECIFICATION FairSpec
CONSTANTS
  Calls = {c1, c2}
  Closers = {k1, k2}
  PollResults = {"nil"}
  ProcessResults = {"nil"}
  Causes = {"canceled"}
  Overlapping = FALSE
  NoOne = NoOne
CHECK_DEADLOCK FALSE
PROPERTIES
  CloseReturns
