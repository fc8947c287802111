SPECIFICATION Spec
CONSTANTS
  Calls = {c1, c2, c3}
  Closers = {}
  PollResults = {"nil"}
  ProcessResults = {"nil"}
  Causes = {"canceled"}
  Overlapping = TRUE
  NoOne = NoOne
CHECK_DEADLOCK FALSE
INVARIANTS
  AtMostOneRunning
