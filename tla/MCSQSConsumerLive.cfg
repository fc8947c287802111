SPECIFICATION FairSpec
CONSTANTS
  run = run
  NoOne = NoOne
  Closers = {k1}
  CallerCauses = {"canceled"}
  PollerWorkers = {w1, w2}
  ErrorNumberThreshold = 1
  MaxNumberOfMessages = 2
  MaxDeliveries = 2
  MaxRetries = 1
  ProcessorWorkers = {v1}
  AckStrategy = "sync"
  SlotsPerWorker = 1
CHECK_DEADLOCK FALSE
PROPERTIES
  PollerLeaksOnlyWhenFull
  ShutdownEnds
  CloseReturns
