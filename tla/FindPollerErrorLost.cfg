SPECIFICATION Spec
CONSTANTS
  run = run
  NoOne = NoOne
  Closers = {}
  CallerCauses = {}
  PollerWorkers = {w1}
  ErrorNumberThreshold = 1
  MaxNumberOfMessages = 1
  MaxDeliveries = 1
  MaxRetries = 1
  ProcessorWorkers = {v1}
  AckStrategy = "sync"
  SlotsPerWorker = 3
CHECK_DEADLOCK FALSE
INVARIANTS
  PollerErrorReturned
