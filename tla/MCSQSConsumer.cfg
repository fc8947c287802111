SPECIFICATION Spec
CONSTANTS
  run = run
  NoOne = NoOne
  Closers = {k1}
  CallerCauses = {"canceled"}
  PollerWorkers = {w1}
  ErrorNumberThreshold = 1
  MaxNumberOfMessages = 2
  MaxDeliveries = 3
  MaxRetries = 1
  ProcessorWorkers = {v1, v2}
  AckStrategy = "sync"
  SlotsPerWorker = 1
SYMMETRY Symmetry
CHECK_DEADLOCK FALSE
PROPERTIES
  LifecycleSpec
  PollerSpec
  ProcessorSpec
  DeliverySpec
