SPECIFICATION FairSpec
CONSTANTS
  PollerWorkers = {w1, w2}
  ErrorNumberThreshold = 2
  MaxNumberOfMessages = 2
  Capacity = 2
  MaxDeliveries = 5
  MaxRetries = 2
INVARIANTS
  TypeOK
  NoSendAfterClose
  NothingLostOrDuplicated
  ResultIsJustified
PROPERTIES
  CancellationEndsPoll
  ThresholdEndsPoll
