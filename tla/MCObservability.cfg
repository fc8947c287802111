SPECIFICATION GroupSpec
CONSTANTS
  Callers = {v1, v2, w1, m1, m2}
  Uses <- RecordedUses
  Workers = {v1, v2}
  Pollers = {w1}
  Consumers = {m1, m2}
  Carriers = {c1, c2}
  NoCarrier = noCarrier
  Traces = {t1}
  NoTrace = noTrace
  Unread = unread
  MaxBatch = 1
SYMMETRY Symmetry
INVARIANTS
  OneInstrumentPerName
  NoPanic
  OwnTrace
