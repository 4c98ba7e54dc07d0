CONSTANTS
  s1 = s1
  s2 = s2
  Spans = {s2}
  Flushers = {f1}
  Closers = {k1}
  Cancellable = {}
  Worker = worker
  None = none
  MaxQueueSize = 1
  MaxExportBatchSize = 2
  MaxPacketSize = 2
  BlockOnQueueFull = TRUE
  SpanSize <- Sizes
SPECIFICATION FairSpec
CHECK_DEADLOCK FALSE
PROPERTIES
  EventuallyExported
  OnEndReturns
  ShutdownReturns
  ForceFlushReturns
