CONSTANTS
  s1 = s1
  s2 = s2
  Spans = {s1}
  Flushers = {f1}
  Closers = {k1}
  Cancellable = {}
  Worker = worker
  None = none
  MaxQueueSize = 1
  MaxExportBatchSize = 2
  MaxPacketSize = 2
  BlockOnQueueFull = FALSE
  SpanSize <- Sizes
SPECIFICATION FairSpec
CHECK_DEADLOCK FALSE
PROPERTY
  FlushAlwaysReturns
