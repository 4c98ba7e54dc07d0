CONSTANTS
  s1 = s1
  s2 = s2
  Spans = {s1, s2}
  Flushers = {f1}
  Closers = {k1, k2}
  Cancellable = {f1, k1}
  Worker = worker
  None = none
  MaxQueueSize = 1
  MaxExportBatchSize = 2
  MaxPacketSize = 2
  BlockOnQueueFull = FALSE
  SpanSize <- Sizes
SPECIFICATION Spec
CHECK_DEADLOCK FALSE
INVARIANTS
  TypeOK
  TimerArmed
  BatchBounded
  NoExportAfterShutdown
  FlushComplete
  ShutdownComplete
PROPERTY
  PipelineSpec
