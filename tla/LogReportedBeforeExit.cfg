CONSTANTS
  l1 = l1
  Logs = {l1, l2, l3}
  Closers = {k1}
  Cancellable = {}
  Conns = {c1, c2}
  NoConn = noconn
  Worker = worker
  DefaultMaxQueueSize = 1
  DefaultMaxExportBatchSize = 2
  DefaultMaxBatchedPacketSize = 2
  LogSize <- Sizes
SPECIFICATION PipeSpec
CHECK_DEADLOCK FALSE
INVARIANT
  ReportedBeforeExit
