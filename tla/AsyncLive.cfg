CONSTANTS
  Batches = {b1, b2, b3}
  Workers = {w1}
  Closers = {k1}
  Cancellable = {}
  Conns = {c1, c2}
  QueueSize = 1
  NoBatch = nobatch
  NoConn = noconn
SPECIFICATION FairSpec
CHECK_DEADLOCK FALSE
PROPERTIES
  BatchSettled
  Reattempted
  ShutdownReturns
