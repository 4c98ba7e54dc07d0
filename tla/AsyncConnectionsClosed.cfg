CONSTANTS
  Batches = {b1}
  Workers = {w1}
  Closers = {k1}
  Cancellable = {}
  Conns = {c1, c2}
  QueueSize = 1
  NoBatch = nobatch
  NoConn = noconn
SPECIFICATION Spec
CHECK_DEADLOCK FALSE
INVARIANT
  ConnectionsClosed
