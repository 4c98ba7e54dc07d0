CONSTANTS
  Batches = {b1, b2, b3}
  Workers = {w1, w2}
  Closers = {k1, k2}
  Cancellable = {k1}
  Conns = {c1, c2, c3}
  QueueSize = 1
  NoBatch = nobatch
  NoConn = noconn
SPECIFICATION Spec
CHECK_DEADLOCK FALSE
INVARIANTS
  TypeOK
  InFlightConnOpen
  NeverStuckDisconnected
  NoConnectionLeak
  QueueSent
SYMMETRY Symmetry
