CONSTANTS
  e1 = e1
  e2 = e2
  e3 = e3
  Entries = {e1, e2, e3}
  Attr <- Attrs
  Syncers = {y1}
  Worker = worker
  NoEntry = noentry
  AsyncQueueSize = 1
  DefaultMaxQueueSize = 1
  DefaultMaxExportBatchSize = 2
  DefaultMaxBatchedPacketSize = 2
  y1 = y1
  Scenarios <- PluginScenarios
  Fields <- FieldLists
  Raw <- Raws
  Parts = {"writer", "core", "retry"}
  Loggers = {"root", "child"}
  Root = "root"
  MaxEntries = 2
  Exports = {"c1", "c2"}
  RetryEnabled = TRUE
  InitialInterval = 2
  MaxInterval = 3
  MaxElapsedTime = 5
  Throttles = {0, 4}
  MaxTime = 8
SPECIFICATION Spec
CHECK_DEADLOCK FALSE
INVARIANTS
  TypeOK
  WorkerWakesUp
  OnlySyncLoses
  DeliveredIntact
  EntryFieldsDelivered
  RetriesWithinBudget
PROPERTY
  RecordSettled
