SPECIFICATION Spec
CONSTANTS
  Readers = {r1, r2}
  Nobody = nobody
  EventBatch = 2
  MaxQueued = 3
  RowBatch = 2
  MaxQueuedRows = 2
  Poison = {1}
  Deliveries = {2}
  Failures = {"lost", "late"}
  MaxWork = 6
INVARIANTS NoSilentLoss ReadersSeeTheirEvents
PROPERTIES ImplementsLog
CHECK_DEADLOCK FALSE
