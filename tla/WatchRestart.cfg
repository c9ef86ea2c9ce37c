SPECIFICATION Spec
CONSTANTS
  MaxStreams = 2
  MaxLedger = 3
  MaxBufferedPages = 2
  MaxRetries = 1
  EventLedgers <- SparseEventLedgers
  FailedLedgers <- SparseFailedLedgers
  FailedTx = TRUE
  Rewatch = FALSE
  BusyConsumer = TRUE
  SlowStore = TRUE
CHECK_DEADLOCK FALSE
INVARIANTS TypeOK LookAheadBounded NoLostWakeup CountedAtMostOnce CursorNeverLeads FailedTxNeverLost
