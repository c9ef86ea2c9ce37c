SPECIFICATION Spec
CONSTANTS
  MaxStreams = 2
  MaxLedger = 3
  MaxBufferedPages = 2
  MaxRetries = 0
  EventLedgers <- SparseEventLedgers
  FailedLedgers <- SparseFailedLedgers
  FailedTx = TRUE
  Rewatch = TRUE
  BusyConsumer = TRUE
  SlowStore = FALSE
CHECK_DEADLOCK FALSE
INVARIANT FailedTxNeverLost
