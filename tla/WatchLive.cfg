SPECIFICATION FairSpec
CONSTANTS
  MaxStreams = 2
  MaxLedger = 2
  MaxBufferedPages = 2
  MaxRetries = 0
  EventLedgers <- SparseEventLedgers
  FailedLedgers <- SparseFailedLedgers
  FailedTx = FALSE
  Rewatch = TRUE
  BusyConsumer = TRUE
  SlowStore = FALSE
CHECK_DEADLOCK FALSE
PROPERTIES KeepsPromise AbortEndsStream ParkedIsServed LedgersAreDelivered
