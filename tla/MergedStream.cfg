SPECIFICATION FairSpec
CONSTANTS
  Pages <- OverlappingPages
  Batches <- RefedBatches
  LedgerOf <- Ledgers
  Capacity = 2
  MaxStreams = 2
CHECK_DEADLOCK FALSE
INVARIANTS TypeOK OncePerWindow MergedCursorNeverLeads
PROPERTIES AbortEndsMerge
