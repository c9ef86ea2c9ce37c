SPECIFICATION Spec
CONSTANTS
  None = None
  Amounts = {1}
  Caps = {0, 2}
  MaxCalls = 3
CHECK_DEADLOCK FALSE
INVARIANTS TypeOK FailsClosed AdmittedBatchFits HaltsAreReported
