SPECIFICATION FairSpec
CONSTANTS
  c1 = c1
  c2 = c2
  c3 = c3
  p1 = p1
  Invokes = {c1, c2}
  Probes = {}
  Nobody = Nobody
  MaxAttempts = 2
  MaxFeeAttempts = 2
  MaxPolls = 1
  HasDeadline = TRUE
  MaxLag = 0
  MaxOutsiders = 0
CHECK_DEADLOCK FALSE
PROPERTIES KeepsPromise QueueDrains DeadlineHolds
