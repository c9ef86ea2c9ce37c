SPECIFICATION Spec
CONSTANTS
  c1 = c1
  c2 = c2
  c3 = c3
  p1 = p1
  Invokes = {c1, c2}
  Probes = {p1}
  Nobody = Nobody
  MaxAttempts = 1
  MaxFeeAttempts = 1
  MaxPolls = 1
  HasDeadline = FALSE
  MaxLag = 1
  MaxOutsiders = 1
CHECK_DEADLOCK FALSE
SYMMETRY Renamings
INVARIANTS TypeOK QueueExclusive NoSequenceReuse
