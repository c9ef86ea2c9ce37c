SPECIFICATION FairSpec
CONSTANTS
  Intervals = {0, 1, 4, 5}
  Grace = 6
  GraceReadable = {TRUE, FALSE}
  TicksPerSecond = 2
  MaxSkew = 0
  MaxAttempts = 2
  MaxLate = 1
  MaxBeat = 1
  MaxFailures = 1
  MaxSlots = 4
CHECK_DEADLOCK FALSE
INVARIANTS TypeOK SlotsAccounted NoFalseBeat SwitchHolds
PROPERTIES WarnedInTime NothingSentAfterStop StopIsAnswered
