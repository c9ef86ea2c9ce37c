SPECIFICATION Spec
CONSTANTS
  Reasons = {"paused"}
  Inputs <- SomeInputs
  Windows <- EitherWindow
  RingMax = 2
  MaxTime = 2
  MaxCalls = 4
CHECK_DEADLOCK FALSE
INVARIANTS WindowsAreExact
