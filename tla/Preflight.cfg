SPECIFICATION Spec
CONSTANTS
  c1 = c1
  c2 = c2
  c3 = c3
  k1 = k1
  k2 = k2
  Checks = {c1, c2, c3}
  Calls = {k1, k2}
  None = None
  Observers = {c3}
  Limit = 1
  MaxEntries = 1
  MaxLag = 1
  MaxLedger = 2
SYMMETRY Renamings
CHECK_DEADLOCK FALSE
INVARIANTS TypeOK PermitsConserved VerdictIsCurrent OneRunPerCall
PROPERTIES AbandonedSendsNothing
