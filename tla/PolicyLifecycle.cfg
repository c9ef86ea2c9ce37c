SPECIFICATION Spec
CONSTANTS
  a1 = a1
  a2 = a2
  c1 = c1
  c2 = c2
  f1 = f1
  f2 = f2
  Guard = guard
  Accounts = {a1, a2}
  Contracts = {c1, c2, guard}
  Malformed = malformed
  Symbols = {f1, f2}
  OddName = odd
  Absent = absent
  Null = null
  Junk = junk
  Numeral = numeral
  I128Max = 2
  U64Max = 2
  U32Max = 1
  MaxEntries = 2
  Start <- Policy
  Values <- EditValues
  AssetCaps <- SomeCaps
  MaxEdits = 2
CHECK_DEADLOCK FALSE
INVARIANTS MeaningKept ValidatorsAgree DiffIsExact
