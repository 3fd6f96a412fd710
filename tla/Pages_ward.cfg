SPECIFICATION Spec
CONSTANTS
  w1 = w1
  w2 = w2
  a = a
  b = b
  Wards = {w1, w2}
  AllWards = AllWards
  Ids = {a, b}
  WardOf <- MCWardOf
  Nobody = Nobody
  Starts <- OverviewStarts
  MaxCalls = 2
  MaxFaults = 0
  Repeats = 2
CHECK_DEADLOCK FALSE
INVARIANT
  OnlyTheWardsData
