SPECIFICATION Spec
CONSTANTS
  Feature = {1, 2, 3}
  Width = 4
  Fabric <- OneFabric
  Worker = {w1}
  Officer = {o1}
  Free = Free
  MaxRuns = 1
  MaxDecisions = 3
  MaxFaults = 0
INVARIANT
  AppliedStaysClosed
CHECK_DEADLOCK FALSE
