SPECIFICATION Spec
CONSTANTS
  Feature = {1, 2, 3}
  Width = 6
  Fabric <- Fabrics
  Worker = {w1, w2}
  Officer = {o1}
  Free = Free
  MaxRuns = 2
  MaxDecisions = 2
  MaxFaults = 1
SYMMETRY Peers
INVARIANTS
  TypeOK
  FixesAreMatched
  AcceptedIsHealed
PROPERTIES
  GroundIsKept
  AutoFixHeals
\* Two fixes may wait for each other, and no fault may be left to end it.
CHECK_DEADLOCK FALSE
