SPECIFICATION Spec
CONSTANTS
  a = a
  b1 = b1
  b2 = b2
  c = c
  cadastral = cadastral
  municipal = municipal
  survey = survey
  Feature = {a, b1, b2, c}
  SourceOf <- Sources
  Polygonal = {a, b2}
  Pair <- Candidates
  Disagreeing <- Mismatches
  Worker = {w1, w2}
  NoWorker = NoWorker
  Verdict = {"resolved", "pending"}
  MaxDecisions = 2
  MaxRequests = 1
  MaxCrashes = 0
CHECK_DEADLOCK FALSE
INVARIANT
  LabelsAreHonoured
