SPECIFICATION FairSpec
CONSTANTS
  a = a
  b1 = b1
  b2 = b2
  c = c
  cadastral = cadastral
  municipal = municipal
  survey = survey
  Feature = {a, b1, b2, c}
  SourceOf <- Sources
  Polygonal = {a, b2}
  Pair <- Candidates
  Disagreeing <- Mismatches
  Worker = {w1, w2}
  NoWorker = NoWorker
  Verdict = {"resolved", "needs_review"}
  MaxDecisions = 2
  MaxRequests = 1
  MaxCrashes = 1
CHECK_DEADLOCK FALSE
INVARIANTS
  TypeOK
  ClashesAreDecided
  RejectedIsGone
  ConflictsAreFound
  RecordsFollowMatches
  CountsAreRight
PROPERTY
  ComesToRest
