---------------------------- MODULE MCJobQueue ----------------------------
(* Two workers and jobs of one ward, with a bounded number of faults. *)
EXTENDS JobQueue

CONSTANTS j1, j2, HARMONIZE, MaxCrash, MaxUnwind, MaxTheft, MaxRefuse, MaxDb

SameWard == [j \in Job |-> IF j \in Known THEN HARMONIZE ELSE NoTopic]

Bounds == [k \in FaultKind |->
  CASE k = "crash" -> MaxCrash
    [] k = "unwind" -> MaxUnwind
    [] k = "theft" -> MaxTheft
    [] k = "refuse" -> MaxRefuse
    [] k = "db" -> MaxDb]

Workers == Permutations(Worker)
=============================================================================
