---------------------------- MODULE MCSourceLife ----------------------------
(***************************************************************************)
(* SourceLife on small instances.                                          *)
(***************************************************************************)
EXTENDS SourceLife, TLC

CONSTANTS w1, w2, none

TwoWorkers == {w1, w2}
OneWorker == {w1}
Workers == Permutations(TwoWorkers)

(* A source is asked for three times: completed, georeferenced or digitized  *)
(* in any order.  Imagery, whose runs make by far the most states, twice,   *)
(* and a record too where liveness is checked.                              *)
Thrice == [k \in AnyKind |-> IF k = "imagery" THEN 2 ELSE 3]
ThriceUnread == [Thrice EXCEPT !["record"] = 2]
=============================================================================
