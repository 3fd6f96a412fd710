---------------------------- MODULE MCWardRecord ----------------------------
(* One parcel a of the cadastre, two records b1 and b2 of the municipality  *)
(* that compete for it, and a survey point c that belongs to b1.            *)
EXTENDS WardRecord, TLC

CONSTANTS a, b1, b2, c, cadastral, municipal, survey

Sources == [f \in Feature |->
  CASE f = a -> cadastral [] f \in {b1, b2} -> municipal [] f = c -> survey]
Candidates == {{a, b1}, {a, b2}, {b1, c}}
Mismatches == {{a, b1}, {a, b2}}
Workers == Permutations(Worker)
=============================================================================
