----------------------------- MODULE MCTopology -----------------------------
(* The fabrics and the symmetry for TLC. *)
EXTENDS Topology, TLC

(* A parcel inside another; two of the same size; three in a chain.  Each *)
(* fabric has a strip that nobody claims.                                 *)
Nested == 1 :> {1, 2} @@ 2 :> {2} @@ 3 :> {4}
Level == 1 :> {2, 3} @@ 2 :> {1, 2} @@ 3 :> {5}
InChain == 1 :> {1, 2} @@ 2 :> {2, 3, 4} @@ 3 :> {4, 6}

OneFabric == {Nested}
Fabrics == {Nested, Level, InChain}

Peers == Permutations(Worker)
=============================================================================
