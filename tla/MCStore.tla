------------------------------- MODULE MCStore -------------------------------
(* An instance of Store for TLC: 50 cents and 10 percent. *)
EXTENDS Store, TLC

CONSTANTS q1, q2, c1

Prices == (c1 :> 10) @@ (Cards :> 5)

Symmetry == Permutations(Requests)
=============================================================================
