--------------------------- MODULE MCCustomerRecord ---------------------------
(* Instances of CustomerRecord for TLC: a company or a contact with two         *)
(* recruiters and up to three addresses, two requests that may overlap, one     *)
(* with up to three items, one with one.                                        *)
EXTENDS CustomerRecord, TLC

CONSTANTS q1, q2, o1, o2

MCRequests == {q1, q2}

MCOwners == {o1, o2}

MCIds == 1..3

MCMaxItems == q1 :> 3 @@ q2 :> 1

Symmetry == Permutations(MCOwners)

=============================================================================
