----------------------------- MODULE MCSessionCache -----------------------------
(***************************************************************************)
(* Two nodes and a lookup; three logins, of different endpoints.  The      *)
(* record of the user changes once, and with it the password.              *)
(***************************************************************************)
EXTENDS SessionCache, TLC

CONSTANTS n1, n2, l1, l2, l3, k1, p1, p2

MCKindOf ==
  [l \in Logins |-> IF l = l1 THEN "authenticate"
                    ELSE IF l = l2 THEN "internalAuthenticate"
                    ELSE "appAuthenticate"]

MCPasswordAt == [v \in Versions |-> IF v = 0 THEN p1 ELSE p2]

MCPresents ==
  [l \in Logins |-> IF l = l1 THEN {p2} ELSE {p1}]

Symmetry == Permutations({n1, n2})

=============================================================================
