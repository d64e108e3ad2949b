---------------------------- MODULE MCWebhookConfig ----------------------------
(* WebhookConfig on two nodes with three requests, on one team or two. *)
EXTENDS WebhookConfig

CONSTANTS r1, r2, r3, c1, c2, s1, s2, n1, n2

MCNodeOf == [r \in Requests |-> IF r = r3 THEN n2 ELSE n1]

AllFaults == {"database", "crash"}

=============================================================================
