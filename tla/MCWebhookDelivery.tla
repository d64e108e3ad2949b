--------------------------- MODULE MCWebhookDelivery ---------------------------
(* WebhookDelivery on small instances: model values and the faults of each run. *)
EXTENDS WebhookDelivery, TLC

CONSTANTS m1, m2, t1, t2, t3, c1, c2, d1, d2, n1, n2

MCNodeOf == [t \in Threads |-> IF t = t3 THEN n2 ELSE n1]

MCTeamOf == [m \in Messages |-> IF m = m2 THEN c2 ELSE c1]

MCDbOf == [c \in Teams |-> IF c = c2 THEN d2 ELSE d1]

OnlyAnswerLost == {"answerLost"}

OnlyConfig == {"config"}

NoAnswerLost == AllFaults \ {"answerLost"}

\* The two threads of the node that runs the scheduler.
Symmetry == Permutations({t1, t2})

=============================================================================
