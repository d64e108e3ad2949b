---------------------------- MODULE MCConnectionPool ----------------------------
(* Instances of ConnectionPool for TLC: two jobs, a plain transaction, a        *)
(* hotlist and two events on a pool of two connections, which two createJob     *)
(* exhaust; one event changes the users both ways, the other removes some.      *)
EXTENDS ConnectionPool, TLC

CONSTANTS j1, j2, t1, h1, e1, e2, c1, c2

MCRequests == {j1, j2, t1, h1, e1, e2}

MCKind == j1 :> "createJob" @@ j2 :> "createJob" @@ t1 :> "transaction"
          @@ h1 :> "byHand" @@ e1 :> "updateEvent" @@ e2 :> "updateEvent"

MCBatches == [r \in MCRequests |->
                CASE r = e1 -> {"added", "removed"}
                  [] r = e2 -> {"removed"}
                  [] OTHER -> {}]

MCConnections == {c1, c2}

=============================================================================
