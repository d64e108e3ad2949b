----------------------------- MODULE WebhookMirror -----------------------------
(***************************************************************************)
(* What the maps of the webhook configuration promise: each node's map     *)
(* mirrors the table as of the last time the node looked.  A request       *)
(* writes and leaves its own node a refresh to do; that node, and no       *)
(* other, then takes one of the rows in one step.  There is no lock, no    *)
(* gap between reading and showing, and no request that holds what it has  *)
(* read: whether a refresh shows a row is decided when it reads it.        *)
(***************************************************************************)
CONSTANTS
  Nodes, Teams, Settings,
  Absent     \* no row, no entry

VARIABLES
  table,  \* of each team, what a SELECT of its rows may return
  map,    \* what each node shows of each team
  due     \* the teams each node has still to refresh

vars == <<table, map, due>>

Init ==
  /\ table = [c \in Teams |-> {Absent}]
  /\ map = [n \in Nodes |-> [c \in Teams |-> Absent]]
  /\ due = [n \in Nodes |-> {}]

\* A request at n gives every row one setting, adds a row, or takes the rows away.
Write(n, c) ==
  /\ \E said \in {{Absent}} \cup {{s} : s \in Settings}
               \cup {(table[c] \ {Absent}) \cup {s} : s \in Settings} :
       table' = [table EXCEPT ![c] = said]
  /\ due' = [due EXCEPT ![n] = @ \cup {c}]
  /\ UNCHANGED map

\* The entry goes first.
Drop(n, c) ==
  /\ c \in due[n]
  /\ map' = [map EXCEPT ![n] = [@ EXCEPT ![c] = Absent]]
  /\ UNCHANGED <<table, due>>

\* A row of the table as it is now; another request may still owe a refresh.
Load(n, c) ==
  /\ c \in due[n]
  /\ map[n][c] = Absent
  /\ \E s \in table[c] : map' = [map EXCEPT ![n] = [@ EXCEPT ![c] = s]]
  /\ due' \in {due, [due EXCEPT ![n] = @ \ {c}]}
  /\ UNCHANGED table

\* A refresh that fails leaves no entry.
Lose(n, c) ==
  /\ map[n][c] = Absent
  /\ due' = [due EXCEPT ![n] = @ \ {c}]
  /\ UNCHANGED <<table, map>>

\* A restart shows the table as it is and owes nothing.
Reload(n) ==
  /\ \E loaded \in [Teams -> Settings \cup {Absent}] :
       /\ \A c \in Teams : loaded[c] \in table[c]
       /\ map' = [map EXCEPT ![n] = loaded]
  /\ due' = [due EXCEPT ![n] = {}]
  /\ UNCHANGED table

Next ==
  \E n \in Nodes :
    \/ \E c \in Teams : Write(n, c) \/ Drop(n, c) \/ Load(n, c) \/ Lose(n, c)
    \/ Reload(n)

Spec == Init /\ [][Next]_vars

=============================================================================
