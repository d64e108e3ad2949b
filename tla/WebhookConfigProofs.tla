-------------------------- MODULE WebhookConfigProofs --------------------------
(***************************************************************************)
(* The map of the node that serves a team agrees with the table, for any   *)
(* number of nodes, teams, settings and concurrent requests and whatever   *)
(* fails; and on every node a refresh is one step of WebhookMirror.        *)
(***************************************************************************)
EXTENDS WebhookConfig, TLAPS

\* A request is about to insert only if it has a setting.
Typing ==
  /\ TypeOK
  /\ \A r \in Requests : request[r].pc = "insert" => request[r].setting # Absent

\* A request inside the synchronized block holds syncObj of its node.
LockInv ==
  \A r \in Requests :
    request[r].pc \in {"read", "put"} => syncObj[NodeOf[r]] = r

\* And whoever holds syncObj is inside the block, on that node.
HolderInv ==
  \A n \in Nodes : syncObj[n] # Free =>
    NodeOf[syncObj[n]] = n /\ request[syncObj[n]].pc \in {"read", "put"}

\* The row a request may insert is not there yet.
RowInv ==
  \A r \in Requests : request[r].pc \in {"new", "insert"} =>
    \A c \in Teams : r \notin DOMAIN rows[c]

\* Requests of team c that wrote and have still to read what there is now.
Behind(c) ==
  \E r \in Requests : request[r].team = c /\ request[r].pc \in {"refresh", "read"}

\* If nobody is behind on a team that one node serves, what is put there, or else
\* what was put, is what there is; or a refresh failed between its remove and its
\* put.
FreshInv ==
  \A n \in Nodes, c \in Teams : Local(n, c) /\ ~Behind(c) =>
    \/ cache[n][c] \in Selected(c)
    \/ Failed(c) /\ cache[n][c] = Absent
    \/ \E r \in Requests : request[r].team = c /\ request[r].pc = "put"

GotInv ==
  \A r \in Requests, c \in Teams :
    request[r].pc = "put" /\ request[r].team = c /\ Local(NodeOf[r], c) =>
      Behind(c) \/ request[r].got \in Selected(c)

\* While a request is between remove and put, its entry is missing.
GapInv ==
  \A r \in Requests : request[r].pc \in {"read", "put"} =>
    cache[NodeOf[r]][request[r].team] = Absent

BlockInv == LockInv /\ HolderInv /\ GapInv /\ RowInv

IInv == Typing /\ BlockInv /\ FreshInv /\ GotInv

\* What a team's rows say are settings.
LEMMA RowsType ==
  /\ NoRows \in Rows
  /\ \A f \in Rows : DOMAIN f \subseteq Requests /\ Range(f) \subseteq Settings
  /\ \A S \in SUBSET Requests : \A f \in [S -> Settings] : f \in Rows
<1>1. NoRows \in [{} -> Settings]
  BY DEF NoRows
<1>2. \A S \in SUBSET Requests : \A f \in [S -> Settings] : f \in Rows
  BY DEF Rows
<1>3. \A f \in Rows : DOMAIN f \subseteq Requests /\ Range(f) \subseteq Settings
  BY DEF Rows, Range
<1> QED
  BY <1>1, <1>2, <1>3

LEMMA SelectedType ==
  ASSUME TypeOK, NEW c \in Teams PROVE Selected(c) \subseteq Entries
BY RowsType DEF TypeOK, Selected, Entries

LEMMA TypingStep ==
  ASSUME Typing, [Next]_vars PROVE Typing'
<1> USE ConfigAssumption DEF Typing, TypeOK
<1>0. \A r \in Requests, pc \in RequestStates :
        [request[r] EXCEPT !.pc = pc] \in Request
  BY DEF Request
<1>1. ASSUME NEW r \in Requests, Update(r) PROVE Typing'
  <2> DEFINE c == request[r].team
             pc == IF DOMAIN rows[c] = {} THEN "insert" ELSE "refresh"
             new == [id \in DOMAIN rows[c] |-> request[r].setting]
  <2>1. c \in Teams /\ request[r].setting \in Settings
    BY <1>1 DEF Update, Request, Entries
  <2>2. new \in [DOMAIN rows[c] -> Settings] /\ DOMAIN rows[c] \in SUBSET Requests
    BY <2>1, RowsType
  <2>3. new \in Rows
    BY <2>2, RowsType
  <2>4. rows' = [rows EXCEPT ![c] = new]
    BY <1>1 DEF Update
  <2>5. rows' \in [Teams -> Rows]
    BY <2>1, <2>3, <2>4
  <2>6. request' = [request EXCEPT ![r] = [request[r] EXCEPT !.pc = pc]]
        /\ pc \in RequestStates
    BY <1>1 DEF Update, Goto, RequestStates
  <2>7. request' \in [Requests -> Request]
    BY <1>0, <2>6
  <2>8. \A q \in Requests : request'[q].pc = "insert" => request'[q].setting # Absent
    BY <1>1, <2>6 DEF Update, Request
  <2> QED
    BY <1>1, <2>5, <2>7, <2>8 DEF Update
<1>2. ASSUME NEW r \in Requests, Insert(r) PROVE Typing'
  <2> DEFINE c == request[r].team
             new == [id \in DOMAIN rows[c] \cup {r} |->
                       IF id = r THEN request[r].setting ELSE rows[c][id]]
  <2>1. c \in Teams /\ request[r].setting \in Settings
    BY <1>2 DEF Insert, Request, Entries
  <2>2. rows[c] \in [DOMAIN rows[c] -> Settings]
    BY <2>1 DEF Rows
  <2>3. /\ DOMAIN rows[c] \cup {r} \in SUBSET Requests
        /\ new \in [DOMAIN rows[c] \cup {r} -> Settings]
    BY <2>1, <2>2, RowsType
  <2>4. new \in Rows
    BY <2>3, RowsType
  <2>5. rows' = [rows EXCEPT ![c] = new]
    BY <1>2 DEF Insert
  <2>6. rows' \in [Teams -> Rows]
    BY <2>1, <2>4, <2>5
  <2>7. request' = [request EXCEPT ![r] = [request[r] EXCEPT !.pc = "refresh"]]
    BY <1>2 DEF Insert, Goto
  <2>8. request' \in [Requests -> Request]
    BY <1>0, <2>7 DEF RequestStates
  <2>9. \A q \in Requests : request'[q].pc = "insert" => request'[q].setting # Absent
    BY <2>7 DEF Request
  <2> QED
    BY <1>2, <2>6, <2>8, <2>9 DEF Insert
<1>3. ASSUME NEW r \in Requests, Delete(r) PROVE Typing'
  <2>1. rows' \in [Teams -> Rows]
    BY <1>3, RowsType DEF Delete
  <2>2. request' = [request EXCEPT ![r] = [request[r] EXCEPT !.pc = "refresh"]]
    BY <1>3 DEF Delete, Goto
  <2>3. request' \in [Requests -> Request]
    BY <1>0, <2>2 DEF RequestStates
  <2>4. \A q \in Requests : request'[q].pc = "insert" => request'[q].setting # Absent
    BY <2>2 DEF Request
  <2> QED
    BY <1>3, <2>1, <2>3, <2>4 DEF Delete
<1>4. ASSUME NEW r \in Requests, Remove(r) PROVE Typing'
  <2>1. request' = [request EXCEPT ![r] = [request[r] EXCEPT !.pc = "read"]]
    BY <1>4 DEF Remove, Goto
  <2>2. request' \in [Requests -> Request]
    BY <1>0, <2>1 DEF RequestStates
  <2>3. \A q \in Requests : request'[q].pc = "insert" => request'[q].setting # Absent
    BY <2>1 DEF Request
  <2>4. cache' \in [Nodes -> [Teams -> Entries]]
    BY <1>4 DEF Remove, Entries
  <2> QED
    BY <1>4, <2>2, <2>3, <2>4 DEF Remove
<1>5. ASSUME NEW r \in Requests, Read(r) PROVE Typing'
  <2>1. PICK s \in Selected(request[r].team) :
          request' = [request EXCEPT ![r] =
                        [request[r] EXCEPT !.pc = "put", !.got = s]]
    BY <1>5 DEF Read
  <2>2. s \in Entries
    BY <2>1, SelectedType DEF Request
  <2>3. [request[r] EXCEPT !.pc = "put", !.got = s] \in Request
    BY <2>2 DEF Request, RequestStates
  <2>4. request' \in [Requests -> Request]
    BY <2>1, <2>3
  <2>5. \A q \in Requests : request'[q].pc = "insert" => request'[q].setting # Absent
    BY <2>1 DEF Request
  <2> QED
    BY <1>5, <2>4, <2>5 DEF Read
<1>6. ASSUME NEW r \in Requests, Put(r) PROVE Typing'
  <2>1. request' = [request EXCEPT ![r] = [request[r] EXCEPT !.pc = "done"]]
    BY <1>6 DEF Put, Goto
  <2>2. request' \in [Requests -> Request]
    BY <1>0, <2>1 DEF RequestStates
  <2>3. \A q \in Requests : request'[q].pc = "insert" => request'[q].setting # Absent
    BY <2>1 DEF Request
  <2>4. cache' \in [Nodes -> [Teams -> Entries]]
    <3>1. request[r].got \in Entries /\ request[r].team \in Teams
      BY DEF Request
    <3>2. NodeOf[r] \in Nodes /\ cache[NodeOf[r]] \in [Teams -> Entries]
      BY ConfigAssumption
    <3>3. [cache[NodeOf[r]] EXCEPT ![request[r].team] = request[r].got]
            \in [Teams -> Entries]
      BY <3>1, <3>2
    <3>4. \/ cache' = cache
          \/ cache' = [cache EXCEPT ![NodeOf[r]] =
                         [cache[NodeOf[r]] EXCEPT ![request[r].team] = request[r].got]]
      BY <1>6, <3>2 DEF Put
    <3> QED
      BY <3>2, <3>3, <3>4
  <2>5. syncObj' \in [Nodes -> Requests \cup {Free}]
    BY <1>6 DEF Put
  <2> QED
    BY <1>6, <2>2, <2>3, <2>4, <2>5 DEF Put
<1>7. ASSUME NEW r \in Requests, Fail(r) PROVE Typing'
  <2>1. request' = [request EXCEPT ![r] = [request[r] EXCEPT !.pc = "failed"]]
    BY <1>7 DEF Fail, Goto
  <2>2. request' \in [Requests -> Request]
    BY <1>0, <2>1 DEF RequestStates
  <2>3. \A q \in Requests : request'[q].pc = "insert" => request'[q].setting # Absent
    BY <2>1 DEF Request
  <2>4. syncObj' \in [Nodes -> Requests \cup {Free}]
    BY <1>7 DEF Fail
  <2> QED
    BY <1>7, <2>2, <2>3, <2>4 DEF Fail
<1>8. ASSUME NEW n \in Nodes, Restart(n) PROVE Typing'
  <2>1. request' \in [Requests -> Request]
    BY <1>0, <1>8 DEF Restart, RequestStates
  <2>2. \A q \in Requests : request'[q].pc = "insert" => request'[q].setting # Absent
    BY <1>8 DEF Restart, Request
  <2> QED
    BY <1>8, <2>1, <2>2 DEF Restart
<1>9. CASE UNCHANGED vars
  BY <1>9 DEF vars
<1> QED
  BY <1>1, <1>2, <1>3, <1>4, <1>5, <1>6, <1>7, <1>8, <1>9
  DEF Next, Arrive, Proceed

LEMMA TypingInvariant == Spec => []Typing
<1>1. Init => Typing
  <2>1. Init => rows \in [Teams -> Rows]
    BY RowsType DEF Init
  <2> QED
    BY <2>1 DEF Init, Typing, TypeOK, Entries, Request, RequestStates
<1> QED
  BY <1>1, TypingStep, PTL DEF Spec

\* The map, the table, the lock and the requests keep their types.
THEOREM TypeCorrect == Spec => []TypeOK
<1>1. Typing => TypeOK
  BY DEF Typing
<1> QED
  BY <1>1, TypingInvariant, PTL

-----------------------------------------------------------------------------

\* A request that moves on, for every field but the one it reads.
LEMMA Moves ==
  ASSUME Typing, NEW r \in Requests, NEW pc \in RequestStates, Goto(r, pc)
  PROVE  /\ request'[r].pc = pc
         /\ \A q \in Requests : /\ q # r => request'[q] = request[q]
                                /\ request'[q].team = request[q].team
                                /\ request'[q].got = request[q].got
BY DEF Typing, TypeOK, Goto, Request

\* The synchronized block lets one request of a node in, and it finds its entry gone.
LEMMA BlockStep ==
  ASSUME Typing, BlockInv, [Next]_vars
  PROVE  BlockInv'
<1> USE ConfigAssumption DEF BlockInv
<1>0. \A r \in Requests : request[r].team \in Teams /\ NodeOf[r] \in Nodes
  BY DEF Typing, TypeOK, Request
<1>1. ASSUME NEW r \in Requests, Update(r) \/ Insert(r) \/ Delete(r) PROVE BlockInv'
  <2>1. PICK pc \in {"insert", "refresh"} : Goto(r, pc)
    BY <1>1 DEF Update, Insert, Delete
  <2>2. /\ request'[r].pc = pc
        /\ \A q \in Requests : /\ q # r => request'[q] = request[q]
                               /\ request'[q].team = request[q].team
                               /\ request'[q].got = request[q].got
    BY <2>1, Moves DEF RequestStates
  <2>3. request[r].pc \in {"new", "insert"} /\ UNCHANGED <<cache, syncObj>>
    BY <1>1 DEF Update, Insert, Delete
  <2>4. LockInv' /\ GapInv'
    BY <2>1, <2>2, <2>3 DEF LockInv, GapInv
  <2>5. HolderInv'
    BY <2>2, <2>3 DEF HolderInv, Typing, TypeOK
  <2>6. \A c \in Teams : /\ DOMAIN rows'[c] \subseteq DOMAIN rows[c] \cup {r}
                         /\ pc = "insert" => DOMAIN rows'[c] \subseteq DOMAIN rows[c]
    <3>1. CASE Update(r)
      <4> DEFINE new == [id \in DOMAIN rows[request[r].team] |-> request[r].setting]
      <4>1. rows' = [rows EXCEPT ![request[r].team] = new]
        BY <3>1 DEF Update
      <4>2. DOMAIN new = DOMAIN rows[request[r].team]
        OBVIOUS
      <4> HIDE DEF new
      <4> QED
        BY <1>0, <4>1, <4>2 DEF Typing, TypeOK
    <3>2. CASE Insert(r)
      <4> DEFINE new == [id \in DOMAIN rows[request[r].team] \cup {r} |->
                           IF id = r THEN request[r].setting
                           ELSE rows[request[r].team][id]]
      <4>1. rows' = [rows EXCEPT ![request[r].team] = new]
        BY <3>2 DEF Insert
      <4>2. DOMAIN new = DOMAIN rows[request[r].team] \cup {r}
        OBVIOUS
      <4>3. request'[r].pc = "refresh"
        BY <3>2, Moves DEF Insert, RequestStates
      <4> HIDE DEF new
      <4> QED
        BY <1>0, <2>2, <4>1, <4>2, <4>3 DEF Typing, TypeOK
    <3>3. CASE Delete(r)
      <4>1. DOMAIN NoRows = {}
        BY DEF NoRows
      <4> QED
        BY <1>0, <3>3, <4>1 DEF Delete, Typing, TypeOK
    <3> QED
      BY <1>1, <3>1, <3>2, <3>3
  <2>7. RowInv'
    BY <2>1, <2>2, <2>3, <2>6 DEF RowInv
  <2> QED
    BY <2>4, <2>5, <2>7
<1>2. ASSUME NEW r \in Requests, Remove(r) PROVE BlockInv'
  <2>1. /\ request[r].pc = "refresh" /\ request'[r].pc = "read"
        /\ \A q \in Requests : /\ q # r => request'[q] = request[q]
                               /\ request'[q].team = request[q].team
                               /\ request'[q].got = request[q].got
    BY <1>2, Moves DEF Remove, RequestStates
  <2>2. /\ syncObj[NodeOf[r]] = Free
        /\ \A n \in Nodes : syncObj'[n] = IF n = NodeOf[r] THEN r ELSE syncObj[n]
        /\ UNCHANGED rows
    BY <1>2 DEF Remove, Typing, TypeOK
  <2>3. \A q \in Requests : NodeOf[q] = NodeOf[r] => request[q].pc \notin {"read", "put"}
    BY <2>2 DEF LockInv
  <2>4. /\ cache'[NodeOf[r]][request[r].team] = Absent
        /\ \A n \in Nodes : n # NodeOf[r] => cache'[n] = cache[n]
    BY <1>0, <1>2 DEF Remove, Typing, TypeOK
  <2>5. LockInv'
    BY <1>0, <2>1, <2>2, <2>3 DEF LockInv
  <2>6. GapInv'
    BY <1>0, <2>1, <2>3, <2>4 DEF GapInv
  <2>7. HolderInv'
    BY <2>1, <2>2 DEF HolderInv, Typing, TypeOK
  <2>8. RowInv'
    BY <2>1, <2>2 DEF RowInv
  <2> QED
    BY <2>5, <2>6, <2>7, <2>8
<1>3. ASSUME NEW r \in Requests, Read(r) PROVE BlockInv'
  <2>1. PICK s \in Selected(request[r].team) :
          request' = [request EXCEPT ![r] =
                        [request[r] EXCEPT !.pc = "put", !.got = s]]
    BY <1>3 DEF Read
  <2>2. /\ request[r].pc = "read" /\ request'[r].pc = "put"
        /\ request'[r].team = request[r].team
        /\ \A q \in Requests : q # r => request'[q] = request[q]
        /\ UNCHANGED <<rows, cache, syncObj>>
    BY <1>3, <2>1 DEF Read, Typing, TypeOK, Request
  <2>3. \A q \in Requests : /\ request'[q].team = request[q].team
                            /\ request'[q].pc = IF q = r THEN "put" ELSE request[q].pc
    BY <2>2
  <2>4. LockInv' /\ GapInv'
    BY <2>2, <2>3 DEF LockInv, GapInv
  <2>5. HolderInv'
    BY <2>2, <2>3 DEF HolderInv, Typing, TypeOK
  <2>6. RowInv'
    BY <2>2, <2>3 DEF RowInv
  <2> QED
    BY <2>4, <2>5, <2>6
<1>4. ASSUME NEW r \in Requests, Put(r) PROVE BlockInv'
  <2>1. /\ request[r].pc = "put" /\ request'[r].pc = "done"
        /\ \A q \in Requests : /\ q # r => request'[q] = request[q]
                               /\ request'[q].team = request[q].team
                               /\ request'[q].got = request[q].got
    BY <1>4, Moves DEF Put, RequestStates
  <2>2. /\ \A n \in Nodes : syncObj'[n] = IF n = NodeOf[r] THEN Free ELSE syncObj[n]
        /\ UNCHANGED rows
    BY <1>4 DEF Put, Typing, TypeOK
  <2>3. \A q \in Requests : request[q].pc \in {"read", "put"} /\ NodeOf[q] = NodeOf[r]
                            => q = r
    BY <2>1 DEF LockInv
  <2>4. \A n \in Nodes : n # NodeOf[r] => cache'[n] = cache[n]
    BY <1>0, <1>4 DEF Put, Typing, TypeOK
  <2>5. LockInv' /\ GapInv'
    BY <1>0, <2>1, <2>2, <2>3, <2>4 DEF LockInv, GapInv
  <2>6. HolderInv'
    BY <1>0, <2>1, <2>2, <2>3 DEF HolderInv, Typing, TypeOK
  <2>7. RowInv'
    BY <2>1, <2>2 DEF RowInv
  <2> QED
    BY <2>5, <2>6, <2>7
<1>5. ASSUME NEW r \in Requests, Fail(r) PROVE BlockInv'
  <2>1. /\ request[r].pc \in {"new", "insert", "read"} /\ request'[r].pc = "failed"
        /\ \A q \in Requests : /\ q # r => request'[q] = request[q]
                               /\ request'[q].team = request[q].team
                               /\ request'[q].got = request[q].got
    BY <1>5, Moves DEF Fail, RequestStates
  <2>2. /\ UNCHANGED <<rows, cache>>
        /\ \A n \in Nodes : syncObj'[n] = IF syncObj[n] = r THEN Free ELSE syncObj[n]
    BY <1>5 DEF Fail
  <2>3. LockInv' /\ GapInv'
    BY <2>1, <2>2 DEF LockInv, GapInv
  <2>4. HolderInv'
    BY <2>1, <2>2 DEF HolderInv, Typing, TypeOK
  <2>5. RowInv'
    BY <2>1, <2>2 DEF RowInv
  <2> QED
    BY <2>3, <2>4, <2>5
<1>6. ASSUME NEW n \in Nodes, Restart(n) PROVE BlockInv'
  <2>1. \A r \in Requests :
          /\ request'[r].team = request[r].team
          /\ NodeOf[r] = n => request'[r].pc \in {"new", "failed", "done"}
          /\ NodeOf[r] # n \/ request'[r].pc = "new" => request'[r] = request[r]
          /\ request'[r].pc # "insert" \/ NodeOf[r] # n
    BY <1>6 DEF Restart, Typing, TypeOK, Request
  <2>2. PICK loaded \in [Teams -> Entries] : cache' = [cache EXCEPT ![n] = loaded]
    BY <1>6 DEF Restart
  <2>2a. syncObj' = [syncObj EXCEPT ![n] = Free] /\ rows' = rows
    BY <1>6 DEF Restart
  <2>2b. \A k \in Nodes : syncObj'[k] = IF k = n THEN Free ELSE syncObj[k]
    BY <2>2a DEF Typing, TypeOK
  <2>2c. \A k \in Nodes : k # n => cache'[k] = cache[k]
    BY <2>2 DEF Typing, TypeOK
  <2>2d. \A q \in Requests : request'[q].pc \in {"read", "put"} =>
           NodeOf[q] # n /\ request'[q] = request[q]
    BY <2>1
  <2>3. LockInv'
    BY <1>0, <2>2b, <2>2d DEF LockInv
  <2>3a. GapInv'
    BY <1>0, <2>2c, <2>2d DEF GapInv
  <2>4. \A k \in Nodes : syncObj'[k] # Free =>
          k # n /\ syncObj'[k] = syncObj[k] /\ syncObj[k] \in Requests
    BY <2>2b DEF Typing, TypeOK
  <2>4a. HolderInv'
    BY <2>1, <2>4 DEF HolderInv
  <2>5. RowInv'
    BY <2>1, <2>2a DEF RowInv
  <2> QED
    BY <2>3, <2>3a, <2>4a, <2>5
<1>7. CASE UNCHANGED vars
  BY <1>7 DEF vars, LockInv, HolderInv, GapInv, RowInv
<1> QED
  BY <1>1, <1>2, <1>3, <1>4, <1>5, <1>6, <1>7 DEF Next, Arrive, Proceed

\* A request keeps its team, and one that has come does not become new again.
LEMMA LocalStep ==
  ASSUME Typing, [Next]_vars
  PROVE  /\ \A r \in Requests : /\ request'[r].team = request[r].team
                                /\ request'[r].pc = "new" => request[r].pc = "new"
         /\ \A n \in Nodes, c \in Teams : Local(n, c)' => Local(n, c)
<1> DEFINE Keeps == \A r \in Requests : /\ request'[r].team = request[r].team
                                        /\ request'[r].pc = "new" => request[r].pc = "new"
<1>1. ASSUME NEW r \in Requests, NEW pc \in RequestStates \ {"new"}, Goto(r, pc) PROVE Keeps
  BY <1>1, Moves
<1>2. ASSUME NEW r \in Requests, Update(r) \/ Insert(r) \/ Delete(r) \/ Remove(r) \/ Put(r) \/ Fail(r)
      PROVE  Keeps
  <2>1. \E pc \in RequestStates \ {"new"} : Goto(r, pc)
    BY <1>2 DEF Update, Insert, Delete, Remove, Put, Fail, RequestStates
  <2> QED
    BY <1>1, <2>1
<1>3. ASSUME NEW r \in Requests, Read(r) PROVE Keeps
  <2>1. PICK s \in Selected(request[r].team) :
          request' = [request EXCEPT ![r] =
                        [request[r] EXCEPT !.pc = "put", !.got = s]]
    BY <1>3 DEF Read
  <2> QED
    BY <2>1 DEF Typing, TypeOK, Request
<1>4. ASSUME NEW n \in Nodes, Restart(n) PROVE Keeps
  BY <1>4 DEF Restart, Typing, TypeOK, Request
<1>5. ASSUME UNCHANGED vars PROVE Keeps
  BY <1>5 DEF vars
<1>6. Keeps
  BY <1>2, <1>3, <1>4, <1>5 DEF Next, Arrive, Proceed
<1> QED
  BY <1>6 DEF Local

LEMMA FreshStep ==
  ASSUME Typing, BlockInv, FreshInv, GotInv, [Next]_vars
  PROVE  FreshInv' /\ GotInv'
<1> USE ConfigAssumption
<1>0. \A r \in Requests : /\ request[r].team \in Teams /\ request[r].got \in Entries
                          /\ NodeOf[r] \in Nodes
  BY DEF Typing, TypeOK, Request
<1>l. \A n \in Nodes, c \in Teams : Local(n, c)' => Local(n, c)
  BY LocalStep
<1> DEFINE Writes(r) == /\ request[r].pc \in {"new", "insert"}
                        /\ UNCHANGED <<cache, syncObj>>
                        /\ Goto(r, "refresh")
                        /\ \A c \in Teams : c # request[r].team => rows'[c] = rows[c]
<1>1. ASSUME NEW r \in Requests, Writes(r) PROVE FreshInv' /\ GotInv'
  <2>1. /\ request'[r].pc = "refresh"
        /\ \A q \in Requests : /\ q # r => request'[q] = request[q]
                               /\ request'[q].team = request[q].team
                               /\ request'[q].got = request[q].got
    BY <1>1, Moves DEF RequestStates
  <2>2. Behind(request[r].team)'
    BY <2>1 DEF Behind
  <2>3. \A c \in Teams : /\ Behind(c) => Behind(c)'
                         /\ Failed(c) => Failed(c)'
    BY <1>1, <2>1 DEF Behind, Failed
  <2>4. \A c \in Teams : c # request[r].team => Selected(c)' = Selected(c)
    BY <1>1 DEF Selected
  <2>5. FreshInv'
    BY <1>0, <1>1, <1>l, <2>1, <2>2, <2>3, <2>4 DEF FreshInv
  <2>6. GotInv'
    BY <1>0, <1>1, <1>l, <2>1, <2>2, <2>3, <2>4 DEF GotInv
  <2> QED
    BY <2>5, <2>6
<1>2. ASSUME NEW r \in Requests, Update(r) PROVE FreshInv' /\ GotInv'
  <2> DEFINE c == request[r].team
  <2>1. CASE DOMAIN rows[c] = {}
    <3>1. Goto(r, "insert") /\ UNCHANGED <<cache, syncObj>>
      BY <1>2, <2>1 DEF Update
    <3>2. /\ request[r].pc = "new" /\ request'[r].pc = "insert"
          /\ \A q \in Requests : /\ q # r => request'[q] = request[q]
                                 /\ request'[q].team = request[q].team
                                 /\ request'[q].got = request[q].got
      BY <1>2, <3>1, Moves DEF Update, RequestStates
    <3>3. \A d \in Teams : Selected(d)' = Selected(d)
      BY <1>0, <1>2, <2>1 DEF Update, Selected, Typing, TypeOK
    <3>4. \A d \in Teams : (Behind(d)' <=> Behind(d)) /\ (Failed(d) => Failed(d)')
      BY <3>2 DEF Behind, Failed
    <3>5. FreshInv'
      BY <1>l, <3>1, <3>2, <3>3, <3>4 DEF FreshInv
    <3>6. GotInv'
      BY <1>0, <1>l, <3>1, <3>2, <3>3, <3>4 DEF GotInv
    <3> QED
      BY <3>5, <3>6
  <2>2. CASE DOMAIN rows[c] # {}
    <3>1. Writes(r)
      BY <1>2, <2>2 DEF Update, Typing, TypeOK
    <3> QED
      BY <1>1, <3>1
  <2> QED
    BY <2>1, <2>2
<1>3. ASSUME NEW r \in Requests, Insert(r) \/ Delete(r) PROVE FreshInv' /\ GotInv'
  <2>1. Writes(r)
    BY <1>3 DEF Insert, Delete, Typing, TypeOK
  <2> QED
    BY <1>1, <2>1
<1>4. ASSUME NEW r \in Requests, Remove(r) PROVE FreshInv' /\ GotInv'
  <2>1. /\ request[r].pc = "refresh" /\ request'[r].pc = "read"
        /\ \A q \in Requests : /\ q # r => request'[q] = request[q]
                               /\ request'[q].team = request[q].team
                               /\ request'[q].got = request[q].got
    BY <1>4, Moves DEF Remove, RequestStates
  <2>2. UNCHANGED rows
    BY <1>4 DEF Remove
  <2>3. \A n \in Nodes, c \in Teams :
          c # request[r].team => cache'[n][c] = cache[n][c]
    BY <1>0, <1>4 DEF Remove, Typing, TypeOK
  <2>4. \A c \in Teams : /\ Behind(c)' <=> Behind(c)
                         /\ Selected(c)' = Selected(c)
                         /\ Failed(c) => Failed(c)'
    BY <2>1, <2>2 DEF Behind, Selected, Failed
  <2>5. Behind(request[r].team)'
    BY <2>1 DEF Behind
  <2>6. GotInv'
    BY <1>0, <1>l, <2>1, <2>4 DEF GotInv
  <2>7. FreshInv'
    BY <1>0, <1>l, <2>1, <2>3, <2>4, <2>5 DEF FreshInv
  <2> QED
    BY <2>6, <2>7
<1>5. ASSUME NEW r \in Requests, Read(r) PROVE FreshInv' /\ GotInv'
  <2>1. PICK s \in Selected(request[r].team) :
          request' = [request EXCEPT ![r] =
                        [request[r] EXCEPT !.pc = "put", !.got = s]]
    BY <1>5 DEF Read
  <2>1a. request[r].pc = "read" /\ UNCHANGED <<rows, cache, syncObj>>
    BY <1>5 DEF Read
  <2>1b. /\ request'[r].pc = "put" /\ request'[r].got = s
         /\ request'[r].team = request[r].team
         /\ \A q \in Requests : q # r => request'[q] = request[q]
    BY <2>1 DEF Typing, TypeOK, Request
  <2>2. /\ request[r].pc = "read"
        /\ request'[r].pc = "put" /\ request'[r].got = s
        /\ request'[r].team = request[r].team
        /\ \A q \in Requests : q # r => request'[q] = request[q]
        /\ UNCHANGED <<rows, cache, syncObj>>
    BY <2>1a, <2>1b
  <2>3. \A q \in Requests : request[q].pc = "put"
          => q # r /\ NodeOf[q] # NodeOf[r]
    BY <2>2 DEF BlockInv, LockInv
  <2>4. \A c \in Teams : Selected(c)' = Selected(c)
    BY <2>2 DEF Selected
  <2>5. \A c \in Teams : c # request[r].team => (Behind(c)' <=> Behind(c))
    BY <2>2 DEF Behind
  <2>6. ASSUME NEW q \in Requests, NEW c \in Teams, request'[q].pc = "put",
               request'[q].team = c, Local(NodeOf[q], c)'
        PROVE  Behind(c)' \/ request'[q].got \in Selected(c)'
    <3>0. Local(NodeOf[q], c)
      BY <1>0, <1>l, <2>6
    <3>1. CASE q = r
      BY <2>1, <2>2, <2>4, <2>6, <3>1
    <3>2. CASE q # r /\ c = request[r].team
      BY <2>2, <2>3, <2>6, <3>0, <3>2 DEF Local
    <3>3. CASE q # r /\ c # request[r].team
      BY <2>2, <2>4, <2>5, <2>6, <3>0, <3>3 DEF GotInv
    <3> QED
      BY <3>1, <3>2, <3>3
  <2>7. GotInv'
    BY <2>6 DEF GotInv
  <2>8. \A c \in Teams : Failed(c) => Failed(c)'
    BY <2>2 DEF Failed
  <2>9. FreshInv'
    BY <1>l, <2>2, <2>4, <2>5, <2>8 DEF FreshInv
  <2> QED
    BY <2>7, <2>9
<1>6. ASSUME NEW r \in Requests, Put(r) PROVE FreshInv' /\ GotInv'
  <2>1. /\ request[r].pc = "put" /\ request'[r].pc = "done"
        /\ \A q \in Requests : /\ q # r => request'[q] = request[q]
                               /\ request'[q].team = request[q].team
                               /\ request'[q].got = request[q].got
    BY <1>6, Moves DEF Put, RequestStates
  <2>2. cache[NodeOf[r]][request[r].team] = Absent
    BY <2>1 DEF BlockInv, GapInv
  <2>3. /\ cache'[NodeOf[r]][request[r].team] = request[r].got
        /\ \A n \in Nodes, c \in Teams :
             c # request[r].team => cache'[n][c] = cache[n][c]
        /\ UNCHANGED rows
    BY <1>0, <1>6, <2>2 DEF Put, Typing, TypeOK
  <2>4. \A c \in Teams : /\ Behind(c)' <=> Behind(c)
                         /\ Selected(c)' = Selected(c)
                         /\ Failed(c) => Failed(c)'
    BY <2>1, <2>3 DEF Behind, Selected, Failed
  <2>5. GotInv'
    BY <1>0, <1>l, <2>1, <2>4 DEF GotInv
  <2>6. \A n \in Nodes : Local(n, request[r].team) => n = NodeOf[r]
    BY <2>1 DEF Local
  <2>7. FreshInv'
    <3> SUFFICES ASSUME NEW n \in Nodes, NEW c \in Teams, Local(n, c)', ~Behind(c)'
                 PROVE  \/ cache'[n][c] \in Selected(c)'
                        \/ Failed(c)' /\ cache'[n][c] = Absent
                        \/ \E q \in Requests : request'[q].team = c /\ request'[q].pc = "put"
      BY DEF FreshInv
    <3>1. Local(n, c) /\ ~Behind(c)
      BY <1>l, <2>4
    <3>2. CASE c = request[r].team
      BY <2>1, <2>3, <2>4, <2>6, <3>1, <3>2 DEF GotInv
    <3>3. CASE c # request[r].team
      BY <2>1, <2>3, <2>4, <3>1, <3>3 DEF FreshInv
    <3> QED
      BY <3>2, <3>3
  <2> QED
    BY <2>5, <2>7
<1>7. ASSUME NEW r \in Requests, Fail(r) PROVE FreshInv' /\ GotInv'
  <2>1. /\ request[r].pc \in {"new", "insert", "read"} /\ request'[r].pc = "failed"
        /\ \A q \in Requests : /\ q # r => request'[q] = request[q]
                               /\ request'[q].team = request[q].team
                               /\ request'[q].got = request[q].got
    BY <1>7, Moves DEF Fail, RequestStates
  <2>2. UNCHANGED <<rows, cache>>
    BY <1>7 DEF Fail
  <2>3. \A c \in Teams : /\ Selected(c)' = Selected(c)
                         /\ Failed(c) => Failed(c)'
                         /\ c = request[r].team => Failed(c)'
                         /\ c # request[r].team \/ request[r].pc # "read"
                             => (Behind(c)' <=> Behind(c))
    BY <2>1, <2>2 DEF Selected, Failed, Behind
  <2>4. \A n \in Nodes : request[r].pc = "read" /\ Local(n, request[r].team)
          => /\ n = NodeOf[r]
             /\ cache[n][request[r].team] = Absent
             /\ \A q \in Requests : NodeOf[q] = n => request[q].pc # "put"
    BY DEF Local, BlockInv, LockInv, GapInv
  <2>5. GotInv'
    BY <1>0, <1>l, <2>1, <2>3, <2>4 DEF GotInv
  <2>6. ASSUME NEW n \in Nodes, NEW c \in Teams, Local(n, c)', ~Behind(c)'
        PROVE  \/ cache[n][c] \in Selected(c)
               \/ Failed(c)' /\ cache[n][c] = Absent
               \/ \E q \in Requests : request'[q].team = c /\ request'[q].pc = "put"
    <3>1. Local(n, c)
      BY <1>l, <2>6
    <3>2. CASE c = request[r].team /\ request[r].pc = "read"
      BY <2>3, <2>4, <3>1, <3>2
    <3>3. CASE ~(c = request[r].team /\ request[r].pc = "read")
      BY <2>1, <2>3, <2>6, <3>1, <3>3 DEF FreshInv
    <3> QED
      BY <3>2, <3>3
  <2>7. FreshInv'
    BY <2>2, <2>3, <2>6 DEF FreshInv
  <2> QED
    BY <2>5, <2>7
<1>8. ASSUME NEW n \in Nodes, Restart(n) PROVE FreshInv' /\ GotInv'
  <2>1. PICK loaded \in [Teams -> Entries] :
          /\ \A c \in Teams : loaded[c] \in Selected(c)
          /\ cache' = [cache EXCEPT ![n] = loaded]
    BY <1>8 DEF Restart
  <2>2. \A k \in Nodes : cache'[k] = IF k = n THEN loaded ELSE cache[k]
    BY <2>1 DEF Typing, TypeOK
  <2>3. \A q \in Requests :
          /\ request'[q].team = request[q].team
          /\ request[q].pc = "new" \/ NodeOf[q] # n => request'[q] = request[q]
          /\ NodeOf[q] = n => request'[q].pc \in {"new", "failed", "done"}
    BY <1>8 DEF Restart, Typing, TypeOK, Request
  <2>4. \A c \in Teams : Selected(c)' = Selected(c)
    BY <1>8 DEF Restart, Selected
  <2>5. ASSUME NEW k \in Nodes, NEW c \in Teams, k # n, Local(k, c)
        PROVE  \A q \in Requests : request[q].team = c => request'[q] = request[q]
    BY <2>3, <2>5 DEF Local
  <2>6. ASSUME NEW k \in Nodes, NEW c \in Teams, k # n, Local(k, c)
        PROVE  (Behind(c)' <=> Behind(c)) /\ (Failed(c) => Failed(c)')
    BY <2>3, <2>5, <2>6 DEF Behind, Failed
  <2>7. GotInv'
    BY <1>0, <1>l, <2>3, <2>4, <2>6 DEF GotInv
  <2>8. FreshInv'
    <3> SUFFICES ASSUME NEW k \in Nodes, NEW c \in Teams, Local(k, c)', ~Behind(c)'
                 PROVE  \/ cache'[k][c] \in Selected(c)'
                        \/ Failed(c)' /\ cache'[k][c] = Absent
                        \/ \E q \in Requests : request'[q].team = c /\ request'[q].pc = "put"
      BY DEF FreshInv
    <3>1. CASE k = n
      BY <2>1, <2>2, <2>4, <3>1
    <3>2. CASE k # n
      BY <1>l, <2>2, <2>3, <2>4, <2>5, <2>6, <3>2 DEF FreshInv
    <3> QED
      BY <3>1, <3>2
  <2> QED
    BY <2>7, <2>8
<1>9. CASE UNCHANGED vars
  <2>1. UNCHANGED <<rows, cache, syncObj, request>>
    BY <1>9 DEF vars
  <2>2. \A c \in Teams : /\ Selected(c)' = Selected(c)
                         /\ Behind(c)' <=> Behind(c)
                         /\ Failed(c)' <=> Failed(c)
    BY <2>1 DEF Selected, Behind, Failed
  <2>3. FreshInv'
    BY <1>l, <2>1, <2>2 DEF FreshInv
  <2>4. GotInv'
    BY <1>0, <1>l, <2>1, <2>2 DEF GotInv
  <2> QED
    BY <2>3, <2>4
<1> QED
  BY <1>2, <1>3, <1>4, <1>5, <1>6, <1>7, <1>8, <1>9
  DEF Next, Arrive, Proceed

LEMMA Invariant == Spec => []IInv
<1>1. Init /\ Typing => IInv
  BY DEF Init, IInv, BlockInv, LockInv, HolderInv, GapInv, RowInv, FreshInv, GotInv,
         Selected, NoRows
<1>2. IInv /\ [Next]_vars => IInv'
  BY TypingStep, BlockStep, FreshStep DEF IInv
<1> QED
  BY <1>1, <1>2, TypingInvariant, PTL DEF Spec

\* However the writes and refreshes of concurrent requests interleave, and wherever
\* restarts cut them off: when the last request on a team is through, the map of
\* the node that serves the team has one of its rows, or no entry if it has none,
\* unless a statement failed.
THEOREM CoherentAlways == Spec => []Coherent
<1>1. IInv => Coherent
  BY DEF IInv, FreshInv, Coherent, Settled, Behind
<1> QED
  BY <1>1, Invariant, PTL

\* Failed statements can leave that map without an entry, and never with a stale one.
THEOREM NeverStaleAlways == Spec => []NeverStale
<1>1. IInv => NeverStale
  BY DEF IInv, FreshInv, NeverStale, Settled, Behind
<1> QED
  BY <1>1, Invariant, PTL

\* A lookup under syncObj misses an entry only for a team that has no row, whose
\* last writer has still to refresh, or on which a statement failed.
THEOREM LockedLookupAlways == Spec => []LockedLookup
<1>1. IInv => LockedLookup
  <2> SUFFICES ASSUME IInv, NEW n \in Nodes, NEW c \in Teams,
                      Local(n, c), syncObj[n] = Free, ~Failed(c),
                      \A r \in Requests :
                        request[r].team = c => request[r].pc # "refresh"
               PROVE  cache[n][c] = Absent <=> DOMAIN rows[c] = {}
    BY DEF LockedLookup
  <2>1. \A r \in Requests :
          request[r].team = c => request[r].pc \notin {"refresh", "read", "put"}
    BY ConfigAssumption DEF IInv, BlockInv, LockInv, Local
  <2>2. cache[n][c] \in Selected(c)
    BY <2>1 DEF IInv, FreshInv, Behind
  <2>3. Range(rows[c]) \subseteq Settings
    BY RowsType DEF IInv, Typing, TypeOK
  <2> QED
    BY <2>2, <2>3, ConfigAssumption DEF Selected
<1> QED
  BY <1>1, Invariant, PTL

\* Whoever holds a node's syncObj is a request of that node between remove and put,
\* so one of its own steps, or a failure, hands the lock back: what RequestsEnd
\* needs besides fairness.  Several nodes, restarts, failing statements.
THEOREM HolderIsInside == Spec => []HolderInv
<1>1. IInv => HolderInv
  BY DEF IInv, BlockInv
<1> QED
  BY <1>1, Invariant, PTL

-----------------------------------------------------------------------------
(* Every step is a step of WebhookMirror, or none, under the mapping.       *)

Table == [c \in Teams |-> Selected(c)]
Map == [n \in Nodes |-> [c \in Teams |-> Shown(n, c)]]
Dues == [n \in Nodes |-> Due(n)]

SameTable == \A c \in Teams : Selected(c)' = Selected(c)
SameMap == \A n \in Nodes, c \in Teams : Shown(n, c)' = Shown(n, c)
SameDue == \A n \in Nodes : Due(n)' = Due(n)

\* One team, entry or node moves, the others stay.
LEMMA TableMoves ==
  ASSUME NEW c \in Teams, NEW v, Selected(c)' = v,
         \A d \in Teams : d # c => Selected(d)' = Selected(d)
  PROVE  Table' = [Table EXCEPT ![c] = v]
BY DEF Table

LEMMA MapMoves ==
  ASSUME NEW n \in Nodes, NEW c \in Teams, NEW v, Shown(n, c)' = v,
         \A k \in Nodes, d \in Teams :
           ~(k = n /\ d = c) => Shown(k, d)' = Shown(k, d)
  PROVE  Map' = [Map EXCEPT ![n] = [@ EXCEPT ![c] = v]]
<1> DEFINE new == [Map[n] EXCEPT ![c] = v]
<1>1. Map[n] = [d \in Teams |-> Shown(n, d)]
  BY DEF Map
<1>2. new = [d \in Teams |-> Shown(n, d)']
  BY <1>1
<1>3. Map' = [k \in Nodes |-> IF k = n THEN new ELSE Map[k]]
  BY <1>2 DEF Map
<1> QED
  BY <1>3 DEF Map

LEMMA DueMoves ==
  ASSUME NEW n \in Nodes, NEW S, Due(n)' = S,
         \A k \in Nodes : k # n => Due(k)' = Due(k)
  PROVE  Dues' = [Dues EXCEPT ![n] = S]
BY DEF Dues

LEMMA NothingMoves ==
  ASSUME SameTable, SameMap, SameDue
  PROVE  UNCHANGED <<Table, Map, Dues>>
BY DEF Table, Map, Dues, SameTable, SameMap, SameDue

\* The actions of the mirror, told of the mapping.
LEMMA MirrorWrites ==
  ASSUME NEW n \in Nodes, NEW c \in Teams, NEW said,
         said \in {{Absent}} \cup {{s} : s \in Settings}
                   \cup {(Selected(c) \ {Absent}) \cup {s} : s \in Settings},
         Selected(c)' = said,
         \A d \in Teams : d # c => Selected(d)' = Selected(d),
         Due(n)' = Due(n) \cup {c},
         \A k \in Nodes : k # n => Due(k)' = Due(k),
         SameMap
  PROVE  Mirror!Next
<1>1. Table[c] = Selected(c) /\ Dues[n] = Due(n)
  BY DEF Table, Dues
<1>2. Table' = [Table EXCEPT ![c] = said]
  BY TableMoves
<1>3. Dues' = [Dues EXCEPT ![n] = Due(n) \cup {c}]
  BY DueMoves
<1>4. Map' = Map
  BY DEF SameMap, Map
<1>5. Mirror!Write(n, c)
  BY <1>1, <1>2, <1>3, <1>4 DEF Mirror!Write, Table, Map, Dues
<1> QED
  BY <1>5 DEF Mirror!Next

LEMMA MirrorDrops ==
  ASSUME NEW n \in Nodes, NEW c \in Teams, c \in Due(n),
         Shown(n, c)' = Absent,
         \A k \in Nodes, d \in Teams :
           ~(k = n /\ d = c) => Shown(k, d)' = Shown(k, d),
         SameTable, SameDue
  PROVE  Mirror!Next
<1>1. Map[n][c] = Shown(n, c) /\ Dues[n] = Due(n)
  BY DEF Map, Dues
<1>2. Map' = [Map EXCEPT ![n] = [@ EXCEPT ![c] = Absent]]
  BY MapMoves
<1>3. Table' = Table /\ Dues' = Dues
  BY DEF SameTable, SameDue, Table, Dues
<1>4. Mirror!Drop(n, c)
  BY <1>1, <1>2, <1>3 DEF Mirror!Drop, Table, Map, Dues
<1> QED
  BY <1>4 DEF Mirror!Next

LEMMA MirrorLoads ==
  ASSUME NEW n \in Nodes, NEW c \in Teams, NEW s \in Selected(c),
         c \in Due(n), Shown(n, c) = Absent, Shown(n, c)' = s,
         \A k \in Nodes, d \in Teams :
           ~(k = n /\ d = c) => Shown(k, d)' = Shown(k, d),
         SameTable,
         Due(n)' = Due(n) \/ Due(n)' = Due(n) \ {c},
         \A k \in Nodes : k # n => Due(k)' = Due(k)
  PROVE  Mirror!Next
<1>1. Table[c] = Selected(c) /\ Map[n][c] = Shown(n, c) /\ Dues[n] = Due(n)
  BY DEF Table, Map, Dues
<1>2. Map' = [Map EXCEPT ![n] = [@ EXCEPT ![c] = s]]
  BY MapMoves
<1>3. Table' = Table
  BY DEF SameTable, Table
<1>4. Dues' \in {Dues, [Dues EXCEPT ![n] = Due(n) \ {c}]}
  <2>1. CASE Due(n)' = Due(n)
    BY <2>1 DEF Dues
  <2>2. CASE Due(n)' = Due(n) \ {c}
    BY <2>2, DueMoves
  <2> QED
    BY <2>1, <2>2
<1>5. Mirror!Load(n, c)
  BY <1>1, <1>2, <1>3, <1>4 DEF Mirror!Load, Table, Map, Dues
<1> QED
  BY <1>5 DEF Mirror!Next

LEMMA MirrorLoses ==
  ASSUME NEW n \in Nodes, NEW c \in Teams, Shown(n, c) = Absent,
         SameTable, SameMap,
         Due(n)' = Due(n) \ {c},
         \A k \in Nodes : k # n => Due(k)' = Due(k)
  PROVE  Mirror!Next
<1>1. Map[n][c] = Shown(n, c) /\ Dues[n] = Due(n)
  BY DEF Map, Dues
<1>2. Dues' = [Dues EXCEPT ![n] = Due(n) \ {c}]
  BY DueMoves
<1>3. Table' = Table /\ Map' = Map
  BY DEF SameTable, SameMap, Table, Map
<1>4. Mirror!Lose(n, c)
  BY <1>1, <1>2, <1>3 DEF Mirror!Lose, Table, Map, Dues
<1> QED
  BY <1>4 DEF Mirror!Next

LEMMA MirrorReloads ==
  ASSUME NEW n \in Nodes, NEW loaded \in [Teams -> Entries],
         \A c \in Teams : loaded[c] \in Selected(c),
         \A c \in Teams : Shown(n, c)' = loaded[c],
         \A k \in Nodes, d \in Teams : k # n => Shown(k, d)' = Shown(k, d),
         SameTable,
         Due(n)' = {},
         \A k \in Nodes : k # n => Due(k)' = Due(k)
  PROVE  Mirror!Next
<1>1. \A c \in Teams : Table[c] = Selected(c)
  BY DEF Table
<1>2. Map' = [Map EXCEPT ![n] = loaded]
  <2>1. loaded = [c \in Teams |-> Shown(n, c)']
    OBVIOUS
  <2>2. Map' = [k \in Nodes |-> IF k = n THEN loaded ELSE Map[k]]
    BY <2>1 DEF Map
  <2> QED
    BY <2>2 DEF Map
<1>3. Dues' = [Dues EXCEPT ![n] = {}]
  BY DueMoves
<1>4. Table' = Table
  BY DEF SameTable, Table
<1>5. Mirror!Reload(n)
  BY <1>1, <1>2, <1>3, <1>4 DEF Mirror!Reload, Table, Map, Dues, Entries
<1> QED
  BY <1>5 DEF Mirror!Next

\* A step that leaves a node's lock and its holder alone changes what the node shows
\* as much as its map.
LEMMA ShownKeeps ==
  ASSUME Typing, BlockInv, NEW n \in Nodes, NEW c \in Teams,
         syncObj'[n] = syncObj[n], cache'[n][c] = cache[n][c],
         \A q \in Requests : NodeOf[q] = n /\ request[q].pc \in {"read", "put"}
                             => request'[q] = request[q]
  PROVE  Shown(n, c)' = Shown(n, c)
<1>1. CASE syncObj[n] = Free
  BY <1>1 DEF Shown
<1>2. CASE syncObj[n] # Free
  <2>1. PICK q \in Requests : q = syncObj[n]
    BY <1>2 DEF Typing, TypeOK
  <2>2. request'[q] = request[q]
    BY <1>2, <2>1 DEF BlockInv, HolderInv
  <2> QED
    BY <2>1, <2>2 DEF Shown
<1> QED
  BY <1>1, <1>2

\* A request that moves on owes its node one refresh, or none, for its team alone.
LEMMA DueKeeps ==
  ASSUME Typing, NEW r \in Requests, NEW n \in Nodes, n = NodeOf[r],
         NEW c \in Teams, c = request[r].team, c = request'[r].team,
         \A q \in Requests : q # r => request'[q] = request[q]
  PROVE  /\ \A k \in Nodes : k # n => Due(k)' = Due(k)
         /\ request'[r].pc \in {"refresh", "read"} => Due(n)' = Due(n) \cup {c}
         /\ request'[r].pc \notin {"refresh", "read"}
              => Due(n)' = Due(n) \/ Due(n)' = Due(n) \ {c}
         /\ request[r].pc \notin {"refresh", "read"}
            /\ request'[r].pc \notin {"refresh", "read"} => Due(n)' = Due(n)
         /\ request[r].pc \in {"refresh", "read"} => c \in Due(n)
<1>1. \A k \in Nodes : k # n => Due(k)' = Due(k)
  BY DEF Due
<1>2. \A d \in Teams : d # c => (d \in Due(n)' <=> d \in Due(n))
  BY DEF Due
<1>3. Due(n) \subseteq Teams /\ Due(n)' \subseteq Teams
  BY DEF Due
<1>4. request'[r].pc \in {"refresh", "read"} => c \in Due(n)'
  BY DEF Due
<1>5. request[r].pc \in {"refresh", "read"} => c \in Due(n)
  BY DEF Due
<1>6. request[r].pc \notin {"refresh", "read"} /\ request'[r].pc \notin {"refresh", "read"}
        => (c \in Due(n)' <=> c \in Due(n))
  BY DEF Due
<1>7. request'[r].pc \notin {"refresh", "read"} => (c \in Due(n)' => c \in Due(n))
  BY DEF Due
<1> QED
  BY <1>1, <1>2, <1>3, <1>4, <1>5, <1>6, <1>7

\* Every step is a step of the mirror, or none.
LEMMA MirrorStep ==
  ASSUME IInv, [Next]_vars
  PROVE  Mirror!Next \/ UNCHANGED <<Table, Map, Dues>>
<1> DEFINE goal == Mirror!Next \/ UNCHANGED <<Table, Map, Dues>>
<1> USE ConfigAssumption DEF IInv
<1>0. \A r \in Requests : /\ request[r].team \in Teams /\ request[r].got \in Entries
                          /\ request[r].setting \in Entries /\ NodeOf[r] \in Nodes
  BY DEF Typing, TypeOK, Request
<1>1. ASSUME NEW r \in Requests, Update(r) \/ Insert(r) \/ Delete(r) PROVE goal
  <2>1. PICK c \in Teams, n \in Nodes, pc \in {"insert", "refresh"} :
          c = request[r].team /\ n = NodeOf[r] /\ Goto(r, pc)
    BY <1>0, <1>1 DEF Update, Insert, Delete
  <2>2. /\ request'[r].pc = pc
        /\ \A q \in Requests : /\ q # r => request'[q] = request[q]
                               /\ request'[q].team = request[q].team
                               /\ request'[q].got = request[q].got
    BY <2>1, Moves DEF RequestStates
  <2>3. request[r].pc \in {"new", "insert"} /\ UNCHANGED <<cache, syncObj>>
    BY <1>1 DEF Update, Insert, Delete
  <2>4. SameMap
    BY <2>2, <2>3, ShownKeeps DEF SameMap
  <2>5. /\ \A k \in Nodes : k # n => Due(k)' = Due(k)
        /\ pc = "refresh" => Due(n)' = Due(n) \cup {c}
        /\ pc = "insert" => Due(n)' = Due(n)
    BY <2>1, <2>2, <2>3, DueKeeps
  <2>6. /\ \A d \in Teams : d # c => rows'[d] = rows[d]
        /\ \A d \in Teams : d # c => Selected(d)' = Selected(d)
    BY <1>1, <2>1 DEF Update, Insert, Delete, Typing, TypeOK, Selected
  <2>7. rows[c] \in Rows /\ Range(rows[c]) \subseteq Settings
    BY RowsType DEF Typing, TypeOK
  <2>8. CASE Update(r) /\ DOMAIN rows[c] = {}
    <3>1. pc = "insert"
      BY <2>1, <2>2, <2>8, Moves DEF Update, RequestStates
    <3>2. Selected(c)' = Selected(c)
      BY <2>1, <2>8 DEF Update, Selected, Typing, TypeOK
    <3>3. SameTable /\ SameDue
      BY <2>5, <2>6, <3>1, <3>2 DEF SameTable, SameDue
    <3> QED
      BY <2>4, <3>3, NothingMoves
  <2>9. CASE Update(r) /\ DOMAIN rows[c] # {}
    <3> DEFINE s == request[r].setting
               new == [id \in DOMAIN rows[c] |-> s]
    <3>1. pc = "refresh" /\ s \in Settings
      BY <1>0, <2>1, <2>2, <2>9, Moves DEF Update, RequestStates, Entries
    <3>2. rows'[c] = new
      BY <2>1, <2>9 DEF Update, Typing, TypeOK
    <3>3. Selected(c)' = {s}
      BY <2>9, <3>2 DEF Selected, Range
    <3> QED
      BY <2>4, <2>5, <2>6, <3>1, <3>3, MirrorWrites
  <2>10. CASE Insert(r)
    <3> DEFINE s == request[r].setting
               new == [id \in DOMAIN rows[c] \cup {r} |->
                         IF id = r THEN s ELSE rows[c][id]]
    <3>1. pc = "refresh" /\ s \in Settings /\ r \notin DOMAIN rows[c]
      BY <1>0, <2>1, <2>2, <2>10, Moves
      DEF Insert, RequestStates, Entries, Typing, BlockInv, RowInv
    <3>2. rows'[c] = new
      BY <2>1, <2>10 DEF Insert, Typing, TypeOK
    <3>3. Selected(c)' = Range(rows[c]) \cup {s}
      BY <3>1, <3>2 DEF Selected, Range
    <3>4. Selected(c) \ {Absent} = Range(rows[c])
      BY <2>7 DEF Selected, Range
    <3> QED
      BY <2>4, <2>5, <2>6, <3>1, <3>3, <3>4, MirrorWrites
  <2>11. CASE Delete(r)
    <3>1. pc = "refresh"
      BY <2>2, <2>11, Moves DEF Delete, RequestStates
    <3>2. rows'[c] = NoRows
      BY <2>1, <2>11 DEF Delete, Typing, TypeOK
    <3>3. Selected(c)' = {Absent}
      BY <3>2 DEF Selected, NoRows
    <3> QED
      BY <2>4, <2>5, <2>6, <3>1, <3>3, MirrorWrites
  <2> QED
    BY <1>1, <2>8, <2>9, <2>10, <2>11
<1>2. ASSUME NEW r \in Requests, Remove(r) PROVE goal
  <2>1. PICK c \in Teams, n \in Nodes : c = request[r].team /\ n = NodeOf[r]
    BY <1>0
  <2>2. /\ request[r].pc = "refresh" /\ request'[r].pc = "read"
        /\ \A q \in Requests : /\ q # r => request'[q] = request[q]
                               /\ request'[q].team = request[q].team
                               /\ request'[q].got = request[q].got
    BY <1>2, Moves DEF Remove, RequestStates
  <2>3. /\ syncObj[n] = Free /\ rows' = rows
        /\ \A k \in Nodes : syncObj'[k] = IF k = n THEN r ELSE syncObj[k]
    BY <1>2, <2>1 DEF Remove, Typing, TypeOK
  <2>4. /\ cache'[n][c] = Absent
        /\ \A k \in Nodes, d \in Teams : ~(k = n /\ d = c) => cache'[k][d] = cache[k][d]
    BY <1>2, <2>1 DEF Remove, Typing, TypeOK
  <2>5. Shown(n, c)' = Absent
    BY <2>2, <2>3, <2>4 DEF Shown
  <2>6. ASSUME NEW k \in Nodes, NEW d \in Teams, ~(k = n /\ d = c)
        PROVE  Shown(k, d)' = Shown(k, d)
    <3>1. CASE k = n
      BY <2>2, <2>3, <2>4, <2>6, <3>1 DEF Shown
    <3>2. CASE k # n
      BY <2>1, <2>2, <2>3, <2>4, <3>2, ShownKeeps
    <3> QED
      BY <3>1, <3>2
  <2>7. /\ \A k \in Nodes : k # n => Due(k)' = Due(k)
        /\ Due(n)' = Due(n) \cup {c} /\ c \in Due(n)
    BY <2>1, <2>2, DueKeeps
  <2>8. SameTable /\ SameDue
    BY <2>3, <2>7 DEF SameTable, SameDue, Selected
  <2> QED
    BY <2>5, <2>6, <2>7, <2>8, MirrorDrops
<1>3. ASSUME NEW r \in Requests, Read(r) PROVE goal
  <2>1. PICK c \in Teams, n \in Nodes : c = request[r].team /\ n = NodeOf[r]
    BY <1>0
  <2>2. PICK s \in Selected(c) :
          request' = [request EXCEPT ![r] =
                        [request[r] EXCEPT !.pc = "put", !.got = s]]
    BY <1>3, <2>1 DEF Read
  <2>3. request[r].pc = "read" /\ UNCHANGED <<rows, cache, syncObj>>
    BY <1>3 DEF Read
  <2>4. /\ request'[r].pc = "put" /\ request'[r].got = s /\ request'[r].team = c
        /\ \A q \in Requests : q # r => request'[q] = request[q]
    BY <2>1, <2>2 DEF Typing, TypeOK, Request
  <2>5. syncObj[n] = r /\ cache[n][c] = Absent /\ r # Free
    BY <2>1, <2>3 DEF BlockInv, LockInv, GapInv
  <2>6. Shown(n, c) = Absent /\ Shown(n, c)' = s
    BY <2>3, <2>4, <2>5 DEF Shown
  <2>7. ASSUME NEW k \in Nodes, NEW d \in Teams, ~(k = n /\ d = c)
        PROVE  Shown(k, d)' = Shown(k, d)
    <3>1. CASE k = n
      BY <2>3, <2>4, <2>5, <2>7, <3>1 DEF Shown
    <3>2. CASE k # n
      BY <2>1, <2>3, <2>4, <3>2, ShownKeeps
    <3> QED
      BY <3>1, <3>2
  <2>8. /\ \A k \in Nodes : k # n => Due(k)' = Due(k)
        /\ Due(n)' = Due(n) \/ Due(n)' = Due(n) \ {c}
        /\ c \in Due(n)
    BY <2>1, <2>3, <2>4, DueKeeps
  <2>9. SameTable
    BY <2>3 DEF SameTable, Selected
  <2> QED
    BY <2>6, <2>7, <2>8, <2>9, MirrorLoads
<1>4. ASSUME NEW r \in Requests, Put(r) PROVE goal
  <2>1. PICK c \in Teams, n \in Nodes : c = request[r].team /\ n = NodeOf[r]
    BY <1>0
  <2>2. /\ request[r].pc = "put" /\ request'[r].pc = "done"
        /\ \A q \in Requests : /\ q # r => request'[q] = request[q]
                               /\ request'[q].team = request[q].team
                               /\ request'[q].got = request[q].got
    BY <1>4, Moves DEF Put, RequestStates
  <2>3. syncObj[n] = r /\ cache[n][c] = Absent /\ r # Free
    BY <2>1, <2>2 DEF BlockInv, LockInv, GapInv
  <2>4. /\ rows' = rows
        /\ \A k \in Nodes : syncObj'[k] = IF k = n THEN Free ELSE syncObj[k]
        /\ cache'[n][c] = request[r].got
        /\ \A k \in Nodes, d \in Teams : ~(k = n /\ d = c) => cache'[k][d] = cache[k][d]
    BY <1>0, <1>4, <2>1, <2>3 DEF Put, Typing, TypeOK
  <2>5. ASSUME NEW k \in Nodes, NEW d \in Teams PROVE Shown(k, d)' = Shown(k, d)
    <3>1. CASE k = n
      BY <2>1, <2>2, <2>3, <2>4, <3>1 DEF Shown
    <3>2. CASE k # n
      BY <2>1, <2>2, <2>4, <3>2, ShownKeeps
    <3> QED
      BY <3>1, <3>2
  <2>6. (\A k \in Nodes : k # n => Due(k)' = Due(k)) /\ Due(n)' = Due(n)
    BY <2>1, <2>2, DueKeeps
  <2>7. SameTable /\ SameMap /\ SameDue
    BY <2>4, <2>5, <2>6 DEF SameTable, SameMap, SameDue, Selected
  <2> QED
    BY <2>7, NothingMoves
<1>5. ASSUME NEW r \in Requests, Fail(r) PROVE goal
  <2>1. PICK c \in Teams, n \in Nodes : c = request[r].team /\ n = NodeOf[r]
    BY <1>0
  <2>2. /\ request[r].pc \in {"new", "insert", "read"} /\ request'[r].pc = "failed"
        /\ \A q \in Requests : /\ q # r => request'[q] = request[q]
                               /\ request'[q].team = request[q].team
                               /\ request'[q].got = request[q].got
    BY <1>5, Moves DEF Fail, RequestStates
  <2>3. /\ UNCHANGED <<rows, cache>>
        /\ \A k \in Nodes : syncObj'[k] = IF syncObj[k] = r THEN Free ELSE syncObj[k]
    BY <1>5 DEF Fail
  <2>4. /\ \A k \in Nodes : syncObj[k] = r <=> k = n /\ request[r].pc = "read"
        /\ request[r].pc = "read" => cache[n][c] = Absent
    BY <2>1, <2>2 DEF BlockInv, LockInv, HolderInv, GapInv
  <2>5. ASSUME NEW k \in Nodes, NEW d \in Teams PROVE Shown(k, d)' = Shown(k, d)
    <3>1. CASE k = n /\ request[r].pc = "read"
      <4>1. syncObj[k] = r /\ syncObj'[k] = Free
        BY <2>3, <2>4, <3>1
      <4> QED
        BY <2>3, <3>1, <4>1 DEF Shown
    <3>2. CASE ~(k = n /\ request[r].pc = "read")
      <4>1. syncObj'[k] = syncObj[k] /\ cache'[k][d] = cache[k][d]
        BY <2>3, <2>4, <3>2
      <4>2. \A q \in Requests : NodeOf[q] = k /\ request[q].pc \in {"read", "put"}
                                => request'[q] = request[q]
        BY <2>1, <2>2, <3>2
      <4> QED
        BY <4>1, <4>2, ShownKeeps
    <3> QED
      BY <3>1, <3>2
  <2>6. SameTable /\ SameMap
    BY <2>3, <2>5 DEF SameTable, SameMap, Selected
  <2>7. /\ \A k \in Nodes : k # n => Due(k)' = Due(k)
        /\ Due(n)' = Due(n) \/ Due(n)' = Due(n) \ {c}
        /\ request[r].pc # "read" => Due(n)' = Due(n)
    BY <2>1, <2>2, DueKeeps
  <2>8. CASE Due(n)' = Due(n)
    <3>1. SameDue
      BY <2>7, <2>8 DEF SameDue
    <3> QED
      BY <2>6, <3>1, NothingMoves
  <2>9. CASE Due(n)' # Due(n)
    <3>1. request[r].pc = "read" /\ Due(n)' = Due(n) \ {c}
      BY <2>7, <2>9
    <3>2. Shown(n, c) = Absent
      BY <2>4, <3>1 DEF Shown
    <3> QED
      BY <2>6, <2>7, <3>1, <3>2, MirrorLoses
  <2> QED
    BY <2>8, <2>9
<1>6. ASSUME NEW n \in Nodes, Restart(n) PROVE goal
  <2>1. PICK loaded \in [Teams -> Entries] :
          /\ \A c \in Teams : loaded[c] \in Selected(c)
          /\ cache' = [cache EXCEPT ![n] = loaded]
    BY <1>6 DEF Restart
  <2>2. syncObj' = [syncObj EXCEPT ![n] = Free] /\ rows' = rows
    BY <1>6 DEF Restart
  <2>3. \A k \in Nodes : /\ cache'[k] = IF k = n THEN loaded ELSE cache[k]
                         /\ syncObj'[k] = IF k = n THEN Free ELSE syncObj[k]
    BY <2>1, <2>2 DEF Typing, TypeOK
  <2>4. \A q \in Requests :
          /\ request'[q].team = request[q].team
          /\ NodeOf[q] # n => request'[q] = request[q]
          /\ NodeOf[q] = n => request'[q].pc \in {"new", "failed", "done"}
    BY <1>6 DEF Restart, Typing, TypeOK, Request
  <2>5. \A c \in Teams : Shown(n, c)' = loaded[c]
    BY <2>3 DEF Shown
  <2>6. ASSUME NEW k \in Nodes, NEW d \in Teams, k # n PROVE Shown(k, d)' = Shown(k, d)
    BY <2>3, <2>4, <2>6, ShownKeeps
  <2>7. Due(n)' = {} /\ \A k \in Nodes : k # n => Due(k)' = Due(k)
    BY <2>4 DEF Due
  <2>8. SameTable
    BY <2>2 DEF SameTable, Selected
  <2> QED
    BY <2>1, <2>5, <2>6, <2>7, <2>8, MirrorReloads
<1>7. ASSUME UNCHANGED vars PROVE goal
  <2>1. SameTable /\ SameMap /\ SameDue
    BY <1>7 DEF vars, SameTable, SameMap, SameDue, Selected, Shown, Due
  <2> QED
    BY <2>1, NothingMoves
<1> QED
  BY <1>1, <1>2, <1>3, <1>4, <1>5, <1>6, <1>7 DEF Next, Arrive, Proceed

\* On any number of nodes, whatever interleaves or fails: a refresh under syncObj is
\* one step that takes a row of the table as it is at its read, a map changes by
\* nothing else but a restart, and the maps of other nodes stay as they are.
THEOREM MirrorIsImplemented == Spec => ImplementsMirror
<1>1. Init => Mirror!Init
  <2> SUFFICES ASSUME Init PROVE Mirror!Init
    OBVIOUS
  <2>1. \A c \in Teams : Selected(c) = {Absent}
    BY DEF Init, Selected, NoRows
  <2>2. \A n \in Nodes, c \in Teams : Shown(n, c) = Absent
    BY DEF Init, Shown
  <2>3. \A n \in Nodes : Due(n) = {}
    BY DEF Init, Due
  <2> QED
    BY <2>1, <2>2, <2>3 DEF Mirror!Init
<1>2. IInv /\ [Next]_vars => [Mirror!Next]_(Mirror!vars)
  <2> SUFFICES ASSUME IInv, [Next]_vars PROVE [Mirror!Next]_(Mirror!vars)
    OBVIOUS
  <2>1. Mirror!Next \/ UNCHANGED <<Table, Map, Dues>>
    BY MirrorStep
  <2> QED
    BY <2>1 DEF Mirror!vars, Table, Map, Dues
<1> QED
  BY <1>1, <1>2, Invariant, PTL DEF Spec, ImplementsMirror, Mirror!Spec

-----------------------------------------------------------------------------
(* Coming to an end *)

\* How far a request has come.
Way ==
  [pc \in RequestStates |->
     CASE pc = "new" -> 0
       [] pc = "insert" -> 1
       [] pc = "refresh" -> 2
       [] pc = "read" -> 3
       [] pc = "put" -> 4
       [] OTHER -> 5]

\* Every step of a request of updateWebhookConfiguration or deleteWebhookConfiguration
\* brings it nearer to its end, and no other request, failure or restart sends it back.
\* With HolderIsInside, who has syncObj is at most two of its own steps from handing it
\* back: under fair threads RequestsEnd follows.
THEOREM RequestsAdvance ==
  Spec => [][\A r \in Requests : \/ request'[r].pc = request[r].pc
                                 \/ Way[request'[r].pc] > Way[request[r].pc]]_vars
<1> DEFINE goal == \A r \in Requests : \/ request'[r].pc = request[r].pc
                                       \/ Way[request'[r].pc] > Way[request[r].pc]
<1>1. ASSUME Typing, NEW q \in Requests, Arrive(q) \/ Proceed(q) \/ Fail(q)
      PROVE  /\ \A r \in Requests : r # q => request'[r] = request[r]
             /\ Way[request'[q].pc] > Way[request[q].pc]
  <2>1. request[q] \in Request /\ request \in [Requests -> Request]
    BY <1>1 DEF Typing, TypeOK
  <2>2. CASE Arrive(q)
    BY <2>1, <2>2 DEF Arrive, Update, Delete, Goto, Request, Way, RequestStates
  <2>3. CASE Proceed(q)
    BY <2>1, <2>3 DEF Proceed, Insert, Remove, Read, Put, Goto, Request, Way, RequestStates
  <2>4. CASE Fail(q)
    BY <2>1, <2>4 DEF Fail, Goto, Request, Way, RequestStates
  <2> QED BY <1>1, <2>2, <2>3, <2>4
<1>2. ASSUME Typing, NEW n \in Nodes, Restart(n) PROVE goal
  <2>1. ASSUME NEW r \in Requests
        PROVE  \/ request'[r] = request[r]
               \/ request'[r].pc = "done" /\ request[r].pc \in RequestStates \ {"new", "failed"}
    BY <1>2 DEF Restart, Typing, TypeOK, Request
  <2> QED BY <2>1 DEF Way, RequestStates
<1>3. Typing /\ [Next]_vars => [goal]_vars
  BY <1>1, <1>2 DEF Next
<1> QED BY <1>3, TypingInvariant, PTL DEF Spec

=============================================================================
