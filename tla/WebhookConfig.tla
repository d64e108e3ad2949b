----------------------------- MODULE WebhookConfig -----------------------------
(***************************************************************************)
(* The webhook configuration of each team: its rows in                     *)
(* TWEBHOOK_CONFIGURATION, the copy every API node keeps in                *)
(* WebhookDao.webHooksMap, and the requests that update or delete it.      *)
(* A request writes the database first and then refreshes the map of its   *)
(* own node: under syncObj it removes the entry, reads the database and    *)
(* puts what it read.                                                      *)
(***************************************************************************)
EXTENDS Naturals, Functions

CONSTANTS
  Nodes,     \* processes of the API, each with its map
  Requests,  \* configuration requests; also the ID of the row one may insert
  NodeOf,    \* the node that serves a request
  Teams,
  Settings,  \* what a configuration says (URL, secret, ACTIVE)
  Absent,    \* no entry in the map
  Free,      \* nobody holds syncObj
  Faults     \* subset of {"database", "crash"}

ASSUME ConfigAssumption ==
  /\ NodeOf \in [Requests -> Nodes]
  /\ Absent \notin Settings
  /\ Free \notin Requests
  /\ Faults \subseteq {"database", "crash"}

VARIABLES
  rows,     \* TWEBHOOK_CONFIGURATION: of each team, the rows by ID
  cache,    \* webHooksMap of each node
  syncObj,  \* the request that holds the node's syncObj
  request   \* where each request is

vars == <<rows, cache, syncObj, request>>

Entries == Settings \cup {Absent}

RequestStates ==
  {"new", "insert", "refresh", "read", "put", "done", "failed"}

Request == [pc : RequestStates, team : Teams, setting : Entries, got : Entries]

\* Rows of a team are keyed by the request that inserted them.
Rows == UNION {[ids -> Settings] : ids \in SUBSET Requests}

NoRows == [id \in {} |-> Absent]

\* What a SELECT over the team's rows may return as its first row.
Selected(c) == IF DOMAIN rows[c] = {} THEN {Absent} ELSE Range(rows[c])

Init ==
  /\ rows = [c \in Teams |-> NoRows]
  /\ cache = [n \in Nodes |-> [c \in Teams |-> Absent]]
  /\ syncObj = [n \in Nodes |-> Free]
  /\ request \in [Requests -> [pc : {"new"}, team : Teams, setting : Entries,
                               got : {Absent}]]

Goto(r, pc) == request' = [request EXCEPT ![r].pc = pc]

\* Mutants: a missing setting is written as if it were one; the refresh is left
\* out after the INSERT, or after the DELETE.
UpdateUnguarded(r) ==
  LET c == request[r].team IN
  /\ request[r].pc = "new"
  /\ rows' = [rows EXCEPT ![c] = [id \in DOMAIN @ |-> request[r].setting]]
  /\ Goto(r, IF DOMAIN rows[c] = {} THEN "insert" ELSE "refresh")
  /\ UNCHANGED <<cache, syncObj>>

InsertOnly(r) ==
  LET c == request[r].team IN
  /\ request[r].pc = "insert"
  /\ rows' = [rows EXCEPT ![c] = [id \in DOMAIN @ \cup {r} |->
                IF id = r THEN request[r].setting ELSE @[id]]]
  /\ Goto(r, "done")
  /\ UNCHANGED <<cache, syncObj>>

DeleteOnly(r) ==
  /\ request[r].pc = "new"
  /\ request[r].setting = Absent
  /\ rows' = [rows EXCEPT ![request[r].team] = NoRows]
  /\ Goto(r, "done")
  /\ UNCHANGED <<cache, syncObj>>

\* updateWebhookConfiguration: the UPDATE, of every row the team has.
Update(r) ==
  LET c == request[r].team IN
  /\ request[r].pc = "new"
  /\ request[r].setting # Absent
  /\ rows' = [rows EXCEPT ![c] = [id \in DOMAIN @ |-> request[r].setting]]
  /\ Goto(r, IF DOMAIN rows[c] = {} THEN "insert" ELSE "refresh")
  /\ UNCHANGED <<cache, syncObj>>

\* The INSERT that follows an UPDATE of no row.
Insert(r) ==
  LET c == request[r].team IN
  /\ request[r].pc = "insert"
  /\ rows' = [rows EXCEPT ![c] = [id \in DOMAIN @ \cup {r} |->
                IF id = r THEN request[r].setting ELSE @[id]]]
  /\ Goto(r, "refresh")
  /\ UNCHANGED <<cache, syncObj>>

\* deleteWebhookConfiguration: a request whose setting is Absent.
Delete(r) ==
  /\ request[r].pc = "new"
  /\ request[r].setting = Absent
  /\ rows' = [rows EXCEPT ![request[r].team] = NoRows]
  /\ Goto(r, "refresh")
  /\ UNCHANGED <<cache, syncObj>>

\* Mutant: refresh without the synchronized block.
RemoveUnlocked(r) ==
  /\ request[r].pc = "refresh"
  /\ cache' = [cache EXCEPT ![NodeOf[r]][request[r].team] = Absent]
  /\ Goto(r, "read")
  /\ UNCHANGED <<rows, syncObj>>

\* refresh(teamId) enters its synchronized block and removes the entry.
Remove(r) ==
  LET n == NodeOf[r] IN
  /\ request[r].pc = "refresh"
  /\ syncObj[n] = Free
  /\ syncObj' = [syncObj EXCEPT ![n] = r]
  /\ cache' = [cache EXCEPT ![n][request[r].team] = Absent]
  /\ Goto(r, "read")
  /\ UNCHANGED rows

\* getWebhookConfiguration(teamId): the first row the database returns.
Read(r) ==
  /\ request[r].pc = "read"
  /\ \E s \in Selected(request[r].team) :
       request' = [request EXCEPT ![r].pc = "put", ![r].got = s]
  /\ UNCHANGED <<rows, cache, syncObj>>

\* Mutant: a team without a row returns early and keeps syncObj.
PutEarlyReturn(r) ==
  /\ request[r].pc = "put"
  /\ IF request[r].got = Absent
     THEN UNCHANGED <<cache, syncObj>>
     ELSE /\ cache' = [cache EXCEPT ![NodeOf[r]][request[r].team] = request[r].got]
          /\ syncObj' = [syncObj EXCEPT ![NodeOf[r]] = Free]
  /\ Goto(r, "done")
  /\ UNCHANGED rows

\* The put, if there was a row, and the end of the block and of the request.
Put(r) ==
  LET n == NodeOf[r] IN
  /\ request[r].pc = "put"
  /\ IF request[r].got = Absent
     THEN UNCHANGED cache
     ELSE cache' = [cache EXCEPT ![n][request[r].team] = request[r].got]
  /\ syncObj' = [syncObj EXCEPT ![n] = Free]
  /\ Goto(r, "done")
  /\ UNCHANGED rows

\* The database fails a request: an exception leaves the method, and the block.
Fail(r) ==
  /\ "database" \in Faults
  /\ request[r].pc \in {"new", "insert", "read"}
  /\ syncObj' = [n \in Nodes |-> IF syncObj[n] = r THEN Free ELSE syncObj[n]]
  /\ Goto(r, "failed")
  /\ UNCHANGED <<rows, cache>>

\* A node stops with all its requests; started again it fills its map afresh
\* (init, refresh(null)) before it serves any.
Restart(n) ==
  /\ "crash" \in Faults
  /\ \E loaded \in [Teams -> Entries] :
       /\ \A c \in Teams : loaded[c] \in Selected(c)
       /\ cache' = [cache EXCEPT ![n] = loaded]
  /\ syncObj' = [syncObj EXCEPT ![n] = Free]
  /\ request' = [r \in Requests |->
       IF NodeOf[r] = n /\ request[r].pc \notin {"new", "failed"}
       THEN [request[r] EXCEPT !.pc = "done"] ELSE request[r]]
  /\ UNCHANGED rows

Arrive(r) == Update(r) \/ Delete(r)

Proceed(r) == Insert(r) \/ Remove(r) \/ Read(r) \/ Put(r)

Next ==
  \/ \E r \in Requests : Arrive(r) \/ Proceed(r) \/ Fail(r)
  \/ \E n \in Nodes : Restart(n)

Spec == Init /\ [][Next]_vars

\* A request may never come, but once there its thread runs on.
FairSpec == Spec /\ \A r \in Requests : WF_vars(Proceed(r))

-----------------------------------------------------------------------------
(* Properties *)

\* Every variable has its type: webHooksMap, syncObj, the table, the requests.
TypeOK ==
  /\ rows \in [Teams -> Rows]
  /\ cache \in [Nodes -> [Teams -> Entries]]
  /\ syncObj \in [Nodes -> Requests \cup {Free}]
  /\ request \in [Requests -> Request]

\* No request on team c has written its change and not refreshed the map yet.
Settled(c) ==
  \A r \in Requests :
    request[r].team = c => request[r].pc \notin {"refresh", "read", "put"}

\* The database failed a request on team c.
Failed(c) == \E r \in Requests : request[r].team = c /\ request[r].pc = "failed"

\* So far every request on team c was served by node n, which alone refreshes.
Local(n, c) ==
  \A r \in Requests : request[r].team = c /\ request[r].pc # "new" => NodeOf[r] = n

\* The map of the node that serves a team agrees with the table once the requests
\* on the team are through, in whatever order their writes and refreshes
\* interleaved with each other and those of other nodes on other teams, and
\* wherever a restart cut them off: it has a row of the team, or no entry if there
\* is no row.  No failed statement on the team.
Coherent ==
  \A n \in Nodes, c \in Teams :
    Local(n, c) /\ Settled(c) /\ ~Failed(c) => cache[n][c] \in Selected(c)

\* The same whether or not statements failed: the map never shows a setting no
\* row has any more, but a read that failed inside refresh leaves a configured
\* team without an entry.
NeverStale ==
  \A n \in Nodes, c \in Teams :
    Local(n, c) /\ Settled(c) => cache[n][c] \in Selected(c) \cup {Absent}

\* What send reads under syncObj: an entry is missing there only if the team has
\* no row, somebody wrote its rows and has still to refresh, or a statement
\* failed.  The gap between remove and put is seen by enableSyncType alone, which
\* takes no lock.
LockedLookup ==
  \A n \in Nodes, c \in Teams :
    /\ Local(n, c)
    /\ syncObj[n] = Free
    /\ ~Failed(c)
    /\ \A r \in Requests : request[r].team = c => request[r].pc # "refresh"
    => (cache[n][c] = Absent <=> DOMAIN rows[c] = {})

\* Refinement mapping: what node n shows of team c is what the request inside
\* refresh has read and is about to put, or the entry; a refresh is due while a
\* request of the node has written and not yet read.
Shown(n, c) ==
  LET r == syncObj[n] IN
  IF r # Free /\ request[r].pc = "put" /\ request[r].team = c
  THEN request[r].got ELSE cache[n][c]

Due(n) ==
  {c \in Teams : \E r \in Requests :
     NodeOf[r] = n /\ request[r].team = c /\ request[r].pc \in {"refresh", "read"}}

Mirror == INSTANCE WebhookMirror WITH
  table <- [c \in Teams |-> Selected(c)],
  map <- [n \in Nodes |-> [c \in Teams |-> Shown(n, c)]],
  due <- [n \in Nodes |-> Due(n)]

\* On any number of nodes a map changes only by the refresh of a request its own
\* node served, to what one row says at the moment of the read, or by a restart:
\* under syncObj remove, read and put are one step.  The maps of other nodes stay
\* as they are however old: updateWebhookConfiguration refreshes its node alone.
ImplementsMirror == Mirror!Spec

\* Every request that started comes to its end: syncObj is always handed back.
RequestsEnd ==
  \A r \in Requests : request[r].pc # "new" ~> request[r].pc \in {"done", "failed"}

=============================================================================
