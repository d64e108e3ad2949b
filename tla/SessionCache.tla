------------------------------ MODULE SessionCache ------------------------------
(***************************************************************************)
(* The session of one user on all nodes: the memory of each node           *)
(* (JobdivaCacheBasedUserCache over the map "userCache"), the rows of      *)
(* TRESTAPI_CACHE that all nodes share, the logins that replace the        *)
(* session, and the requests whose JwtRequestFilter looks it up.           *)
(*                                                                         *)
(* A login first removes the session from memory and table, then asks the  *)
(* cache for it, and retrieves the user only if the cache has nothing it   *)
(* can use.  Nothing keeps the steps of two requests apart: each call of   *)
(* the cache and each statement is an action.                              *)
(*                                                                         *)
(* A session is named by the login that retrieved it and the version of    *)
(* the user's record it was made of.  A session is written to the table    *)
(* and read back as JSON; all its fields survive.                          *)
(***************************************************************************)
EXTENDS Naturals

CONSTANTS
  Nodes,
  Logins,
  KindOf,       \* the endpoint of a login: one of Kinds
  Lookups,      \* requests with a token, one after the other
  LastVersion,  \* the record of the user changes this often
  PasswordAt,   \* its password; one no login presents when it may not log in
  Presents,     \* the passwords each login may present
  Faults,       \* subset of {"statement", "crash"}
  Nothing       \* no session, no node

Kinds == {"authenticate", "internalAuthenticate", "appAuthenticate"}

Processes == Logins \cup Lookups

Versions == 0..LastVersion

Passwords == UNION {Presents[l] : l \in Logins}

ASSUME SessionAssumption ==
  /\ KindOf \in [Logins -> Kinds]
  /\ Logins \cap Lookups = {}
  /\ LastVersion \in Nat
  /\ DOMAIN PasswordAt = Versions
  /\ DOMAIN Presents = Logins
  /\ Faults \subseteq {"statement", "crash"}
  /\ Nothing \notin Nodes \cup [by : Logins, version : Versions]

VARIABLES
  user,     \* version of the user's record
  mem,      \* the session in the memory of each node
  table,    \* the rows of the user in TRESTAPI_CACHE
  at,       \* where each login and each lookup is
  node,     \* the node that serves it
  got,      \* the session it has in hand
  given,    \* the password a login presents
  left,     \* its removals to come
  \* history of each login, for the properties:
  began,    \* version of the record when it began
  before,   \* logins that were over when it began
  stored,   \* logins that were over when it put its session in the table
  clean     \* its last DELETE left nothing older on its node

history == <<began, before, stored, clean>>

request == <<given, left, history>>

vars == <<user, mem, table, at, node, got, request>>

Sessions == [by : Logins, version : Versions]

\* The removals at the start of a login.  /authenticate and
\* /internalAuthenticate remove the session once more in their helper.
Rounds(l) == IF KindOf[l] = "appAuthenticate" THEN 1 ELSE 2

\* checkApiPermission of the login's CustomAuthenticationToken ...
Asks(l) == KindOf[l] = "authenticate"

\* ... and of the JobDivaSession it retrieves.
Gives(l) == KindOf[l] # "internalAuthenticate"

LoginPlaces ==
  {"new", "evict", "delete", "memory", "select", "fill", "check", "retrieve",
   "keep", "clear", "insert", "ok", "refused", "failed"}

Over == {"ok", "refused", "failed"}

LookupPlaces == {"idle", "memory", "select", "fill"}

Init ==
  /\ user = 0
  /\ mem = [n \in Nodes |-> Nothing]
  /\ table = {}
  /\ at = [p \in Processes |-> IF p \in Logins THEN "new" ELSE "idle"]
  /\ node = [p \in Processes |-> Nothing]
  /\ got = [p \in Processes |-> Nothing]
  /\ given = [l \in Logins |-> Nothing]
  /\ left = [l \in Logins |-> Rounds(l)]
  /\ began = [l \in Logins |-> 0]
  /\ before = [l \in Logins |-> {}]
  /\ stored = [l \in Logins |-> {}]
  /\ clean = [l \in Logins |-> FALSE]

Goto(p, place) == at' = [at EXCEPT ![p] = place]

Active(l) == at[l] \notin {"new"} \cup Over

-----------------------------------------------------------------------------
(***************************************************************************)
(* JobdivaCacheBasedUserCache                                              *)
(***************************************************************************)

\* Where a process goes with the answer of getUserFromCache.
Answered(p) == IF p \in Logins THEN "check" ELSE "idle"

\* A lookup keeps nothing of a request that is over.
Leave(p, s) ==
  /\ Goto(p, Answered(p))
  /\ got' = [got EXCEPT ![p] = IF p \in Logins THEN s ELSE Nothing]
  /\ node' = IF p \in Logins THEN node ELSE [node EXCEPT ![p] = Nothing]

\* getUserFromCache: cache.get.
LookInMemory(p) ==
  /\ at[p] = "memory"
  /\ \/ /\ mem[node[p]] # Nothing
        /\ Leave(p, mem[node[p]])
     \/ /\ mem[node[p]] = Nothing
        /\ Goto(p, "select")
        /\ UNCHANGED <<node, got>>
  /\ UNCHANGED <<user, mem, table, request>>

\* getUserFromDbCache: the first of the rows, in no given order.
Select(p) ==
  /\ at[p] = "select"
  /\ \/ /\ table = {}
        /\ Leave(p, Nothing)
     \/ \E s \in table :
          /\ got' = [got EXCEPT ![p] = s]
          /\ Goto(p, "fill")
          /\ UNCHANGED node
  /\ UNCHANGED <<user, mem, table, request>>

\* getUserFromCache: cache.put of the row that was read.
Fill(p) ==
  /\ at[p] = "fill"
  /\ mem' = [mem EXCEPT ![node[p]] = got[p]]
  /\ Leave(p, got[p])
  /\ UNCHANGED <<user, table, request>>

\* removeUserFromCache: cache.evict.
Evict(l) ==
  /\ at[l] = "evict"
  /\ mem' = [mem EXCEPT ![node[l]] = Nothing]
  /\ Goto(l, "delete")
  /\ UNCHANGED <<user, table, node, got, request>>

\* No session on node n is from a login of the set old: neither the one in
\* memory, nor one that was read from the table and is on its way there.
NoneOnNode(old, n) ==
  /\ mem[n] # Nothing => mem[n].by \notin old
  /\ \A p \in Processes :
       at[p] = "fill" /\ node[p] = n => got[p].by \notin old

\* Mutant: one removal too many.
RemovedAgain(l) ==
  /\ left' = [left EXCEPT ![l] = @ - 1]
  /\ clean' = [clean EXCEPT ![l] = left[l] = 1 /\ NoneOnNode(before[l], node[l])]
  /\ UNCHANGED <<given, began, before, stored>>
  /\ Goto(l, IF left[l] >= 1 THEN "evict" ELSE "memory")

\* One removal less to come.
Removed(l) ==
  /\ left' = [left EXCEPT ![l] = @ - 1]
  /\ clean' = [clean EXCEPT ![l] = left[l] = 1 /\ NoneOnNode(before[l], node[l])]
  /\ UNCHANGED <<given, began, before, stored>>
  /\ Goto(l, IF left[l] > 1 THEN "evict" ELSE "memory")

\* Mutant: the row stays.
DeleteNothing(l) ==
  /\ at[l] = "delete"
  /\ Removed(l)
  /\ UNCHANGED <<user, mem, table, node, got>>

\* removeUserFromCache: the DELETE.  After the last removal the login goes on
\* to authenticate, which asks the cache.
Delete(l) ==
  /\ at[l] = "delete"
  /\ table' = {}
  /\ Removed(l)
  /\ UNCHANGED <<user, mem, node, got>>

\* putUserInCache: cache.put.
Keep(l) ==
  /\ at[l] = "keep"
  /\ mem' = [mem EXCEPT ![node[l]] = got[l]]
  /\ Goto(l, "clear")
  /\ UNCHANGED <<user, table, node, got, request>>

LoginsOver == {x \in Logins : at[x] \in Over}

\* Mutant: putUserInDbCache only inserts.
ClearNothing(l) ==
  /\ at[l] = "clear"
  /\ stored' = [stored EXCEPT ![l] = LoginsOver]
  /\ Goto(l, "insert")
  /\ UNCHANGED <<user, mem, table, node, got, given, left, began, before, clean>>

\* putUserInDbCache: the DELETE.
Clear(l) ==
  /\ at[l] = "clear"
  /\ table' = {}
  /\ stored' = [stored EXCEPT ![l] = LoginsOver]
  /\ Goto(l, "insert")
  /\ UNCHANGED <<user, mem, node, got, given, left, began, before, clean>>

\* Mutant: the session is kept in memory only.
InsertNothing(l) ==
  /\ at[l] = "insert"
  /\ Goto(l, "ok")
  /\ UNCHANGED <<user, mem, table, node, got, request>>

\* putUserInDbCache: the INSERT; the login answers with a token.
Insert(l) ==
  /\ at[l] = "insert"
  /\ table' = table \cup {got[l]}
  /\ Goto(l, "ok")
  /\ UNCHANGED <<user, mem, node, got, request>>

-----------------------------------------------------------------------------
(***************************************************************************)
(* Logins, and requests with a token                                       *)
(***************************************************************************)

\* One of the endpoints is called, on any node.
Begin(l) ==
  /\ at[l] = "new"
  /\ \E n \in Nodes : node' = [node EXCEPT ![l] = n]
  /\ \E password \in Presents[l] : given' = [given EXCEPT ![l] = password]
  /\ began' = [began EXCEPT ![l] = user]
  /\ before' = [before EXCEPT ![l] = LoginsOver]
  /\ Goto(l, "evict")
  /\ UNCHANGED <<user, mem, table, got, left, stored, clean>>

\* The session in hand is of the kind the request asks for, and the password
\* presented is the one it was retrieved with.
Usable(l) ==
  /\ got[l] # Nothing
  /\ Gives(got[l].by) = Asks(l)
  /\ PasswordAt[got[l].version] = given[l]

\* Mutant: a session with another password refuses the login.
CheckOnce(l) ==
  /\ at[l] = "check"
  /\ \/ /\ Usable(l)
        /\ Goto(l, "ok")
        /\ UNCHANGED got
     \/ /\ ~Usable(l)
        /\ Goto(l, IF got[l] # Nothing /\ Gives(got[l].by) = Asks(l)
                   THEN "refused" ELSE "retrieve")
        /\ got' = [got EXCEPT ![l] = Nothing]
  /\ UNCHANGED <<user, mem, table, node, request>>

\* authenticate: a session of the cache that passes the checks is the answer,
\* and is not put in the cache again; otherwise the user is retrieved.
Check(l) ==
  /\ at[l] = "check"
  /\ \/ /\ Usable(l)
        /\ Goto(l, "ok")
        /\ UNCHANGED got
     \/ /\ ~Usable(l)
        /\ Goto(l, "retrieve")
        /\ got' = [got EXCEPT ![l] = Nothing]
  /\ UNCHANGED <<user, mem, table, node, request>>

\* retrieveUser: JobDivaAuthenticateDao compares the password and makes a
\* session of the record.
Retrieve(l) ==
  /\ at[l] = "retrieve"
  /\ \/ /\ PasswordAt[user] = given[l]
        /\ got' = [got EXCEPT ![l] = [by |-> l, version |-> user]]
        /\ Goto(l, "keep")
     \/ /\ PasswordAt[user] # given[l]
        /\ Goto(l, "refused")
        /\ UNCHANGED got
  /\ UNCHANGED <<user, mem, table, node, request>>

\* JwtRequestFilter: a request with a token of the user, on any node.
Ask(k) ==
  /\ at[k] = "idle"
  /\ \E n \in Nodes : node' = [node EXCEPT ![k] = n]
  /\ Goto(k, "memory")
  /\ UNCHANGED <<user, mem, table, got, request>>

\* Somebody changes the user's record: password, permissions, activation.
Change ==
  /\ user < LastVersion
  /\ user' = user + 1
  /\ UNCHANGED <<mem, table, at, node, got, request>>

\* A statement throws; the request ends with an error.
StatementFails(p) ==
  /\ "statement" \in Faults
  /\ at[p] \in {"delete", "select", "retrieve", "clear", "insert"}
  /\ \/ /\ p \in Logins
        /\ Goto(p, "failed")
        /\ UNCHANGED <<node, got>>
     \/ /\ p \in Lookups
        /\ Leave(p, Nothing)
  /\ UNCHANGED <<user, mem, table, request>>

\* A node stops, with the requests it serves, and starts again.
Crash(n) ==
  /\ "crash" \in Faults
  /\ mem' = [mem EXCEPT ![n] = Nothing]
  /\ at' = [p \in Processes |->
       IF node[p] # n THEN at[p]
       ELSE IF p \in Lookups THEN "idle"
       ELSE IF at[p] \in Over THEN at[p] ELSE "failed"]
  /\ node' = [p \in Processes |->
       IF p \in Lookups /\ node[p] = n THEN Nothing ELSE node[p]]
  /\ got' = [p \in Processes |->
       IF p \in Lookups /\ node[p] = n THEN Nothing ELSE got[p]]
  /\ UNCHANGED <<user, table, request>>

Next ==
  \/ \E l \in Logins :
       \/ Begin(l) \/ Evict(l) \/ Delete(l) \/ Check(l) \/ Retrieve(l)
       \/ Keep(l) \/ Clear(l) \/ Insert(l)
  \/ \E p \in Processes :
       LookInMemory(p) \/ Select(p) \/ Fill(p) \/ StatementFails(p)
  \/ \E k \in Lookups : Ask(k)
  \/ Change
  \/ \E n \in Nodes : Crash(n)

Spec == Init /\ [][Next]_vars

-----------------------------------------------------------------------------

\* Types: a process has a node while it is at work, a session in its hand when
\* it is about to put it somewhere.
TypeOK ==
  /\ user \in Versions
  /\ mem \in [Nodes -> Sessions \cup {Nothing}]
  /\ table \in SUBSET Sessions
  /\ at \in [Processes -> LoginPlaces \cup LookupPlaces]
  /\ \A l \in Logins : at[l] \in LoginPlaces
  /\ \A k \in Lookups : at[k] \in LookupPlaces
  /\ node \in [Processes -> Nodes \cup {Nothing}]
  /\ \A p \in Processes : at[p] \notin {"new", "idle"} => node[p] \in Nodes
  /\ got \in [Processes -> Sessions \cup {Nothing}]
  /\ \A p \in Processes :
       at[p] \in {"fill", "keep", "clear", "insert"} => got[p] \in Sessions
  /\ given \in [Logins -> Passwords \cup {Nothing}]
  /\ left \in [Logins -> 0..2]
  /\ \A l \in Logins : at[l] \in {"new", "evict", "delete"} => left[l] > 0
  /\ began \in [Logins -> Versions]
  /\ before \in [Logins -> SUBSET Logins]
  /\ stored \in [Logins -> SUBSET Logins]
  /\ clean \in [Logins -> BOOLEAN]

\* A login replaces the session for good.  If no older session was in the
\* memory of its node, or read from the table and on its way there, when its
\* last DELETE ran, then no session of a login that was over before it began
\* comes back to that node or to the table, whatever overlaps.
ReplacedForGood ==
  \A l \in Logins : clean[l] =>
    /\ NoneOnNode(before[l], node[l])
    /\ \A s \in table : s.by \notin before[l]

\* putUserInDbCache deletes before it inserts: two rows of a user are left only
\* by two logins that each deleted before the other inserted.
RowsCrossed ==
  \A s, t \in table : s.by \notin stored[t.by]

\* No other login began since l did, and none was under way then.
Alone(l) ==
  \A x \in Logins \ {l} : at[x] = "new" \/ x \in before[l]

\* After a login that met no other login and no late lookup, every node can
\* find its session: the table has it and nothing else, the memory of its node
\* has no other, and it was made of the record as of the login or later.
TokenIsKnown ==
  \A l \in Logins : at[l] = "ok" /\ Alone(l) /\ clean[l] =>
    /\ table = {got[l]}
    /\ mem[node[l]] \in {got[l], Nothing}
    /\ got[l].by = l
    /\ got[l].version >= began[l]

\* "If a user appears to present an incorrect password, the UserDetailsService
\* will be queried to confirm the most up-to-date password": nobody is refused
\* who presented what was the password as long as the login took, whatever the
\* cache said of it.
RefusedByTheRecord ==
  \A l \in Logins : at[l] = "refused" =>
    \E v \in began[l]..user : PasswordAt[v] # given[l]

=============================================================================
