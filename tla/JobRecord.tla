------------------------------- MODULE JobRecord -------------------------------
(***************************************************************************)
(* One job: its row in TRFQ, the client's contacts on it and the users     *)
(* assigned to it, each of whom has a row in TRECRUITERRFQ and, next to    *)
(* the contacts, one in TRFQ_CUSTOMERS with the role as a number.          *)
(* updateJob reads the whole TRFQ row, later the contacts and the users,   *)
(* then both rows of each user the request names, one after the other,     *)
(* checks the request against what it read and writes in one transaction.  *)
(* assignUserToJob, updateUserRoleForJob and unassignUserFromJob write     *)
(* both rows without reading any.                                          *)
(*                                                                         *)
(* All of them write a user's row in TRECRUITERRFQ first, and who has hit  *)
(* it keeps others out until the commit.  So the two writes of a call are  *)
(* one step, unless the first found no row: then other calls come between. *)
(*                                                                         *)
(* Of the columns of TRFQ the model keeps the shown contact and the        *)
(* status.  No contact of the client is at the same time a user.           *)
(***************************************************************************)
EXTENDS Naturals, FiniteSets

CONSTANTS
  Users,        \* recruiters and sales of the team
  HasContact,   \* the users with a row of their own in TCUSTOMER
  Contacts,     \* people of the client
  Statuses,     \* of a job: open, on hold, filled ...
  Given,        \* the sets of roles that requests give to a user
  Requests,     \* calls of updateJob that may be running at a time
  MaxLate,      \* bound: calls at a time whose first write found no row
  Nobody,       \* no contact is shown, no user row, no status logged, no row read
  NoRole        \* no row in TRFQ_CUSTOMERS

Flags == {"S", "PS", "R", "PR"}  \* SALES, LEAD_SALES, RECRUITER, LEAD_RECRUITER

ASSUME JobAssumption ==
  /\ HasContact \subseteq Users
  /\ Given \subseteq SUBSET Flags
  /\ Nobody \notin Contacts \cup Statuses \cup Nat
  /\ \A flags \in SUBSET Flags : flags # Nobody
  /\ NoRole \notin Nat \cup {Nobody}
  /\ MaxLate \in Nat

VARIABLES
  job,       \* TRFQ: the contact shown on the job and the status
  logged,    \* the newest CUR_STATUS in TRFQ_STATUSLOG
  contact,   \* TRFQ_CUSTOMERS: "absent", or the SHOWONJOB of each contact
  user,      \* TRECRUITERRFQ: the flags of each user
  roleId,    \* TRFQ_CUSTOMERS: the ROLEID of each user's own row
  request,   \* the running calls of updateJob and what they read
  late,      \* the users whose row a call did not find that goes on to the other table
  crossed    \* the users whose two rows a removal or a late call came between

vars == <<job, logged, contact, user, roleId, request, late, crossed>>

Job == [customer : Contacts \cup {Nobody}, status : Statuses]
ContactRows == {"absent", "hidden", "shown"}
UserRows == (SUBSET Flags) \cup {Nobody}
RoleIds == {950, 996, 997, 998, 999}

\* The roles a string of updateJob and createJob can stand for: "primary sales"
\* contains "sales", and "primary recruiter" contains "recruiter".
Parsed ==
  {f \in SUBSET Flags : ("PS" \in f => "S" \in f) /\ ("PR" \in f => "R" \in f)}

\* The role number assignUserToJob and updateUserRoleForJob choose.
ChainRole(flags) ==
  CASE "PS" \in flags -> 996
    [] "PS" \notin flags /\ "S" \in flags -> 999
    [] flags \cap {"PS", "S"} = {} /\ "PR" \in flags -> 998
    [] flags \cap {"PS", "S"} = {} /\ "PR" \notin flags /\ "R" \in flags -> 997
    [] OTHER -> 950

\* Mutants: primary recruiters who sell get the recruiter's role; a forgotten case.
SwitchRoleRecruiterFirst(flags) ==
  CASE flags = {} -> 950
    [] flags \in {{"S"}, {"S", "R"}} -> 999
    [] flags \in {{"S", "PS"}, {"S", "PS", "R"}, {"S", "PS", "R", "PR"}} -> 996
    [] flags = {"R"} -> 997
    [] flags \in {{"R", "PR"}, {"S", "R", "PR"}} -> 998
    [] OTHER -> 0

SwitchRoleForgetful(flags) ==
  CASE flags = {} -> 950
    [] flags \in {{"S"}, {"S", "R"}} -> 999
    [] flags \in {{"S", "PS"}, {"S", "PS", "R"}, {"S", "PS", "R", "PR"}} -> 996
    [] flags = {"R"} -> 997
    [] flags = {"R", "PR"} -> 998
    [] OTHER -> 0

\* The role number createJob and updateJob choose.
SwitchRole(flags) ==
  CASE flags = {} -> 950
    [] flags \in {{"S"}, {"S", "R"}, {"S", "R", "PR"}} -> 999
    [] flags \in {{"S", "PS"}, {"S", "PS", "R"}, {"S", "PS", "R", "PR"}} -> 996
    [] flags = {"R"} -> 997
    [] flags = {"R", "PR"} -> 998
    [] OTHER -> 0

Shown(rows) == {c \in DOMAIN rows : rows[c] = "shown"}

\* The primary roles each user has.
Primaries(rows) ==
  [u \in Users |-> IF rows[u] = Nobody THEN {} ELSE rows[u] \cap {"PS", "PR"}]

AtMostOne(S) == \A a, b \in S : a = b

OnePrimary(primaries) ==
  \A p \in {"PS", "PR"} : AtMostOne({u \in Users : p \in primaries[u]})

Request ==
  [pc : {"loaded", "contacts", "users"}, job : Job,
   contact : [Contacts -> ContactRows],
   primary : [Users -> SUBSET {"PS", "PR"}],
   found : [HasContact -> {"unread", "absent", "present"}],
   row : [HasContact -> RoleIds \cup {NoRole, Nobody}]]

Idle == [pc |-> "idle"]

\* What an updateJob has read; it reads the contacts and the users once more later.
Picture ==
  [pc |-> "loaded", job |-> job, contact |-> contact, primary |-> Primaries(user),
   found |-> [u \in HasContact |-> "unread"], row |-> [u \in HasContact |-> Nobody]]

\* A request knows something of a user's row: jobuser has been read.
Asked(r, u) ==
  /\ request[r].pc # "idle"
  /\ u \in HasContact
  /\ request[r].found[u] # "unread"

\* Between the two reads about a user.
HalfRead(r) == {u \in HasContact : Asked(r, u) /\ request[r].row[u] = Nobody}

\* The users whose items the request has read the rows for.
Named(r) == {u \in HasContact : request[r].row[u] # Nobody}

-----------------------------------------------------------------------------

\* The job as createJob leaves it.
Created ==
  /\ job \in Job
  /\ contact \in [Contacts -> ContactRows]
  /\ Shown(contact) = {job.customer} \ {Nobody}
  /\ user \in [Users -> (Given \cap Parsed) \cup {Nobody}]
  /\ \A u \in Users : user[u] # Nobody => u \in HasContact
  /\ OnePrimary(Primaries(user))
  /\ roleId = [u \in Users |-> IF user[u] = Nobody THEN NoRole
                                                   ELSE SwitchRole(user[u])]
  /\ logged = Nobody

Init ==
  /\ Created
  /\ request = [r \in Requests |-> Idle]
  /\ late = {}
  /\ crossed = {}

\* assignUserToJob: a user without a customer row gets no contact row.  The keys of
\* the two tables allow a user one row in each.
Assign(u, flags) ==
  /\ user[u] = Nobody
  /\ u \in HasContact => roleId[u] = NoRole
  /\ user' = [user EXCEPT ![u] = flags]
  /\ roleId' = IF u \in HasContact
               THEN [roleId EXCEPT ![u] = ChainRole(flags)] ELSE roleId
  /\ UNCHANGED <<job, logged, contact, request, late, crossed>>

\* updateUserRoleForJob: both UPDATEs hit the rows there are.
UpdateUserRole(u, flags) ==
  /\ user[u] # Nobody
  /\ user' = [user EXCEPT ![u] = flags]
  /\ roleId' = IF roleId[u] # NoRole
               THEN [roleId EXCEPT ![u] = ChainRole(flags)] ELSE roleId
  /\ UNCHANGED <<job, logged, contact, request, late, crossed>>

\* unassignUserFromJob.  An updateJob that has read a row of the user is crossed.
Unassign(u) ==
  /\ user[u] # Nobody
  /\ user' = [user EXCEPT ![u] = Nobody]
  /\ roleId' = [roleId EXCEPT ![u] = NoRole]
  /\ crossed' = crossed \cup {v \in {u} : \E r \in Requests : Asked(r, v)}
  /\ UNCHANGED <<job, logged, contact, request, late>>

\* The first statement of updateUserRoleForJob or unassignUserFromJob finds no row:
\* nothing is locked, and the call goes on.
MissUser(u) ==
  /\ user[u] = Nobody
  /\ Cardinality(late) < MaxLate
  /\ late' = late \cup {u}
  /\ UNCHANGED <<job, logged, contact, user, roleId, request, crossed>>

\* Its second statement, on the contact row there is by then: only now it shows which
\* of the two it is (a removal where flags is Nobody).
FinishLate(u, flags) ==
  /\ u \in late
  /\ late' = late \ {u}
  /\ roleId' = [roleId EXCEPT ![u] = IF flags = Nobody \/ roleId[u] = NoRole
                                     THEN NoRole ELSE ChainRole(flags)]
  /\ crossed' = crossed \cup {v \in {u} : user[v] # Nobody}
  /\ UNCHANGED <<job, logged, contact, user, request>>

\* updateJob reads the TRFQ row ...
Load(r) ==
  /\ request[r].pc = "idle"
  /\ request' = [request EXCEPT ![r] = Picture]
  /\ UNCHANGED <<job, logged, contact, user, roleId, late, crossed>>

\* ... the contacts ...
ReadContacts(r) ==
  /\ request[r].pc = "loaded"
  /\ request' = [request EXCEPT ![r].pc = "contacts", ![r].contact = contact]
  /\ UNCHANGED <<job, logged, contact, user, roleId, late, crossed>>

\* ... the users and their primary roles ...
ReadUsers(r) ==
  /\ request[r].pc = "contacts"
  /\ request' = [request EXCEPT ![r].pc = "users",
                                ![r].primary = Primaries(user)]
  /\ UNCHANGED <<job, logged, contact, user, roleId, late, crossed>>

\* ... and for each user the request names, in its order, jobuser ...
ReadUser(r, u) ==
  /\ request[r].pc = "users"
  /\ HalfRead(r) = {}
  /\ request[r].found[u] = "unread"
  /\ request' = [request EXCEPT ![r].found[u] =
                   IF user[u] = Nobody THEN "absent" ELSE "present"]
  /\ UNCHANGED <<job, logged, contact, user, roleId, late, crossed>>

\* ... and the row in TRFQ_CUSTOMERS.
ReadContactRow(r, u) ==
  /\ request[r].pc = "users"
  /\ u \in HalfRead(r)
  /\ request' = [request EXCEPT ![r].row[u] = roleId[u]]
  /\ UNCHANGED <<job, logged, contact, user, roleId, late, crossed>>

\* What a request may ask for: new rows of some contacts, of the users it names.
ContactChanges == UNION {[C -> ContactRows] : C \in SUBSET Contacts}

UserChanges(r) == [Named(r) -> (Given \cap Parsed) \cup {Nobody}]

Changed(rows, changes) ==
  [x \in DOMAIN rows |-> IF x \in DOMAIN changes THEN changes[x] ELSE rows[x]]

\* The checks of the contacts: exactly one shown among those read and changed,
\* and no delete of a contact that is not there.
ContactsFit(r, changes) ==
  DOMAIN changes # {} =>
    /\ \E c \in Contacts : Shown(Changed(request[r].contact, changes)) = {c}
    /\ \A c \in DOMAIN changes : changes[c] = "absent" => contact[c] # "absent"

\* Mutant: users of the job that the request does not name are not counted.
UsersFitNamedOnly(r, changes) ==
  DOMAIN changes # {} =>
    /\ OnePrimary(Primaries(Changed([u \in Users |-> Nobody], changes)))
    /\ \A u \in DOMAIN changes :
         changes[u] = Nobody => request[r].found[u] = "present"

\* The checks of the users: one primary of each kind among those read and changed,
\* and no delete of a user who is not there.
UsersFit(r, changes) ==
  DOMAIN changes # {} =>
    /\ OnePrimary(Changed(request[r].primary,
                          [u \in DOMAIN changes |->
                             IF changes[u] = Nobody
                             THEN {} ELSE changes[u] \cap {"PS", "PR"}]))
    /\ \A u \in DOMAIN changes :
         changes[u] = Nobody => request[r].found[u] = "present"

\* The INSERTs find no row with their key.
KeysAreFree(r, changes) ==
  \A u \in {v \in DOMAIN changes : changes[v] # Nobody} :
    /\ request[r].found[u] = "absent" => user[u] = Nobody
    /\ request[r].row[u] = NoRole => roleId[u] = NoRole

\* The rows in TRECRUITERRFQ then: a user who was found is updated or deleted, if
\* still there, the others are inserted.
ChangedUsers(r, changes) ==
  [u \in Users |->
     IF /\ u \in DOMAIN changes
        /\ request[r].found[u] = "present" => user[u] # Nobody
     THEN changes[u] ELSE user[u]]

\* The role of a new contact row or of one that was read: with a new user a row that
\* is there keeps its role.
RoleToWrite(r, u, flags) ==
  IF request[r].found[u] = "absent" /\ request[r].row[u] # NoRole
  THEN request[r].row[u] ELSE SwitchRole(flags)

\* The rows in TRFQ_CUSTOMERS then: one that was read is updated, if still there.
ChangedRoles(r, changes) ==
  [u \in Users |->
     IF \/ u \notin DOMAIN changes
        \/ request[r].row[u] # NoRole /\ roleId[u] = NoRole
     THEN roleId[u]
     ELSE IF changes[u] = Nobody THEN NoRole ELSE RoleToWrite(r, u, changes[u])]

\* Mutants: the shown contact is not copied; the new status is logged, but the
\* one that was read is written.
RowToWriteFirst(r, changes, status) ==
  [customer |-> request[r].job.customer, status |-> status]

RowToWriteStale(r, changes, status) ==
  [customer |-> IF DOMAIN changes = {} THEN request[r].job.customer
                ELSE CHOOSE c \in Contacts :
                       Shown(Changed(request[r].contact, changes)) = {c},
   status |-> request[r].job.status]

\* The row of TRFQ that updateJob writes: the one it read, changed.
RowToWrite(r, changes, status) ==
  [customer |-> IF DOMAIN changes = {} THEN request[r].job.customer
                ELSE CHOOSE c \in Contacts :
                       Shown(Changed(request[r].contact, changes)) = {c},
   status |-> status]

\* The writes of updateJob and the commit.  Without a new status the one read is
\* written again.
Save(r) ==
  /\ request[r].pc = "users"
  /\ HalfRead(r) = {}
  /\ \E cs \in ContactChanges, status \in Statuses :
       /\ ContactsFit(r, cs)
       /\ contact' = Changed(contact, cs)
       /\ logged' = IF status = request[r].job.status THEN logged ELSE status
       /\ job' = RowToWrite(r, cs, status)
  /\ \E us \in UserChanges(r) :
       /\ UsersFit(r, us)
       /\ KeysAreFree(r, us)
       /\ user' = ChangedUsers(r, us)
       /\ roleId' = ChangedRoles(r, us)
       /\ crossed' = crossed \cup {u \in Named(r) :
                        us[u] = Nobody /\ \E q \in Requests \ {r} : Asked(q, u)}
  /\ request' = [request EXCEPT ![r] = Idle]
  /\ UNCHANGED late

\* Any check or statement fails: the transaction is rolled back.
RollBack(r) ==
  /\ request[r].pc # "idle"
  /\ request' = [request EXCEPT ![r] = Idle]
  /\ UNCHANGED <<job, logged, contact, user, roleId, late, crossed>>

Next ==
  \/ \E u \in Users, flags \in Given : Assign(u, flags) \/ UpdateUserRole(u, flags)
  \/ \E u \in Users : Unassign(u)
  \/ \E u \in HasContact : MissUser(u)
  \/ \E u \in HasContact, flags \in Given \cup {Nobody} : FinishLate(u, flags)
  \/ \E r \in Requests :
       Load(r) \/ ReadContacts(r) \/ ReadUsers(r) \/ Save(r) \/ RollBack(r)
  \/ \E r \in Requests, u \in HasContact : ReadUser(r, u) \/ ReadContactRow(r, u)

Spec == Init /\ [][Next]_vars

-----------------------------------------------------------------------------
(* Properties *)

\* Every variable has its type (the rows of a job and the running updateJob).
TypeOK ==
  /\ job \in Job
  /\ logged \in Statuses \cup {Nobody}
  /\ contact \in [Contacts -> ContactRows]
  /\ user \in [Users -> UserRows]
  /\ roleId \in [Users -> RoleIds \cup {NoRole}]
  /\ request \in [Requests -> Request \cup {Idle}]
  /\ late \subseteq HasContact
  /\ crossed \subseteq HasContact

\* The two tables tell the same of each user: the number in TRFQ_CUSTOMERS is the
\* one for the flags in TRECRUITERRFQ, whichever of createJob, updateJob (the
\* switch) and assignUserToJob, updateUserRoleForJob (the chain of ifs) wrote
\* them last, and neither row is there without the other.  The exceptions are the
\* users removed after an updateJob had read a row of theirs, and those assigned
\* between the two writes of a role change or a removal.
RolesAgree ==
  \A u \in HasContact \ crossed :
    roleId[u] = IF user[u] = Nobody THEN NoRole ELSE ChainRole(user[u])

\* With one updateJob at a time, the contact in the TRFQ row is the one contact
\* that is flagged as shown, and a job has none of the one only if it has none of
\* the other.
ShownIsCustomer == Shown(contact) = {job.customer} \ {Nobody}

\* With one updateJob at a time, the status of the job is the last one in its
\* status log.
StatusIsLogged == logged # Nobody => job.status = logged

\* An updateJob that changes users, and whose picture of the primary roles is still
\* true when it writes, leaves at most one primary recruiter and one primary sales,
\* however many assignUserToJob and updateUserRoleForJob had left there.
UpdateKeepsOnePrimary ==
  [][\A r \in Requests :
       /\ request[r].pc = "users" /\ request'[r].pc = "idle"
       /\ user' # user
       /\ request[r].primary = Primaries(user)
       => OnePrimary(Primaries(user'))]_vars

\* "There should be one and only one contact shown on job" (updateJob), or none yet.
OneShown == AtMostOne(Shown(contact))

=============================================================================
