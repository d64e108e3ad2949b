---------------------------- MODULE JobRecordProofs ----------------------------
(* Theorems about JobRecord, for any users, contacts and concurrent requests. *)
EXTENDS JobRecord, TLAPS

\* createJob and updateJob know nine sets of flags.
LEMMA ParsedSets ==
  ASSUME NEW f \in Parsed
  PROVE  f \in {{}, {"S"}, {"S", "R"}, {"S", "R", "PR"}, {"S", "PS"},
                {"S", "PS", "R"}, {"S", "PS", "R", "PR"}, {"R"}, {"R", "PR"}}
<1>1. /\ f \subseteq {"S", "PS", "R", "PR"}
      /\ "PS" \in f => "S" \in f
      /\ "PR" \in f => "R" \in f
  BY DEF Parsed, Flags
<1>2. CASE "S" \notin f /\ "R" \notin f
  <2>1. f = {} BY <1>1, <1>2
  <2> QED BY <2>1
<1>3. CASE "S" \notin f /\ "R" \in f
  <2>1. f = {"R"} \/ f = {"R", "PR"} BY <1>1, <1>3
  <2> QED BY <2>1
<1>4. CASE "S" \in f /\ "R" \notin f
  <2>1. f = {"S"} \/ f = {"S", "PS"} BY <1>1, <1>4
  <2> QED BY <2>1
<1>5. CASE "S" \in f /\ "R" \in f
  <2>1. CASE "PS" \in f
    <3>1. f = {"S", "PS", "R"} \/ f = {"S", "PS", "R", "PR"} BY <1>1, <1>5, <2>1
    <3> QED BY <3>1
  <2>2. CASE "PS" \notin f
    <3>1. f = {"S", "R"} \/ f = {"S", "R", "PR"} BY <1>1, <1>5, <2>2
    <3> QED BY <3>1
  <2> QED BY <2>1, <2>2
<1> QED BY <1>2, <1>3, <1>4, <1>5

\* On those nine the switch chooses the same number as the chain of ifs.
LEMMA SameRole ==
  ASSUME NEW f \in Parsed
  PROVE  SwitchRole(f) = ChainRole(f)
<1>1. f \in {{}, {"S"}, {"S", "R"}, {"S", "R", "PR"}, {"S", "PS"},
             {"S", "PS", "R"}, {"S", "PS", "R", "PR"}, {"R"}, {"R", "PR"}}
  BY ParsedSets
<1>2. CASE f = {}
  BY <1>2 DEF SwitchRole, ChainRole
<1>3. CASE f = {"S"}
  BY <1>3 DEF SwitchRole, ChainRole
<1>4. CASE f = {"S", "R"}
  BY <1>4 DEF SwitchRole, ChainRole
<1>5. CASE f = {"S", "R", "PR"}
  BY <1>5 DEF SwitchRole, ChainRole
<1>6. CASE f = {"S", "PS"}
  BY <1>6 DEF SwitchRole, ChainRole
<1>7. CASE f = {"S", "PS", "R"}
  BY <1>7 DEF SwitchRole, ChainRole
<1>8. CASE f = {"S", "PS", "R", "PR"}
  BY <1>8 DEF SwitchRole, ChainRole
<1>9. CASE f = {"R"}
  BY <1>9 DEF SwitchRole, ChainRole
<1>10. CASE f = {"R", "PR"}
  BY <1>10 DEF SwitchRole, ChainRole
<1> QED BY <1>1, <1>2, <1>3, <1>4, <1>5, <1>6, <1>7, <1>8, <1>9, <1>10

\* The chain of ifs has a number for every set of flags.
LEMMA ChainType ==
  ASSUME NEW f \in SUBSET Flags
  PROVE  ChainRole(f) \in RoleIds
BY DEF ChainRole, RoleIds

LEMMA SwitchType ==
  ASSUME NEW f \in Parsed
  PROVE  SwitchRole(f) \in RoleIds
<1>1. f \in SUBSET Flags BY DEF Parsed
<1> QED BY <1>1, ChainType, SameRole

-----------------------------------------------------------------------------

\* What a request asks for changes some rows and keeps the type of the table.
LEMMA ChangedType ==
  ASSUME NEW D, NEW T, NEW rows \in [D -> T],
         NEW E \in SUBSET D, NEW changes \in [E -> T]
  PROVE  /\ Changed(rows, changes) \in [D -> T]
         /\ E = {} => Changed(rows, changes) = rows
BY DEF Changed

LEMMA ContactChangesType ==
  ASSUME NEW cs \in ContactChanges
  PROVE  /\ DOMAIN cs \in SUBSET Contacts
         /\ cs \in [DOMAIN cs -> ContactRows]
BY DEF ContactChanges

LEMMA UserChangesType ==
  ASSUME NEW r \in Requests, NEW us \in UserChanges(r)
  PROVE  /\ DOMAIN us = Named(r)
         /\ Named(r) \in SUBSET HasContact
         /\ Named(r) \in SUBSET Users
         /\ us \in [Named(r) -> Parsed \cup {Nobody}]
         /\ us \in [Named(r) -> UserRows]
<1>1. DOMAIN us = Named(r) /\ us \in [Named(r) -> (Given \cap Parsed) \cup {Nobody}]
  BY DEF UserChanges
<1>2. Parsed \subseteq SUBSET Flags
  BY DEF Parsed
<1>3. (Given \cap Parsed) \cup {Nobody} \subseteq UserRows
  BY <1>2 DEF UserRows
<1>4. Named(r) \in SUBSET HasContact /\ Named(r) \in SUBSET Users
  BY JobAssumption DEF Named
<1> QED BY <1>1, <1>3, <1>4

LEMMA PrimariesType ==
  ASSUME NEW rows \in [Users -> UserRows]
  PROVE  Primaries(rows) \in [Users -> SUBSET {"PS", "PR"}]
BY DEF Primaries

LEMMA PictureType ==
  ASSUME TypeOK
  PROVE  Picture \in Request
<1>1. Primaries(user) \in [Users -> SUBSET {"PS", "PR"}]
  BY PrimariesType DEF TypeOK
<1>2. /\ [u \in HasContact |-> "unread"] \in [HasContact -> {"unread", "absent", "present"}]
      /\ [u \in HasContact |-> Nobody] \in [HasContact -> RoleIds \cup {NoRole, Nobody}]
  OBVIOUS
<1> QED BY <1>1, <1>2 DEF TypeOK, Picture, Request

\* A request knows something of a user only while it works on the users.
LEMMA AskedType ==
  ASSUME TypeOK, NEW r \in Requests, NEW u, Asked(r, u)
  PROVE  /\ u \in HasContact
         /\ request[r] \in Request
         /\ request[r].found[u] \in {"absent", "present"}
         /\ request[r].row[u] \in RoleIds \cup {NoRole, Nobody}
<1>1. u \in HasContact /\ request[r] \in Request
  BY DEF Asked, TypeOK, Idle
<1>2. /\ request[r].found \in [HasContact -> {"unread", "absent", "present"}]
      /\ request[r].row \in [HasContact -> RoleIds \cup {NoRole, Nobody}]
  BY <1>1 DEF Request
<1> QED BY <1>1, <1>2 DEF Asked

LEMMA ChangedUsersType ==
  ASSUME TypeOK, NEW r \in Requests, NEW us \in UserChanges(r)
  PROVE  ChangedUsers(r, us) \in [Users -> UserRows]
<1>1. DOMAIN us = Named(r) /\ us \in [Named(r) -> UserRows]
  BY UserChangesType
<1>2. \A u \in DOMAIN us : us[u] \in UserRows
  BY <1>1
<1>3. \A u \in Users : user[u] \in UserRows
  BY DEF TypeOK
<1> QED BY <1>2, <1>3 DEF ChangedUsers

LEMMA ChangedRolesType ==
  ASSUME TypeOK, NEW r \in Requests, request[r].pc = "users",
         NEW us \in UserChanges(r)
  PROVE  ChangedRoles(r, us) \in [Users -> RoleIds \cup {NoRole}]
<1> SUFFICES ASSUME NEW u \in Users
             PROVE  ChangedRoles(r, us)[u] \in RoleIds \cup {NoRole}
  BY DEF ChangedRoles
<1>1. /\ DOMAIN us = Named(r)
      /\ us \in [Named(r) -> Parsed \cup {Nobody}]
      /\ Named(r) \in SUBSET HasContact
  BY UserChangesType
<1>2. roleId[u] \in RoleIds \cup {NoRole}
  BY DEF TypeOK
<1>3. CASE u \in DOMAIN us /\ us[u] # Nobody
  <2>1. us[u] \in Parsed
    BY <1>1, <1>3
  <2>2. SwitchRole(us[u]) \in RoleIds
    BY <2>1, SwitchType
  <2>3. request[r].row[u] \in RoleIds \cup {NoRole}
    <3>1. u \in HasContact /\ request[r].row[u] # Nobody
      BY <1>1, <1>3 DEF Named
    <3>2. request[r] \in Request
      BY DEF TypeOK, Idle
    <3>3. request[r].row \in [HasContact -> RoleIds \cup {NoRole, Nobody}]
      BY <3>2 DEF Request
    <3> QED BY <3>1, <3>3
  <2>4. RoleToWrite(r, u, us[u]) \in RoleIds \cup {NoRole}
    BY <2>2, <2>3 DEF RoleToWrite
  <2> QED BY <1>2, <1>3, <2>4 DEF ChangedRoles
<1>4. CASE ~(u \in DOMAIN us /\ us[u] # Nobody)
  BY <1>2, <1>4 DEF ChangedRoles
<1> QED BY <1>3, <1>4

\* A saved TRFQ row has a contact of the client or none.
LEMMA RowToWriteType ==
  ASSUME TypeOK, NEW r \in Requests, request[r].pc = "users",
         NEW cs \in ContactChanges, NEW status \in Statuses,
         ContactsFit(r, cs)
  PROVE  RowToWrite(r, cs, status) \in Job
<1>1. request[r] \in Request
  BY DEF TypeOK, Idle
<1>2. request[r].job.customer \in Contacts \cup {Nobody}
  BY <1>1 DEF Request, Job
<1>3. CASE DOMAIN cs = {}
  BY <1>2, <1>3 DEF RowToWrite, Job
<1>4. CASE DOMAIN cs # {}
  BY <1>4 DEF RowToWrite, ContactsFit, Job
<1> QED BY <1>3, <1>4

-----------------------------------------------------------------------------

LEMMA InitType == Init => TypeOK
<1> SUFFICES ASSUME Init PROVE TypeOK OBVIOUS
<1>1. user \in [Users -> UserRows]
  <2>1. Parsed \subseteq SUBSET Flags
    BY DEF Parsed
  <2>2. (Given \cap Parsed) \cup {Nobody} \subseteq UserRows
    BY <2>1 DEF UserRows
  <2> QED BY <2>2 DEF Init, Created
<1>2. roleId \in [Users -> RoleIds \cup {NoRole}]
  <2>1. user \in [Users -> Parsed \cup {Nobody}]
    BY DEF Init, Created
  <2>2. \A u \in Users : user[u] # Nobody => SwitchRole(user[u]) \in RoleIds
    BY <2>1, SwitchType
  <2> QED BY <2>2 DEF Init, Created
<1>3. late = {} /\ crossed = {}
  BY DEF Init
<1> QED BY <1>1, <1>2, <1>3 DEF TypeOK, Init, Created

LEMMA NextType == TypeOK /\ [Next]_vars => TypeOK'
<1> SUFFICES ASSUME TypeOK, [Next]_vars PROVE TypeOK' OBVIOUS
<1>1. ASSUME NEW u \in Users, NEW flags \in Given,
             Assign(u, flags) \/ UpdateUserRole(u, flags)
      PROVE  TypeOK'
  <2>1. flags \in SUBSET Flags
    BY JobAssumption
  <2>2. flags \in UserRows /\ ChainRole(flags) \in RoleIds
    BY <2>1, ChainType DEF UserRows
  <2> QED BY <1>1, <2>2 DEF Assign, UpdateUserRole, TypeOK
<1>2. ASSUME NEW u \in Users, Unassign(u)
      PROVE  TypeOK'
  <2>1. crossed' \subseteq HasContact
    BY <1>2 DEF Unassign, Asked, TypeOK
  <2> QED BY <1>2, <2>1 DEF Unassign, TypeOK, UserRows
<1>3. ASSUME NEW u \in HasContact, NEW flags \in Given \cup {Nobody},
             MissUser(u) \/ FinishLate(u, flags)
      PROVE  TypeOK'
  <2>1. late' \subseteq HasContact
    BY <1>3 DEF MissUser, FinishLate, TypeOK
  <2>2. CASE MissUser(u)
    BY <2>1, <2>2 DEF MissUser, TypeOK
  <2>3. CASE FinishLate(u, flags)
    <3>1. flags # Nobody => ChainRole(flags) \in RoleIds
      BY ChainType, JobAssumption
    <3>2. crossed' \subseteq HasContact
      BY <2>3 DEF FinishLate, TypeOK
    <3>3. roleId' \in [Users -> RoleIds \cup {NoRole}]
      BY <2>3, <3>1, JobAssumption DEF FinishLate, TypeOK
    <3> QED BY <2>1, <2>3, <3>2, <3>3 DEF FinishLate, TypeOK
  <2> QED BY <1>3, <2>2, <2>3
<1>4. ASSUME NEW r \in Requests, NEW u \in HasContact,
             ReadUser(r, u) \/ ReadContactRow(r, u)
      PROVE  TypeOK'
  <2>1. request[r] \in Request
    BY <1>4 DEF ReadUser, ReadContactRow, TypeOK, Idle
  <2>2. u \in Users /\ roleId[u] \in RoleIds \cup {NoRole}
    BY JobAssumption DEF TypeOK
  <2>3. CASE ReadUser(r, u)
    <3>1. request'[r] = [request[r] EXCEPT !.found[u] =
                           IF user[u] = Nobody THEN "absent" ELSE "present"]
      BY <2>3 DEF ReadUser, TypeOK
    <3>2. request'[r] \in Request
      BY <2>1, <3>1 DEF Request
    <3> QED BY <2>3, <3>2 DEF ReadUser, TypeOK
  <2>4. CASE ReadContactRow(r, u)
    <3>1. request'[r] = [request[r] EXCEPT !.row[u] = roleId[u]]
      BY <2>4 DEF ReadContactRow, TypeOK
    <3>2. request'[r] \in Request
      BY <2>1, <2>2, <3>1 DEF Request
    <3> QED BY <2>4, <3>2 DEF ReadContactRow, TypeOK
  <2> QED BY <1>4, <2>3, <2>4
<1>5. ASSUME NEW r \in Requests, Load(r)
      PROVE  TypeOK'
  BY <1>5, PictureType DEF Load, TypeOK
<1>6. ASSUME NEW r \in Requests, ReadContacts(r) \/ ReadUsers(r)
      PROVE  TypeOK'
  <2>1. request[r] \in Request
    BY <1>6 DEF ReadContacts, ReadUsers, TypeOK, Idle
  <2>2. Primaries(user) \in [Users -> SUBSET {"PS", "PR"}]
    BY PrimariesType DEF TypeOK
  <2>3. request'[r] \in Request
    BY <1>6, <2>1, <2>2 DEF ReadContacts, ReadUsers, TypeOK, Request
  <2> QED BY <1>6, <2>3 DEF ReadContacts, ReadUsers, TypeOK
<1>7. ASSUME NEW r \in Requests, Save(r)
      PROVE  TypeOK'
  <2>1. PICK cs \in ContactChanges, status \in Statuses :
          /\ ContactsFit(r, cs)
          /\ contact' = Changed(contact, cs)
          /\ logged' = IF status = request[r].job.status THEN logged ELSE status
          /\ job' = RowToWrite(r, cs, status)
    BY <1>7 DEF Save
  <2>2. PICK us \in UserChanges(r) :
          /\ user' = ChangedUsers(r, us)
          /\ roleId' = ChangedRoles(r, us)
          /\ crossed' \subseteq crossed \cup Named(r)
    BY <1>7 DEF Save
  <2>3. job' \in Job
    BY <1>7, <2>1, RowToWriteType DEF Save
  <2>4. contact' \in [Contacts -> ContactRows]
    BY <2>1, ContactChangesType, ChangedType DEF TypeOK
  <2>5. user' \in [Users -> UserRows]
    BY <2>2, ChangedUsersType
  <2>6. roleId' \in [Users -> RoleIds \cup {NoRole}]
    BY <1>7, <2>2, ChangedRolesType DEF Save
  <2>7. request' \in [Requests -> Request \cup {Idle}]
    BY <1>7 DEF Save, TypeOK
  <2>8. crossed' \subseteq HasContact
    BY <2>2 DEF Named, TypeOK
  <2>9. logged' \in Statuses \cup {Nobody}
    BY <2>1 DEF TypeOK
  <2>10. late' = late
    BY <1>7 DEF Save
  <2> QED BY <2>3, <2>4, <2>5, <2>6, <2>7, <2>8, <2>9, <2>10 DEF TypeOK
<1>8. ASSUME NEW r \in Requests, RollBack(r)
      PROVE  TypeOK'
  BY <1>8 DEF RollBack, TypeOK
<1>9. CASE UNCHANGED vars
  BY <1>9 DEF vars, TypeOK
<1> QED BY <1>1, <1>2, <1>3, <1>4, <1>5, <1>6, <1>7, <1>8, <1>9 DEF Next

\* Type correctness, for any users, contacts, roles and concurrent requests.
THEOREM TypeCorrect == Spec => []TypeOK
BY InitType, NextType, PTL DEF Spec

\* What agreement means for one user.
Agree(u) == roleId[u] = IF user[u] = Nobody THEN NoRole ELSE ChainRole(user[u])

\* What a running updateJob has read of a user whom nothing crossed: one who was found
\* is still there and has a contact row, and so is one who has a contact row; the
\* user's row is read first.
ReadInv(r, u) ==
  request[r].pc # "idle" =>
    /\ request[r].found[u] = "present" =>
         user[u] # Nobody /\ request[r].row[u] # NoRole
    /\ request[r].row[u] \notin {Nobody, NoRole} => user[u] # Nobody
    /\ request[r].found[u] = "unread" => request[r].row[u] = Nobody

AgreeInv ==
  \A u \in HasContact \ crossed : Agree(u) /\ \A r \in Requests : ReadInv(r, u)

\* A user whom nothing crosses has a row in both tables or in none.
LEMMA BothOrNone ==
  ASSUME TypeOK, NEW u \in HasContact, Agree(u)
  PROVE  roleId[u] = NoRole <=> user[u] = Nobody
<1>1. user[u] # Nobody => ChainRole(user[u]) \in RoleIds
  BY ChainType, JobAssumption DEF TypeOK, UserRows
<1> QED BY <1>1, JobAssumption DEF Agree, RoleIds

\* What a step that leaves a user's rows there if they were, and leaves what requests
\* know of the user, leaves true of them.
LEMMA ReadStays ==
  ASSUME NEW u \in HasContact, NEW r \in Requests, ReadInv(r, u),
         user[u] # Nobody => user'[u] # Nobody,
         request'[r] = request[r]
  PROVE  ReadInv(r, u)'
BY DEF ReadInv

\* updateJob's writes about a user nobody crossed leave the rows in agreement.
LEMMA SaveAgrees ==
  ASSUME TypeOK, NEW r \in Requests, NEW v \in HasContact, Agree(v), ReadInv(r, v),
         request[r].pc = "users", HalfRead(r) = {},
         NEW us \in UserChanges(r), UsersFit(r, us), KeysAreFree(r, us),
         user' = ChangedUsers(r, us), roleId' = ChangedRoles(r, us)
  PROVE  /\ Agree(v)'
         /\ v \notin DOMAIN us => user'[v] = user[v]
         /\ v \in DOMAIN us => user'[v] = us[v]
<1>0. v \in Users /\ (roleId[v] = NoRole <=> user[v] = Nobody)
  BY BothOrNone, JobAssumption
<1>1. /\ DOMAIN us = Named(r)
      /\ us \in [Named(r) -> Parsed \cup {Nobody}]
  BY UserChangesType
<1>2. CASE v \notin DOMAIN us
  BY <1>0, <1>2 DEF ChangedUsers, ChangedRoles, Agree
<1>3. ASSUME v \in DOMAIN us
      PROVE  Agree(v)' /\ user'[v] = us[v]
  <2>1. request[r] \in Request
    BY DEF TypeOK, Idle
  <2>2. /\ request[r].found[v] \in {"unread", "absent", "present"}
        /\ request[r].row[v] # Nobody
    BY <1>1, <1>3, <2>1 DEF Request, Named
  <2>3. CASE us[v] = Nobody
    <3>1. request[r].found[v] = "present"
      BY <1>3, <2>3 DEF UsersFit
    <3>2. user'[v] = Nobody
      BY <1>0, <1>3, <2>3 DEF ChangedUsers
    <3>3. roleId'[v] = NoRole
      BY <1>0, <1>3, <2>3 DEF ChangedRoles
    <3> QED BY <2>3, <3>2, <3>3 DEF Agree
  <2>4. CASE us[v] # Nobody
    <3>1. us[v] \in Parsed /\ SwitchRole(us[v]) = ChainRole(us[v])
      BY <1>1, <1>3, <2>4, SameRole
    <3>2. CASE request[r].found[v] = "present"
      <4>1. user[v] # Nobody /\ roleId[v] # NoRole
        BY <1>0, <3>2 DEF ReadInv
      <4>2. user'[v] = us[v]
        BY <1>0, <1>3, <4>1 DEF ChangedUsers
      <4>3. roleId'[v] = SwitchRole(us[v])
        BY <1>0, <1>3, <2>4, <3>2, <4>1 DEF ChangedRoles, RoleToWrite
      <4> QED BY <2>4, <3>1, <4>2, <4>3 DEF Agree
    <3>3. CASE request[r].found[v] = "absent"
      <4>1. user[v] = Nobody
        BY <1>3, <2>4, <3>3 DEF KeysAreFree
      <4>2. request[r].row[v] = NoRole
        BY <2>2, <3>3, <4>1 DEF ReadInv
      <4>3. user'[v] = us[v]
        BY <1>0, <1>3, <3>3 DEF ChangedUsers
      <4>4. roleId'[v] = SwitchRole(us[v])
        BY <1>0, <1>3, <2>4, <4>2 DEF ChangedRoles, RoleToWrite
      <4> QED BY <2>4, <3>1, <4>3, <4>4 DEF Agree
    <3>4. request[r].found[v] # "unread"
      BY <2>2 DEF ReadInv
    <3> QED BY <2>2, <3>2, <3>3, <3>4
  <2> QED BY <2>3, <2>4
<1> QED BY <1>2, <1>3

\* A step that leaves a user's two rows and what is known of them alone, or removes
\* the user while no updateJob knows anything.
LEMMA OthersAgree ==
  ASSUME TypeOK, NEW v \in HasContact, Agree(v), \A r \in Requests : ReadInv(r, v),
         \/ user'[v] = user[v] /\ roleId'[v] = roleId[v]
         \/ /\ user'[v] = Nobody /\ roleId'[v] = NoRole
            /\ \A r \in Requests : ~Asked(r, v),
         request' = request
  PROVE  Agree(v)' /\ \A r \in Requests : ReadInv(r, v)'
<1>1. Agree(v)'
  BY DEF Agree
<1>2. ASSUME NEW r \in Requests
      PROVE  ReadInv(r, v)'
  <2>1. CASE user'[v] = user[v]
    BY <2>1 DEF ReadInv
  <2>2. CASE ~Asked(r, v)
    BY <2>2 DEF ReadInv, Asked
  <2> QED BY <2>1, <2>2
<1> QED BY <1>1, <1>2

\* The two tables agree on every user's role, however many updateJob run at a time
\* and whatever assignments, role changes and removals come in between, but for the
\* users removed after an updateJob had read a row of theirs and those assigned
\* between the two writes of a role change or a removal.
THEOREM RolesAgreeAlways == Spec => []RolesAgree
<1>1. Init => AgreeInv
  <2> SUFFICES ASSUME Init, NEW u \in HasContact
               PROVE  Agree(u) /\ \A r \in Requests : ReadInv(r, u)
    BY DEF AgreeInv
  <2>1. u \in Users /\ user[u] \in Parsed \cup {Nobody}
    BY JobAssumption DEF Init, Created
  <2>2. Agree(u)
    BY <2>1, SameRole DEF Init, Created, Agree
  <2> QED BY <2>2 DEF Init, Idle, ReadInv
<1>2. TypeOK /\ AgreeInv /\ [Next]_vars => AgreeInv'
  <2> SUFFICES ASSUME TypeOK, AgreeInv, [Next]_vars,
                      NEW v \in HasContact, v \notin crossed'
               PROVE  Agree(v)' /\ \A r \in Requests : ReadInv(r, v)'
    BY DEF AgreeInv
  <2>0. /\ v \in Users
        /\ v \notin crossed =>
             /\ Agree(v) /\ (roleId[v] = NoRole <=> user[v] = Nobody)
             /\ \A r \in Requests : ReadInv(r, v)
    BY BothOrNone, JobAssumption DEF AgreeInv
  <2>1. ASSUME NEW u \in Users, NEW flags \in Given,
               Assign(u, flags) \/ UpdateUserRole(u, flags)
        PROVE  Agree(v)' /\ \A r \in Requests : ReadInv(r, v)'
    <3>1. v \notin crossed /\ request' = request /\ flags # Nobody
      BY <2>1, JobAssumption DEF Assign, UpdateUserRole
    <3>2. CASE u # v
      <4>1. user'[v] = user[v] /\ roleId'[v] = roleId[v]
        BY <2>0, <2>1, <3>2 DEF Assign, UpdateUserRole, TypeOK
      <4> QED BY <2>0, <3>1, <4>1, OthersAgree
    <3>3. CASE u = v
      <4>1. user'[v] = flags /\ roleId'[v] = ChainRole(flags)
        BY <2>0, <2>1, <3>1, <3>3 DEF Assign, UpdateUserRole, TypeOK
      <4>2. Agree(v)'
        BY <3>1, <4>1 DEF Agree
      <4> QED BY <2>0, <3>1, <4>1, <4>2, ReadStays
    <3> QED BY <3>2, <3>3
  <2>2. ASSUME NEW u \in Users, Unassign(u)
        PROVE  Agree(v)' /\ \A r \in Requests : ReadInv(r, v)'
    <3>1. v \notin crossed /\ request' = request
      BY <2>2 DEF Unassign
    <3>2. CASE u # v
      <4>1. user'[v] = user[v] /\ roleId'[v] = roleId[v]
        BY <2>0, <2>2, <3>2 DEF Unassign, TypeOK
      <4> QED BY <2>0, <3>1, <4>1, OthersAgree
    <3>3. CASE u = v
      <4>1. user'[v] = Nobody /\ roleId'[v] = NoRole
        BY <2>0, <2>2, <3>3 DEF Unassign, TypeOK
      <4>2. \A r \in Requests : ~Asked(r, v)
        BY <2>2, <3>3 DEF Unassign
      <4> QED BY <2>0, <3>1, <4>1, <4>2, OthersAgree
    <3> QED BY <3>2, <3>3
  <2>3. ASSUME NEW u \in HasContact, NEW flags \in Given \cup {Nobody},
               MissUser(u) \/ FinishLate(u, flags)
        PROVE  Agree(v)' /\ \A r \in Requests : ReadInv(r, v)'
    <3>1. v \notin crossed /\ request' = request /\ user' = user
      BY <2>3 DEF MissUser, FinishLate
    <3>2. roleId'[v] = roleId[v]
      <4>1. CASE MissUser(u) \/ u # v
        BY <2>0, <2>3, <4>1 DEF MissUser, FinishLate, TypeOK
      <4>2. CASE FinishLate(u, flags) /\ u = v
        <5>1. user[v] = Nobody
          BY <4>2 DEF FinishLate
        <5>2. roleId[v] = NoRole
          BY <2>0, <3>1, <5>1
        <5> QED BY <2>0, <4>2, <5>2 DEF FinishLate, TypeOK
      <4> QED BY <2>3, <4>1, <4>2
    <3> QED BY <2>0, <3>1, <3>2, OthersAgree
  <2>4. ASSUME NEW r \in Requests,
               Load(r) \/ ReadContacts(r) \/ ReadUsers(r) \/ RollBack(r)
        PROVE  Agree(v)' /\ \A q \in Requests : ReadInv(q, v)'
    <3>1. v \notin crossed /\ user' = user /\ roleId' = roleId
      BY <2>4 DEF Load, ReadContacts, ReadUsers, RollBack
    <3>2. ASSUME NEW q \in Requests
          PROVE  ReadInv(q, v)'
      <4>1. CASE q # r
        <5>1. request'[q] = request[q]
          BY <2>4, <4>1 DEF Load, ReadContacts, ReadUsers, RollBack, TypeOK
        <5> QED BY <2>0, <3>1, <5>1, ReadStays
      <4>2. CASE q = r /\ (Load(r) \/ RollBack(r))
        BY <4>2 DEF Load, RollBack, Picture, Idle, ReadInv, TypeOK
      <4>3. CASE q = r /\ (ReadContacts(r) \/ ReadUsers(r))
        <5>1. request[r] \in Request /\ request[r].pc # "idle"
          BY <4>3 DEF ReadContacts, ReadUsers, TypeOK, Idle
        <5>2. request'[r].found = request[r].found /\ request'[r].row = request[r].row
          BY <4>3, <5>1 DEF ReadContacts, ReadUsers, TypeOK, Request
        <5> QED BY <2>0, <3>1, <4>3, <5>1, <5>2 DEF ReadInv
      <4> QED BY <2>4, <4>1, <4>2, <4>3
    <3> QED BY <2>0, <3>1, <3>2 DEF Agree
  <2>5. ASSUME NEW r \in Requests, NEW u \in HasContact,
               ReadUser(r, u) \/ ReadContactRow(r, u)
        PROVE  Agree(v)' /\ \A q \in Requests : ReadInv(q, v)'
    <3>1. v \notin crossed /\ user' = user /\ roleId' = roleId
      BY <2>5 DEF ReadUser, ReadContactRow
    <3>2. request[r] \in Request /\ request[r].pc # "idle"
      BY <2>5 DEF ReadUser, ReadContactRow, HalfRead, Asked, TypeOK, Idle
    <3>3. ASSUME NEW q \in Requests
          PROVE  ReadInv(q, v)'
      <4>1. CASE q # r
        <5>1. request'[q] = request[q]
          BY <2>5, <4>1 DEF ReadUser, ReadContactRow, TypeOK
        <5> QED BY <2>0, <3>1, <5>1, ReadStays
      <4>2. CASE q = r /\ u # v
        <5>1. /\ request'[r].found[v] = request[r].found[v]
              /\ request'[r].row[v] = request[r].row[v]
          BY <2>5, <3>2, <4>2 DEF ReadUser, ReadContactRow, TypeOK, Request
        <5> QED BY <2>0, <3>1, <3>2, <4>2, <5>1 DEF ReadInv
      <4>3. CASE q = r /\ u = v /\ ReadUser(r, u)
        <5>1. /\ request'[r].found[v] = IF user[v] = Nobody THEN "absent" ELSE "present"
              /\ request'[r].row[v] = request[r].row[v]
              /\ request[r].found[v] = "unread"
          BY <3>2, <4>3 DEF ReadUser, TypeOK, Request
        <5>2. request[r].row[v] = Nobody
          BY <2>0, <3>1, <3>2, <5>1 DEF ReadInv
        <5> QED BY <3>1, <4>3, <5>1, <5>2, JobAssumption DEF ReadInv
      <4>4. CASE q = r /\ u = v /\ ReadContactRow(r, u)
        <5>1. /\ request'[r].found[v] = request[r].found[v]
              /\ request'[r].row[v] = roleId[v]
              /\ request[r].found[v] # "unread"
          BY <3>2, <4>4 DEF ReadContactRow, HalfRead, Asked, TypeOK, Request
        <5> QED BY <2>0, <3>1, <3>2, <4>4, <5>1 DEF ReadInv
      <4> QED BY <2>5, <4>1, <4>2, <4>3, <4>4
    <3> QED BY <2>0, <3>1, <3>3 DEF Agree
  <2>6. ASSUME NEW r \in Requests, Save(r)
        PROVE  Agree(v)' /\ \A q \in Requests : ReadInv(q, v)'
    <3>1. PICK us \in UserChanges(r) :
            /\ UsersFit(r, us) /\ KeysAreFree(r, us)
            /\ user' = ChangedUsers(r, us) /\ roleId' = ChangedRoles(r, us)
            /\ crossed' = crossed \cup {u \in Named(r) :
                 us[u] = Nobody /\ \E q \in Requests \ {r} : Asked(q, u)}
      BY <2>6 DEF Save
    <3>2. /\ v \notin crossed
          /\ v \in Named(r) /\ us[v] = Nobody => \A q \in Requests \ {r} : ~Asked(q, v)
      BY <3>1
    <3>3. /\ Agree(v)'
          /\ v \notin DOMAIN us => user'[v] = user[v]
          /\ v \in DOMAIN us => user'[v] = us[v]
      BY <2>0, <2>6, <3>1, <3>2, SaveAgrees DEF Save
    <3>4. ASSUME NEW q \in Requests
          PROVE  ReadInv(q, v)'
      <4>1. CASE q = r
        BY <2>6, <4>1 DEF Save, ReadInv, Idle, TypeOK
      <4>2. CASE q # r
        <5>1. request'[q] = request[q]
          BY <2>6, <4>2 DEF Save, TypeOK
        <5>2. CASE user'[v] = Nobody /\ v \in DOMAIN us
          <6>1. v \in Named(r) /\ us[v] = Nobody
            BY <3>3, <5>2, UserChangesType
          <6>2. ~Asked(q, v)
            BY <3>2, <4>2, <6>1
          <6> QED BY <2>0, <3>2, <5>1, <6>2 DEF Asked, ReadInv
        <5>3. CASE ~(user'[v] = Nobody /\ v \in DOMAIN us)
          <6>1. user[v] # Nobody => user'[v] # Nobody
            BY <3>3, <5>3
          <6> QED BY <2>0, <3>2, <5>1, <6>1, ReadStays
        <5> QED BY <5>2, <5>3
      <4> QED BY <4>1, <4>2
    <3> QED BY <3>3, <3>4
  <2>7. CASE UNCHANGED vars
    BY <2>0, <2>7, OthersAgree DEF vars
  <2> QED BY <2>1, <2>2, <2>3, <2>4, <2>5, <2>6, <2>7 DEF Next
<1>3. AgreeInv => RolesAgree
  BY DEF AgreeInv, Agree, RolesAgree
<1> QED BY <1>1, <1>2, <1>3, TypeCorrect, PTL DEF Spec

-----------------------------------------------------------------------------

\* An updateJob that changes users and whose picture of the primary roles is still
\* true when it writes leaves at most one primary of each kind, whatever the
\* assignments had left there and however many updateJob run at a time.
THEOREM UpdatePrimaries == Spec => UpdateKeepsOnePrimary
<1>1. TypeOK /\ [Next]_vars =>
        [\A r \in Requests :
           /\ request[r].pc = "users" /\ request'[r].pc = "idle"
           /\ user' # user
           /\ request[r].primary = Primaries(user)
           => OnePrimary(Primaries(user'))]_vars
  <2> SUFFICES ASSUME TypeOK, Next, NEW r \in Requests,
                      request[r].pc = "users", request'[r].pc = "idle",
                      user' # user, request[r].primary = Primaries(user)
               PROVE  OnePrimary(Primaries(user'))
    OBVIOUS
  <2>1. Save(r)
    <3>1. ASSUME NEW q \in Requests, Save(q)
          PROVE  q = r
      BY <3>1 DEF Save, TypeOK
    <3> QED
      BY <3>1 DEF Next, Assign, UpdateUserRole, Unassign, MissUser, FinishLate, Load,
                  ReadContacts, ReadUsers, ReadUser, ReadContactRow, RollBack
  <2>2. PICK us \in UserChanges(r) : UsersFit(r, us) /\ user' = ChangedUsers(r, us)
    BY <2>1 DEF Save
  <2>3. DOMAIN us # {}
    <3>1. DOMAIN us = {} => ChangedUsers(r, us) = user
      BY DEF ChangedUsers, TypeOK
    <3> QED BY <2>2, <3>1
  <2> DEFINE wanted == [u \in DOMAIN us |-> IF us[u] = Nobody
                                            THEN {} ELSE us[u] \cap {"PS", "PR"}]
             counted == Changed(Primaries(user), wanted)
  <2>4. OnePrimary(counted)
    BY <2>2, <2>3 DEF UsersFit
  <2>5. \A u \in Users : Primaries(user')[u] \subseteq counted[u]
    <3>1. ASSUME NEW u \in Users
          PROVE  Primaries(user')[u] \subseteq counted[u]
      <4>1. CASE u \notin DOMAIN us
        <5>1. user'[u] = user[u]
          BY <2>2, <4>1 DEF ChangedUsers
        <5> QED BY <4>1, <5>1 DEF Primaries, Changed
      <4>2. CASE u \in DOMAIN us
        <5>1. user'[u] = us[u] \/ user'[u] = Nobody
          BY <2>2, <4>2 DEF ChangedUsers
        <5>2. counted[u] = IF us[u] = Nobody THEN {} ELSE us[u] \cap {"PS", "PR"}
          BY <4>2 DEF Primaries, Changed
        <5> QED BY <5>1, <5>2 DEF Primaries
      <4> QED BY <4>1, <4>2
    <3> QED BY <3>1
  <2> HIDE DEF counted
  <2> QED BY <2>4, <2>5 DEF OnePrimary, AtMostOne
<1> QED BY <1>1, TypeCorrect, PTL DEF Spec, UpdateKeepsOnePrimary

-----------------------------------------------------------------------------

\* What a running updateJob has read of the job and the contacts is still there.
PictureInv ==
  \A r \in Requests :
    /\ request[r].pc # "idle" => request[r].job = job
    /\ request[r].pc \in {"contacts", "users"} => request[r].contact = contact

SoloInv ==
  /\ TypeOK
  /\ PictureInv
  /\ ShownIsCustomer
  /\ StatusIsLogged

LEMMA SoloSave ==
  ASSUME TypeOK, PictureInv, ShownIsCustomer, StatusIsLogged,
         NEW r \in Requests, Save(r)
  PROVE  ShownIsCustomer' /\ StatusIsLogged'
<1>1. PICK cs \in ContactChanges, status \in Statuses :
        /\ ContactsFit(r, cs)
        /\ contact' = Changed(contact, cs)
        /\ logged' = IF status = request[r].job.status THEN logged ELSE status
        /\ job' = RowToWrite(r, cs, status)
  BY DEF Save
<1>2. request[r].job = job /\ request[r].contact = contact
  BY DEF Save, PictureInv
<1>3. StatusIsLogged'
  BY <1>1, <1>2 DEF StatusIsLogged, RowToWrite
<1>4. CASE DOMAIN cs = {}
  <2>1. contact' = contact
    <3>1. contact \in [Contacts -> ContactRows]
      BY DEF TypeOK
    <3>2. DOMAIN cs \in SUBSET Contacts /\ cs \in [DOMAIN cs -> ContactRows]
      BY ContactChangesType
    <3>3. Changed(contact, cs) = contact
      BY <1>4, <3>1, <3>2 DEF Changed
    <3> QED BY <1>1, <3>3
  <2>2. job'.customer = job.customer
    BY <1>1, <1>2, <1>4 DEF RowToWrite
  <2> QED BY <1>3, <2>1, <2>2 DEF ShownIsCustomer
<1>5. CASE DOMAIN cs # {}
  <2> DEFINE c == CHOOSE d \in Contacts : Shown(contact') = {d}
  <2>1. c \in Contacts /\ Shown(contact') = {c}
    BY <1>1, <1>2, <1>5 DEF ContactsFit
  <2>2. job'.customer = c
    BY <1>1, <1>2, <1>5 DEF RowToWrite
  <2>3. c # Nobody
    BY <2>1, JobAssumption
  <2>4. {c} \ {Nobody} = {c}
    BY <2>3
  <2> HIDE DEF c
  <2>5. Shown(contact)' = {job.customer}' \ {Nobody}
    BY <2>1, <2>2, <2>4 DEF Shown
  <2> QED BY <1>3, <2>5 DEF ShownIsCustomer
<1> QED BY <1>4, <1>5

\* While no two updateJob overlap, the job's contact is the one shown and its status
\* is the one logged last, whatever the assignments of users do in between.
THEOREM SoloAlways ==
  ASSUME AtMostOne(Requests)
  PROVE  Spec => [](ShownIsCustomer /\ StatusIsLogged)
<1>1. Init => SoloInv
  <2> SUFFICES ASSUME Init PROVE PictureInv /\ ShownIsCustomer /\ StatusIsLogged
    BY InitType DEF SoloInv
  <2> QED BY DEF Init, Created, Idle, PictureInv, ShownIsCustomer, StatusIsLogged
<1>2. SoloInv /\ [Next]_vars => SoloInv'
  <2> SUFFICES ASSUME SoloInv, [Next]_vars
               PROVE  PictureInv' /\ ShownIsCustomer' /\ StatusIsLogged'
    BY NextType DEF SoloInv
  <2>1. ASSUME NEW r \in Requests, Save(r)
        PROVE  PictureInv' /\ ShownIsCustomer' /\ StatusIsLogged'
    <3>1. ShownIsCustomer' /\ StatusIsLogged'
      BY <2>1, SoloSave DEF SoloInv
    <3>2. \A q \in Requests : request'[q] = Idle
      BY <2>1 DEF Save, SoloInv, TypeOK, AtMostOne
    <3>3. PictureInv'
      BY <3>2 DEF PictureInv, Idle
    <3> QED BY <3>1, <3>3
  <2>2. ASSUME NEW r \in Requests, Load(r) \/ ReadContacts(r) \/ ReadUsers(r) \/ RollBack(r)
        PROVE  PictureInv' /\ ShownIsCustomer' /\ StatusIsLogged'
    <3>1. UNCHANGED <<job, logged, contact>>
      BY <2>2 DEF Load, ReadContacts, ReadUsers, RollBack
    <3>2. \A q \in Requests : q = r \/ request'[q] = request[q]
      BY <2>2 DEF Load, ReadContacts, ReadUsers, RollBack, SoloInv, TypeOK
    <3>3. request[r].pc # "idle" => request[r] \in Request
      BY DEF SoloInv, TypeOK, Idle
    <3>4. /\ request'[r].pc # "idle" => request'[r].job = job
          /\ request'[r].pc \in {"contacts", "users"} => request'[r].contact = contact
      <4>1. CASE Load(r)
        BY <4>1 DEF Load, Picture, SoloInv, TypeOK
      <4>2. CASE ReadContacts(r)
        BY <3>3, <4>2 DEF ReadContacts, Request, SoloInv, TypeOK, PictureInv
      <4>3. CASE ReadUsers(r)
        BY <3>3, <4>3 DEF ReadUsers, Request, SoloInv, TypeOK, PictureInv
      <4>4. CASE RollBack(r)
        BY <4>4 DEF RollBack, Idle, SoloInv, TypeOK
      <4> QED BY <2>2, <4>1, <4>2, <4>3, <4>4
    <3>5. PictureInv'
      BY <3>1, <3>2, <3>4 DEF PictureInv, SoloInv
    <3> QED BY <3>1, <3>5 DEF SoloInv, Shown, ShownIsCustomer, StatusIsLogged
  <2>3. ASSUME NEW r \in Requests, NEW u \in HasContact,
               ReadUser(r, u) \/ ReadContactRow(r, u)
        PROVE  PictureInv' /\ ShownIsCustomer' /\ StatusIsLogged'
    <3>1. UNCHANGED <<job, logged, contact>>
      BY <2>3 DEF ReadUser, ReadContactRow
    <3>2. request[r] \in Request /\ request[r].pc = "users"
      BY <2>3 DEF ReadUser, ReadContactRow, SoloInv, TypeOK, Idle
    <3>3. /\ request'[r].pc = request[r].pc
          /\ request'[r].job = request[r].job
          /\ request'[r].contact = request[r].contact
      BY <2>3, <3>2 DEF ReadUser, ReadContactRow, SoloInv, TypeOK, Request
    <3>4. \A q \in Requests : q = r \/ request'[q] = request[q]
      BY <2>3 DEF ReadUser, ReadContactRow, SoloInv, TypeOK
    <3>5. PictureInv'
      BY <3>1, <3>3, <3>4 DEF PictureInv, SoloInv
    <3> QED BY <3>1, <3>5 DEF SoloInv, Shown, ShownIsCustomer, StatusIsLogged
  <2>4. CASE UNCHANGED <<job, logged, contact, request>>
    BY <2>4 DEF SoloInv, PictureInv, Shown, ShownIsCustomer, StatusIsLogged
  <2> QED BY <2>1, <2>2, <2>3, <2>4
          DEF Next, Assign, UpdateUserRole, Unassign, MissUser, FinishLate, vars
<1>3. SoloInv => ShownIsCustomer /\ StatusIsLogged
  BY DEF SoloInv
<1> QED BY <1>1, <1>2, <1>3, PTL DEF Spec

\* Of updateJob's last write: the status in the row of the job is the one in the
\* last row of its status log, while no two updateJob overlap.
THEOREM StatusIsLoggedAlways ==
  ASSUME AtMostOne(Requests)
  PROVE  Spec => []StatusIsLogged
<1> QED BY SoloAlways, PTL

=============================================================================
