--------------------------- MODULE SessionCacheProofs ---------------------------
(***************************************************************************)
(* Proofs about SessionCache, for any nodes, logins, lookups and faults.   *)
(* The inductive invariant says of every session that exists, in memory,   *)
(* in the table or in some request's hand, that the login that retrieved   *)
(* it still knows it (OriginInv); the properties follow from when that     *)
(* login can have been at work.                                            *)
(***************************************************************************)
EXTENDS SessionCache, TLAPS

\* Where a login may be once it has retrieved a session.
Retrieved == {"keep", "clear", "insert", "ok", "failed"}

\* The login that retrieved s has it in its hand, or had it last.
Origin(s) == got[s.by] = s /\ at[s.by] \in Retrieved

\* Sessions come from logins; a row from one that answered with a token.
OriginInv ==
  /\ \A n \in Nodes : mem[n] # Nothing =>
       Origin(mem[n]) /\ at[mem[n].by] # "keep"
  /\ \A s \in table : Origin(s) /\ at[s.by] = "ok"
  /\ \A p \in Processes : got[p] # Nothing => Origin(got[p])
  /\ \A p \in Processes : at[p] = "fill" => at[got[p].by] = "ok"
  /\ \A l \in Logins : at[l] \in {"keep", "clear", "insert"} => got[l].by = l

\* What a login has noted as over is over.
OverInv ==
  \A l \in Logins :
    /\ \A x \in before[l] : at[x] \in Over
    /\ \A x \in stored[l] : at[x] \in Over
    /\ clean[l] => at[l] \notin {"new", "evict", "delete"}

\* After the DELETE of a put only rows of overlapping puts appear.
CrossInv ==
  /\ RowsCrossed
  /\ \A l \in Logins : at[l] = "insert" =>
       \A s \in table : s.by \notin stored[l]

\* A login's session is made of the record as of the login or later.
VersionInv ==
  \A l \in Logins :
    /\ began[l] <= user
    /\ got[l] # Nothing /\ got[l].by = l => got[l].version >= began[l]

\* A login that meets nobody finds nothing in the cache and leaves its row.
AloneInv ==
  \A l \in Logins : Alone(l) /\ clean[l] =>
    /\ at[l] = "check" => got[l] = Nothing
    /\ at[l] = "ok" => got[l].by = l /\ got[l] \in table

IInv ==
  /\ TypeOK
  /\ OriginInv
  /\ OverInv
  /\ ReplacedForGood
  /\ CrossInv
  /\ VersionInv
  /\ AloneInv
  /\ RefusedByTheRecord

\* At the start nobody has a session and nothing has been noted.
LEMMA InitIInv == Init => IInv
<1> SUFFICES ASSUME Init PROVE IInv
  OBVIOUS
<1> USE SessionAssumption DEF Init
<1>1. TypeOK
  BY DEF TypeOK, Versions, Processes, LoginPlaces, LookupPlaces, Rounds
<1>2. OriginInv /\ OverInv /\ ReplacedForGood /\ CrossInv /\ VersionInv
      /\ AloneInv /\ RefusedByTheRecord
  BY DEF OriginInv, OverInv, ReplacedForGood, CrossInv, RowsCrossed, VersionInv,
         AloneInv, RefusedByTheRecord, Processes, NoneOnNode, Versions
<1> QED BY <1>1, <1>2 DEF IInv

\* Types: one step per action.
LEMMA TypeStep == TypeOK /\ [Next]_vars => TypeOK'
<1> SUFFICES ASSUME TypeOK, [Next]_vars PROVE TypeOK'
  OBVIOUS
<1> USE SessionAssumption DEF Processes, request, history, Goto, LoginPlaces, LookupPlaces
<1>1. ASSUME NEW l \in Logins, Begin(l) PROVE TypeOK'
  <2>1. PICK password \in Presents[l] : given' = [given EXCEPT ![l] = password]
    BY <1>1 DEF Begin
  <2>2. password \in Passwords
    BY DEF Passwords
  <2>3. given' \in [Logins -> Passwords \cup {Nothing}]
    BY <2>1, <2>2 DEF TypeOK
  <2> QED BY <1>1, <2>3 DEF Begin, TypeOK, LoginsOver
<1>2. ASSUME NEW l \in Logins, Evict(l) PROVE TypeOK'
  BY <1>2 DEF Evict, TypeOK
<1>3. ASSUME NEW l \in Logins, Delete(l) PROVE TypeOK'
  BY <1>3 DEF Delete, Removed, TypeOK
<1>4. ASSUME NEW l \in Logins, Check(l) PROVE TypeOK'
  BY <1>4 DEF Check, TypeOK
<1>5. ASSUME NEW l \in Logins, Retrieve(l) PROVE TypeOK'
  <2>1. [by |-> l, version |-> user] \in Sessions
    BY DEF TypeOK, Sessions
  <2>2. CASE PasswordAt[user] = given[l]
    <3>1. /\ got' = [got EXCEPT ![l] = [by |-> l, version |-> user]]
          /\ at' = [at EXCEPT ![l] = "keep"]
      BY <1>5, <2>2 DEF Retrieve
    <3> QED BY <1>5, <2>1, <3>1 DEF Retrieve, TypeOK
  <2>3. CASE PasswordAt[user] # given[l]
    <3>1. got' = got /\ at' = [at EXCEPT ![l] = "refused"]
      BY <1>5, <2>3 DEF Retrieve
    <3> QED BY <1>5, <3>1 DEF Retrieve, TypeOK
  <2> QED BY <2>2, <2>3
<1>6. ASSUME NEW l \in Logins, Keep(l) PROVE TypeOK'
  BY <1>6 DEF Keep, TypeOK
<1>7. ASSUME NEW l \in Logins, Clear(l) PROVE TypeOK'
  BY <1>7 DEF Clear, TypeOK, LoginsOver
<1>8. ASSUME NEW l \in Logins, Insert(l) PROVE TypeOK'
  BY <1>8 DEF Insert, TypeOK
<1>9. ASSUME NEW p \in Processes, LookInMemory(p) PROVE TypeOK'
  BY <1>9 DEF LookInMemory, Leave, Answered, TypeOK
<1>10. ASSUME NEW p \in Processes, Select(p) PROVE TypeOK'
  BY <1>10 DEF Select, Leave, Answered, TypeOK
<1>11. ASSUME NEW p \in Processes, Fill(p) PROVE TypeOK'
  BY <1>11 DEF Fill, Leave, Answered, TypeOK
<1>12. ASSUME NEW p \in Processes, StatementFails(p) PROVE TypeOK'
  BY <1>12 DEF StatementFails, Leave, Answered, TypeOK
<1>13. ASSUME NEW k \in Lookups, Ask(k) PROVE TypeOK'
  BY <1>13 DEF Ask, TypeOK
<1>14. ASSUME Change PROVE TypeOK'
  BY <1>14 DEF Change, TypeOK, Versions
<1>15. ASSUME NEW n \in Nodes, Crash(n) PROVE TypeOK'
  BY <1>15 DEF Crash, TypeOK, Over
<1>16. CASE UNCHANGED vars
  BY <1>16 DEF vars, TypeOK
<1> QED BY <1>1, <1>2, <1>3, <1>4, <1>5, <1>6, <1>7, <1>8, <1>9, <1>10, <1>11,
           <1>12, <1>13, <1>14, <1>15, <1>16 DEF Next

\* Sessions: only Retrieve makes one, and its login still has it.
LEMMA OriginStep ==
  TypeOK /\ OriginInv /\ [Next]_vars => OriginInv'
<1> SUFFICES ASSUME TypeOK, OriginInv, [Next]_vars PROVE OriginInv'
  OBVIOUS
<1> USE SessionAssumption DEF TypeOK, Processes, request, history, Goto
<1>1. ASSUME NEW l \in Logins, Begin(l) PROVE OriginInv'
  BY <1>1 DEF Begin, LoginsOver, OriginInv, Origin, Retrieved, Over, Sessions
<1>2. ASSUME NEW l \in Logins, Evict(l) PROVE OriginInv'
  BY <1>2 DEF Evict, OriginInv, Origin, Retrieved, Over, Sessions
<1>3. ASSUME NEW l \in Logins, Delete(l) PROVE OriginInv'
  BY <1>3 DEF Delete, Removed, OriginInv, Origin, Retrieved, Over, Sessions
<1>4. ASSUME NEW l \in Logins, Check(l) PROVE OriginInv'
  <2>1. at[l] = "check" /\ UNCHANGED <<mem, table>>
    BY <1>4 DEF Check
  <2>2. /\ \A p \in Processes : p # l => at'[p] = at[p] /\ got'[p] = got[p]
        /\ at'[l] \in {"ok", "retrieve"}
        /\ got'[l] \in {got[l], Nothing}
    BY <1>4 DEF Check
  <2>3. ASSUME NEW s, Origin(s) PROVE s.by # l
    BY <2>1, <2>3 DEF Origin, Retrieved
  <2>4. ASSUME NEW s \in Sessions, Origin(s)
        PROVE  got'[s.by] = s /\ at'[s.by] = at[s.by] /\ at'[s.by] \in Retrieved
    <3>1. s.by # l /\ s.by \in Logins
      BY <2>3, <2>4 DEF Sessions
    <3> QED BY <2>2, <2>4, <3>1 DEF Origin
  <2>5. /\ \A n \in Nodes : mem[n] # Nothing => mem[n] \in Sessions
        /\ \A p \in Processes : got[p] # Nothing => got[p] \in Sessions
        /\ \A s \in table : s \in Sessions
    OBVIOUS
  <2>6. \A s \in Sessions : Origin(s) => Origin(s)'
    BY <2>4 DEF Origin
  <2>7. \A p \in Processes : at'[p] \in {"fill", "keep", "clear", "insert"} =>
          p # l /\ at'[p] = at[p] /\ got'[p] = got[p]
    BY <2>2
  <2> HIDE DEF TypeOK
  <2>8. \A n \in Nodes : mem'[n] # Nothing =>
          Origin(mem[n])' /\ at'[mem'[n].by] # "keep"
    BY <2>1, <2>4, <2>5, <2>6 DEF OriginInv, Origin
  <2>9. \A s \in table' : Origin(s)' /\ at'[s.by] = "ok"
    BY <2>1, <2>4, <2>5, <2>6 DEF OriginInv
  <2>10. \A p \in Processes : got'[p] # Nothing => Origin(got[p])'
    BY <2>2, <2>4, <2>5 DEF OriginInv, Origin
  <2>11. \A p \in Processes : at'[p] = "fill" => at'[got'[p].by] = "ok"
    <3> SUFFICES ASSUME NEW p \in Processes, at'[p] = "fill" PROVE at'[got'[p].by] = "ok"
      OBVIOUS
    <3>1. at[p] = "fill" /\ got'[p] = got[p]
      BY <2>7
    <3>2. got[p] \in Sessions /\ got[p] # Nothing
      BY <3>1 DEF TypeOK, Sessions
    <3> QED BY <2>4, <3>1, <3>2 DEF OriginInv
  <2>12. \A x \in Logins : at'[x] \in {"keep", "clear", "insert"} => got'[x].by = x
    BY <2>7 DEF OriginInv
  <2> QED BY <2>8, <2>9, <2>10, <2>11, <2>12 DEF OriginInv
<1>5. ASSUME NEW l \in Logins, Retrieve(l) PROVE OriginInv'
  BY <1>5 DEF Retrieve, OriginInv, Origin, Retrieved, Over, Sessions
<1>6. ASSUME NEW l \in Logins, Keep(l) PROVE OriginInv'
  BY <1>6 DEF Keep, OriginInv, Origin, Retrieved, Over, Sessions
<1>7. ASSUME NEW l \in Logins, Clear(l) PROVE OriginInv'
  BY <1>7 DEF Clear, LoginsOver, OriginInv, Origin, Retrieved, Over, Sessions
<1>8. ASSUME NEW l \in Logins, Insert(l) PROVE OriginInv'
  BY <1>8 DEF Insert, OriginInv, Origin, Retrieved, Over, Sessions
<1>9. ASSUME NEW p \in Processes, LookInMemory(p) PROVE OriginInv'
  BY <1>9 DEF LookInMemory, Leave, Answered, OriginInv, Origin, Retrieved, Over, Sessions
<1>10. ASSUME NEW p \in Processes, Select(p) PROVE OriginInv'
  <2>1. CASE table = {} /\ Leave(p, Nothing)
    BY <1>10, <2>1 DEF Select, Leave, Answered, OriginInv, Origin, Retrieved, Sessions
  <2>2. ASSUME NEW s \in table, got' = [got EXCEPT ![p] = s], Goto(p, "fill"), UNCHANGED node
        PROVE OriginInv'
    <3>1. s \in Sessions /\ Origin(s) /\ at[s.by] = "ok" /\ s.by # p
      BY <1>10, <2>2 DEF Select, OriginInv, Sessions
    <3>2. \A t \in Sessions : Origin(t) => Origin(t)' /\ at'[t.by] = at[t.by]
      BY <1>10, <2>2 DEF Select, Origin, Retrieved, Sessions
    <3> QED BY <1>10, <2>2, <3>1, <3>2 DEF Select, OriginInv, Sessions
  <2> QED BY <1>10, <2>1, <2>2 DEF Select
<1>11. ASSUME NEW p \in Processes, Fill(p) PROVE OriginInv'
  BY <1>11 DEF Fill, Leave, Answered, OriginInv, Origin, Retrieved, Over, Sessions
<1>12. ASSUME NEW p \in Processes, StatementFails(p) PROVE OriginInv'
  BY <1>12 DEF StatementFails, Leave, Answered, OriginInv, Origin, Retrieved, Over, Sessions
<1>13. ASSUME NEW k \in Lookups, Ask(k) PROVE OriginInv'
  BY <1>13 DEF Ask, OriginInv, Origin, Retrieved, Over, Sessions
<1>14. ASSUME Change PROVE OriginInv'
  BY <1>14 DEF Change, OriginInv, Origin, Retrieved, Over, Sessions
<1>15. ASSUME NEW n \in Nodes, Crash(n) PROVE OriginInv'
  <2>1. \A x \in Logins : at'[x] \in {at[x], "failed"} /\ got'[x] = got[x]
    BY <1>15 DEF Crash
  <2>2. \A x \in Logins : at[x] = "ok" => at'[x] = "ok"
    BY <1>15 DEF Crash, Over
  <2>3. \A t \in Sessions : Origin(t) =>
          Origin(t)' /\ (at[t.by] = "ok" => at'[t.by] = "ok")
    BY <2>1, <2>2 DEF Origin, Retrieved, Sessions
  <2>4. \A p \in Processes : got'[p] # Nothing => got'[p] = got[p]
    BY <1>15 DEF Crash
  <2>5. \A p \in Processes : at'[p] \in {"fill", "keep", "clear", "insert"} =>
          at'[p] = at[p] /\ got'[p] = got[p]
    BY <1>15 DEF Crash
  <2>6. \A m \in Nodes : mem'[m] # Nothing =>
          mem'[m] = mem[m] /\ (Origin(mem[m]))' /\ at'[mem'[m].by] # "keep"
    <3>1. \A m \in Nodes : mem'[m] # Nothing => mem'[m] = mem[m]
      BY <1>15 DEF Crash
    <3> QED BY <2>1, <2>3, <3>1 DEF OriginInv, Sessions
  <2>7. \A t \in table' : Origin(t)' /\ at'[t.by] = "ok"
    BY <1>15, <2>3 DEF Crash, OriginInv
  <2>8. \A p \in Processes : got'[p] # Nothing => (Origin(got[p]))'
    BY <2>3, <2>4 DEF OriginInv
  <2>9. \A p \in Processes : at'[p] = "fill" => at'[got'[p].by] = "ok"
    BY <2>2, <2>5 DEF OriginInv, Sessions
  <2>10. \A l \in Logins : at'[l] \in {"keep", "clear", "insert"} => got'[l].by = l
    BY <2>5 DEF OriginInv
  <2> QED BY <2>6, <2>7, <2>8, <2>9, <2>10 DEF OriginInv
<1>16. CASE UNCHANGED vars
  BY <1>16 DEF vars, OriginInv, Origin, Retrieved, Over, Sessions
<1> QED BY <1>1, <1>2, <1>3, <1>4, <1>5, <1>6, <1>7, <1>8,
           <1>9, <1>10, <1>11, <1>12, <1>13, <1>14, <1>15, <1>16 DEF Next

\* A login that is over stays over, and the notes with it.
LEMMA OverStep ==
  TypeOK /\ OverInv /\ [Next]_vars => OverInv'
<1> SUFFICES ASSUME TypeOK, OverInv, [Next]_vars PROVE OverInv'
  OBVIOUS
<1> USE SessionAssumption DEF TypeOK, Processes, request, history, Goto
<1>1. ASSUME NEW l \in Logins, Begin(l) PROVE OverInv'
  BY <1>1 DEF Begin, LoginsOver, OverInv, Over
<1>2. ASSUME NEW l \in Logins, Evict(l) PROVE OverInv'
  BY <1>2 DEF Evict, OverInv, Over
<1>3. ASSUME NEW l \in Logins, Delete(l) PROVE OverInv'
  BY <1>3 DEF Delete, Removed, OverInv, Over
<1>4. ASSUME NEW l \in Logins, Check(l) PROVE OverInv'
  BY <1>4 DEF Check, OverInv, Over
<1>5. ASSUME NEW l \in Logins, Retrieve(l) PROVE OverInv'
  BY <1>5 DEF Retrieve, OverInv, Over
<1>6. ASSUME NEW l \in Logins, Keep(l) PROVE OverInv'
  BY <1>6 DEF Keep, OverInv, Over
<1>7. ASSUME NEW l \in Logins, Clear(l) PROVE OverInv'
  BY <1>7 DEF Clear, LoginsOver, OverInv, Over
<1>8. ASSUME NEW l \in Logins, Insert(l) PROVE OverInv'
  BY <1>8 DEF Insert, OverInv, Over
<1>9. ASSUME NEW p \in Processes, LookInMemory(p) PROVE OverInv'
  BY <1>9 DEF LookInMemory, Leave, Answered, OverInv, Over
<1>10. ASSUME NEW p \in Processes, Select(p) PROVE OverInv'
  BY <1>10 DEF Select, Leave, Answered, OverInv, Over
<1>11. ASSUME NEW p \in Processes, Fill(p) PROVE OverInv'
  BY <1>11 DEF Fill, Leave, Answered, OverInv, Over
<1>12. ASSUME NEW p \in Processes, StatementFails(p) PROVE OverInv'
  BY <1>12 DEF StatementFails, Leave, Answered, OverInv, Over
<1>13. ASSUME NEW k \in Lookups, Ask(k) PROVE OverInv'
  BY <1>13 DEF Ask, OverInv, Over
<1>14. ASSUME Change PROVE OverInv'
  BY <1>14 DEF Change, OverInv, Over
<1>15. ASSUME NEW n \in Nodes, Crash(n) PROVE OverInv'
  BY <1>15 DEF Crash, OverInv, Over
<1>16. CASE UNCHANGED vars
  BY <1>16 DEF vars, OverInv, Over
<1> QED BY <1>1, <1>2, <1>3, <1>4, <1>5, <1>6, <1>7, <1>8,
           <1>9, <1>10, <1>11, <1>12, <1>13, <1>14, <1>15, <1>16 DEF Next

\* What was replaced does not come back.
LEMMA ReplacedStep ==
  TypeOK /\ OriginInv /\ OverInv /\ ReplacedForGood /\ [Next]_vars => ReplacedForGood'
<1> SUFFICES ASSUME TypeOK, OriginInv, OverInv, ReplacedForGood, [Next]_vars PROVE ReplacedForGood'
  OBVIOUS
<1> USE SessionAssumption DEF TypeOK, Processes, request, history, Goto
<1>1. ASSUME NEW l \in Logins, Begin(l) PROVE ReplacedForGood'
  BY <1>1 DEF Begin, LoginsOver, OriginInv, Origin, OverInv, ReplacedForGood, NoneOnNode, Over, Sessions
<1>2. ASSUME NEW l \in Logins, Evict(l) PROVE ReplacedForGood'
  BY <1>2 DEF Evict, OriginInv, Origin, OverInv, ReplacedForGood, NoneOnNode, Over, Sessions
<1>3. ASSUME NEW l \in Logins, Delete(l) PROVE ReplacedForGood'
  BY <1>3 DEF Delete, Removed, OriginInv, Origin, OverInv, ReplacedForGood, NoneOnNode, Over, Sessions
<1>4. ASSUME NEW l \in Logins, Check(l) PROVE ReplacedForGood'
  BY <1>4 DEF Check, OriginInv, Origin, OverInv, ReplacedForGood, NoneOnNode, Over, Sessions
<1>5. ASSUME NEW l \in Logins, Retrieve(l) PROVE ReplacedForGood'
  BY <1>5 DEF Retrieve, OriginInv, Origin, OverInv, ReplacedForGood, NoneOnNode, Over, Sessions
<1>6. ASSUME NEW l \in Logins, Keep(l) PROVE ReplacedForGood'
  BY <1>6 DEF Keep, OriginInv, Origin, OverInv, ReplacedForGood, NoneOnNode, Over, Sessions
<1>7. ASSUME NEW l \in Logins, Clear(l) PROVE ReplacedForGood'
  BY <1>7 DEF Clear, LoginsOver, OriginInv, Origin, OverInv, ReplacedForGood, NoneOnNode, Over, Sessions
<1>8. ASSUME NEW l \in Logins, Insert(l) PROVE ReplacedForGood'
  BY <1>8 DEF Insert, OriginInv, Origin, OverInv, ReplacedForGood, NoneOnNode, Over, Sessions
<1>9. ASSUME NEW p \in Processes, LookInMemory(p) PROVE ReplacedForGood'
  BY <1>9 DEF LookInMemory, Leave, Answered, OriginInv, Origin, OverInv, ReplacedForGood, NoneOnNode, Over, Sessions
<1>10. ASSUME NEW p \in Processes, Select(p) PROVE ReplacedForGood'
  BY <1>10 DEF Select, Leave, Answered, OriginInv, Origin, OverInv, ReplacedForGood, NoneOnNode, Over, Sessions
<1>11. ASSUME NEW p \in Processes, Fill(p) PROVE ReplacedForGood'
  BY <1>11 DEF Fill, Leave, Answered, OriginInv, Origin, OverInv, ReplacedForGood, NoneOnNode, Over, Sessions
<1>12. ASSUME NEW p \in Processes, StatementFails(p) PROVE ReplacedForGood'
  BY <1>12 DEF StatementFails, Leave, Answered, OriginInv, Origin, OverInv, ReplacedForGood, NoneOnNode, Over, Sessions
<1>13. ASSUME NEW k \in Lookups, Ask(k) PROVE ReplacedForGood'
  BY <1>13 DEF Ask, OriginInv, Origin, OverInv, ReplacedForGood, NoneOnNode, Over, Sessions
<1>14. ASSUME Change PROVE ReplacedForGood'
  BY <1>14 DEF Change, OriginInv, Origin, OverInv, ReplacedForGood, NoneOnNode, Over, Sessions
<1>15. ASSUME NEW n \in Nodes, Crash(n) PROVE ReplacedForGood'
  BY <1>15 DEF Crash, OriginInv, Origin, OverInv, ReplacedForGood, NoneOnNode, Over, Sessions
<1>16. CASE UNCHANGED vars
  BY <1>16 DEF vars, OriginInv, Origin, OverInv, ReplacedForGood, NoneOnNode, Over, Sessions
<1> QED BY <1>1, <1>2, <1>3, <1>4, <1>5, <1>6, <1>7, <1>8,
           <1>9, <1>10, <1>11, <1>12, <1>13, <1>14, <1>15, <1>16 DEF Next

\* Rows next to each other come from puts that crossed.
LEMMA CrossStep ==
  TypeOK /\ OriginInv /\ OverInv /\ CrossInv /\ [Next]_vars => CrossInv'
<1> SUFFICES ASSUME TypeOK, OriginInv, OverInv, CrossInv, [Next]_vars PROVE CrossInv'
  OBVIOUS
<1> USE SessionAssumption DEF TypeOK, Processes, request, history, Goto
<1>1. ASSUME NEW l \in Logins, Begin(l) PROVE CrossInv'
  BY <1>1 DEF Begin, LoginsOver, OriginInv, Origin, OverInv, CrossInv, RowsCrossed, Over, Sessions
<1>2. ASSUME NEW l \in Logins, Evict(l) PROVE CrossInv'
  BY <1>2 DEF Evict, OriginInv, Origin, OverInv, CrossInv, RowsCrossed, Over, Sessions
<1>3. ASSUME NEW l \in Logins, Delete(l) PROVE CrossInv'
  BY <1>3 DEF Delete, Removed, OriginInv, Origin, OverInv, CrossInv, RowsCrossed, Over, Sessions
<1>4. ASSUME NEW l \in Logins, Check(l) PROVE CrossInv'
  BY <1>4 DEF Check, OriginInv, Origin, OverInv, CrossInv, RowsCrossed, Over, Sessions
<1>5. ASSUME NEW l \in Logins, Retrieve(l) PROVE CrossInv'
  BY <1>5 DEF Retrieve, OriginInv, Origin, OverInv, CrossInv, RowsCrossed, Over, Sessions
<1>6. ASSUME NEW l \in Logins, Keep(l) PROVE CrossInv'
  BY <1>6 DEF Keep, OriginInv, Origin, OverInv, CrossInv, RowsCrossed, Over, Sessions
<1>7. ASSUME NEW l \in Logins, Clear(l) PROVE CrossInv'
  BY <1>7 DEF Clear, LoginsOver, OriginInv, Origin, OverInv, CrossInv, RowsCrossed, Over, Sessions
<1>8. ASSUME NEW l \in Logins, Insert(l) PROVE CrossInv'
  BY <1>8 DEF Insert, OriginInv, Origin, OverInv, CrossInv, RowsCrossed, Over, Sessions
<1>9. ASSUME NEW p \in Processes, LookInMemory(p) PROVE CrossInv'
  BY <1>9 DEF LookInMemory, Leave, Answered, OriginInv, Origin, OverInv, CrossInv, RowsCrossed, Over, Sessions
<1>10. ASSUME NEW p \in Processes, Select(p) PROVE CrossInv'
  BY <1>10 DEF Select, Leave, Answered, OriginInv, Origin, OverInv, CrossInv, RowsCrossed, Over, Sessions
<1>11. ASSUME NEW p \in Processes, Fill(p) PROVE CrossInv'
  BY <1>11 DEF Fill, Leave, Answered, OriginInv, Origin, OverInv, CrossInv, RowsCrossed, Over, Sessions
<1>12. ASSUME NEW p \in Processes, StatementFails(p) PROVE CrossInv'
  BY <1>12 DEF StatementFails, Leave, Answered, OriginInv, Origin, OverInv, CrossInv, RowsCrossed, Over, Sessions
<1>13. ASSUME NEW k \in Lookups, Ask(k) PROVE CrossInv'
  BY <1>13 DEF Ask, OriginInv, Origin, OverInv, CrossInv, RowsCrossed, Over, Sessions
<1>14. ASSUME Change PROVE CrossInv'
  BY <1>14 DEF Change, OriginInv, Origin, OverInv, CrossInv, RowsCrossed, Over, Sessions
<1>15. ASSUME NEW n \in Nodes, Crash(n) PROVE CrossInv'
  BY <1>15 DEF Crash, OriginInv, Origin, OverInv, CrossInv, RowsCrossed, Over, Sessions
<1>16. CASE UNCHANGED vars
  BY <1>16 DEF vars, OriginInv, Origin, OverInv, CrossInv, RowsCrossed, Over, Sessions
<1> QED BY <1>1, <1>2, <1>3, <1>4, <1>5, <1>6, <1>7, <1>8,
           <1>9, <1>10, <1>11, <1>12, <1>13, <1>14, <1>15, <1>16 DEF Next

\* Nobody makes a session of an old record.
LEMMA VersionStep ==
  TypeOK /\ OriginInv /\ VersionInv /\ [Next]_vars => VersionInv'
<1> SUFFICES ASSUME TypeOK, OriginInv, VersionInv, [Next]_vars PROVE VersionInv'
  OBVIOUS
<1> USE SessionAssumption DEF TypeOK, Processes, request, history, Goto
<1>1. ASSUME NEW l \in Logins, Begin(l) PROVE VersionInv'
  <2>1. \A x \in Logins : x # l => began'[x] = began[x]
    BY <1>1 DEF Begin
  <2>2. began'[l] = user /\ user' = user /\ got' = got
    BY <1>1 DEF Begin
  <2>3. got[l] # Nothing => got[l].by # l
    BY <1>1 DEF Begin, OriginInv, Origin, Retrieved, Sessions
  <2>4. user \in Nat
    BY DEF Versions
  <2> QED BY <2>1, <2>2, <2>3, <2>4 DEF VersionInv
<1>2. ASSUME NEW l \in Logins, Evict(l) PROVE VersionInv'
  BY <1>2 DEF Evict, OriginInv, Origin, Retrieved, Over, VersionInv, Versions, Sessions
<1>3. ASSUME NEW l \in Logins, Delete(l) PROVE VersionInv'
  BY <1>3 DEF Delete, Removed, OriginInv, Origin, Retrieved, Over, VersionInv, Versions, Sessions
<1>4. ASSUME NEW l \in Logins, Check(l) PROVE VersionInv'
  <2>1. UNCHANGED <<began, user>>
    BY <1>4 DEF Check
  <2>2. \A x \in Logins : got'[x] \in {got[x], Nothing}
    BY <1>4 DEF Check
  <2> QED BY <2>1, <2>2 DEF VersionInv
<1>5. ASSUME NEW l \in Logins, Retrieve(l) PROVE VersionInv'
  <2>1. began' = began /\ user' = user
    BY <1>5 DEF Retrieve
  <2>2. got' = got \/ got' = [got EXCEPT ![l] = [by |-> l, version |-> user]]
    BY <1>5 DEF Retrieve
  <2>3. \A x \in Logins : x # l => got'[x] = got[x]
    BY <2>2
  <2>4. got'[l] = got[l] \/ got'[l].version = user
    BY <2>2
  <2> QED BY <2>1, <2>3, <2>4 DEF VersionInv, Versions
<1>6. ASSUME NEW l \in Logins, Keep(l) PROVE VersionInv'
  BY <1>6 DEF Keep, OriginInv, Origin, Retrieved, Over, VersionInv, Versions, Sessions
<1>7. ASSUME NEW l \in Logins, Clear(l) PROVE VersionInv'
  BY <1>7 DEF Clear, LoginsOver, OriginInv, Origin, Retrieved, Over, VersionInv, Versions, Sessions
<1>8. ASSUME NEW l \in Logins, Insert(l) PROVE VersionInv'
  BY <1>8 DEF Insert, OriginInv, Origin, Retrieved, Over, VersionInv, Versions, Sessions
<1>9. ASSUME NEW p \in Processes, LookInMemory(p) PROVE VersionInv'
  <2>1. UNCHANGED <<began, user>>
    BY <1>9 DEF LookInMemory
  <2>2. \A x \in Logins : x # p => got'[x] = got[x]
    BY <1>9 DEF LookInMemory, Leave
  <2>3. got'[p] \in {got[p], mem[node[p]], Nothing}
    BY <1>9 DEF LookInMemory, Leave
  <2>4. node[p] \in Nodes
    BY <1>9 DEF LookInMemory
  <2>5. p \in Logins /\ mem[node[p]] # Nothing /\ mem[node[p]].by = p => FALSE
    BY <1>9, <2>4 DEF LookInMemory, OriginInv, Origin, Retrieved
  <2> QED BY <2>1, <2>2, <2>3, <2>5 DEF VersionInv
<1>10. ASSUME NEW p \in Processes, Select(p) PROVE VersionInv'
  <2>1. began' = began /\ user' = user
    BY <1>10 DEF Select
  <2>2. \A x \in Logins : x # p => got'[x] = got[x]
    BY <1>10 DEF Select, Leave
  <2>3. got'[p] # Nothing => got'[p] \in table
    BY <1>10 DEF Select, Leave
  <2>4. got'[p] # Nothing => got'[p].by # p
    BY <1>10, <2>3 DEF Select, OriginInv
  <2> QED BY <2>1, <2>2, <2>4 DEF VersionInv
<1>11. ASSUME NEW p \in Processes, Fill(p) PROVE VersionInv'
  BY <1>11 DEF Fill, Leave, Answered, OriginInv, Origin, Retrieved, Over, VersionInv, Versions, Sessions
<1>12. ASSUME NEW p \in Processes, StatementFails(p) PROVE VersionInv'
  <2>1. \A x \in Logins : got'[x] = got[x]
    BY <1>12 DEF StatementFails, Leave
  <2> QED BY <1>12, <2>1 DEF StatementFails, VersionInv
<1>13. ASSUME NEW k \in Lookups, Ask(k) PROVE VersionInv'
  BY <1>13 DEF Ask, OriginInv, Origin, Retrieved, Over, VersionInv, Versions, Sessions
<1>14. ASSUME Change PROVE VersionInv'
  BY <1>14 DEF Change, OriginInv, Origin, Retrieved, Over, VersionInv, Versions, Sessions
<1>15. ASSUME NEW n \in Nodes, Crash(n) PROVE VersionInv'
  BY <1>15 DEF Crash, OriginInv, Origin, Retrieved, Over, VersionInv, Versions, Sessions
<1>16. CASE UNCHANGED vars
  BY <1>16 DEF vars, OriginInv, Origin, Retrieved, Over, VersionInv, Versions, Sessions
<1> QED BY <1>1, <1>2, <1>3, <1>4, <1>5, <1>6, <1>7, <1>8,
           <1>9, <1>10, <1>11, <1>12, <1>13, <1>14, <1>15, <1>16 DEF Next

\* A refusal is the record's.
LEMMA RefusedStep ==
  TypeOK /\ VersionInv /\ RefusedByTheRecord /\ [Next]_vars => RefusedByTheRecord'
<1> SUFFICES ASSUME TypeOK, VersionInv, RefusedByTheRecord, [Next]_vars PROVE RefusedByTheRecord'
  OBVIOUS
<1> USE SessionAssumption DEF TypeOK, Processes, request, history, Goto
<1>1. ASSUME NEW l \in Logins, Begin(l) PROVE RefusedByTheRecord'
  BY <1>1 DEF Begin, LoginsOver, VersionInv, RefusedByTheRecord, Versions, Over
<1>2. ASSUME NEW l \in Logins, Evict(l) PROVE RefusedByTheRecord'
  BY <1>2 DEF Evict, VersionInv, RefusedByTheRecord, Versions, Over
<1>3. ASSUME NEW l \in Logins, Delete(l) PROVE RefusedByTheRecord'
  BY <1>3 DEF Delete, Removed, VersionInv, RefusedByTheRecord, Versions, Over
<1>4. ASSUME NEW l \in Logins, Check(l) PROVE RefusedByTheRecord'
  BY <1>4 DEF Check, VersionInv, RefusedByTheRecord, Versions, Over
<1>5. ASSUME NEW l \in Logins, Retrieve(l) PROVE RefusedByTheRecord'
  <2>1. user \in began[l]..user
    BY DEF VersionInv, Versions
  <2>2. \A x \in Logins : x # l => at'[x] = at[x]
    BY <1>5 DEF Retrieve
  <2>3. at'[l] = "refused" => PasswordAt[user] # given[l]
    BY <1>5 DEF Retrieve
  <2>4. began' = began /\ user' = user /\ given' = given
    BY <1>5 DEF Retrieve
  <2> QED BY <2>1, <2>2, <2>3, <2>4 DEF RefusedByTheRecord
<1>6. ASSUME NEW l \in Logins, Keep(l) PROVE RefusedByTheRecord'
  BY <1>6 DEF Keep, VersionInv, RefusedByTheRecord, Versions, Over
<1>7. ASSUME NEW l \in Logins, Clear(l) PROVE RefusedByTheRecord'
  BY <1>7 DEF Clear, LoginsOver, VersionInv, RefusedByTheRecord, Versions, Over
<1>8. ASSUME NEW l \in Logins, Insert(l) PROVE RefusedByTheRecord'
  BY <1>8 DEF Insert, VersionInv, RefusedByTheRecord, Versions, Over
<1>9. ASSUME NEW p \in Processes, LookInMemory(p) PROVE RefusedByTheRecord'
  BY <1>9 DEF LookInMemory, Leave, Answered, VersionInv, RefusedByTheRecord, Versions, Over
<1>10. ASSUME NEW p \in Processes, Select(p) PROVE RefusedByTheRecord'
  BY <1>10 DEF Select, Leave, Answered, VersionInv, RefusedByTheRecord, Versions, Over
<1>11. ASSUME NEW p \in Processes, Fill(p) PROVE RefusedByTheRecord'
  BY <1>11 DEF Fill, Leave, Answered, VersionInv, RefusedByTheRecord, Versions, Over
<1>12. ASSUME NEW p \in Processes, StatementFails(p) PROVE RefusedByTheRecord'
  BY <1>12 DEF StatementFails, Leave, Answered, VersionInv, RefusedByTheRecord, Versions, Over
<1>13. ASSUME NEW k \in Lookups, Ask(k) PROVE RefusedByTheRecord'
  BY <1>13 DEF Ask, VersionInv, RefusedByTheRecord, Versions, Over
<1>14. ASSUME Change PROVE RefusedByTheRecord'
  BY <1>14 DEF Change, VersionInv, RefusedByTheRecord, Versions, Over
<1>15. ASSUME NEW n \in Nodes, Crash(n) PROVE RefusedByTheRecord'
  BY <1>15 DEF Crash, VersionInv, RefusedByTheRecord, Versions, Over
<1>16. CASE UNCHANGED vars
  BY <1>16 DEF vars, VersionInv, RefusedByTheRecord, Versions, Over
<1> QED BY <1>1, <1>2, <1>3, <1>4, <1>5, <1>6, <1>7, <1>8,
           <1>9, <1>10, <1>11, <1>12, <1>13, <1>14, <1>15, <1>16 DEF Next

\* A login that meets nobody.
LEMMA AloneStep ==
  TypeOK /\ OriginInv /\ OverInv /\ ReplacedForGood /\ AloneInv /\ [Next]_vars => AloneInv'
<1> SUFFICES ASSUME TypeOK, OriginInv, OverInv, ReplacedForGood, AloneInv, [Next]_vars PROVE AloneInv'
  OBVIOUS
<1> USE SessionAssumption DEF TypeOK, Processes, request, history, Goto
<1>1. ASSUME NEW l \in Logins, Begin(l) PROVE AloneInv'
  BY <1>1 DEF Begin, LoginsOver, OriginInv, Origin, Retrieved, OverInv, ReplacedForGood, NoneOnNode, AloneInv, Alone, Active, Over, Sessions
<1>2. ASSUME NEW l \in Logins, Evict(l) PROVE AloneInv'
  BY <1>2 DEF Evict, OriginInv, Origin, Retrieved, OverInv, ReplacedForGood, NoneOnNode, AloneInv, Alone, Active, Over, Sessions
<1>3. ASSUME NEW l \in Logins, Delete(l) PROVE AloneInv'
  BY <1>3 DEF Delete, Removed, OriginInv, Origin, Retrieved, OverInv, ReplacedForGood, NoneOnNode, AloneInv, Alone, Active, Over, Sessions
<1>4. ASSUME NEW l \in Logins, Check(l) PROVE AloneInv'
  BY <1>4 DEF Check, Usable, OriginInv, Origin, Retrieved, OverInv, ReplacedForGood, NoneOnNode, AloneInv, Alone, Active, Over, Sessions
<1>5. ASSUME NEW l \in Logins, Retrieve(l) PROVE AloneInv'
  BY <1>5 DEF Retrieve, OriginInv, Origin, Retrieved, OverInv, ReplacedForGood, NoneOnNode, AloneInv, Alone, Active, Over, Sessions
<1>6. ASSUME NEW l \in Logins, Keep(l) PROVE AloneInv'
  BY <1>6 DEF Keep, OriginInv, Origin, Retrieved, OverInv, ReplacedForGood, NoneOnNode, AloneInv, Alone, Active, Over, Sessions
<1>7. ASSUME NEW l \in Logins, Clear(l) PROVE AloneInv'
  BY <1>7 DEF Clear, LoginsOver, OriginInv, Origin, Retrieved, OverInv, ReplacedForGood, NoneOnNode, AloneInv, Alone, Active, Over, Sessions
<1>8. ASSUME NEW l \in Logins, Insert(l) PROVE AloneInv'
  BY <1>8 DEF Insert, OriginInv, Origin, Retrieved, OverInv, ReplacedForGood, NoneOnNode, AloneInv, Alone, Active, Over, Sessions
<1>9. ASSUME NEW p \in Processes, LookInMemory(p) PROVE AloneInv'
  BY <1>9 DEF LookInMemory, Leave, Answered, OriginInv, Origin, Retrieved, OverInv, ReplacedForGood, NoneOnNode, AloneInv, Alone, Active, Over, Sessions
<1>10. ASSUME NEW p \in Processes, Select(p) PROVE AloneInv'
  BY <1>10 DEF Select, Leave, Answered, OriginInv, Origin, Retrieved, OverInv, ReplacedForGood, NoneOnNode, AloneInv, Alone, Active, Over, Sessions
<1>11. ASSUME NEW p \in Processes, Fill(p) PROVE AloneInv'
  BY <1>11 DEF Fill, Leave, Answered, OriginInv, Origin, Retrieved, OverInv, ReplacedForGood, NoneOnNode, AloneInv, Alone, Active, Over, Sessions
<1>12. ASSUME NEW p \in Processes, StatementFails(p) PROVE AloneInv'
  BY <1>12 DEF StatementFails, Leave, Answered, OriginInv, Origin, Retrieved, OverInv, ReplacedForGood, NoneOnNode, AloneInv, Alone, Active, Over, Sessions
<1>13. ASSUME NEW k \in Lookups, Ask(k) PROVE AloneInv'
  BY <1>13 DEF Ask, OriginInv, Origin, Retrieved, OverInv, ReplacedForGood, NoneOnNode, AloneInv, Alone, Active, Over, Sessions
<1>14. ASSUME Change PROVE AloneInv'
  BY <1>14 DEF Change, OriginInv, Origin, Retrieved, OverInv, ReplacedForGood, NoneOnNode, AloneInv, Alone, Active, Over, Sessions
<1>15. ASSUME NEW n \in Nodes, Crash(n) PROVE AloneInv'
  BY <1>15 DEF Crash, OriginInv, Origin, Retrieved, OverInv, ReplacedForGood, NoneOnNode, AloneInv, Alone, Active, Over, Sessions
<1>16. CASE UNCHANGED vars
  BY <1>16 DEF vars, OriginInv, Origin, Retrieved, OverInv, ReplacedForGood, NoneOnNode, AloneInv, Alone, Active, Over, Sessions
<1> QED BY <1>1, <1>2, <1>3, <1>4, <1>5, <1>6, <1>7, <1>8,
           <1>9, <1>10, <1>11, <1>12, <1>13, <1>14, <1>15, <1>16 DEF Next

\* The inductive invariant.
LEMMA Inductive == Spec => []IInv
<1>1. IInv /\ [Next]_vars => IInv'
  BY TypeStep, OriginStep, OverStep, ReplacedStep, CrossStep, VersionStep,
     RefusedStep, AloneStep DEF IInv
<1> QED BY InitIInv, <1>1, PTL DEF Spec

\* A session that is on the node of a login that met nobody, or in the table,
\* is that login's own.
LEMMA OnlyItsOwn ==
  ASSUME IInv, NEW l \in Logins, Alone(l), clean[l]
  PROVE  /\ \A s \in table : s.by = l /\ s = got[l]
         /\ mem[node[l]] \in {got[l], Nothing}
<1> USE DEF IInv
<1>1. node[l] \in Nodes
  BY SessionAssumption DEF OverInv, TypeOK, Processes, LoginPlaces, LookupPlaces
<1>2. \A s \in Sessions : Origin(s) /\ s.by \notin before[l] => s.by = l /\ s = got[l]
  BY DEF Alone, Origin, Retrieved, Sessions
<1>3. \A s \in table : s \in Sessions /\ Origin(s) /\ s.by \notin before[l]
  BY DEF OriginInv, ReplacedForGood, TypeOK
<1>4. mem[node[l]] # Nothing =>
        /\ mem[node[l]] \in Sessions
        /\ Origin(mem[node[l]])
        /\ mem[node[l]].by \notin before[l]
  BY <1>1 DEF OriginInv, ReplacedForGood, NoneOnNode, TypeOK
<1> QED BY <1>2, <1>3, <1>4

\* Type correctness: a request that is about to put a session somewhere has one,
\* and a login that removes has removals to come.
THEOREM TypeCorrect == Spec => []TypeOK
BY Inductive, PTL DEF IInv

\* A login replaces the session for good, on its node and in the table, unless a
\* lookup of its node was about to put back what it had read before the DELETE.
THEOREM ReplacedForGoodAlways == Spec => []ReplacedForGood
BY Inductive, PTL DEF IInv

\* Two rows of a user come from logins whose DELETE and INSERT crossed.
THEOREM RowsCrossedAlways == Spec => []RowsCrossed
BY Inductive, PTL DEF IInv, CrossInv

\* A login that met nobody leaves its session, and only that, for every node.
THEOREM TokenIsAlwaysKnown == Spec => []TokenIsKnown
<1>1. IInv => TokenIsKnown
  <2> SUFFICES ASSUME IInv, NEW l \in Logins, at[l] = "ok", Alone(l), clean[l]
               PROVE  /\ table = {got[l]}
                      /\ mem[node[l]] \in {got[l], Nothing}
                      /\ got[l].by = l
                      /\ got[l].version >= began[l]
    BY DEF TokenIsKnown
  <2>1. got[l].by = l /\ got[l] \in table
    BY DEF IInv, AloneInv
  <2>2. table = {got[l]} /\ mem[node[l]] \in {got[l], Nothing}
    BY <2>1, OnlyItsOwn
  <2>3. got[l] # Nothing
    BY <2>1, SessionAssumption DEF IInv, TypeOK, Sessions
  <2> QED BY <2>1, <2>2, <2>3 DEF IInv, VersionInv
<1> QED BY <1>1, Inductive, PTL

\* Whatever stale session the cache holds, a login is refused only because the
\* record refused it: the provider retrieves the user again before it says no.
THEOREM RefusedByTheRecordAlways == Spec => []RefusedByTheRecord
BY Inductive, PTL DEF IInv

=============================================================================
