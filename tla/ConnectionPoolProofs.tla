-------------------------- MODULE ConnectionPoolProofs --------------------------
(***************************************************************************)
(* Proofs about ConnectionPool, for any pool and any requests.  The        *)
(* inductive invariant ties the pool's book to what each request believes: *)
(* a connection that is out is either the working connection of a request  *)
(* between Borrow and End or the second one of a createJob; and the place  *)
(* of a request says what it has written and what of it is committed.      *)
(***************************************************************************)
EXTENDS ConnectionPool, TLAPS

Working == {"work", "second", "call", "rest", "add", "remove", "end"}

\* What the place of a request says about the connections it has.
PlaceInv ==
  \A r \in Requests :
    /\ main[r] # Nobody => pc[r] \in Working
    /\ extra[r] # Nobody => Kind[r] = "createJob"
    /\ pc[r] \in {"new", "begin", "work", "second"} => extra[r] = Nobody
    /\ pc[r] \in {"second", "call", "rest"} => Kind[r] = "createJob"
    /\ pc[r] \in {"add", "remove"} => Kind[r] = "updateEvent"
    /\ pc[r] \in {"new", "begin"} => main[r] = Nobody

\* Every connection that is out is the main or the extra one of its holder.
BookInv ==
  \A c \in Connections :
    holder[c] # Nobody => main[holder[c]] = c \/ extra[holder[c]] = c

Fresh(r) == pending[r] = {} /\ kept[r] = {}

Unsaved(r) == pending[r] = {"record"} /\ kept[r] = {}

Saved(r) == pending[r] = {} /\ kept[r] = Wanted(r)

Split(r) ==
  Batches[r] = {"added", "removed"} /\ pending[r] = {} /\ kept[r] = {"record", "added"}

\* What the place of a request says about what it has written.
DataInv ==
  \A r \in Requests :
    /\ pc[r] \in {"new", "begin", "work"} => Fresh(r)
    /\ pc[r] \in {"second", "call", "rest", "add"} => Unsaved(r)
    /\ pc[r] = "remove" =>
         IF "added" \in Batches[r] THEN Split(r) \/ Saved(r) ELSE Unsaved(r)
    /\ pc[r] = "end" =>
         IF Batches[r] = {} THEN pending[r] = Wanted(r) /\ kept[r] = {} ELSE Saved(r)
    /\ pc[r] = "done" => Saved(r)
    /\ pc[r] \in {"failed", "null"} =>
         Fresh(r) \/ ((Saved(r) \/ Split(r)) /\ kept[r] \cap Batches[r] # {})

IInv == TypeOK /\ PlaceInv /\ BookInv /\ LentOnce /\ DataInv

\* The pool starts whole and the requests without connections.
LEMMA InitIInv == Init => IInv
  BY PoolAssumption
     DEF Init, IInv, TypeOK, PlaceInv, BookInv, LentOnce, Places, DataInv, Fresh

\* Ending a request from a place where it may hold its main connection keeps the
\* invariant: what it gives back is what the pool knows it has.
LEMMA EndIInv ==
  ASSUME IInv, NEW r \in Requests, NEW place \in Over, pc[r] # "new",
         place = "done" => pc[r] = "end", pc[r] \notin Over, End(r, place)
  PROVE  IInv'
<1> USE PoolAssumption DEF IInv
<1>1. TypeOK'
  BY DEF End, GiveBack, Settle, Goto, TypeOK, Over, Places
<1>2. PlaceInv'
  BY DEF End, GiveBack, Goto, TypeOK, PlaceInv, Over, Working
<1>3. LentOnce'
  <2>1. ASSUME NEW q \in Requests PROVE main'[q] # Nobody => holder'[main'[q]] = q
    BY <2>1 DEF End, GiveBack, Goto, TypeOK, LentOnce
  <2>2. ASSUME NEW q \in Requests PROVE extra'[q] # Nobody => holder'[extra'[q]] = q
    BY <2>2 DEF End, GiveBack, Goto, TypeOK, LentOnce
  <2>3. ASSUME NEW q \in Requests PROVE main'[q] # Nobody => main'[q] # extra'[q]
    BY <2>3 DEF End, GiveBack, Goto, TypeOK, LentOnce
  <2> QED BY <2>1, <2>2, <2>3 DEF LentOnce
<1>4. BookInv'
  BY DEF End, GiveBack, Goto, TypeOK, BookInv, LentOnce
<1>5. DataInv'
  <2> USE DEF End, Settle, Goto, TypeOK, Over, Places, DataInv, Fresh, Unsaved, Saved, Split
  <2>1. ASSUME NEW q \in Requests, q # r
        PROVE  pc'[q] = pc[q] /\ pending'[q] = pending[q] /\ kept'[q] = kept[q]
    BY <2>1
  <2>2. pc'[r] = place /\ pending'[r] = {}
        /\ kept'[r] = IF place = "done" THEN kept[r] \cup pending[r] ELSE kept[r]
    OBVIOUS
  <2>3. CASE place = "done"
    <3>1. kept'[r] = Wanted(r)
      BY <2>2, <2>3
    <3> QED BY <2>1, <2>2, <2>3, <3>1
  <2>4. CASE place # "done"
    <3>1. kept[r] = {} \/ ((kept[r] = Wanted(r) \/ Split(r)) /\ kept[r] \cap Batches[r] # {})
      BY DEF Wanted
    <3> QED BY <2>1, <2>2, <2>4, <3>1
  <2> QED BY <2>3, <2>4
<1> QED BY <1>1, <1>2, <1>3, <1>4, <1>5

\* Borrowing the working connection keeps the invariant.
LEMMA BorrowIInv ==
  ASSUME IInv, NEW r \in Requests, Borrow(r)
  PROVE  IInv'
<1> USE PoolAssumption DEF IInv
<1>1. PICK c \in Connections :
        /\ holder[c] = Nobody
        /\ holder' = [holder EXCEPT ![c] = r]
        /\ main' = [main EXCEPT ![r] = c]
        /\ pc' = [pc EXCEPT ![r] = "work"]
        /\ extra' = extra
        /\ pending' = pending /\ kept' = kept
        /\ pc[r] = "begin"
  BY DEF Borrow, Available, Goto, data
<1>2. TypeOK'
  BY <1>1 DEF TypeOK, Places
<1>3. PlaceInv'
  BY <1>1 DEF TypeOK, PlaceInv, Working
<1>4. BookInv'
  BY <1>1 DEF TypeOK, BookInv, PlaceInv
<1>5. LentOnce'
  BY <1>1 DEF TypeOK, LentOnce, PlaceInv
<1>6. DataInv'
  BY <1>1 DEF TypeOK, DataInv, Fresh, Unsaved, Saved, Split
<1> QED BY <1>2, <1>3, <1>4, <1>5, <1>6

\* So does borrowing the second one.
LEMMA BorrowSecondIInv ==
  ASSUME IInv, NEW r \in Requests, BorrowSecond(r)
  PROVE  IInv'
<1> USE PoolAssumption DEF IInv
<1>1. PICK c \in Connections :
        /\ holder[c] = Nobody
        /\ holder' = [holder EXCEPT ![c] = r]
        /\ extra' = [extra EXCEPT ![r] = c]
        /\ pc' = [pc EXCEPT ![r] = "call"]
        /\ main' = main
        /\ pending' = pending /\ kept' = kept
        /\ pc[r] = "second"
  BY DEF BorrowSecond, Available, Goto, data
<1>2. TypeOK'
  BY <1>1 DEF TypeOK, Places
<1>3. PlaceInv'
  BY <1>1 DEF TypeOK, PlaceInv, Working
<1>4. BookInv'
  BY <1>1 DEF TypeOK, BookInv, PlaceInv
<1>5. LentOnce'
  BY <1>1 DEF TypeOK, LentOnce, PlaceInv
<1>6. DataInv'
  BY <1>1 DEF TypeOK, DataInv, Fresh, Unsaved, Saved, Split
<1> QED BY <1>2, <1>3, <1>4, <1>5, <1>6

\* The steps that only move a request on, or write for it.
LEMMA MoveIInv ==
  ASSUME IInv, NEW r \in Requests,
         Arrive(r) \/ Work(r) \/ CallRfqno(r) \/ Rest(r) \/ AddUsers(r) \/ RemoveUsers(r)
  PROVE  IInv'
<1> USE PoolAssumption DEF IInv, Goto, AfterWork, Batch, data
<1>1. Kind[r] \in Kinds
  OBVIOUS
<1>2. TypeOK'
  <2> USE DEF TypeOK, Places, Parts
  <2>1. CASE Arrive(r) BY <2>1 DEF Arrive
  <2>2. CASE Work(r) BY <2>2 DEF Work
  <2>3. CASE CallRfqno(r) BY <2>3 DEF CallRfqno
  <2>4. CASE Rest(r) BY <2>4 DEF Rest
  <2>5. CASE AddUsers(r) BY <2>5 DEF AddUsers
  <2>6. CASE RemoveUsers(r) BY <2>6 DEF RemoveUsers
  <2> QED BY <2>1, <2>2, <2>3, <2>4, <2>5, <2>6
<1>3. PlaceInv'
  <2> USE <1>1 DEF TypeOK, PlaceInv, Working, Kinds
  <2>1. CASE Arrive(r) BY <2>1 DEF Arrive
  <2>2. CASE Work(r) BY <2>2 DEF Work
  <2>3. CASE CallRfqno(r) BY <2>3 DEF CallRfqno
  <2>4. CASE Rest(r) BY <2>4 DEF Rest
  <2>5. CASE AddUsers(r) BY <2>5 DEF AddUsers
  <2>6. CASE RemoveUsers(r) BY <2>6 DEF RemoveUsers
  <2> QED BY <2>1, <2>2, <2>3, <2>4, <2>5, <2>6
<1>4. BookInv' /\ LentOnce'
  BY DEF Arrive, Work, CallRfqno, Rest, AddUsers, RemoveUsers, BookInv, LentOnce
<1>5. DataInv'
  <2> USE <1>1 DEF TypeOK, DataInv, Fresh, Unsaved, Saved, Split, Wanted, Kinds
  <2>1. CASE Arrive(r) BY <2>1 DEF Arrive
  <2>2. CASE Work(r) BY <2>2 DEF Work
  <2>3. CASE CallRfqno(r) BY <2>3 DEF CallRfqno
  <2>4. CASE Rest(r) BY <2>4 DEF Rest, PlaceInv
  <2>5. CASE AddUsers(r) BY <2>5 DEF AddUsers
  <2>6. CASE RemoveUsers(r)
    <3>1. pc[r] = "remove" /\ Kind[r] = "updateEvent" /\ pc' = [pc EXCEPT ![r] = "end"]
      BY <2>6 DEF RemoveUsers, PlaceInv
    <3>2. Wanted(r) = {"record"} \cup Batches[r] /\ Batches[r] \subseteq {"added", "removed"}
      BY <3>1
    <3>3. ASSUME NEW q \in Requests, q # r
          PROVE  pc'[q] = pc[q] /\ pending'[q] = pending[q] /\ kept'[q] = kept[q]
      BY <2>6, <3>3 DEF RemoveUsers
    <3>4. CASE "removed" \in Batches[r]
      <4>1. pending'[r] = {} /\ kept'[r] = kept[r] \cup pending[r] \cup {"removed"}
        BY <2>6, <3>4 DEF RemoveUsers
      <4>2. kept'[r] = Wanted(r)
        BY <3>1, <3>2, <3>4, <4>1
      <4> QED BY <3>1, <3>3, <3>4, <4>1, <4>2
    <3>5. CASE "removed" \notin Batches[r]
      <4>1. pending'[r] = pending[r] /\ kept'[r] = kept[r]
        BY <2>6, <3>5 DEF RemoveUsers
      <4>2. IF Batches[r] = {} THEN pending[r] = Wanted(r) /\ kept[r] = {} ELSE Saved(r)
        BY <3>1, <3>2, <3>5
      <4> QED BY <3>1, <3>3, <4>1, <4>2
    <3> QED BY <3>4, <3>5
  <2> QED BY <2>1, <2>2, <2>3, <2>4, <2>5, <2>6
<1> QED BY <1>2, <1>3, <1>4, <1>5

LEMMA StepIInv == IInv /\ [Next]_vars => IInv'
<1> SUFFICES ASSUME IInv, [Next]_vars PROVE IInv'
  OBVIOUS
<1>1. CASE UNCHANGED vars
  BY <1>1
       DEF vars, IInv, TypeOK, PlaceInv, BookInv, LentOnce, DataInv, Fresh, Unsaved,
           Saved, Split
<1>2. ASSUME NEW r \in Requests, Arrive(r) \/ Step(r) PROVE IInv'
  <2>1. CASE Arrive(r) \/ Work(r) \/ CallRfqno(r) \/ Rest(r) \/ AddUsers(r) \/ RemoveUsers(r)
    BY <2>1, MoveIInv
  <2>2. CASE Borrow(r)
    BY <2>2, BorrowIInv
  <2>3. CASE BorrowSecond(r)
    BY <2>3, BorrowSecondIInv
  <2>4. CASE Commit(r) \/ StatementFails(r) \/ TimeOut(r)
    <3>1. PICK place \in Over : End(r, place) /\ (place = "done" => pc[r] = "end")
      BY <2>4 DEF Commit, StatementFails, TimeOut, Fail, Over
    <3>2. pc[r] # "new" /\ pc[r] \notin Over
      BY <2>4 DEF Commit, StatementFails, TimeOut, Over
    <3> QED BY <3>1, <3>2, EndIInv
  <2> QED BY <1>2, <2>1, <2>2, <2>3, <2>4 DEF Step
<1> QED BY <1>1, <1>2 DEF Next

\* The pool's book and the requests keep their types.
THEOREM TypeCorrect == Spec => []TypeOK
<1>1. IInv => TypeOK
  BY DEF IInv
<1> QED BY <1>1, InitIInv, StepIInv, PTL DEF Spec

\* JobDivaConnectivity's pools: no connection is lent twice, for any number of
\* requests, failures and time-outs.
THEOREM LentOnceAlways == Spec => []LentOnce
<1>1. IInv => LentOnce
  BY DEF IInv
<1> QED BY <1>1, InitIInv, StepIInv, PTL DEF Spec

\* AbstractService.inTransaction and the exception of EventDao.updateEvent: of a
\* request that writes nothing is left half done, but of an event between its two
\* batches.
THEOREM NoHalvesAlways == Spec => []NoHalves
<1>1. IInv => NoHalves
  <2> SUFFICES ASSUME IInv, NEW r \in Requests
               PROVE  kept[r] \in {{}, Wanted(r)} \/ Split(r)
    BY DEF NoHalves, Split
  <2>1. pc[r] \in Places
    BY DEF IInv, TypeOK
  <2> QED BY <2>1 DEF IInv, DataInv, Fresh, Unsaved, Saved, Places
<1> QED BY <1>1, InitIInv, StepIInv, PTL DEF Spec

\* The answer of every service call: what failed left nothing, but for an event past
\* a batch; what went well is all there.
THEOREM AnswersAreTrueAlways == Spec => []AnswersAreTrue
<1>1. IInv => AnswersAreTrue
  BY DEF IInv, DataInv, AnswersAreTrue, Fresh, Saved
<1> QED BY <1>1, InitIInv, StepIInv, PTL DEF Spec

\* Only createJob, and only with the connection of its Get_Rfqno_Team call, ends
\* without giving back what it borrowed.
THEOREM OnlyJobsKeepAlways == Spec => []OnlyJobsKeep
<1>1. IInv => OnlyJobsKeep
  <2> SUFFICES ASSUME IInv, NEW c \in Connections,
                      holder[c] # Nobody, pc[holder[c]] \in Over
               PROVE  Kind[holder[c]] = "createJob" /\ extra[holder[c]] = c
    BY DEF OnlyJobsKeep
  <2>1. holder[c] \in Requests
    BY DEF IInv, TypeOK
  <2>2. main[holder[c]] # c
    BY <2>1, PoolAssumption DEF IInv, PlaceInv, Working, Over
  <2> QED BY <2>1, <2>2, PoolAssumption DEF IInv, BookInv, PlaceInv
<1> QED BY <1>1, InitIInv, StepIInv, PTL DEF Spec

-----------------------------------------------------------------------------
(* Waiting, and coming to an end *)

\* No connection is free and no request runs on: whoever is not through waits for one.
Stalled ==
  /\ Available = {}
  /\ \A r \in Requests : pc[r] \in Over \cup {"new", "begin", "second"}

\* Only createJob makes requests wait for each other: when no connection is free and
\* all running requests wait for one, every connection of the pool is kept by a
\* createJob that is over or held by one that waits for its second.  Services that
\* stay inside inTransaction, or close in a finally block, never stall a pool; only
\* createJob needs Hikari's time-out to get out of one.
THEOREM OnlyJobsStall ==
  Spec => [](Stalled => \A c \in Connections : Kind[holder[c]] = "createJob")
<1>1. ASSUME IInv, Stalled, NEW c \in Connections PROVE Kind[holder[c]] = "createJob"
  <2>1. holder[c] \in Requests /\ holder[c] # Nobody
    BY <1>1 DEF Stalled, Available, IInv, TypeOK
  <2>2. PICK r \in Requests : r = holder[c]
    BY <2>1
  <2>3. CASE main[r] = c
    <3>1. pc[r] \in Working
      BY <1>1, <2>3, PoolAssumption DEF IInv, PlaceInv
    <3>2. pc[r] = "second"
      BY <1>1, <3>1 DEF Stalled, Working, Over
    <3> QED BY <1>1, <2>2, <3>2 DEF IInv, PlaceInv
  <2>4. CASE extra[r] = c
    BY <1>1, <2>2, <2>4, PoolAssumption DEF IInv, PlaceInv
  <2> QED BY <1>1, <2>1, <2>2, <2>3, <2>4 DEF IInv, BookInv
<1>2. IInv => (Stalled => \A c \in Connections : Kind[holder[c]] = "createJob")
  BY <1>1
<1> QED BY <1>2, InitIInv, StepIInv, PTL DEF Spec

\* How far a request has come.
Way ==
  [place \in Places |->
     CASE place = "new" -> 0
       [] place = "begin" -> 1
       [] place = "work" -> 2
       [] place \in {"second", "add"} -> 3
       [] place \in {"call", "remove"} -> 4
       [] place = "rest" -> 5
       [] place = "end" -> 6
       [] OTHER -> 7]

\* Every step of a request brings it nearer to its end, and none of another request
\* sends it back: no call of a service asks twice for what it had, in spite of failing
\* statements and time-outs.  With the fairness of the threads this is why
\* RequestsEnd holds; a request takes seven steps at most.
THEOREM RequestsAdvance ==
  Spec => [][\A r \in Requests : pc'[r] = pc[r] \/ Way[pc'[r]] > Way[pc[r]]]_vars
<1>1. ASSUME TypeOK, NEW q \in Requests, NEW place \in Places, Goto(q, place),
             Way[place] > Way[pc[q]]
      PROVE  \A r \in Requests : pc'[r] = pc[r] \/ Way[pc'[r]] > Way[pc[r]]
  BY <1>1 DEF TypeOK, Goto
<1>2. ASSUME TypeOK, NEW q \in Requests, Arrive(q) \/ Step(q)
      PROVE  \E place \in Places : Goto(q, place) /\ Way[place] > Way[pc[q]]
  <2>1. CASE Arrive(q) \/ Borrow(q) \/ Work(q) \/ BorrowSecond(q) \/ CallRfqno(q) \/ Rest(q)
    BY <2>1 DEF Arrive, Borrow, Work, AfterWork, BorrowSecond, CallRfqno, Rest, Way, Places
  <2>2. CASE AddUsers(q) \/ RemoveUsers(q)
    BY <2>2 DEF AddUsers, RemoveUsers, Batch, Way, Places
  <2>3. CASE Commit(q) \/ StatementFails(q) \/ TimeOut(q)
    <3>1. PICK place \in Over : Goto(q, place)
      BY <2>3 DEF Commit, StatementFails, TimeOut, Fail, End, Over
    <3>2. pc[q] \in {"begin", "second", "work", "call", "rest", "add", "remove", "end"}
      BY <2>3 DEF Commit, StatementFails, TimeOut
    <3> QED BY <3>1, <3>2 DEF Over, Way, Places
  <2> QED BY <1>2, <2>1, <2>2, <2>3 DEF Step
<1>3. IInv /\ [Next]_vars =>
        [\A r \in Requests : pc'[r] = pc[r] \/ Way[pc'[r]] > Way[pc[r]]]_vars
  BY <1>1, <1>2 DEF Next, IInv
<1> QED BY <1>3, InitIInv, StepIInv, PTL DEF Spec

=============================================================================
