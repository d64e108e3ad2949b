----------------------------- MODULE ConnectionPool -----------------------------
(***************************************************************************)
(* The connections of one main database: the Hikari pool that              *)
(* JobDivaConnectivity.createJdbcTemplate builds, and the requests that    *)
(* borrow from it.  Most services run their DAO inside                     *)
(* AbstractService.inTransaction, on one connection the transaction        *)
(* manager takes and gives back.  Some DAOs take a connection from the     *)
(* pool by hand: createCandidateHoltilst and getBiDataInfo give it back in *)
(* a finally block, createJob takes it inside its transaction, for the     *)
(* call of Get_Rfqno_Team, and closes the statement only.                  *)
(*                                                                         *)
(* With the connections goes what is written on them: it is committed when *)
(* the request ends well and rolled back when it fails, but updateEvent    *)
(* turns the autocommit of its connection on inside the transaction, after *)
(* each batch of users, which commits what it has written so far.          *)
(***************************************************************************)
EXTENDS Naturals

CONSTANTS
  Requests,
  Kind,         \* what each request does: one of Kinds
  Batches,      \* the batches an updateEvent has to run: of users to add, to remove
  Connections,  \* the pool: spring.datasource.maximum.pool.size of them, 100
  Nobody        \* the connection is in the pool

Kinds == {"transaction", "createJob", "byHand", "updateEvent"}

ASSUME PoolAssumption ==
  /\ Kind \in [Requests -> Kinds]
  /\ Batches \in [Requests -> SUBSET {"added", "removed"}]
  /\ \A r \in Requests : Batches[r] # {} => Kind[r] = "updateEvent"
  /\ Nobody \notin Requests \cup Connections

VARIABLES
  holder,  \* who has each connection
  main,    \* the connection a request works on, Nobody if it has none
  extra,   \* the connection createJob took for its call
  pending, \* what a request has written and the database has not committed
  kept,    \* what of a request is committed
  pc       \* where each request is

vars == <<holder, main, extra, pending, kept, pc>>

data == <<pending, kept>>

Places == {"new", "begin", "work", "second", "call", "rest", "add", "remove", "end",
           "done", "failed", "null"}

\* The answer: what was asked for, an exception, or the null of a DAO that logs
\* the exception and goes on.
Over == {"done", "failed", "null"}

Parts == {"record", "rest", "added", "removed"}

\* What a request has to write: its statements, those of createJob after the call,
\* and the batches of an event.
Wanted(r) ==
  {"record"} \cup {p \in {"rest"} : Kind[r] = "createJob"} \cup Batches[r]

Init ==
  /\ holder = [c \in Connections |-> Nobody]
  /\ main = [r \in Requests |-> Nobody]
  /\ extra = [r \in Requests |-> Nobody]
  /\ pending = [r \in Requests |-> {}]
  /\ kept = [r \in Requests |-> {}]
  /\ pc = [r \in Requests |-> "new"]

Available == {c \in Connections : holder[c] = Nobody}

Goto(r, place) == pc' = [pc EXCEPT ![r] = place]

\* A request comes in; its service, or DAO, asks for a connection.
Arrive(r) ==
  /\ pc[r] = "new"
  /\ Goto(r, "begin")
  /\ UNCHANGED <<holder, main, extra, data>>

\* getConnection, by the transaction manager or by hand.
Borrow(r) ==
  /\ pc[r] = "begin"
  /\ \E c \in Available :
       /\ holder' = [holder EXCEPT ![c] = r]
       /\ main' = [main EXCEPT ![r] = c]
  /\ Goto(r, "work")
  /\ UNCHANGED <<extra, data>>

AfterWork(r) ==
  CASE Kind[r] = "createJob" -> "second"
    [] Kind[r] = "updateEvent" -> "add"
    [] OTHER -> "end"

\* The statements of the DAO, with the connection's autocommit off; createJob then
\* asks for a second connection, updateEvent goes on with the users.
Work(r) ==
  /\ pc[r] = "work"
  /\ pending' = [pending EXCEPT ![r] = @ \cup {"record"}]
  /\ Goto(r, AfterWork(r))
  /\ UNCHANGED <<holder, main, extra, kept>>

BorrowSecond(r) ==
  /\ pc[r] = "second"
  /\ \E c \in Available :
       /\ holder' = [holder EXCEPT ![c] = r]
       /\ extra' = [extra EXCEPT ![r] = c]
  /\ Goto(r, "call")
  /\ UNCHANGED <<main, data>>

\* The call of Get_Rfqno_Team and prepareCall.close(): the statement is closed,
\* the connection is not.
CallRfqno(r) ==
  /\ pc[r] = "call"
  /\ Goto(r, "rest")
  /\ UNCHANGED <<holder, main, extra, data>>

\* Mutant: the statements after the call run on the connection of the call, which
\* commits by itself.
RestOnTheSecond(r) ==
  /\ pc[r] = "rest"
  /\ kept' = [kept EXCEPT ![r] = @ \cup {"rest"}]
  /\ Goto(r, "end")
  /\ UNCHANGED <<holder, main, extra, pending>>

\* The UPDATE of TRFQ, the attachments and the user fields.
Rest(r) ==
  /\ pc[r] = "rest"
  /\ pending' = [pending EXCEPT ![r] = @ \cup {"rest"}]
  /\ Goto(r, "end")
  /\ UNCHANGED <<holder, main, extra, kept>>

\* setAutoCommit(false), the batch, setAutoCommit(true): all that was written so
\* far is committed, the batch with it.  No users, no batch.
Batch(r, part, next) ==
  /\ IF part \in Batches[r]
     THEN /\ kept' = [kept EXCEPT ![r] = @ \cup pending[r] \cup {part}]
          /\ pending' = [pending EXCEPT ![r] = {}]
     ELSE UNCHANGED data
  /\ Goto(r, next)
  /\ UNCHANGED <<holder, main, extra>>

AddUsers(r) == pc[r] = "add" /\ Batch(r, "added", "remove")

RemoveUsers(r) == pc[r] = "remove" /\ Batch(r, "removed", "end")

GiveBack(r) ==
  /\ holder' = [c \in Connections |-> IF c = main[r] THEN Nobody ELSE holder[c]]
  /\ main' = [main EXCEPT ![r] = Nobody]

\* What was written is committed if the request ended well, and gone if not.
Settle(r, place) ==
  /\ kept' = IF place = "done" THEN [kept EXCEPT ![r] = @ \cup pending[r]] ELSE kept
  /\ pending' = [pending EXCEPT ![r] = {}]

\* Mutants: a failing request ends without its rollback or finally block; the
\* connection is closed for good; the request goes on using what it gave back; a
\* request that fails is committed, as when its service catches the exception
\* inside the transaction.
EndOnlyWhenDone(r, place) ==
  /\ IF place = "failed" THEN holder' = holder /\ main' = [main EXCEPT ![r] = Nobody]
     ELSE GiveBack(r)
  /\ Settle(r, place)
  /\ Goto(r, place)
  /\ UNCHANGED extra

EndEvicts(r, place) ==
  /\ holder' = [c \in {d \in Connections : d # main[r]} |-> holder[c]]
  /\ main' = [main EXCEPT ![r] = Nobody]
  /\ Settle(r, place)
  /\ Goto(r, place)
  /\ UNCHANGED extra

EndKeepsUsing(r, place) ==
  /\ holder' = [c \in Connections |-> IF c = main[r] THEN Nobody ELSE holder[c]]
  /\ main' = main
  /\ Settle(r, place)
  /\ Goto(r, place)
  /\ UNCHANGED extra

EndCommits(r, place) ==
  /\ GiveBack(r)
  /\ Settle(r, "done")
  /\ Goto(r, place)
  /\ UNCHANGED extra

\* Commit, rollback or close in finally: the request's own connection goes back.
End(r, place) ==
  /\ GiveBack(r)
  /\ Settle(r, place)
  /\ Goto(r, place)
  /\ UNCHANGED extra

\* The end of the callback; the autocommit of a hotlist's connection is turned on.
Commit(r) == pc[r] = "end" /\ End(r, "done")

\* The exception reaches the service, or the DAO that took its connection by hand
\* catches it and returns null.
Fail(r) == End(r, "failed") \/ (Kind[r] = "byHand" /\ End(r, "null"))

\* A statement throws; so may the commit, the one of an updateEvent already because
\* the connection has its autocommit on.
StatementFails(r) ==
  /\ pc[r] \in {"work", "call", "rest", "add", "remove", "end"}
  /\ Fail(r)

\* Mutant: the pool lets a transaction wait for its second connection for ever.
TimeOutAtBegin(r) ==
  /\ pc[r] = "begin"
  /\ Available = {}
  /\ Fail(r)

\* Nothing is free until Hikari's connectionTimeout: getConnection throws, and a
\* transaction that asked for its second connection is rolled back.
TimeOut(r) ==
  /\ pc[r] \in {"begin", "second"}
  /\ Available = {}
  /\ Fail(r)

Step(r) ==
  \/ Borrow(r)
  \/ Work(r)
  \/ BorrowSecond(r)
  \/ CallRfqno(r)
  \/ Rest(r)
  \/ AddUsers(r)
  \/ RemoveUsers(r)
  \/ Commit(r)
  \/ StatementFails(r)
  \/ TimeOut(r)

Next == \E r \in Requests : Arrive(r) \/ Step(r)

Spec == Init /\ [][Next]_vars

\* Servlet threads run on, statements return, and a wait for a connection ends.
FairSpec == Spec /\ \A r \in Requests : WF_vars(Step(r))

-----------------------------------------------------------------------------
(* Properties *)

\* Every variable has its type: the pool's book and the requests of the services.
TypeOK ==
  /\ holder \in [Connections -> Requests \cup {Nobody}]
  /\ main \in [Requests -> Connections \cup {Nobody}]
  /\ extra \in [Requests -> Connections \cup {Nobody}]
  /\ pending \in [Requests -> SUBSET Parts]
  /\ kept \in [Requests -> SUBSET Parts]
  /\ pc \in [Requests -> Places]

\* A connection that is out belongs to a running request, or it is the one a
\* createJob took for Get_Rfqno_Team: every other path, with failing statements
\* and with waits that time out, gives back what it took.
OnlyJobsKeep ==
  \A c \in Connections :
    LET r == holder[c] IN
    r # Nobody /\ pc[r] \in Over => Kind[r] = "createJob" /\ extra[r] = c

\* No connection is lent twice, and every running request that thinks it has one
\* is the holder the pool knows.
LentOnce ==
  /\ \A r \in Requests : main[r] # Nobody => holder[main[r]] = r
  /\ \A r \in Requests : extra[r] # Nobody => holder[extra[r]] = r
  /\ \A r \in Requests : main[r] # Nobody => main[r] # extra[r]

\* What is committed of a request is nothing or all of it at any time: the rollback
\* of a failing statement, of a failing wait for the second connection or of a
\* failing commit leaves no half.  The exception is an updateEvent that adds users
\* and removes others, between its two batches, or for good if the second fails.
NoHalves ==
  \A r \in Requests :
    \/ kept[r] \in {{}, Wanted(r)}
    \/ Batches[r] = {"added", "removed"} /\ kept[r] = {"record", "added"}

\* The answer of a request is true: all that was asked for is in the database, or,
\* after an exception or a null, none of it; but an updateEvent may answer with an
\* exception when users are added or removed and the event is changed already.
AnswersAreTrue ==
  \A r \in Requests :
    /\ pc[r] = "done" => kept[r] = Wanted(r)
    /\ pc[r] \in {"failed", "null"} => kept[r] = {} \/ kept[r] \cap Batches[r] # {}

\* Every request ends, even when each connection is held by a createJob that
\* waits for its second one: the waits time out and the rollbacks free the pool.
RequestsEnd == \A r \in Requests : pc[r] # "new" ~> pc[r] \in Over

\* application.properties, spring.datasource.maximum.pool.size: that many
\* connections serve the requests of a database at any time; once no request is
\* running all of them are in the pool again.
PoolIsWhole ==
  (\A r \in Requests : pc[r] \in Over \cup {"new"}) => Available = Connections

=============================================================================
