--------------------------- MODULE WebhookDelivery ---------------------------
(***************************************************************************)
(* How one webhook message travels from the moment its timer fires to the  *)
(* customer's URL: WebhookDao.syncWebhook, send and waitAndRetry, the rows *)
(* they leave in TWEBHOOK_LOG, and WebhookScheduler, which claims the rows *)
(* of failed messages every ten minutes and sends them again.              *)
(*                                                                         *)
(* A thread is either the Timer thread of a fresh message or the thread a  *)
(* scheduler starts for the batch it claimed; both run the same code.  The *)
(* database, the log rows, survives a crash of an API node; threads and    *)
(* the scheduler's lists do not.  The URL answers as it likes.             *)
(***************************************************************************)
EXTENDS Naturals

CONSTANTS
  Nodes,        \* processes of the API
  Schedulers,   \* the nodes with enable.webhook set: they run a WebhookScheduler
  Threads,      \* the threads there is room for (a bound of the model)
  Messages,     \* the messages events give rise to, and the ID of their row
  Teams,        \* customers
  Databases,    \* the main databases, each holding the rows of some teams
  NodeOf,       \* the node a thread belongs to
  TeamOf,       \* the team a message belongs to
  DbOf,         \* the main database of a team
  MaxAttempts,  \* 5 in the code: the POSTs one send makes before giving up
  Faults,       \* what may go wrong in a run, a subset of AllFaults
  None          \* no message

AllFaults == {"answerLost", "logWrite", "claim", "crash", "config"}

ASSUME ConstantsAssumption ==
  /\ Schedulers \subseteq Nodes
  /\ NodeOf \in [Threads -> Nodes]
  /\ TeamOf \in [Messages -> Teams]
  /\ DbOf \in [Teams -> Databases]
  /\ MaxAttempts \in Nat \ {0}
  /\ Faults \subseteq AllFaults
  /\ None \notin Messages

VARIABLES
  config,    \* what webHooksMap of each node holds for each team
  log,       \* TWEBHOOK_LOG: STATUSID and INPROGRESS of each message's row
  thread,    \* the sending threads
  sched,     \* the run of reSendFaultRequests on each node
  accepted,  \* messages whose timer has fired
  received   \* how often the customer got a message: 0, 1, or 2 for more

vars == <<config, log, thread, sched, accepted, received>>

ConfigStates == {"absent", "inactive", "active"}
Statuses == {"none", "sent", "failed"}   \* no row, STATUSID 1, STATUSID 2
Row == [status : Statuses, inProgress : BOOLEAN]
ThreadStates == {"idle", "send", "post", "settled", "sleep", "gaveup"}

Thread ==
  [pc : ThreadStates, msg : Messages \cup {None}, resend : BOOLEAN,
   todo : SUBSET Messages, counter : 0..MaxAttempts]

Sched ==
  [pc : {"idle", "scan", "claim"}, dbs : SUBSET Databases,
   found : SUBSET Messages, claimed : SUBSET Messages]

IdleThread ==
  [pc |-> "idle", msg |-> None, resend |-> FALSE, todo |-> {}, counter |-> 0]

IdleSched == [pc |-> "idle", dbs |-> {}, found |-> {}, claimed |-> {}]

Init ==
  /\ config = [n \in Nodes |-> [c \in Teams |-> "active"]]
  /\ log = [m \in Messages |-> [status |-> "none", inProgress |-> FALSE]]
  /\ thread = [t \in Threads |-> IdleThread]
  /\ sched = [n \in Nodes |-> IdleSched]
  /\ accepted = {}
  /\ received = [m \in Messages |-> 0]

-----------------------------------------------------------------------------
(* The sending threads: WebhookDao *)

\* What a thread may go on to: the next request of its batch, or its end.
After(batch) ==
  IF batch = {}
  THEN {IdleThread}
  ELSE {[pc |-> "send", msg |-> m, resend |-> TRUE, todo |-> batch \ {m},
         counter |-> 0] : m \in batch}

\* syncWebhook for a fresh event (no JSON yet): dropped unless enableSyncType
\* finds a configuration for the team.
SyncWebhook(t, m) ==
  /\ thread[t].pc = "idle"
  /\ m \notin accepted
  /\ accepted' = accepted \cup {m}
  /\ IF config[NodeOf[t]][TeamOf[m]] = "absent"
     THEN UNCHANGED thread
     ELSE thread' = [thread EXCEPT ![t] =
                       [pc |-> "send", msg |-> m, resend |-> FALSE,
                        todo |-> {}, counter |-> 0]]
  /\ UNCHANGED <<config, log, sched, received>>

\* send looks the configuration up; when it is missing or inactive the method
\* returns and leaves the log as it is.
Send(t) ==
  /\ thread[t].pc = "send"
  /\ IF config[NodeOf[t]][TeamOf[thread[t].msg]] = "active"
     THEN thread' = [thread EXCEPT ![t].pc = "post"]
     ELSE \E next \in After(thread[t].todo) :
            thread' = [thread EXCEPT ![t] = next]
  /\ UNCHANGED <<config, log, sched, accepted, received>>

OneMore(n) == IF n = 0 THEN 1 ELSE 2

\* Mutants: the limit is passed by one; the counter is not handed on.
RetryOnceMore(th) ==
  [th EXCEPT !.counter = @ + 1,
             !.pc = IF th.counter <= MaxAttempts THEN "sleep" ELSE "gaveup"]

RetryWithoutCounting(th) ==
  [th EXCEPT !.pc = IF th.counter + 1 < MaxAttempts THEN "sleep" ELSE "gaveup"]

\* waitAndRetry: sleep and send again, until the counter reaches the limit.
RetryOrGiveUp(th) ==
  [th EXCEPT !.counter = @ + 1,
             !.pc = IF th.counter + 1 < MaxAttempts THEN "sleep" ELSE "gaveup"]

\* The POST is answered with 200 OK.
PostOk(t) ==
  /\ thread[t].pc = "post"
  /\ thread' = [thread EXCEPT ![t].pc = "settled"]
  /\ received' = [received EXCEPT ![thread[t].msg] = OneMore(@)]
  /\ UNCHANGED <<config, log, sched, accepted>>

\* The POST fails: another status or no connection.  With "answerLost" the
\* customer may have got the message all the same (timeout, unreadable body).
PostFails(t) ==
  /\ thread[t].pc = "post"
  /\ thread' = [thread EXCEPT ![t] = RetryOrGiveUp(@)]
  /\ \/ UNCHANGED received
     \/ /\ "answerLost" \in Faults
        /\ received' = [received EXCEPT ![thread[t].msg] = OneMore(@)]
  /\ UNCHANGED <<config, log, sched, accepted>>

\* The five seconds are over: send runs again from the start.
Wake(t) ==
  /\ thread[t].pc = "sleep"
  /\ thread' = [thread EXCEPT ![t].pc = "send"]
  /\ UNCHANGED <<config, log, sched, accepted, received>>

\* Mutants: the two statuses are swapped; INPROGRESS stays as it was; a database
\* error is not swallowed and reaches the catch of send, which retries.
WriteLogSwapped(t) ==
  /\ thread[t].pc \in {"settled", "gaveup"}
  /\ log' = [log EXCEPT ![thread[t].msg] =
               [status |-> IF thread[t].pc = "gaveup" THEN "sent" ELSE "failed",
                inProgress |-> FALSE]]
  /\ \E next \in After(thread[t].todo) : thread' = [thread EXCEPT ![t] = next]
  /\ UNCHANGED <<config, sched, accepted, received>>

WriteLogKeepsClaim(t) ==
  /\ thread[t].pc \in {"settled", "gaveup"}
  /\ log' = [log EXCEPT ![thread[t].msg].status =
               IF thread[t].pc = "settled" THEN "sent" ELSE "failed"]
  /\ \E next \in After(thread[t].todo) : thread' = [thread EXCEPT ![t] = next]
  /\ UNCHANGED <<config, sched, accepted, received>>

WriteLogRethrows(t) ==
  /\ thread[t].pc \in {"settled", "gaveup"}
  /\ "logWrite" \in Faults
  /\ thread[t].counter < MaxAttempts
  /\ thread' = [thread EXCEPT ![t] = RetryOrGiveUp(@)]
  /\ UNCHANGED <<config, log, sched, accepted, received>>

\* insertWebhookLog for a fresh message, updateWebhookLog for a claimed row:
\* both swallow a database error, and the thread goes on either way.
WriteLog(t) ==
  /\ thread[t].pc \in {"settled", "gaveup"}
  /\ \/ log' = [log EXCEPT ![thread[t].msg] =
                  [status |-> IF thread[t].pc = "settled" THEN "sent"
                                                          ELSE "failed",
                   inProgress |-> FALSE]]
     \/ /\ "logWrite" \in Faults
        /\ UNCHANGED log
  /\ \E next \in After(thread[t].todo) : thread' = [thread EXCEPT ![t] = next]
  /\ UNCHANGED <<config, sched, accepted, received>>

-----------------------------------------------------------------------------
(* reSendFaultRequests: WebhookScheduler *)

\* The timer of a node that has one; a run is over before the next one starts.
Tick(n) ==
  /\ n \in Schedulers
  /\ sched[n].pc = "idle"
  /\ sched' = [sched EXCEPT ![n] = [IdleSched EXCEPT !.pc = "scan",
                                                     !.dbs = Databases]]
  /\ UNCHANGED <<config, log, thread, accepted, received>>

\* Mutants: claimed rows are selected too; only they are.
FaultRowsClaimedToo(d) ==
  {m \in Messages : DbOf[TeamOf[m]] = d /\ log[m].status = "failed"}

FaultRowsClaimedOnly(d) ==
  {m \in Messages : /\ DbOf[TeamOf[m]] = d
                    /\ log[m].status = "failed"
                    /\ log[m].inProgress}

FaultRows(d) ==
  {m \in Messages : /\ DbOf[TeamOf[m]] = d
                    /\ log[m].status = "failed"
                    /\ ~log[m].inProgress}

\* The SELECT over one database; an empty result skips the claim.
SelectFaults(n, d) ==
  /\ sched[n].pc = "scan"
  /\ d \in sched[n].dbs
  /\ sched' = [sched EXCEPT ![n].dbs = @ \ {d},
                            ![n].found = FaultRows(d),
                            ![n].pc = IF FaultRows(d) = {} THEN "scan"
                                                           ELSE "claim"]
  /\ UNCHANGED <<config, log, thread, accepted, received>>

\* Mutant: the rows are handed on before INPROGRESS is set.
ClaimWithoutMark(n) ==
  /\ sched[n].pc = "claim"
  /\ sched' = [sched EXCEPT ![n].pc = "scan",
                            ![n].found = {},
                            ![n].claimed = @ \cup sched[n].found]
  /\ UNCHANGED <<config, log, thread, accepted, received>>

\* The batch UPDATE ... SET INPROGRESS = 1 WHERE ID = ? AND TEAMID = ?, one
\* transaction, on the rows the SELECT returned, whatever they are by now.
Claim(n) ==
  /\ sched[n].pc = "claim"
  /\ log' = [m \in Messages |-> IF m \in sched[n].found
                                THEN [log[m] EXCEPT !.inProgress = TRUE]
                                ELSE log[m]]
  /\ sched' = [sched EXCEPT ![n].pc = "scan",
                            ![n].found = {},
                            ![n].claimed = @ \cup sched[n].found]
  /\ UNCHANGED <<config, thread, accepted, received>>

\* A database fails under the loop: the catch around it drops the whole list.
AbortRun(n) ==
  /\ "claim" \in Faults
  /\ sched[n].pc \in {"scan", "claim"}
  /\ sched' = [sched EXCEPT ![n] = IdleSched]
  /\ UNCHANGED <<config, log, thread, accepted, received>>

\* Every database was visited: start a thread for the list if it has any.
FinishRun(n) ==
  /\ sched[n].pc = "scan"
  /\ sched[n].dbs = {}
  /\ sched' = [sched EXCEPT ![n] = IdleSched]
  /\ IF sched[n].claimed = {}
     THEN UNCHANGED thread
     ELSE \E t \in Threads, next \in After(sched[n].claimed) :
            /\ NodeOf[t] = n
            /\ thread[t].pc = "idle"
            /\ thread' = [thread EXCEPT ![t] = next]
  /\ UNCHANGED <<config, log, accepted, received>>

-----------------------------------------------------------------------------
(* The world around *)

\* An update or a delete of the team's configuration, refreshed into the map of a
\* node: of the one that serves the request, of others when they restart.
SetConfig(n, c, s) ==
  /\ "config" \in Faults
  /\ config[n][c] # s
  /\ config' = [config EXCEPT ![n][c] = s]
  /\ UNCHANGED <<log, thread, sched, accepted, received>>

\* A node stops and is started again: its threads and lists are gone.
Crash(n) ==
  /\ "crash" \in Faults
  /\ thread' = [t \in Threads |-> IF NodeOf[t] = n THEN IdleThread
                                                   ELSE thread[t]]
  /\ sched' = [sched EXCEPT ![n] = IdleSched]
  /\ UNCHANGED <<config, log, accepted, received>>

ThreadStep(t) ==
  \/ Send(t)
  \/ PostOk(t)
  \/ PostFails(t)
  \/ Wake(t)
  \/ WriteLog(t)

SchedStep(n) ==
  \/ Tick(n)
  \/ \E d \in Databases : SelectFaults(n, d)
  \/ Claim(n)
  \/ FinishRun(n)

Next ==
  \/ \E t \in Threads, m \in Messages : SyncWebhook(t, m)
  \/ \E t \in Threads : ThreadStep(t)
  \/ \E n \in Nodes : SchedStep(n) \/ AbortRun(n) \/ Crash(n)
  \/ \E n \in Nodes, c \in Teams, s \in ConfigStates : SetConfig(n, c, s)

Spec == Init /\ [][Next]_vars

(***************************************************************************)
(* Threads and timers are scheduled by the JVM, so each of their steps is  *)
(* taken sooner or later, and a POST returns.  CustomerAnswers is not the  *)
(* code's: a URL that is asked again and again answers 200 again and again *)
(* (a premise of EventuallySent).                                          *)
(***************************************************************************)
Fairness ==
  /\ \A t \in Threads : WF_vars(ThreadStep(t))
  /\ \A n \in Nodes : WF_vars(SchedStep(n))

CustomerAnswers == \A t \in Threads : SF_vars(PostOk(t))

FairSpec == Spec /\ Fairness

-----------------------------------------------------------------------------
(* Properties *)

\* The messages a thread still has to deal with.
Held(t) ==
  IF thread[t].pc = "idle" THEN {} ELSE {thread[t].msg} \cup thread[t].todo

Owned(m) ==
  \/ \E t \in Threads : m \in Held(t)
  \/ \E n \in Nodes : m \in sched[n].claimed

\* Every variable has its type (the state WebhookDao and WebhookScheduler keep).
TypeOK ==
  /\ config \in [Nodes -> [Teams -> ConfigStates]]
  /\ log \in [Messages -> Row]
  /\ thread \in [Threads -> Thread]
  /\ sched \in [Nodes -> Sched]
  /\ accepted \subseteq Messages
  /\ received \in [Messages -> 0..2]

\* A row of TWEBHOOK_LOG says STATUSID 1 only for a message the customer's URL
\* answered with 200: afterCompletedWebhookRequest runs after the POST, whatever
\* crashes, lost writes, resends and second nodes do in between.
SentWasReceived ==
  \A m \in Messages : log[m].status = "sent" => received[m] > 0

\* Where at most one node runs the scheduler no two senders ever work on the same
\* message: not two batches of reSendFaultRequests, not a batch and the fresh thread
\* of any node, nor the list a scheduler is still collecting (INPROGRESS is what
\* keeps them apart).
OneOwner ==
  /\ \A t, u \in Threads : t # u => Held(t) \cap Held(u) = {}
  /\ \A t \in Threads, n \in Nodes : Held(t) \cap sched[n].claimed = {}
  /\ \A t \in Threads : thread[t].msg \notin thread[t].todo

\* If the answer of a POST is never lost, the customer gets a message at most
\* once where at most one node runs the scheduler, in spite of crashes, lost log
\* writes, aborted claims and configuration changes between the attempts of
\* waitAndRetry.
AtMostOnce == \A m \in Messages : received[m] <= 1

\* Without crashes, lost writes, aborted claims and configuration changes, a row
\* marked INPROGRESS has a thread or a scheduler that will come back to it: the
\* claim is never left behind by the ordinary course of send and waitAndRetry.
NoStranding == \A m \in Messages : log[m].inProgress => Owned(m)

\* Where at most one node runs the scheduler a row recorded as sent is never touched
\* again: no late batch claims it, no slower sender turns it back into a failure.
SentIsFinal ==
  [][\A m \in Messages : log[m].status = "sent" => log'[m] = log[m]]_vars

\* With CustomerAnswers, and nothing but refused POSTs going wrong, every message
\* whose timer fired is in the end recorded as sent, by its own thread or by one
\* of the ten-minute runs of reSendFaultRequests.
EventuallySent ==
  CustomerAnswers => \A m \in Messages : m \in accepted ~> log[m].status = "sent"

\* Whatever the customer answers and the configuration becomes, a sender lets go
\* of every message it holds: waitAndRetry gives up after MaxAttempts and a batch
\* comes to its end.
SendersLetGo ==
  \A m \in Messages : (\E t \in Threads : thread[t].msg = m)
                        ~> (\A t \in Threads : thread[t].msg # m)

\* Where a message is, seen from outside.
Phase ==
  [m \in Messages |->
     CASE log[m].status = "sent" -> "sent"
       [] log[m].status # "sent" /\ Owned(m) -> "sending"
       [] log[m].status # "sent" /\ ~Owned(m) /\ m \notin accepted -> "new"
       [] log[m].status = "failed" /\ ~Owned(m) /\ m \in accepted
            /\ ~log[m].inProgress -> "failed"
       [] OTHER -> "abandoned"]

Outbox == INSTANCE WebhookOutbox WITH phase <- Phase, received <- received

\* Where at most one node runs the scheduler delivery implements WebhookOutbox:
\* threads of all nodes, batches, retries and every fault are one of its steps or none.
ImplementsOutbox == Outbox!OutboxSpec

\* WebhookScheduler.RESEND_FAILED_REQUEST_IN_MINUTES: failed requests are resent
\* every ten minutes, that is, while the team's webhook is active a row with
\* STATUSID 2 never stays for good without a sender.
FailedIsResent ==
  \A m \in Messages :
    []<>(/\ log[m].status = "failed"
         /\ \A n \in Nodes : config[n][TeamOf[m]] = "active"
         => Owned(m))

=============================================================================
