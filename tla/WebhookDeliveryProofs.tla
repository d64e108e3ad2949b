------------------------ MODULE WebhookDeliveryProofs ------------------------
(***************************************************************************)
(* What holds of WebhookDelivery for every set of messages, threads, teams *)
(* and databases, every limit and every set of faults.                     *)
(***************************************************************************)
EXTENDS WebhookDelivery, TLAPS

-----------------------------------------------------------------------------
(* Types *)

\* While a thread may still POST, its counter is below the limit.
CountingThread ==
  {th \in Thread : th.pc \in {"send", "post", "sleep"}
                     => th.counter < MaxAttempts}

Typing == TypeOK /\ thread \in [Threads -> CountingThread]

LEMMA IdleThreadType == IdleThread \in CountingThread
BY ConstantsAssumption DEF IdleThread, CountingThread, Thread, ThreadStates

LEMMA IdleSchedType == IdleSched \in Sched
BY DEF IdleSched, Sched

\* A thread at the start of a request has its type.
LEMMA StartType ==
  ASSUME NEW m \in Messages, NEW batch \in SUBSET Messages, NEW b \in BOOLEAN
  PROVE  [pc |-> "send", msg |-> m, resend |-> b, todo |-> batch,
          counter |-> 0] \in CountingThread
BY ConstantsAssumption DEF CountingThread, Thread, ThreadStates

\* A thread with a batch to go on with is idle or at the start of a request.
LEMMA AfterType ==
  ASSUME NEW batch \in SUBSET Messages, NEW next \in After(batch)
  PROVE  next \in CountingThread
<1>1. CASE batch = {}
  BY <1>1, IdleThreadType DEF After
<1>2. CASE batch # {}
  <2>1. PICK m \in batch :
          next = [pc |-> "send", msg |-> m, resend |-> TRUE,
                  todo |-> batch \ {m}, counter |-> 0]
    BY <1>2 DEF After
  <2>2. m \in Messages /\ batch \ {m} \in SUBSET Messages /\ TRUE \in BOOLEAN
    OBVIOUS
  <2> QED
    BY <2>1, <2>2, StartType
<1> QED
  BY <1>1, <1>2

\* waitAndRetry keeps the type: the counter grows only below the limit.
LEMMA RetryType ==
  ASSUME NEW th \in CountingThread, th.pc = "post"
  PROVE  RetryOrGiveUp(th) \in CountingThread
<1>1. th.counter + 1 \in 0..MaxAttempts
  BY ConstantsAssumption DEF CountingThread, Thread
<1>2. RetryOrGiveUp(th) \in Thread
  BY <1>1 DEF RetryOrGiveUp, CountingThread, Thread, ThreadStates
<1>3. RetryOrGiveUp(th).pc \in {"send", "post", "sleep"}
        => RetryOrGiveUp(th).counter < MaxAttempts
  BY <1>1 DEF RetryOrGiveUp, CountingThread, Thread
<1> QED
  BY <1>2, <1>3 DEF CountingThread

\* Typing is an invariant: one step per action, the changed variables in turn.
LEMMA TypingInvariant == Spec => []Typing
<1>1. Init => Typing
  <2>1. [status |-> "none", inProgress |-> FALSE] \in Row
    BY DEF Row, Statuses
  <2> QED
    BY <2>1, IdleThreadType, IdleSchedType
    DEF Init, Typing, TypeOK, ConfigStates, CountingThread
<1>2. Typing /\ [Next]_vars => Typing'
  <2> SUFFICES ASSUME Typing, [Next]_vars PROVE Typing'
    OBVIOUS
  <2> USE ConstantsAssumption DEF Typing, TypeOK
  <2>0. ASSUME thread' \in [Threads -> CountingThread] 
        PROVE  thread' \in [Threads -> Thread]
    BY <2>0 DEF CountingThread
  <2>1. ASSUME NEW t \in Threads, NEW m \in Messages, SyncWebhook(t, m)
        PROVE  Typing'
    <3> DEFINE start == [pc |-> "send", msg |-> m, resend |-> FALSE,
                         todo |-> {}, counter |-> 0]
    <3>1. start \in CountingThread
      BY StartType
    <3>2. thread' = thread \/ thread' = [thread EXCEPT ![t] = start]
      BY <2>1 DEF SyncWebhook
    <3>3. thread' \in [Threads -> CountingThread]
      BY <3>1, <3>2
    <3> QED
      BY <2>1, <2>0, <3>3 DEF SyncWebhook
  <2>2. ASSUME NEW t \in Threads, Send(t) PROVE Typing'
    <3>1. [thread[t] EXCEPT !.pc = "post"] \in CountingThread
      BY <2>2 DEF Send, CountingThread, Thread, ThreadStates
    <3>2. thread[t].todo \in SUBSET Messages
      BY DEF CountingThread, Thread
    <3>3. thread' \in [Threads -> CountingThread]
      BY <2>2, <3>1, <3>2, AfterType DEF Send
    <3> QED
      BY <2>2, <2>0, <3>3 DEF Send
  <2>3. ASSUME NEW t \in Threads, PostOk(t) PROVE Typing'
    <3>1. [thread[t] EXCEPT !.pc = "settled"] \in CountingThread
      BY DEF CountingThread, Thread, ThreadStates
    <3>2. thread' \in [Threads -> CountingThread]
      BY <2>3, <3>1 DEF PostOk
    <3>3. \A k \in 0..2 : OneMore(k) \in 0..2
      BY DEF OneMore
    <3>4. received' \in [Messages -> 0..2]
      BY <2>3, <3>3 DEF PostOk
    <3> QED
      BY <2>3, <2>0, <3>2, <3>4 DEF PostOk
  <2>4. ASSUME NEW t \in Threads, PostFails(t) PROVE Typing'
    <3>1. thread' \in [Threads -> CountingThread]
      BY <2>4, RetryType DEF PostFails
    <3>2. received' \in [Messages -> 0..2]
      BY <2>4 DEF PostFails, OneMore
    <3> QED
      BY <2>4, <2>0, <3>1, <3>2 DEF PostFails
  <2>5. ASSUME NEW t \in Threads, Wake(t) PROVE Typing'
    <3>1. [thread[t] EXCEPT !.pc = "send"] \in CountingThread
      BY <2>5 DEF Wake, CountingThread, Thread, ThreadStates
    <3>2. thread' \in [Threads -> CountingThread]
      BY <2>5, <3>1 DEF Wake
    <3> QED
      BY <2>5, <2>0, <3>2 DEF Wake
  <2>6. ASSUME NEW t \in Threads, WriteLog(t) PROVE Typing'
    <3>1. thread[t].todo \in SUBSET Messages
      BY DEF CountingThread, Thread
    <3>2. thread' \in [Threads -> CountingThread]
      BY <2>6, <3>1, AfterType DEF WriteLog
    <3>3. [status |-> IF thread[t].pc = "settled" THEN "sent" ELSE "failed",
           inProgress |-> FALSE] \in Row
      BY DEF Row, Statuses
    <3>4. log' \in [Messages -> Row]
      BY <2>6, <3>3 DEF WriteLog
    <3> QED
      BY <2>6, <2>0, <3>2, <3>4 DEF WriteLog
  <2>7. ASSUME NEW n \in Nodes, Tick(n) PROVE Typing'
    <3>1. [IdleSched EXCEPT !.pc = "scan", !.dbs = Databases] \in Sched
      BY DEF IdleSched, Sched
    <3>2. sched' \in [Nodes -> Sched]
      BY <2>7, <3>1 DEF Tick
    <3> QED
      BY <2>7, <3>2 DEF Tick
  <2>8. ASSUME NEW n \in Nodes, NEW d \in Databases, SelectFaults(n, d)
        PROVE  Typing'
    <3> DEFINE next ==
          [sched[n] EXCEPT !.dbs = @ \ {d}, !.found = FaultRows(d),
             !.pc = IF FaultRows(d) = {} THEN "scan" ELSE "claim"]
    <3>1. FaultRows(d) \in SUBSET Messages
      BY DEF FaultRows
    <3>2. next \in Sched
      <4>1. sched[n] \in Sched
        OBVIOUS
      <4>2. PICK place \in {"scan", "claim"} :
              next = [sched[n] EXCEPT !.dbs = @ \ {d}, !.found = FaultRows(d), !.pc = place]
        BY <4>1
      <4> QED
        BY <3>1, <4>1, <4>2 DEF Sched
    <3>3. sched' = [sched EXCEPT ![n] = next]
      BY <2>8 DEF SelectFaults
    <3>4. sched' \in [Nodes -> Sched]
      BY <3>2, <3>3
    <3> QED
      BY <2>8, <3>4 DEF SelectFaults
  <2>9. ASSUME NEW n \in Nodes, Claim(n) PROVE Typing'
    <3> DEFINE next ==
          [sched[n] EXCEPT !.pc = "scan", !.found = {},
                           !.claimed = @ \cup sched[n].found]
    <3>1. \A m \in Messages : [log[m] EXCEPT !.inProgress = TRUE] \in Row
      BY DEF Row
    <3>2. log' \in [Messages -> Row]
      BY <2>9, <3>1 DEF Claim
    <3>3. next \in Sched
      <4>1. /\ sched[n] \in Sched
            /\ sched[n].claimed \cup sched[n].found \in SUBSET Messages
        BY DEF Sched
      <4> QED
        BY <4>1 DEF Sched
    <3>4. sched' = [sched EXCEPT ![n] = next]
      BY <2>9 DEF Claim
    <3>5. sched' \in [Nodes -> Sched]
      BY <3>3, <3>4
    <3> QED
      BY <2>9, <3>2, <3>5 DEF Claim
  <2>10. ASSUME NEW n \in Nodes, FinishRun(n) PROVE Typing'
    <3>1. sched[n].claimed \in SUBSET Messages
      BY DEF Sched
    <3>2. thread' \in [Threads -> CountingThread]
      BY <2>10, <3>1, AfterType DEF FinishRun
    <3>3. sched' \in [Nodes -> Sched]
      BY <2>10, IdleSchedType DEF FinishRun
    <3> QED
      BY <2>10, <2>0, <3>2, <3>3 DEF FinishRun
  <2>11. ASSUME NEW n \in Nodes, AbortRun(n) PROVE Typing'
    BY <2>11, IdleSchedType DEF AbortRun
  <2>12. ASSUME NEW n \in Nodes, Crash(n) PROVE Typing'
    <3>1. thread' \in [Threads -> CountingThread]
      BY <2>12, IdleThreadType DEF Crash
    <3>2. sched' \in [Nodes -> Sched]
      BY <2>12, IdleSchedType DEF Crash
    <3> QED
      BY <2>12, <2>0, <3>1, <3>2 DEF Crash
  <2>13. ASSUME NEW n \in Nodes, NEW c \in Teams, NEW s \in ConfigStates,
                SetConfig(n, c, s)
         PROVE  Typing'
    BY <2>13 DEF SetConfig
  <2>14. CASE UNCHANGED vars
    BY <2>14 DEF vars
  <2> QED
    BY <2>1, <2>2, <2>3, <2>4, <2>5, <2>6, <2>7, <2>8, <2>9, <2>10, <2>11,
       <2>12, <2>13, <2>14
    DEF Next, ThreadStep, SchedStep
<1> QED
  BY <1>1, <1>2, PTL DEF Spec

\* The states of WebhookDao and WebhookScheduler are of their types, whatever
\* the order of their steps.
THEOREM TypeCorrect == Spec => []TypeOK
<1>1. Typing => TypeOK
  BY DEF Typing
<1> QED
  BY <1>1, TypingInvariant, PTL

-----------------------------------------------------------------------------
(* Ownership: one scheduler, any number of nodes that send fresh messages *)

OneScheduler == \A a, b \in Schedulers : a = b

Carried(th) == IF th.pc = "idle" THEN {} ELSE {th.msg} \cup th.todo

ClaimedRow(m) == log[m].status = "failed" /\ log[m].inProgress

NoRow(m) == log[m].status = "none" /\ ~log[m].inProgress

\* A batch holds claimed rows, a fresh thread one message without a row.
ThreadInv == \A t \in Threads :
  /\ thread[t].msg \notin thread[t].todo
  /\ ~thread[t].resend => thread[t].todo = {}
  /\ \A m \in Carried(thread[t]) :
       /\ m \in accepted
       /\ IF thread[t].resend THEN ClaimedRow(m) ELSE NoRow(m)

\* What the scheduler collected is claimed; what it found is still to be.
SchedInv == \A n \in Nodes :
  /\ \A m \in sched[n].claimed : m \in accepted /\ ClaimedRow(m)
  /\ \A m \in sched[n].found : /\ m \in accepted
                               /\ log[m].status = "failed"
                               /\ ~log[m].inProgress

LogInv == \A m \in Messages :
  /\ log[m].status # "none" => m \in accepted
  /\ log[m].inProgress => log[m].status = "failed"

Disjoint ==
  /\ \A t, u \in Threads :
       t # u => Carried(thread[t]) \cap Carried(thread[u]) = {}
  /\ \A t \in Threads, n \in Nodes :
       Carried(thread[t]) \cap sched[n].claimed = {}

\* A node without enable.webhook runs no scheduler.
QuietInv == \A n \in Nodes \ Schedulers : sched[n] = IdleSched

IInv == Typing /\ ThreadInv /\ SchedInv /\ LogInv /\ Disjoint /\ QuietInv

\* A thread with a batch carries that batch, as claimed rows, and nothing twice.
LEMMA AfterCarries ==
  ASSUME NEW batch \in SUBSET Messages, NEW next \in After(batch)
  PROVE  /\ Carried(next) = batch
         /\ next.msg \notin next.todo
         /\ ~next.resend => next.todo = {}
         /\ batch # {} => next.resend
<1>1. CASE batch = {}
  BY <1>1 DEF After, IdleThread, Carried
<1>2. CASE batch # {}
  BY <1>2 DEF After, Carried
<1> QED
  BY <1>1, <1>2

\* A scheduler that is running is one of a node with enable.webhook.
LEMMA QuietStep ==
  ASSUME Typing, QuietInv, [Next]_vars
  PROVE  QuietInv'
<1>1. ASSUME NEW n \in Nodes, SchedStep(n) \/ AbortRun(n)
      PROVE  n \in Schedulers /\ \A k \in Nodes : k # n => sched'[k] = sched[k]
  <2>1. Tick(n) \/ sched[n].pc \in {"scan", "claim"}
    BY <1>1 DEF SchedStep, SelectFaults, Claim, FinishRun, AbortRun
  <2>2. n \in Schedulers
    BY <2>1 DEF Tick, QuietInv, IdleSched
  <2>3. \A k \in Nodes : k # n => sched'[k] = sched[k]
    BY <1>1 DEF SchedStep, Tick, SelectFaults, Claim, FinishRun, AbortRun, Typing, TypeOK
  <2> QED
    BY <2>2, <2>3
<1>2. ASSUME NEW n \in Nodes, Crash(n)
      PROVE  \A k \in Nodes : sched'[k] \in {sched[k], IdleSched}
  BY <1>2 DEF Crash, Typing, TypeOK
<1>3. \/ \E n \in Nodes : SchedStep(n) \/ AbortRun(n) \/ Crash(n)
      \/ UNCHANGED sched
  BY DEF Next, ThreadStep, SyncWebhook, Send, PostOk, PostFails, Wake, WriteLog,
         SetConfig, vars
<1> QED
  BY <1>1, <1>2, <1>3 DEF QuietInv

\* A thread that goes on with what it has, or with less, disturbs nothing.
LEMMA ThreadGoesOn ==
  ASSUME IInv, Typing', NEW t \in Threads, NEW th,
         thread' = [thread EXCEPT ![t] = th],
         UNCHANGED <<log, sched, accepted>>,
         Carried(th) \subseteq Carried(thread[t]),
         th.msg \notin th.todo,
         ~th.resend => th.todo = {},
         Carried(th) # {} => th.resend = thread[t].resend
  PROVE  IInv'
<1>1. \A u \in Threads : u # t => thread'[u] = thread[u]
  BY DEF IInv, Typing, TypeOK
<1>2. thread'[t] = th
  BY DEF IInv, Typing, TypeOK
<1>3. ThreadInv'
  BY <1>1, <1>2 DEF IInv, ThreadInv, ClaimedRow, NoRow
<1>4. Disjoint'
  BY <1>1, <1>2 DEF IInv, Disjoint
<1>5. SchedInv' /\ LogInv' /\ QuietInv'
  BY DEF IInv, SchedInv, LogInv, ClaimedRow, QuietInv
<1> QED
  BY <1>3, <1>4, <1>5 DEF IInv

LEMMA OwnershipStart == Init => ThreadInv /\ SchedInv /\ LogInv /\ Disjoint /\ QuietInv
BY DEF Init, IdleThread, IdleSched, ThreadInv, SchedInv, LogInv, Disjoint, QuietInv, Carried

\* Each action keeps the parts of IInv; Typing' is TypingInvariant's business.
LEMMA OwnershipStep ==
  ASSUME OneScheduler, IInv, [Next]_vars, Typing'
  PROVE  IInv'
<1>0. QuietInv'
  BY QuietStep DEF IInv
<1> USE <1>0 DEF IInv
<1>1. ASSUME NEW t \in Threads, NEW m \in Messages, SyncWebhook(t, m)
      PROVE  IInv'
  <2>1. CASE config[NodeOf[t]][TeamOf[m]] = "absent"
    BY <1>1, <2>1
    DEF SyncWebhook, ThreadInv, SchedInv, LogInv, Disjoint, ClaimedRow, NoRow
  <2>2. CASE config[NodeOf[t]][TeamOf[m]] # "absent"
    <3> DEFINE start == [pc |-> "send", msg |-> m, resend |-> FALSE,
                         todo |-> {}, counter |-> 0]
    <3>1. /\ thread' = [thread EXCEPT ![t] = start]
          /\ accepted' = accepted \cup {m}
          /\ UNCHANGED <<log, sched>>
          /\ m \notin accepted
      BY <1>1, <2>2 DEF SyncWebhook
    <3>2. \A u \in Threads : u # t => thread'[u] = thread[u]
      BY <3>1 DEF Typing, TypeOK
    <3>3. thread'[t] = start
      BY <3>1 DEF Typing, TypeOK
    <3>4. Carried(start) = {m} /\ start.msg \notin start.todo /\ start.todo = {}
      BY DEF Carried
    <3>5. NoRow(m)
      BY <3>1 DEF LogInv, NoRow, Typing, TypeOK, Row, Statuses
    <3> HIDE DEF start
    <3>6. ~start.resend
      BY DEF start
    <3>7. ThreadInv'
      BY <3>1, <3>2, <3>3, <3>4, <3>5, <3>6 DEF ThreadInv, ClaimedRow, NoRow
    <3>8. \A u \in Threads : m \notin Carried(thread[u])
      BY <3>1 DEF ThreadInv
    <3>9. \A n \in Nodes : m \notin sched[n].claimed
      BY <3>1 DEF SchedInv
    <3>10. Disjoint'
      BY <3>1, <3>2, <3>3, <3>4, <3>8, <3>9 DEF Disjoint
    <3>11. SchedInv' /\ LogInv'
      BY <3>1 DEF SchedInv, LogInv, ClaimedRow
    <3> QED
      BY <3>7, <3>10, <3>11
  <2> QED
    BY <2>1, <2>2
<1>2. ASSUME NEW t \in Threads, Send(t) PROVE IInv'
  <2>1. CASE config[NodeOf[t]][TeamOf[thread[t].msg]] = "active"
    <3> DEFINE th == [thread[t] EXCEPT !.pc = "post"]
    <3>1. thread' = [thread EXCEPT ![t] = th]
      BY <1>2, <2>1 DEF Send
    <3>2. /\ th.msg = thread[t].msg /\ th.todo = thread[t].todo
          /\ th.resend = thread[t].resend
      BY DEF Typing, TypeOK, Thread
    <3>3. Carried(th) \subseteq Carried(thread[t])
      BY <1>2, <3>2 DEF Send, Carried
    <3> QED
      BY <1>2, <3>1, <3>2, <3>3, ThreadGoesOn DEF Send, ThreadInv
  <2>2. CASE config[NodeOf[t]][TeamOf[thread[t].msg]] # "active"
    <3>1. thread[t].todo \in SUBSET Messages
      BY DEF Typing, TypeOK, Thread
    <3>2. PICK next \in After(thread[t].todo) :
            thread' = [thread EXCEPT ![t] = next]
      BY <1>2, <2>2 DEF Send
    <3>3. /\ Carried(next) = thread[t].todo
          /\ next.msg \notin next.todo
          /\ ~next.resend => next.todo = {}
          /\ thread[t].todo # {} => next.resend
      BY <3>1, AfterCarries
    <3>4. thread[t].todo \subseteq Carried(thread[t])
      BY <1>2 DEF Send, Carried
    <3>5. Carried(next) # {} => next.resend = thread[t].resend
      BY <3>3 DEF ThreadInv, Typing, TypeOK, Thread
    <3> QED
      BY <1>2, <3>2, <3>3, <3>4, <3>5, ThreadGoesOn DEF Send
  <2> QED
    BY <2>1, <2>2
<1>3. ASSUME NEW t \in Threads, PostOk(t) \/ Wake(t) PROVE IInv'
  <2>1. PICK p \in ThreadStates :
          p # "idle" /\ thread' = [thread EXCEPT ![t] = [thread[t] EXCEPT !.pc = p]]
    BY <1>3 DEF PostOk, Wake, ThreadStates
  <2> DEFINE th == [thread[t] EXCEPT !.pc = p]
  <2>2. /\ th.msg = thread[t].msg /\ th.todo = thread[t].todo
        /\ th.resend = thread[t].resend
    BY DEF Typing, TypeOK, Thread
  <2>3. Carried(th) \subseteq Carried(thread[t])
    BY <1>3, <2>2 DEF PostOk, Wake, Carried
  <2> QED
    BY <1>3, <2>1, <2>2, <2>3, ThreadGoesOn DEF PostOk, Wake, ThreadInv
<1>4. ASSUME NEW t \in Threads, PostFails(t) PROVE IInv'
  <2> DEFINE th == RetryOrGiveUp(thread[t])
  <2>1. /\ th.msg = thread[t].msg /\ th.todo = thread[t].todo
        /\ th.resend = thread[t].resend
    BY DEF Typing, TypeOK, Thread, RetryOrGiveUp
  <2>2. Carried(th) \subseteq Carried(thread[t])
    BY <1>4, <2>1 DEF PostFails, Carried
  <2> QED
    BY <1>4, <2>1, <2>2, ThreadGoesOn DEF PostFails, ThreadInv
<1>5. ASSUME NEW t \in Threads, WriteLog(t) PROVE IInv'
  <2>1. thread[t].todo \in SUBSET Messages
    BY DEF Typing, TypeOK, Thread
  <2>2. PICK next \in After(thread[t].todo) :
          thread' = [thread EXCEPT ![t] = next]
    BY <1>5 DEF WriteLog
  <2>3. /\ Carried(next) = thread[t].todo
        /\ next.msg \notin next.todo
        /\ ~next.resend => next.todo = {}
        /\ thread[t].todo # {} => next.resend
    BY <2>1, AfterCarries
  <2>4. Carried(thread[t]) = {thread[t].msg} \cup thread[t].todo
    BY <1>5 DEF WriteLog, Carried
  <2>5. Carried(next) # {} => next.resend = thread[t].resend
    BY <2>3 DEF ThreadInv, Typing, TypeOK, Thread
  <2>6. CASE UNCHANGED log
    BY <1>5, <2>2, <2>3, <2>4, <2>5, <2>6, ThreadGoesOn DEF WriteLog
  <2>7. CASE ~UNCHANGED log
    <3> DEFINE m0 == thread[t].msg
    <3>1. \A m \in Messages : m # m0 => log'[m] = log[m]
      BY <1>5, <2>7 DEF WriteLog, Typing, TypeOK
    <3>2. m0 \in Messages =>
            /\ log'[m0].status \in {"sent", "failed"}
            /\ ~log'[m0].inProgress
      BY <1>5, <2>7 DEF WriteLog, Typing, TypeOK
    <3>3. /\ \A u \in Threads : u # t => thread'[u] = thread[u]
          /\ thread'[t] = next
          /\ UNCHANGED <<sched, accepted>>
      BY <1>5, <2>2 DEF WriteLog, Typing, TypeOK
    <3>4. \A u \in Threads : Carried(thread[u]) \subseteq Messages \cup {None}
      BY DEF Carried, Typing, TypeOK, Thread
    <3>5. m0 \in accepted /\ m0 \in Messages
      BY <2>4 DEF ThreadInv, Typing, TypeOK
    <3>6. ThreadInv'
      <4>1. ASSUME NEW u \in Threads, u # t, NEW m \in Carried(thread[u])
            PROVE  m # m0 /\ m \in Messages
        BY <4>1, <2>4 DEF Disjoint, ThreadInv, Typing, TypeOK
      <4>2. ASSUME NEW m \in thread[t].todo PROVE m # m0 /\ m \in Messages
        BY <4>2, <2>1 DEF ThreadInv
      <4> QED
        BY <3>1, <3>3, <4>1, <4>2, <2>3, <2>4, <2>5
        DEF ThreadInv, ClaimedRow, NoRow
    <3>7. Disjoint'
      BY <3>3, <2>3, <2>4 DEF Disjoint
    <3>8. SchedInv'
      <4>1. ASSUME NEW n \in Nodes, NEW m \in sched[n].claimed
            PROVE  m # m0 /\ m \in Messages
        BY <4>1, <2>4 DEF Disjoint, Typing, TypeOK, Sched
      <4>2. ASSUME NEW n \in Nodes, NEW m \in sched[n].found
            PROVE  m # m0 /\ m \in Messages
        BY <4>2, <2>4
        DEF SchedInv, ThreadInv, ClaimedRow, NoRow, Typing, TypeOK, Sched
      <4> QED
        BY <3>1, <3>3, <4>1, <4>2 DEF SchedInv, ClaimedRow
    <3>9. LogInv'
      BY <3>1, <3>2, <3>3, <3>5 DEF LogInv
    <3> QED
      BY <3>6, <3>7, <3>8, <3>9
  <2> QED
    BY <2>6, <2>7
<1>6. ASSUME NEW n \in Nodes, Tick(n) PROVE IInv'
  <2>1. /\ sched'[n].found = {} /\ sched'[n].claimed = {}
        /\ \A k \in Nodes : k # n => sched'[k] = sched[k]
        /\ UNCHANGED <<log, thread, accepted>>
    BY <1>6 DEF Tick, IdleSched, Typing, TypeOK
  <2> QED
    BY <2>1 DEF ThreadInv, SchedInv, LogInv, Disjoint, ClaimedRow, NoRow
<1>7. ASSUME NEW n \in Nodes, NEW d \in Databases, SelectFaults(n, d)
      PROVE  IInv'
  <2>1. /\ sched'[n].found = FaultRows(d)
        /\ sched'[n].claimed = sched[n].claimed
        /\ \A k \in Nodes : k # n => sched'[k] = sched[k]
        /\ UNCHANGED <<log, thread, accepted>>
    BY <1>7 DEF SelectFaults, Typing, TypeOK, Sched
  <2>2. \A m \in FaultRows(d) :
          m \in accepted /\ log[m].status = "failed" /\ ~log[m].inProgress
    BY DEF FaultRows, LogInv
  <2> QED
    BY <2>1, <2>2 DEF ThreadInv, SchedInv, LogInv, Disjoint, ClaimedRow, NoRow
<1>8. ASSUME NEW n \in Nodes, Claim(n) PROVE IInv'
  <2>1. /\ sched'[n].found = {}
        /\ sched'[n].claimed = sched[n].claimed \cup sched[n].found
        /\ \A k \in Nodes : k # n => /\ sched'[k] = sched[k]
                                     /\ sched[k].found = {} /\ sched[k].claimed = {}
        /\ UNCHANGED <<thread, accepted>>
    <3>1. n \in Schedulers
      BY <1>8 DEF Claim, QuietInv, IdleSched
    <3>2. \A k \in Nodes : k # n => sched[k] = IdleSched
      BY <3>1 DEF OneScheduler, QuietInv
    <3> QED
      BY <1>8, <3>2 DEF Claim, IdleSched, Typing, TypeOK, Sched
  <2>2. \A m \in Messages \ sched[n].found : log'[m] = log[m]
    BY <1>8 DEF Claim
  <2>3. \A m \in sched[n].found :
          m \in Messages /\ log'[m].status = "failed" /\ log'[m].inProgress
    BY <1>8 DEF Claim, SchedInv, Typing, TypeOK, Sched, Row
  <2>4. \A t \in Threads : Carried(thread[t]) \cap sched[n].found = {}
    BY DEF ThreadInv, SchedInv, ClaimedRow, NoRow
  <2>5. ThreadInv'
    BY <2>1, <2>2, <2>4 DEF ThreadInv, ClaimedRow, NoRow, Typing, TypeOK
  <2>6. SchedInv'
    <3>1. ASSUME NEW m \in sched[n].claimed PROVE m \in Messages /\ m \in accepted'
      BY <2>1 DEF SchedInv, Typing, TypeOK, Sched
    <3>2. ASSUME NEW m \in sched[n].claimed \cup sched[n].found
          PROVE  m \in accepted' /\ log'[m].status = "failed" /\ log'[m].inProgress
      BY <2>1, <2>2, <2>3, <3>1 DEF SchedInv, ClaimedRow
    <3> QED
      BY <2>1, <3>2 DEF SchedInv, ClaimedRow
  <2>7. LogInv'
    BY <2>1, <2>2, <2>3 DEF LogInv, SchedInv
  <2>8. Disjoint'
    BY <2>1, <2>4 DEF Disjoint
  <2> QED
    BY <2>5, <2>6, <2>7, <2>8
<1>9. ASSUME NEW n \in Nodes, AbortRun(n) PROVE IInv'
  <2>1. /\ sched'[n].found = {} /\ sched'[n].claimed = {}
        /\ \A k \in Nodes : k # n => sched'[k] = sched[k]
        /\ UNCHANGED <<log, thread, accepted>>
    BY <1>9 DEF AbortRun, IdleSched, Typing, TypeOK
  <2> QED
    BY <2>1 DEF ThreadInv, SchedInv, LogInv, Disjoint, ClaimedRow, NoRow
<1>10. ASSUME NEW n \in Nodes, FinishRun(n) PROVE IInv'
  <2>1. /\ sched'[n].found = {} /\ sched'[n].claimed = {}
        /\ \A k \in Nodes : k # n => /\ sched'[k] = sched[k]
                                     /\ sched[k].found = {} /\ sched[k].claimed = {}
        /\ UNCHANGED <<log, accepted>>
    <3>1. n \in Schedulers
      BY <1>10 DEF FinishRun, QuietInv, IdleSched
    <3>2. \A k \in Nodes : k # n => sched[k] = IdleSched
      BY <3>1 DEF OneScheduler, QuietInv
    <3> QED
      BY <1>10, <3>2 DEF FinishRun, IdleSched, Typing, TypeOK
  <2>2. CASE sched[n].claimed = {}
    BY <1>10, <2>1, <2>2
    DEF FinishRun, ThreadInv, SchedInv, LogInv, Disjoint, ClaimedRow, NoRow
  <2>3. CASE sched[n].claimed # {}
    <3>1. sched[n].claimed \in SUBSET Messages
      BY DEF Typing, TypeOK, Sched
    <3>2. PICK t \in Threads, next \in After(sched[n].claimed) :
            thread[t].pc = "idle" /\ thread' = [thread EXCEPT ![t] = next]
      BY <1>10, <2>3 DEF FinishRun
    <3>3. /\ Carried(next) = sched[n].claimed
          /\ next.msg \notin next.todo
          /\ next.resend
      BY <2>3, <3>1, AfterCarries
    <3>4. /\ \A u \in Threads : u # t => thread'[u] = thread[u]
          /\ thread'[t] = next
      BY <3>2 DEF Typing, TypeOK
    <3>5. ThreadInv'
      BY <2>1, <3>3, <3>4 DEF ThreadInv, SchedInv, ClaimedRow, NoRow
    <3>6. Disjoint'
      BY <2>1, <3>3, <3>4 DEF Disjoint
    <3>7. SchedInv' /\ LogInv'
      BY <2>1 DEF SchedInv, LogInv
    <3> QED
      BY <3>5, <3>6, <3>7
  <2> QED
    BY <2>2, <2>3
<1>11. ASSUME NEW n \in Nodes, Crash(n) PROVE IInv'
  <2>1. /\ sched'[n].found = {} /\ sched'[n].claimed = {}
        /\ \A k \in Nodes : k # n => sched'[k] = sched[k]
        /\ \A t \in Threads : thread'[t] = thread[t] \/ thread'[t] = IdleThread
        /\ UNCHANGED <<log, accepted>>
    BY <1>11 DEF Crash, IdleSched, Typing, TypeOK
  <2>2. /\ Carried(IdleThread) = {} /\ IdleThread.msg \notin IdleThread.todo
        /\ IdleThread.todo = {}
    BY DEF Carried, IdleThread
  <2>3. ThreadInv'
    BY <2>1, <2>2 DEF ThreadInv, ClaimedRow, NoRow
  <2>4. Disjoint'
    BY <2>1, <2>2 DEF Disjoint
  <2>5. SchedInv' /\ LogInv'
    BY <2>1 DEF SchedInv, LogInv, ClaimedRow
  <2> QED
    BY <2>3, <2>4, <2>5
<1>12. ASSUME NEW n \in Nodes, NEW c \in Teams, NEW s \in ConfigStates,
              SetConfig(n, c, s)
       PROVE  IInv'
  BY <1>12
  DEF SetConfig, ThreadInv, SchedInv, LogInv, Disjoint, ClaimedRow, NoRow
<1>13. CASE UNCHANGED vars
  BY <1>13
  DEF vars, ThreadInv, SchedInv, LogInv, Disjoint, ClaimedRow, NoRow
<1> QED
  BY <1>1, <1>2, <1>3, <1>4, <1>5, <1>6, <1>7, <1>8, <1>9, <1>10, <1>11,
     <1>12, <1>13
  DEF Next, ThreadStep, SchedStep

LEMMA OwnershipInvariant ==
  ASSUME OneScheduler
  PROVE  Spec => []IInv
<1>1. Init /\ Typing => IInv
  BY OwnershipStart DEF IInv
<1>2. IInv /\ Typing' /\ [Next]_vars => IInv'
  BY OwnershipStep
<1> QED
  BY <1>1, <1>2, TypingInvariant, PTL DEF Spec

\* Where at most one node runs the scheduler no message is ever in the hands of two
\* senders: claiming in reSendFaultRequests is enough, however many threads it starts.
THEOREM OneOwnerAlways ==
  ASSUME OneScheduler
  PROVE  Spec => []OneOwner
<1>1. IInv => OneOwner
  BY DEF IInv, Disjoint, ThreadInv, OneOwner, Held, Carried
<1> QED
  BY <1>1, OwnershipInvariant, PTL

\* Where at most one node runs the scheduler a row recorded as sent stays as it is
\* for good: updateWebhookLog and the batch UPDATE only ever reach rows that are not.
THEOREM SentStaysSent ==
  ASSUME OneScheduler
  PROVE  Spec => SentIsFinal
<1>1. IInv /\ [Next]_vars => [\A m \in Messages :
                               log[m].status = "sent" => log'[m] = log[m]]_vars
  <2> SUFFICES ASSUME IInv, Next, NEW m \in Messages, log[m].status = "sent"
               PROVE  log'[m] = log[m]
    BY DEF vars
  <2>1. CASE UNCHANGED log
    BY <2>1
  <2>2. ASSUME NEW t \in Threads, WriteLog(t) PROVE log'[m] = log[m]
    <3>1. m # thread[t].msg
      BY <2>2 DEF WriteLog, IInv, ThreadInv, Carried, ClaimedRow, NoRow
    <3> QED
      BY <2>2, <3>1 DEF WriteLog, IInv, Typing, TypeOK
  <2>3. ASSUME NEW n \in Nodes, Claim(n) PROVE log'[m] = log[m]
    BY <2>3 DEF Claim, IInv, SchedInv
  <2> QED
    BY <2>1, <2>2, <2>3
    DEF Next, ThreadStep, SchedStep, SyncWebhook, Send, PostOk, PostFails, Wake,
        Tick, SelectFaults, AbortRun, FinishRun, Crash, SetConfig
<1> QED
  BY <1>1, OwnershipInvariant, PTL DEF Spec, SentIsFinal

-----------------------------------------------------------------------------
(* Sent rows and the customer: any number of nodes *)

\* A thread about to record success has been answered, and for a message.
AnsweredInv == \A t \in Threads :
  /\ thread[t].pc # "idle" => thread[t].msg \in Messages
  /\ thread[t].pc = "settled" => received[thread[t].msg] > 0

ReceivedInv == Typing /\ AnsweredInv /\ SentWasReceived

LEMMA AfterAnswered ==
  ASSUME NEW batch \in SUBSET Messages, NEW next \in After(batch)
  PROVE  next.pc # "settled" /\ (next.pc # "idle" => next.msg \in Messages)
BY DEF After, IdleThread

LEMMA ReceivedStep ==
  ASSUME ReceivedInv, [Next]_vars, Typing'
  PROVE  ReceivedInv'
<1> USE DEF ReceivedInv
<1>0. \A m \in Messages : received[m] \in 0..2
  BY DEF Typing, TypeOK
<1>1. ASSUME NEW t \in Threads, NEW m \in Messages, SyncWebhook(t, m)
      PROVE  ReceivedInv'
  BY <1>1 DEF SyncWebhook, AnsweredInv, SentWasReceived, Typing, TypeOK
<1>2. ASSUME NEW t \in Threads, Send(t) PROVE ReceivedInv'
  <2>1. thread[t].todo \in SUBSET Messages
    BY DEF Typing, TypeOK, Thread
  <2> DEFINE th == thread'[t]
  <2>2. th.pc # "settled" /\ (th.pc # "idle" => th.msg \in Messages)
    <3>1. thread[t] \in Thread /\ thread[t].pc = "send" /\ thread[t].msg \in Messages
      BY <1>2 DEF Send, AnsweredInv, Typing, TypeOK
    <3>2. th = [thread[t] EXCEPT !.pc = "post"] \/ th \in After(thread[t].todo)
      BY <1>2 DEF Send, Typing, TypeOK
    <3> HIDE DEF th
    <3> QED
      BY <2>1, <3>1, <3>2, AfterAnswered DEF Thread
  <2>3. \A u \in Threads : u # t => thread'[u] = thread[u]
    BY <1>2 DEF Send, Typing, TypeOK
  <2> QED
    BY <1>2, <2>2, <2>3 DEF Send, AnsweredInv, SentWasReceived
<1>3. ASSUME NEW t \in Threads, PostOk(t) PROVE ReceivedInv'
  <2>1. \A m \in Messages : received[m] > 0 => received'[m] > 0
    BY <1>0, <1>3 DEF PostOk, OneMore, Typing, TypeOK
  <2>2. /\ thread[t].msg \in Messages
        /\ received'[thread[t].msg] > 0
        /\ thread'[t].msg = thread[t].msg
    BY <1>3 DEF PostOk, OneMore, AnsweredInv, Typing, TypeOK, Thread
  <2>3. \A u \in Threads : u # t => thread'[u] = thread[u]
    BY <1>3 DEF PostOk, Typing, TypeOK
  <2>4. AnsweredInv'
    BY <2>1, <2>2, <2>3 DEF AnsweredInv
  <2>5. SentWasReceived'
    BY <1>3, <2>1 DEF PostOk, SentWasReceived
  <2> QED
    BY <2>4, <2>5
<1>4. ASSUME NEW t \in Threads, PostFails(t) PROVE ReceivedInv'
  <2>1. \A m \in Messages : received[m] > 0 => received'[m] > 0
    BY <1>0, <1>4 DEF PostFails, OneMore, Typing, TypeOK
  <2>2. /\ thread'[t].pc # "settled"
        /\ thread'[t].msg = thread[t].msg
        /\ thread[t].msg \in Messages
    BY <1>4 DEF PostFails, RetryOrGiveUp, AnsweredInv, Typing, TypeOK, Thread
  <2>3. \A u \in Threads : u # t => thread'[u] = thread[u]
    BY <1>4 DEF PostFails, Typing, TypeOK
  <2>4. AnsweredInv'
    BY <2>1, <2>2, <2>3 DEF AnsweredInv
  <2>5. SentWasReceived'
    BY <1>4, <2>1 DEF PostFails, SentWasReceived
  <2> QED
    BY <2>4, <2>5
<1>5. ASSUME NEW t \in Threads, Wake(t) PROVE ReceivedInv'
  BY <1>5 DEF Wake, AnsweredInv, SentWasReceived, Typing, TypeOK, Thread
<1>6. ASSUME NEW t \in Threads, WriteLog(t) PROVE ReceivedInv'
  <2>1. thread[t].todo \in SUBSET Messages
    BY DEF Typing, TypeOK, Thread
  <2>2. thread'[t].pc # "settled"
        /\ (thread'[t].pc # "idle" => thread'[t].msg \in Messages)
    BY <1>6, <2>1, AfterAnswered DEF WriteLog, Typing, TypeOK
  <2>3. \A u \in Threads : u # t => thread'[u] = thread[u]
    BY <1>6 DEF WriteLog, Typing, TypeOK
  <2>4. AnsweredInv'
    BY <1>6, <2>2, <2>3 DEF WriteLog, AnsweredInv
  <2>5. SentWasReceived'
    BY <1>6 DEF WriteLog, AnsweredInv, SentWasReceived, Typing, TypeOK
  <2> QED
    BY <2>4, <2>5
<1>7. ASSUME NEW n \in Nodes, Claim(n) PROVE ReceivedInv'
  BY <1>7 DEF Claim, AnsweredInv, SentWasReceived, Typing, TypeOK, Row
<1>8. ASSUME NEW n \in Nodes, FinishRun(n) PROVE ReceivedInv'
  <2>1. sched[n].claimed \in SUBSET Messages
    BY DEF Typing, TypeOK, Sched
  <2>2. \A t \in Threads : \/ thread'[t] = thread[t]
                           \/ /\ thread'[t].pc # "settled"
                              /\ thread'[t].pc # "idle" => thread'[t].msg \in Messages
    BY <1>8, <2>1, AfterAnswered DEF FinishRun, Typing, TypeOK
  <2> QED
    BY <1>8, <2>2 DEF FinishRun, AnsweredInv, SentWasReceived
<1>9. ASSUME NEW n \in Nodes, Crash(n) PROVE ReceivedInv'
  BY <1>9 DEF Crash, IdleThread, AnsweredInv, SentWasReceived
<1>10. CASE UNCHANGED <<thread, log, received>>
  BY <1>10 DEF AnsweredInv, SentWasReceived
<1> QED
  BY <1>1, <1>2, <1>3, <1>4, <1>5, <1>6, <1>7, <1>8, <1>9, <1>10
  DEF Next, ThreadStep, SchedStep, Tick, SelectFaults, AbortRun, SetConfig, vars

LEMMA ReceivedInvariant == Spec => []ReceivedInv
<1>1. Init /\ Typing => ReceivedInv
  BY DEF Init, ReceivedInv, AnsweredInv, SentWasReceived, IdleThread
<1>2. ReceivedInv /\ [Next]_vars /\ Typing' => ReceivedInv'
  BY ReceivedStep
<1> QED
  BY <1>1, <1>2, TypingInvariant, PTL DEF Spec

\* However many nodes claim the same rows and whatever fails: a row says that
\* its message was sent only if the customer answered 200 to it.
THEOREM SentMeansReceived == Spec => []SentWasReceived
<1>1. ReceivedInv => SentWasReceived
  BY DEF ReceivedInv
<1> QED
  BY <1>1, ReceivedInvariant, PTL

-----------------------------------------------------------------------------
(* At most once: one scheduler, no lost answer *)

\* Whatever may still be posted has not reached the customer yet.
OnceInv ==
  /\ AtMostOnce
  /\ \A t \in Threads : \A m \in Carried(thread[t]) :
       (m = thread[t].msg /\ thread[t].pc = "settled") \/ received[m] = 0
  /\ \A n \in Nodes : \A m \in sched[n].claimed : received[m] = 0
  /\ \A m \in Messages :
       \/ m \notin accepted
       \/ log[m].status = "failed" /\ ~log[m].inProgress
       => received[m] = 0

LEMMA OnceStep ==
  ASSUME OneScheduler, "answerLost" \notin Faults, IInv, IInv', OnceInv, [Next]_vars
  PROVE  OnceInv'
<1> USE DEF OnceInv, AtMostOnce
<1>0. \A t \in Threads : Carried(thread[t]) \subseteq Messages
  BY DEF IInv, ThreadInv, Typing, TypeOK
<1>1. ASSUME NEW t \in Threads, NEW m \in Messages, SyncWebhook(t, m)
      PROVE  OnceInv'
  BY <1>1 DEF SyncWebhook, IInv, Typing, TypeOK, Carried
<1>2. ASSUME NEW t \in Threads, Send(t) PROVE OnceInv'
  <2>1. thread[t].todo \in SUBSET Messages
    BY DEF IInv, Typing, TypeOK, Thread
  <2>2. Carried(thread'[t]) \subseteq Carried(thread[t])
    <3>1. \/ thread'[t] = [thread[t] EXCEPT !.pc = "post"]
          \/ thread'[t] \in After(thread[t].todo)
      BY <1>2 DEF Send, IInv, Typing, TypeOK
    <3>2. thread[t] \in Thread /\ thread[t].pc = "send"
      BY <1>2 DEF Send, IInv, Typing, TypeOK
    <3>3. CASE thread'[t] = [thread[t] EXCEPT !.pc = "post"]
      BY <3>2, <3>3 DEF Carried, Thread
    <3>4. CASE thread'[t] \in After(thread[t].todo)
      <4>1. Carried(thread'[t]) = thread[t].todo
        BY <2>1, <3>4, AfterCarries
      <4> QED
        BY <3>2, <4>1 DEF Carried
    <3> QED
      BY <3>1, <3>3, <3>4
  <2>3. \A u \in Threads : u # t => thread'[u] = thread[u]
    BY <1>2 DEF Send, IInv, Typing, TypeOK
  <2> QED
    BY <1>2, <2>2, <2>3 DEF Send
<1>3. ASSUME NEW t \in Threads, PostOk(t) PROVE OnceInv'
  <2> DEFINE m0 == thread[t].msg
  <2>1. m0 \in Carried(thread[t]) /\ m0 \in Messages /\ received[m0] = 0
    BY <1>0, <1>3 DEF PostOk, Carried
  <2>2. /\ received'[m0] = 1
        /\ \A m \in Messages : m # m0 => received'[m] = received[m]
    BY <1>3, <2>1 DEF PostOk, OneMore, IInv, Typing, TypeOK
  <2>3. /\ thread'[t].msg = m0 /\ thread'[t].pc = "settled"
        /\ Carried(thread'[t]) = Carried(thread[t])
        /\ \A u \in Threads : u # t => thread'[u] = thread[u]
        /\ UNCHANGED <<log, sched, accepted>>
    BY <1>3 DEF PostOk, Carried, IInv, Typing, TypeOK, Thread
  <2>4. \A u \in Threads : u # t => m0 \notin Carried(thread[u])
    BY <2>1 DEF IInv, Disjoint
  <2>5. \A n \in Nodes : m0 \notin sched[n].claimed
    BY <2>1 DEF IInv, Disjoint
  <2>6. m0 \in accepted /\ ~(log[m0].status = "failed" /\ ~log[m0].inProgress)
    BY <2>1 DEF IInv, ThreadInv, ClaimedRow, NoRow
  <2>7. \A n \in Nodes : sched[n].claimed \subseteq Messages
    BY DEF IInv, Typing, TypeOK, Sched
  <2> QED
    BY <1>0, <2>2, <2>3, <2>4, <2>5, <2>6, <2>7
<1>4. ASSUME NEW t \in Threads, PostFails(t) PROVE OnceInv'
  <2>1. /\ Carried(thread'[t]) = Carried(thread[t])
        /\ \A u \in Threads : u # t => thread'[u] = thread[u]
        /\ UNCHANGED <<log, sched, accepted, received>>
    BY <1>4
    DEF PostFails, RetryOrGiveUp, Carried, IInv, Typing, TypeOK, Thread
  <2> QED
    BY <1>4, <2>1 DEF PostFails
<1>5. ASSUME NEW t \in Threads, Wake(t) PROVE OnceInv'
  <2>1. /\ Carried(thread'[t]) = Carried(thread[t])
        /\ \A u \in Threads : u # t => thread'[u] = thread[u]
        /\ UNCHANGED <<log, sched, accepted, received>>
    BY <1>5 DEF Wake, Carried, IInv, Typing, TypeOK, Thread
  <2> QED
    BY <1>5, <2>1 DEF Wake
<1>6. ASSUME NEW t \in Threads, WriteLog(t) PROVE OnceInv'
  <2> DEFINE m0 == thread[t].msg
  <2>1. thread[t].todo \in SUBSET Messages
    BY DEF IInv, Typing, TypeOK, Thread
  <2>2. Carried(thread'[t]) = thread[t].todo
    BY <1>6, <2>1, AfterCarries DEF WriteLog, IInv, Typing, TypeOK
  <2>3. Carried(thread[t]) = {m0} \cup thread[t].todo /\ m0 \notin thread[t].todo
    BY <1>6 DEF WriteLog, Carried, IInv, ThreadInv
  <2>4. /\ \A u \in Threads : u # t => thread'[u] = thread[u]
        /\ UNCHANGED <<sched, accepted, received>>
    BY <1>6 DEF WriteLog, IInv, Typing, TypeOK
  <2>5. \A m \in Messages : \/ log'[m] = log[m]
                           \/ /\ m = m0
                              /\ log'[m].status = "failed" => thread[t].pc = "gaveup"
    BY <1>6 DEF WriteLog, IInv, Typing, TypeOK
  <2>6. thread[t].pc = "gaveup" => received[m0] = 0
    BY <2>3
  <2> QED
    BY <2>2, <2>3, <2>4, <2>5, <2>6
<1>7. ASSUME NEW n \in Nodes, Tick(n) \/ AbortRun(n) PROVE OnceInv'
  <2>1. /\ sched'[n].claimed = {}
        /\ \A k \in Nodes : k # n => sched'[k] = sched[k]
        /\ UNCHANGED <<log, thread, accepted, received>>
    <3>1. CASE Tick(n)
      BY <3>1 DEF Tick, IdleSched, IInv, Typing, TypeOK
    <3>2. CASE AbortRun(n)
      BY <3>2 DEF AbortRun, IdleSched, IInv, Typing, TypeOK
    <3> QED
      BY <1>7, <3>1, <3>2
  <2> QED
    BY <2>1
<1>8. ASSUME NEW n \in Nodes, NEW d \in Databases, SelectFaults(n, d)
      PROVE  OnceInv'
  <2>1. /\ \A k \in Nodes : sched'[k].claimed = sched[k].claimed
        /\ UNCHANGED <<log, thread, accepted, received>>
    BY <1>8 DEF SelectFaults, IInv, Typing, TypeOK, Sched
  <2> QED
    BY <2>1
<1>9. ASSUME NEW n \in Nodes, Claim(n) PROVE OnceInv'
  <2>1. /\ sched'[n].claimed = sched[n].claimed \cup sched[n].found
        /\ \A k \in Nodes : k # n => sched'[k] = sched[k]
        /\ UNCHANGED <<thread, accepted, received>>
    BY <1>9 DEF Claim, IInv, Typing, TypeOK, Sched
  <2>2. \A m \in sched[n].found : m \in Messages /\ received[m] = 0
    BY DEF IInv, SchedInv, Typing, TypeOK, Sched
  <2>3. \A m \in Messages : log'[m] = log[m] \/ m \in sched[n].found
    BY <1>9 DEF Claim
  <2> QED
    BY <2>1, <2>2, <2>3
<1>10. ASSUME NEW n \in Nodes, FinishRun(n) PROVE OnceInv'
  <2>1. /\ sched'[n].claimed = {}
        /\ \A k \in Nodes : k # n => sched'[k] = sched[k]
        /\ UNCHANGED <<log, accepted, received>>
    BY <1>10 DEF FinishRun, IdleSched, IInv, Typing, TypeOK
  <2>2. sched[n].claimed \in SUBSET Messages
    BY DEF IInv, Typing, TypeOK, Sched
  <2>3. \A t \in Threads : \/ thread'[t] = thread[t]
                           \/ Carried(thread'[t]) = sched[n].claimed
    BY <1>10, <2>2, AfterCarries DEF FinishRun, IInv, Typing, TypeOK
  <2> QED
    BY <2>1, <2>3
<1>11. ASSUME NEW n \in Nodes, Crash(n) PROVE OnceInv'
  <2>1. /\ sched'[n].claimed = {}
        /\ \A k \in Nodes : k # n => sched'[k] = sched[k]
        /\ \A t \in Threads : thread'[t] = thread[t] \/ Carried(thread'[t]) = {}
        /\ UNCHANGED <<log, accepted, received>>
    BY <1>11 DEF Crash, IdleSched, IdleThread, Carried, IInv, Typing, TypeOK
  <2> QED
    BY <2>1
<1>12. CASE UNCHANGED <<thread, sched, log, accepted, received>>
  BY <1>12
<1> QED
  BY <1>1, <1>2, <1>3, <1>4, <1>5, <1>6, <1>7, <1>8, <1>9, <1>10, <1>11, <1>12
  DEF Next, ThreadStep, SchedStep, SetConfig, vars

\* One scheduler, any number of nodes and no lost answer: however often messages are retried,
\* claimed and resent, and whatever crashes or log writes are lost on the way,
\* the customer gets each message at most once.
THEOREM AtMostOnceAlways ==
  ASSUME OneScheduler, "answerLost" \notin Faults
  PROVE  Spec => []AtMostOnce
<1>1. Init => OnceInv
  BY DEF Init, OnceInv, AtMostOnce, IdleThread, IdleSched, Carried
<1>2. IInv /\ IInv' /\ OnceInv /\ [Next]_vars => OnceInv'
  BY OnceStep
<1>3. OnceInv => AtMostOnce
  BY DEF OnceInv
<1> QED
  BY <1>1, <1>2, <1>3, OwnershipInvariant, PTL DEF Spec

-----------------------------------------------------------------------------
(* No claim is left behind: any number of nodes, only POSTs go wrong *)

OnlyPostsFail == Faults \cap {"logWrite", "claim", "crash", "config"} = {}

\* Every claim has an owner, no configuration goes away under a sender, and a
\* scheduler between two runs has an empty list.
ClaimsInv ==
  /\ NoStranding
  /\ \A n \in Nodes, c \in Teams : config[n][c] = "active"
  /\ \A n \in Nodes : sched[n].pc = "idle" => sched[n].claimed = {}

\* No row is claimed anew, and who has an owner keeps one.
LEMMA OwnersKept ==
  ASSUME NoStranding,
         \A m \in Messages : log'[m].inProgress => log[m].inProgress,
         \A m \in Messages : Owned(m) /\ log'[m].inProgress => Owned(m)'
  PROVE  NoStranding'
BY DEF NoStranding

LEMMA ClaimsStep ==
  ASSUME OnlyPostsFail, ReceivedInv, ClaimsInv, [Next]_vars
  PROVE  ClaimsInv'
<1> USE DEF ClaimsInv
<1>0. \A t \in Threads : thread[t] \in Thread
  BY DEF ReceivedInv, Typing, TypeOK
<1>1. ASSUME NEW t \in Threads, NEW th, thread' = [thread EXCEPT ![t] = th],
             UNCHANGED <<config, log, sched>>,
             Held(t) \subseteq Carried(th)
      PROVE  ClaimsInv'
  <2>1. thread'[t] = th /\ \A u \in Threads \ {t} : thread'[u] = thread[u]
    BY <1>1 DEF ReceivedInv, Typing, TypeOK
  <2>2. \A u \in Threads : Held(u) \subseteq Held(u)'
    BY <1>1, <2>1 DEF Held, Carried
  <2>3. \A m \in Messages : Owned(m) => Owned(m)'
    BY <1>1, <2>2 DEF Owned
  <2> QED BY <1>1, <2>3, OwnersKept
<1>2. ASSUME NEW t \in Threads, NEW m \in Messages, SyncWebhook(t, m) PROVE ClaimsInv'
  <2>1. thread[t].pc = "idle" /\ UNCHANGED <<config, log, sched>>
    BY <1>2 DEF SyncWebhook
  <2>2. \A u \in Threads : Held(u) \subseteq Held(u)'
    BY <1>2 DEF SyncWebhook, Held, ReceivedInv, Typing, TypeOK
  <2>3. \A k \in Messages : Owned(k) => Owned(k)'
    BY <2>1, <2>2 DEF Owned
  <2> QED BY <2>1, <2>3, OwnersKept
<1>3. ASSUME NEW t \in Threads, Send(t) PROVE ClaimsInv'
  <2> DEFINE th == [thread[t] EXCEPT !.pc = "post"]
  <2>1. thread[t].pc = "send" /\ thread[t].msg \in Messages
    BY <1>3 DEF Send, ReceivedInv, AnsweredInv
  <2>2. config[NodeOf[t]][TeamOf[thread[t].msg]] = "active"
    BY <2>1, ConstantsAssumption
  <2>3. thread' = [thread EXCEPT ![t] = th] /\ UNCHANGED <<config, log, sched>>
    BY <1>3, <2>2 DEF Send
  <2>4. Held(t) \subseteq Carried(th)
    BY <1>0, <2>1 DEF Held, Carried, Thread
  <2> QED BY <1>1, <2>3, <2>4
<1>4. ASSUME NEW t \in Threads, PostOk(t) \/ PostFails(t) \/ Wake(t) PROVE ClaimsInv'
  <2>1. PICK th \in {[thread[t] EXCEPT !.pc = "settled"], RetryOrGiveUp(thread[t]),
                     [thread[t] EXCEPT !.pc = "send"]} :
          thread' = [thread EXCEPT ![t] = th]
    BY <1>4 DEF PostOk, PostFails, Wake
  <2>2. Held(t) \subseteq Carried(th)
    BY <1>0, <2>1 DEF Held, Carried, RetryOrGiveUp, Thread
  <2>3. UNCHANGED <<config, log, sched>>
    BY <1>4 DEF PostOk, PostFails, Wake
  <2> QED BY <1>1, <2>1, <2>2, <2>3
<1>5. ASSUME NEW t \in Threads, WriteLog(t) PROVE ClaimsInv'
  <2>1. PICK m \in Messages : m = thread[t].msg
    BY <1>5 DEF WriteLog, ReceivedInv, AnsweredInv
  <2>2. PICK next \in After(thread[t].todo) : thread' = [thread EXCEPT ![t] = next]
    BY <1>5 DEF WriteLog
  <2>3. Carried(next) = thread[t].todo
    BY <1>0, <2>2, AfterCarries DEF Thread
  <2>4. /\ Held(t)' = thread[t].todo
        /\ \A u \in Threads \ {t} : Held(u)' = Held(u)
    BY <2>2, <2>3 DEF Held, Carried, ReceivedInv, Typing, TypeOK
  <2>5. Held(t) \subseteq {m} \cup thread[t].todo
    BY <2>1 DEF Held
  <2>6. /\ ~log'[m].inProgress
        /\ \A k \in Messages \ {m} : log'[k] = log[k]
        /\ UNCHANGED <<config, sched>>
    BY <1>5, <2>1 DEF WriteLog, OnlyPostsFail, ReceivedInv, Typing, TypeOK
  <2>7. ASSUME NEW k \in Messages, Owned(k), k # m PROVE Owned(k)'
    BY <2>4, <2>5, <2>6, <2>7 DEF Owned
  <2>8. NoStranding'
    BY <2>6, <2>7, OwnersKept
  <2> QED BY <2>6, <2>8
<1>6. ASSUME NEW n \in Nodes, UNCHANGED <<config, log, thread>>,
             NEW s, sched' = [sched EXCEPT ![n] = s],
             sched[n].claimed \subseteq s.claimed,
             s.pc # "idle"
      PROVE  ClaimsInv'
  <2>1. sched'[n] = s /\ \A a \in Nodes \ {n} : sched'[a] = sched[a]
    BY <1>6 DEF ReceivedInv, Typing, TypeOK
  <2>2. \A m \in Messages : Owned(m) => Owned(m)'
    BY <1>6, <2>1 DEF Owned, Held
  <2> QED BY <1>6, <2>1, <2>2, OwnersKept
<1>7. ASSUME NEW n \in Nodes, Tick(n) PROVE ClaimsInv'
  <2> DEFINE s == [IdleSched EXCEPT !.pc = "scan", !.dbs = Databases]
  <2>1. s.pc # "idle" /\ sched[n].claimed = {}
    BY <1>7 DEF Tick, IdleSched
  <2>2. sched' = [sched EXCEPT ![n] = s] /\ UNCHANGED <<config, log, thread>>
    BY <1>7 DEF Tick
  <2> HIDE DEF s
  <2> QED BY <1>6, <2>1, <2>2
<1>8. ASSUME NEW n \in Nodes, NEW d \in Databases, SelectFaults(n, d) PROVE ClaimsInv'
  <2> DEFINE s == [sched[n] EXCEPT !.dbs = @ \ {d}, !.found = FaultRows(d),
                     !.pc = IF FaultRows(d) = {} THEN "scan" ELSE "claim"]
  <2>1. s.pc # "idle" /\ s.claimed = sched[n].claimed
    BY DEF ReceivedInv, Typing, TypeOK, Sched
  <2>2. sched' = [sched EXCEPT ![n] = s] /\ UNCHANGED <<config, log, thread>>
    BY <1>8 DEF SelectFaults
  <2> HIDE DEF s
  <2> QED BY <1>6, <2>1, <2>2
<1>9. ASSUME NEW n \in Nodes, Claim(n) PROVE ClaimsInv'
  <2>1. /\ \A m \in Messages :
             log'[m].inProgress => log[m].inProgress \/ m \in sched[n].found
        /\ sched'[n].claimed = sched[n].claimed \cup sched[n].found
        /\ sched'[n].pc # "idle"
        /\ \A a \in Nodes \ {n} : sched'[a] = sched[a]
        /\ UNCHANGED <<config, thread>>
    BY <1>9 DEF Claim, ReceivedInv, Typing, TypeOK, Sched, Row
  <2>2. \A m \in Messages : Owned(m) \/ m \in sched[n].found => Owned(m)'
    BY <2>1 DEF Owned, Held
  <2>3. NoStranding'
    BY <2>1, <2>2 DEF NoStranding
  <2> QED BY <2>1, <2>3
<1>10. ASSUME NEW n \in Nodes, FinishRun(n) PROVE ClaimsInv'
  <2>1. /\ sched'[n] = IdleSched
        /\ \A a \in Nodes \ {n} : sched'[a] = sched[a]
        /\ UNCHANGED <<config, log>>
    BY <1>10 DEF FinishRun, ReceivedInv, Typing, TypeOK
  <2>2. \A u \in Threads : Held(u) \subseteq Held(u)'
    <3>1. CASE UNCHANGED thread
      BY <3>1 DEF Held
    <3>2. CASE \E t \in Threads, next \in After(sched[n].claimed) :
                 thread[t].pc = "idle" /\ thread' = [thread EXCEPT ![t] = next]
      BY <3>2 DEF Held, ReceivedInv, Typing, TypeOK
    <3> QED BY <1>10, <3>1, <3>2 DEF FinishRun
  <2>3. sched[n].claimed = {} \/ \E t \in Threads : Held(t)' = sched[n].claimed
    <3>1. ASSUME NEW t \in Threads, NEW next \in After(sched[n].claimed),
                 thread' = [thread EXCEPT ![t] = next]
          PROVE  Held(t)' = sched[n].claimed
      <4>1. Carried(next) = sched[n].claimed
        BY AfterCarries DEF ReceivedInv, Typing, TypeOK, Sched
      <4> QED BY <3>1, <4>1 DEF Held, Carried, ReceivedInv, Typing, TypeOK
    <3> QED BY <1>10, <3>1 DEF FinishRun
  <2>4. \A m \in Messages : Owned(m) => Owned(m)'
    BY <2>1, <2>2, <2>3 DEF Owned
  <2>5. NoStranding'
    BY <2>1, <2>4, OwnersKept
  <2> QED BY <2>1, <2>5 DEF IdleSched
<1>11. CASE UNCHANGED vars
  <2>1. UNCHANGED <<config, log, thread, sched>>
    BY <1>11 DEF vars
  <2> QED BY <2>1 DEF NoStranding, Owned, Held
<1> HIDE DEF ClaimsInv
<1>12. ASSUME NEW t \in Threads, ThreadStep(t) PROVE ClaimsInv'
  BY <1>3, <1>4, <1>5, <1>12 DEF ThreadStep
<1>13. ASSUME NEW n \in Nodes, SchedStep(n) PROVE ClaimsInv'
  BY <1>7, <1>8, <1>9, <1>10, <1>13 DEF SchedStep
<1>14. \A n \in Nodes : ~AbortRun(n) /\ ~Crash(n)
  BY DEF AbortRun, Crash, OnlyPostsFail
<1>15. \A n \in Nodes, c \in Teams, s \in ConfigStates : ~SetConfig(n, c, s)
  BY DEF SetConfig, OnlyPostsFail
<1>16. ASSUME Next PROVE ClaimsInv'
  BY <1>2, <1>12, <1>13, <1>14, <1>15, <1>16, Zenon DEF Next
<1> QED
  BY <1>11, <1>16

\* As long as only POSTs go wrong, a row marked INPROGRESS has a sender or a scheduler
\* that will come back to it, on any number of nodes: send, waitAndRetry and the runs
\* of reSendFaultRequests leave no claim behind.
THEOREM NoStrandingAlways ==
  ASSUME OnlyPostsFail
  PROVE  Spec => []NoStranding
<1>1. Init => ClaimsInv
  BY DEF Init, ClaimsInv, NoStranding, IdleSched
<1>2. ReceivedInv /\ ClaimsInv /\ [Next]_vars => ClaimsInv'
  BY ClaimsStep
<1>3. ClaimsInv => NoStranding
  BY DEF ClaimsInv
<1> QED
  BY <1>1, <1>2, <1>3, ReceivedInvariant, PTL DEF Spec

-----------------------------------------------------------------------------
(* Coming to an end *)

\* How far a thread is from the end of one attempt.
Place ==
  [pc \in ThreadStates |->
     CASE pc = "sleep" -> 3
       [] pc = "send" -> 2
       [] pc = "post" -> 1
       [] OTHER -> 0]

\* The thread is idle, has less of its batch to do, has counted an attempt of the same
\* message, or has come further in the same attempt.
Closer(from, to) ==
  \/ to.pc = "idle"
  \/ to.todo \subseteq from.todo /\ to.todo # from.todo
  \/ /\ to.msg = from.msg /\ to.todo = from.todo
     /\ \/ from.counter < to.counter
        \/ from.counter = to.counter /\ Place[to.pc] < Place[from.pc]

\* A thread that goes on with the rest of its batch is closer to its end.
LEMMA AfterIsCloser ==
  ASSUME NEW th \in Thread, NEW next \in After(th.todo)
  PROVE  Closer(th, next)
BY DEF After, IdleThread, Closer

\* send and waitAndRetry call each other and go through a batch, but every step of a
\* sending thread brings it closer to its end, and no step of another thread, of a
\* scheduler, of the customer or of a configuration takes it back.  The counter is
\* bounded (TypeCorrect), so under fair threads SendersLetGo follows.
THEOREM SendersAdvance ==
  Spec => [][\A t \in Threads :
               thread[t].pc # "idle" /\ thread'[t] # thread[t]
                 => Closer(thread[t], thread'[t])]_vars
<1> DEFINE goal == \A t \in Threads : thread[t].pc # "idle" /\ thread'[t] # thread[t]
                                        => Closer(thread[t], thread'[t])
<1>1. ASSUME Typing, NEW t \in Threads, NEW th, thread' = [thread EXCEPT ![t] = th],
             thread[t].pc # "idle" => Closer(thread[t], th)
      PROVE  goal
  BY <1>1 DEF Typing, TypeOK
<1>2. ASSUME Typing, NEW t \in Threads, ThreadStep(t) PROVE goal
  <2>0. thread[t] \in Thread
    BY <1>2 DEF Typing, TypeOK
  <2>1. CASE Send(t) /\ thread' = [thread EXCEPT ![t] = [thread[t] EXCEPT !.pc = "post"]]
    <3>1. Closer(thread[t], [thread[t] EXCEPT !.pc = "post"])
      BY <2>0, <2>1 DEF Send, Closer, Thread, Place, ThreadStates
    <3> QED BY <1>1, <1>2, <2>1, <3>1
  <2>2. CASE \E next \in After(thread[t].todo) : thread' = [thread EXCEPT ![t] = next]
    BY <1>1, <1>2, <2>0, <2>2, AfterIsCloser
  <2>3. CASE PostOk(t)
    <3>1. Closer(thread[t], [thread[t] EXCEPT !.pc = "settled"])
      BY <2>0, <2>3 DEF PostOk, Closer, Thread, Place, ThreadStates
    <3> QED BY <1>1, <1>2, <2>3, <3>1 DEF PostOk
  <2>4. CASE PostFails(t)
    <3>1. Closer(thread[t], RetryOrGiveUp(thread[t]))
      BY <2>0, ConstantsAssumption DEF RetryOrGiveUp, Closer, Thread
    <3> QED BY <1>1, <1>2, <2>4, <3>1 DEF PostFails
  <2>5. CASE Wake(t)
    <3>1. Closer(thread[t], [thread[t] EXCEPT !.pc = "send"])
      BY <2>0, <2>5 DEF Wake, Closer, Thread, Place, ThreadStates
    <3> QED BY <1>1, <1>2, <2>5, <3>1 DEF Wake
  <2> QED BY <1>2, <2>1, <2>2, <2>3, <2>4, <2>5 DEF ThreadStep, Send, WriteLog
<1>3. ASSUME Typing, NEW t \in Threads, NEW m \in Messages, SyncWebhook(t, m) PROVE goal
  BY <1>3 DEF SyncWebhook, Typing, TypeOK
<1>4. ASSUME Typing, NEW n \in Nodes, SchedStep(n) \/ AbortRun(n) PROVE goal
  BY <1>4 DEF SchedStep, Tick, SelectFaults, Claim, FinishRun, AbortRun, Typing, TypeOK
<1>5. ASSUME Typing, NEW n \in Nodes, Crash(n) PROVE goal
  BY <1>5 DEF Crash, IdleThread, Closer, Typing, TypeOK
<1>6. ASSUME NEW n \in Nodes, NEW c \in Teams, NEW s \in ConfigStates, SetConfig(n, c, s)
      PROVE  goal
  BY <1>6 DEF SetConfig
<1>7. Typing /\ [Next]_vars => [goal]_vars
  BY <1>2, <1>3, <1>4, <1>5, <1>6 DEF Next
<1> QED BY <1>7, TypingInvariant, PTL DEF Spec

-----------------------------------------------------------------------------
(* Fresh messages: any number of nodes and of schedulers *)

Fresh(t) == thread[t].pc # "idle" /\ ~thread[t].resend

\* A message that is sent for the first time is in the hands of one thread alone and
\* has no row, on any number of nodes that run the scheduler.
FreshAlone ==
  \A t \in Threads : Fresh(t) =>
    /\ log[thread[t].msg].status = "none"
    /\ \A u \in Threads \ {t} : thread[t].msg \notin Held(u)
    /\ \A n \in Nodes : thread[t].msg \notin sched[n].claimed \cup sched[n].found

\* A batch is made of messages with rows, of which accepted messages only have any;
\* a fresh thread has a message without one, and no two have the same.
BatchInv ==
  /\ \A m \in Messages : log[m].status # "none" => m \in accepted
  /\ \A t \in Threads :
       IF thread[t].resend
       THEN \A m \in Carried(thread[t]) : log[m].status # "none"
       ELSE /\ thread[t].todo = {}
            /\ thread[t].pc # "idle" =>
                 thread[t].msg \in accepted /\ log[thread[t].msg].status = "none"
  /\ \A n \in Nodes, m \in Messages :
       m \in sched[n].claimed \cup sched[n].found => log[m].status # "none"
  /\ \A t, u \in Threads :
       Fresh(t) /\ Fresh(u) /\ t # u => thread[t].msg # thread[u].msg

\* A thread that goes on with a batch of messages with rows, or goes idle, and rows
\* that stay where they are.
LEMMA BatchGoesOn ==
  ASSUME Typing, BatchInv, NEW t \in Threads, NEW th,
         thread' = [thread EXCEPT ![t] = th],
         UNCHANGED <<log, sched, accepted>>,
         IF th.resend THEN \A m \in Carried(th) : log[m].status # "none"
                      ELSE th.todo = {} /\ (th.pc # "idle" => Fresh(t) /\ th.msg = thread[t].msg)
  PROVE  BatchInv'
<1>1. thread'[t] = th /\ \A u \in Threads \ {t} : thread'[u] = thread[u]
  BY DEF Typing, TypeOK
<1>2. \A u \in Threads : Fresh(u)' => Fresh(u) /\ thread'[u].msg = thread[u].msg
  BY <1>1 DEF Fresh
<1> QED BY <1>1, <1>2 DEF BatchInv, Fresh

\* What comes after a batch of messages with rows, or after a fresh message.
LEMMA AfterIsNoFresh ==
  ASSUME NEW batch \in SUBSET Messages, NEW next \in After(batch),
         \A m \in batch : log[m].status # "none"
  PROVE  IF next.resend THEN \A m \in Carried(next) : log[m].status # "none"
                        ELSE next.todo = {} /\ next.pc = "idle"
BY AfterCarries DEF After, IdleThread

LEMMA BatchStep ==
  ASSUME ReceivedInv, BatchInv, [Next]_vars
  PROVE  BatchInv'
<1>0. Typing /\ \A t \in Threads : thread[t] \in Thread
  BY DEF ReceivedInv, Typing, TypeOK
<1>1. ASSUME NEW t \in Threads, NEW m \in Messages, SyncWebhook(t, m) PROVE BatchInv'
  <2>1. log[m].status = "none"
    BY <1>1 DEF SyncWebhook, BatchInv
  <2>2. \A u \in Threads : Fresh(u) => thread[u].msg # m
    BY <1>1 DEF SyncWebhook, BatchInv, Fresh
  <2>3. \/ UNCHANGED thread
        \/ /\ ~thread'[t].resend /\ thread'[t].todo = {} /\ thread'[t].msg = m
           /\ \A u \in Threads \ {t} : thread'[u] = thread[u]
    BY <1>0, <1>1 DEF SyncWebhook, Typing, TypeOK
  <2>4. UNCHANGED <<log, sched>> /\ accepted' = accepted \cup {m}
    BY <1>1 DEF SyncWebhook
  <2> QED BY <2>1, <2>2, <2>3, <2>4 DEF BatchInv, Fresh
<1>2. ASSUME NEW t \in Threads, thread[t].pc # "idle",
             NEW th, thread' = [thread EXCEPT ![t] = th],
             th.msg = thread[t].msg, th.todo = thread[t].todo, th.resend = thread[t].resend,
             UNCHANGED <<log, sched, accepted>>
      PROVE  BatchInv'
  <2>1. Carried(th) \subseteq Carried(thread[t])
    BY <1>2 DEF Carried
  <2>2. IF th.resend THEN \A m \in Carried(th) : log[m].status # "none"
                     ELSE th.todo = {} /\ (th.pc # "idle" => Fresh(t) /\ th.msg = thread[t].msg)
    BY <1>2, <2>1 DEF BatchInv, Fresh
  <2> QED BY <1>0, <1>2, <2>2, BatchGoesOn
<1>3. ASSUME NEW t \in Threads, NEW next \in After(thread[t].todo), thread[t].pc # "idle",
             thread' = [thread EXCEPT ![t] = next], UNCHANGED <<log, sched, accepted>>
      PROVE  BatchInv'
  <2>1. thread[t].todo \in SUBSET Messages
    BY <1>0 DEF Thread
  <2>2. \A m \in thread[t].todo : log[m].status # "none"
    BY <1>3 DEF BatchInv, Carried
  <2>3. IF next.resend THEN \A m \in Carried(next) : log[m].status # "none"
                       ELSE next.todo = {} /\ next.pc = "idle"
    BY <2>1, <2>2, AfterIsNoFresh
  <2> QED BY <1>0, <1>3, <2>3, BatchGoesOn
<1>4. ASSUME NEW t \in Threads, Send(t) PROVE BatchInv'
  <2> DEFINE th == [thread[t] EXCEPT !.pc = "post"]
  <2>1. /\ th.msg = thread[t].msg /\ th.todo = thread[t].todo
        /\ th.resend = thread[t].resend
    BY <1>0 DEF Thread
  <2>2. \/ thread' = [thread EXCEPT ![t] = th]
        \/ \E next \in After(thread[t].todo) : thread' = [thread EXCEPT ![t] = next]
    BY <1>4 DEF Send
  <2>3. thread[t].pc # "idle" /\ UNCHANGED <<log, sched, accepted>>
    BY <1>4 DEF Send
  <2> HIDE DEF th
  <2> QED BY <1>2, <1>3, <2>1, <2>2, <2>3
<1>5. ASSUME NEW t \in Threads, PostOk(t) \/ PostFails(t) \/ Wake(t) PROVE BatchInv'
  <2>1. PICK th \in {[thread[t] EXCEPT !.pc = "settled"], RetryOrGiveUp(thread[t]),
                     [thread[t] EXCEPT !.pc = "send"]} :
          thread' = [thread EXCEPT ![t] = th]
    BY <1>5 DEF PostOk, PostFails, Wake
  <2>2. /\ th.msg = thread[t].msg /\ th.todo = thread[t].todo
        /\ th.resend = thread[t].resend
    BY <1>0, <2>1 DEF Thread, RetryOrGiveUp
  <2>3. thread[t].pc # "idle" /\ UNCHANGED <<log, sched, accepted>>
    BY <1>5 DEF PostOk, PostFails, Wake
  <2> QED BY <1>2, <2>1, <2>2, <2>3
<1>6. ASSUME NEW t \in Threads, WriteLog(t) PROVE BatchInv'
  <2>1. PICK m \in Messages : m = thread[t].msg
    BY <1>6 DEF WriteLog, ReceivedInv, AnsweredInv
  <2>2. PICK next \in After(thread[t].todo) : thread' = [thread EXCEPT ![t] = next]
    BY <1>6 DEF WriteLog
  <2>3. CASE UNCHANGED log
    BY <1>3, <1>6, <2>2, <2>3 DEF WriteLog
  <2>4. CASE ~UNCHANGED log
    <3>1. /\ \A k \in Messages : k # m => log'[k] = log[k]
          /\ log'[m].status # "none"
      BY <1>0, <1>6, <2>1, <2>4 DEF WriteLog, Typing, TypeOK
    <3>2. m \in accepted
      BY <1>6, <2>1 DEF WriteLog, BatchInv, Carried
    <3>3. \A u \in Threads \ {t} : Fresh(u) => thread[u].msg # m
      BY <1>6, <2>1 DEF WriteLog, BatchInv, Fresh, Carried
    <3>4. thread'[t] = next /\ \A u \in Threads \ {t} : thread'[u] = thread[u]
      BY <1>0, <2>2 DEF Typing, TypeOK
    <3>5. thread[t].todo \in SUBSET Messages /\ \A k \in thread[t].todo : log[k].status # "none"
      BY <1>0, <1>6 DEF WriteLog, BatchInv, Carried, Thread
    <3>6. IF next.resend THEN \A k \in Carried(next) : log[k].status # "none"
                         ELSE next.todo = {} /\ next.pc = "idle"
      BY <3>5, AfterIsNoFresh
    <3>7. \A k \in Messages : log[k].status # "none" => log'[k].status # "none"
      BY <3>1
    <3>8. Carried(next) \subseteq Messages /\ \A u \in Threads : Carried(thread[u]) \subseteq Messages
      BY <1>0, <3>5, AfterCarries DEF Carried, ReceivedInv, AnsweredInv, Thread
    <3>9. UNCHANGED <<sched, accepted>>
      BY <1>6 DEF WriteLog
    <3>10. \A k \in Messages : log'[k].status # "none" => k \in accepted'
      BY <3>1, <3>2, <3>9 DEF BatchInv
    <3>11. ASSUME NEW u \in Threads
           PROVE  IF thread'[u].resend
                  THEN \A k \in Carried(thread'[u]) : log'[k].status # "none"
                  ELSE /\ thread'[u].todo = {}
                       /\ thread'[u].pc # "idle" =>
                            thread'[u].msg \in accepted' /\ log'[thread'[u].msg].status = "none"
      <4>1. CASE u = t
        BY <3>4, <3>6, <3>7, <3>8, <4>1
      <4>2. CASE u # t /\ thread[u].resend
        BY <3>4, <3>7, <3>8, <4>2 DEF BatchInv
      <4>3. CASE u # t /\ ~thread[u].resend
        <5>1. thread[u].pc # "idle" => thread[u].msg \in Messages \ {m}
          BY <3>3, <4>3 DEF Fresh, ReceivedInv, AnsweredInv
        <5> QED BY <3>1, <3>4, <3>9, <4>3, <5>1 DEF BatchInv
      <4> QED BY <4>1, <4>2, <4>3
    <3>12. \A u \in Threads : Fresh(u)' => u # t /\ Fresh(u) /\ thread'[u] = thread[u]
      BY <3>4, <3>6 DEF Fresh
    <3> QED BY <3>7, <3>9, <3>10, <3>11, <3>12 DEF BatchInv
  <2> QED BY <2>3, <2>4
<1>7. ASSUME NEW n \in Nodes, Tick(n) \/ AbortRun(n) PROVE BatchInv'
  <2>1. /\ sched'[n].claimed = {} /\ sched'[n].found = {}
        /\ \A k \in Nodes : k # n => sched'[k] = sched[k]
        /\ UNCHANGED <<log, thread, accepted>>
    <3>1. CASE Tick(n)
      BY <1>0, <3>1 DEF Tick, IdleSched, Typing, TypeOK
    <3>2. CASE AbortRun(n)
      BY <1>0, <3>2 DEF AbortRun, IdleSched, Typing, TypeOK
    <3> QED BY <1>7, <3>1, <3>2
  <2> QED BY <2>1 DEF BatchInv, Fresh
<1>8. ASSUME NEW n \in Nodes, NEW d \in Databases, SelectFaults(n, d) PROVE BatchInv'
  <2>1. /\ sched'[n].claimed = sched[n].claimed /\ sched'[n].found = FaultRows(d)
        /\ \A k \in Nodes : k # n => sched'[k] = sched[k]
        /\ UNCHANGED <<log, thread, accepted>>
    BY <1>0, <1>8 DEF SelectFaults, Typing, TypeOK, Sched
  <2>2. \A m \in FaultRows(d) : log[m].status # "none"
    BY DEF FaultRows
  <2> QED BY <2>1, <2>2 DEF BatchInv, Fresh
<1>9. ASSUME NEW n \in Nodes, Claim(n) PROVE BatchInv'
  <2>1. /\ sched'[n].claimed = sched[n].claimed \cup sched[n].found /\ sched'[n].found = {}
        /\ \A k \in Nodes : k # n => sched'[k] = sched[k]
        /\ UNCHANGED <<thread, accepted>>
    BY <1>0, <1>9 DEF Claim, Typing, TypeOK, Sched
  <2>2. \A m \in Messages : log'[m].status = log[m].status
    BY <1>0, <1>9 DEF Claim, Typing, TypeOK, Row
  <2>3. \A u \in Threads : Carried(thread[u]) \subseteq Messages
    BY <1>0 DEF Carried, ReceivedInv, AnsweredInv, Thread
  <2>4. \A u \in Threads : thread[u].pc # "idle" => thread[u].msg \in Messages
    BY DEF ReceivedInv, AnsweredInv
  <2> QED BY <2>1, <2>2, <2>3, <2>4 DEF BatchInv, Fresh
<1>10. ASSUME NEW n \in Nodes, FinishRun(n) PROVE BatchInv'
  <2>1. /\ sched'[n].claimed = {} /\ sched'[n].found = {}
        /\ \A k \in Nodes : k # n => sched'[k] = sched[k]
        /\ UNCHANGED <<log, accepted>>
    BY <1>0, <1>10 DEF FinishRun, IdleSched, Typing, TypeOK
  <2>2. CASE UNCHANGED thread
    BY <2>1, <2>2 DEF BatchInv, Fresh
  <2>3. ASSUME NEW t \in Threads, NEW next \in After(sched[n].claimed),
               thread' = [thread EXCEPT ![t] = next]
        PROVE  BatchInv'
    <3>1. sched[n].claimed \in SUBSET Messages
      BY <1>0 DEF Typing, TypeOK, Sched
    <3>2. \A m \in sched[n].claimed : log[m].status # "none"
      BY <3>1 DEF BatchInv
    <3>3. IF next.resend THEN \A m \in Carried(next) : log[m].status # "none"
                         ELSE next.todo = {} /\ next.pc = "idle"
      BY <3>1, <3>2, AfterIsNoFresh
    <3>4. thread'[t] = next /\ \A u \in Threads \ {t} : thread'[u] = thread[u]
      BY <1>0, <2>3 DEF Typing, TypeOK
    <3>5. \A u \in Threads : Fresh(u)' => u # t /\ Fresh(u)
      BY <3>3, <3>4 DEF Fresh
    <3> QED BY <2>1, <3>3, <3>4, <3>5 DEF BatchInv
  <2> QED BY <1>10, <2>2, <2>3 DEF FinishRun
<1>11. ASSUME NEW n \in Nodes, Crash(n) PROVE BatchInv'
  <2>1. /\ sched'[n].claimed = {} /\ sched'[n].found = {}
        /\ \A k \in Nodes : k # n => sched'[k] = sched[k]
        /\ \A u \in Threads : thread'[u] = thread[u] \/ thread'[u] = IdleThread
        /\ UNCHANGED <<log, accepted>>
    BY <1>0, <1>11 DEF Crash, IdleSched, Typing, TypeOK
  <2> QED BY <2>1 DEF BatchInv, Fresh, IdleThread, Carried
<1>12. CASE UNCHANGED <<thread, sched, log, accepted>>
  BY <1>12 DEF BatchInv, Fresh
<1>13. ASSUME NEW t \in Threads, ThreadStep(t) PROVE BatchInv'
  BY <1>4, <1>5, <1>6, <1>13 DEF ThreadStep
<1>14. ASSUME NEW n \in Nodes, SchedStep(n) PROVE BatchInv'
  BY <1>7, <1>8, <1>9, <1>10, <1>14 DEF SchedStep
<1> QED
  BY <1>1, <1>7, <1>11, <1>12, <1>13, <1>14 DEF Next, SetConfig, vars

\* However many nodes run the scheduler: the thread of a fresh event has its message
\* for itself, without a row, until it writes TWEBHOOK_LOG; two senders of a message
\* are always two batches of reSendFaultRequests.
THEOREM FreshAloneAlways == Spec => []FreshAlone
<1>1. Init => BatchInv
  BY DEF Init, BatchInv, Fresh, IdleThread, IdleSched, Carried
<1>2. ReceivedInv /\ BatchInv /\ [Next]_vars => BatchInv'
  BY BatchStep
<1>3. ReceivedInv /\ BatchInv => FreshAlone
  <2> SUFFICES ASSUME ReceivedInv, BatchInv, NEW t \in Threads, Fresh(t)
               PROVE  /\ log[thread[t].msg].status = "none"
                      /\ \A u \in Threads \ {t} : thread[t].msg \notin Held(u)
                      /\ \A n \in Nodes : thread[t].msg \notin sched[n].claimed \cup sched[n].found
    BY DEF FreshAlone
  <2>1. log[thread[t].msg].status = "none" /\ thread[t].msg \in Messages
    BY DEF BatchInv, Fresh, ReceivedInv, AnsweredInv
  <2>2. ASSUME NEW u \in Threads \ {t} PROVE thread[t].msg \notin Held(u)
    <3>1. CASE thread[u].resend
      BY <2>1, <3>1 DEF BatchInv, Held, Carried
    <3>2. CASE ~thread[u].resend
      BY <3>2 DEF BatchInv, Held, Fresh
    <3> QED BY <3>1, <3>2
  <2> QED BY <2>1, <2>2 DEF BatchInv
<1> QED
  BY <1>1, <1>2, <1>3, ReceivedInvariant, PTL DEF Spec

=============================================================================
