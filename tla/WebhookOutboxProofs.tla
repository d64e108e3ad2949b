-------------------------- MODULE WebhookOutboxProofs --------------------------
(***************************************************************************)
(* Where at most one node runs the scheduler WebhookDelivery implements    *)
(* WebhookOutbox, for every set of nodes, messages, threads, teams and     *)
(* databases and every set of faults.  Where a message is follows from whether it has an owner and    *)
(* from its row; every step either leaves owners and rows alone, takes     *)
(* owners away, or is one of the few that give a message a new phase.      *)
(***************************************************************************)
EXTENDS WebhookDeliveryProofs

\* Where a message is, by its owner and its row.
PhaseFacts ==
  /\ Phase = [m \in Messages |-> Phase[m]]
  /\ \A m \in Messages :
       /\ Owned(m) => Phase[m] = "sending"
       /\ ~Owned(m) /\ log[m].status = "sent" => Phase[m] = "sent"
       /\ ~Owned(m) /\ NoRow(m) /\ m \notin accepted => Phase[m] = "new"
       /\ ~Owned(m) /\ NoRow(m) /\ m \in accepted => Phase[m] = "abandoned"
       /\ ~Owned(m) /\ ClaimedRow(m) => Phase[m] = "abandoned"
       /\ ~Owned(m) /\ log[m].status = "failed" /\ ~log[m].inProgress => Phase[m] = "failed"

\* What has an owner is an accepted message, claimed or without a row.
OwnedFacts ==
  \A m \in Messages : Owned(m) => m \in accepted /\ (ClaimedRow(m) \/ NoRow(m))

\* A row is one of these.
RowFacts ==
  \A m \in Messages :
    \/ log[m].status = "sent" /\ m \in accepted
    \/ log[m].status = "failed" /\ ~log[m].inProgress /\ m \in accepted
    \/ ClaimedRow(m) /\ m \in accepted
    \/ NoRow(m)

LEMMA Facts == IInv => PhaseFacts /\ OwnedFacts /\ RowFacts
<1> SUFFICES ASSUME IInv PROVE PhaseFacts /\ OwnedFacts /\ RowFacts
  OBVIOUS
<1>1. OwnedFacts
  <2>1. ASSUME NEW m \in Messages, NEW t \in Threads, m \in Held(t)
        PROVE  m \in accepted /\ (ClaimedRow(m) \/ NoRow(m))
    BY <2>1 DEF IInv, ThreadInv, Held, Carried
  <2>2. ASSUME NEW m \in Messages, NEW n \in Nodes, m \in sched[n].claimed
        PROVE  m \in accepted /\ ClaimedRow(m)
    BY <2>2 DEF IInv, SchedInv
  <2> QED BY <2>1, <2>2 DEF OwnedFacts, Owned
<1>2. RowFacts
  BY DEF IInv, LogInv, Typing, TypeOK, Row, Statuses, RowFacts, ClaimedRow, NoRow
<1>3. PhaseFacts
  <2>1. ASSUME NEW m \in Messages
        PROVE  Phase[m] =
                 CASE log[m].status = "sent" -> "sent"
                   [] log[m].status # "sent" /\ Owned(m) -> "sending"
                   [] log[m].status # "sent" /\ ~Owned(m) /\ m \notin accepted -> "new"
                   [] log[m].status = "failed" /\ ~Owned(m) /\ m \in accepted
                        /\ ~log[m].inProgress -> "failed"
                   [] OTHER -> "abandoned"
    BY DEF Phase
  <2>2. Phase = [m \in Messages |-> Phase[m]]
    BY DEF Phase
  <2>3. ASSUME NEW m \in Messages
        PROVE  /\ Owned(m) => Phase[m] = "sending"
               /\ ~Owned(m) /\ log[m].status = "sent" => Phase[m] = "sent"
               /\ ~Owned(m) /\ NoRow(m) /\ m \notin accepted => Phase[m] = "new"
               /\ ~Owned(m) /\ NoRow(m) /\ m \in accepted => Phase[m] = "abandoned"
               /\ ~Owned(m) /\ ClaimedRow(m) => Phase[m] = "abandoned"
               /\ ~Owned(m) /\ log[m].status = "failed" /\ ~log[m].inProgress
                    => Phase[m] = "failed"
    BY <1>1, <1>2, <2>1 DEF OwnedFacts, RowFacts, ClaimedRow, NoRow
  <2> QED BY <2>2, <2>3 DEF PhaseFacts
<1> QED BY <1>1, <1>2, <1>3

LEMMA FactsNext == IInv' => PhaseFacts' /\ OwnedFacts' /\ RowFacts'
  BY Facts, PTL

\* Where the rows stay as they are and no message finds an owner, senders at most
\* let go of messages.
LEMMA LetGo ==
  ASSUME IInv, IInv', UNCHANGED <<log, accepted, received>>,
         \A m \in Messages : Owned(m)' => Owned(m)
  PROVE  [Outbox!OutboxNext]_(Outbox!outboxVars)
<1>1. PhaseFacts /\ OwnedFacts /\ RowFacts /\ PhaseFacts' /\ RowFacts'
  BY Facts, FactsNext
<1> DEFINE S == {m \in Messages : Owned(m) /\ ~Owned(m)'}
<1>2. ASSUME NEW m \in S PROVE Phase[m] = "sending" /\ Phase'[m] = "abandoned"
  BY <1>1 DEF PhaseFacts, OwnedFacts, ClaimedRow, NoRow
<1>3. ASSUME NEW m \in Messages \ S PROVE Phase'[m] = Phase[m]
  BY <1>1 DEF PhaseFacts, RowFacts, ClaimedRow, NoRow
<1>4. CASE S = {}
  <2>1. Phase' = Phase
    BY <1>1, <1>3, <1>4 DEF PhaseFacts
  <2> QED BY <2>1 DEF Outbox!outboxVars
<1>5. CASE S # {}
  <2>1. Phase' = [m \in Messages |-> IF m \in S THEN "abandoned" ELSE Phase[m]]
    BY <1>1, <1>2, <1>3 DEF PhaseFacts
  <2>2. Outbox!Abandon(S)
    BY <1>2, <1>5, <2>1 DEF Outbox!Abandon, Outbox!Move
  <2> QED BY <2>2 DEF Outbox!OutboxNext
<1> QED BY <1>4, <1>5

\* A message gets a new phase and the others keep theirs.
LEMMA OneMoves ==
  ASSUME IInv, IInv', UNCHANGED received, NEW m \in Messages,
         \A k \in Messages \ {m} :
           /\ log'[k] = log[k]
           /\ k \in accepted' <=> k \in accepted
           /\ Owned(k)' <=> Owned(k)
  PROVE  Phase' = [k \in Messages |-> IF k \in {m} THEN Phase'[m] ELSE Phase[k]]
<1>1. PhaseFacts /\ RowFacts /\ PhaseFacts' /\ RowFacts'
  BY Facts, FactsNext
<1>2. ASSUME NEW k \in Messages \ {m} PROVE Phase'[k] = Phase[k]
  BY <1>1 DEF PhaseFacts, RowFacts, ClaimedRow, NoRow
<1> QED BY <1>1, <1>2 DEF PhaseFacts

\* Owners and rows stay as they are while a POST may reach the customer.
LEMMA Delivered ==
  ASSUME IInv, IInv', UNCHANGED <<log, accepted>>, NEW m \in Messages, Owned(m),
         \A k \in Messages : Owned(k)' <=> Owned(k),
         received' = [received EXCEPT ![m] = OneMore(@)]
  PROVE  [Outbox!OutboxNext]_(Outbox!outboxVars)
<1>1. PhaseFacts /\ RowFacts /\ PhaseFacts' /\ RowFacts'
  BY Facts, FactsNext
<1>2. ASSUME NEW k \in Messages PROVE Phase'[k] = Phase[k]
  BY <1>1 DEF PhaseFacts, RowFacts, ClaimedRow, NoRow
<1>3. Phase' = Phase /\ Phase[m] = "sending"
  BY <1>1, <1>2 DEF PhaseFacts
<1>4. Outbox!Deliver(m)
  BY <1>3 DEF Outbox!Deliver, OneMore
<1> QED BY <1>4 DEF Outbox!OutboxNext

\* A thread that goes on with its batch lets go of its message, and of nothing else.
LEMMA LetsGoOfOne ==
  ASSUME IInv, NEW t \in Threads, thread[t].pc # "idle",
         \E next \in After(thread[t].todo) : thread' = [thread EXCEPT ![t] = next],
         UNCHANGED sched
  PROVE  \A k \in Messages : Owned(k)' <=> Owned(k) /\ k # thread[t].msg
<1>1. thread[t].todo \in SUBSET Messages
  BY DEF IInv, Typing, TypeOK, Thread
<1>2. PICK next \in After(thread[t].todo) : thread' = [thread EXCEPT ![t] = next]
  OBVIOUS
<1>3. Carried(next) = thread[t].todo
  BY <1>1, AfterCarries
<1>4. /\ Carried(thread'[t]) = thread[t].todo
      /\ \A u \in Threads \ {t} : thread'[u] = thread[u]
  BY <1>2, <1>3 DEF IInv, Typing, TypeOK
<1>5. /\ Carried(thread[t]) = {thread[t].msg} \cup thread[t].todo
      /\ thread[t].msg \notin thread[t].todo
  BY DEF Carried, IInv, ThreadInv
<1>6. \A u \in Threads : Held(u) = Carried(thread[u]) /\ Held(u)' = Carried(thread'[u])
  BY DEF Held, Carried
<1>7. \A u \in Threads \ {t} : thread[t].msg \notin Carried(thread[u])
  BY <1>5 DEF IInv, Disjoint
<1>8. \A n \in Nodes : thread[t].msg \notin sched[n].claimed
  BY <1>5 DEF IInv, Disjoint
<1> HIDE DEF IInv
<1>9. \A u \in Threads : Held(u)' = Held(u) \ {thread[t].msg}
  BY <1>4, <1>5, <1>6, <1>7
<1> QED BY <1>8, <1>9 DEF Owned

\* A thread that stays with its message and its batch keeps what it has.
LEMMA KeepsAll ==
  ASSUME IInv, NEW t \in Threads, NEW th, thread' = [thread EXCEPT ![t] = th],
         thread[t].pc # "idle", th.pc # "idle",
         th.msg = thread[t].msg, th.todo = thread[t].todo,
         UNCHANGED sched
  PROVE  \A k \in Messages : Owned(k)' <=> Owned(k)
<1>1. thread'[t] = th /\ \A u \in Threads \ {t} : thread'[u] = thread[u]
  BY DEF IInv, Typing, TypeOK
<1>2. \A u \in Threads : Held(u)' = Held(u)
  BY <1>1 DEF Held
<1> QED BY <1>2 DEF Owned

\* Every step of the threads, the scheduler and their surroundings is a step of the
\* outbox or none.
LEMMA OutboxStep ==
  ASSUME OneScheduler, IInv, IInv', ReceivedInv, [Next]_vars
  PROVE  [Outbox!OutboxNext]_(Outbox!outboxVars)
<1> DEFINE goal == [Outbox!OutboxNext]_(Outbox!outboxVars)
<1>0. \A t \in Threads : thread[t].pc # "idle" =>
        /\ thread[t].msg \in Messages /\ Owned(thread[t].msg)
        /\ thread[t].msg \in accepted
        /\ thread[t] \in Thread
  <2>1. \A t \in Threads : thread[t].pc # "idle" =>
          thread[t].msg \in Messages /\ thread[t] \in Thread
    BY DEF ReceivedInv, AnsweredInv, Typing, TypeOK
  <2>2. \A t \in Threads : thread[t].pc # "idle" => Owned(thread[t].msg)
    BY DEF Owned, Held
  <2> QED BY <2>1, <2>2, Facts DEF OwnedFacts
<1>1. ASSUME NEW t \in Threads, NEW m \in Messages, SyncWebhook(t, m)
      PROVE  goal
  <2>1. m \notin accepted /\ accepted' = accepted \cup {m} /\ UNCHANGED <<log, sched, received>>
    BY <1>1 DEF SyncWebhook
  <2>2. Phase[m] = "new" /\ ~Owned(m)
    BY <2>1, Facts DEF PhaseFacts, OwnedFacts, RowFacts
  <2>3. Phase'[m] \in {"sending", "abandoned"}
    <3>1. NoRow(m)
      BY <2>1, Facts DEF RowFacts
    <3>2. NoRow(m)' /\ m \in accepted'
      BY <2>1, <3>1 DEF NoRow
    <3> QED BY <3>2, FactsNext DEF PhaseFacts
  <2>4. ASSUME NEW k \in Messages \ {m} PROVE Owned(k)' <=> Owned(k)
    <3>1. ASSUME NEW u \in Threads PROVE k \in Held(u)' <=> k \in Held(u)
      BY <1>1, <2>4 DEF SyncWebhook, Held, IInv, Typing, TypeOK
    <3> QED BY <2>1, <3>1 DEF Owned
  <2>5. Phase' = [k \in Messages |-> IF k \in {m} THEN Phase'[m] ELSE Phase[k]]
    BY <2>1, <2>4, OneMoves
  <2>6. Outbox!Take(m)
    BY <2>1, <2>2, <2>3, <2>5 DEF Outbox!Take, Outbox!Move
  <2> QED BY <2>6 DEF Outbox!OutboxNext
<1>2. ASSUME NEW t \in Threads, Send(t) PROVE goal
  <2>1. UNCHANGED <<log, sched, accepted, received>> /\ thread[t].pc = "send"
    BY <1>2 DEF Send
  <2>2. CASE thread' = [thread EXCEPT ![t].pc = "post"]
    <3>1. \A k \in Messages : Owned(k)' <=> Owned(k)
      <4> DEFINE th == [thread[t] EXCEPT !.pc = "post"]
      <4>1. /\ thread' = [thread EXCEPT ![t] = th]
            /\ th.pc # "idle" /\ th.msg = thread[t].msg /\ th.todo = thread[t].todo
        BY <1>0, <2>1, <2>2 DEF Thread
      <4> QED BY <2>1, <4>1, KeepsAll
    <3> QED BY <2>1, <3>1, LetGo
  <2>3. CASE \E next \in After(thread[t].todo) : thread' = [thread EXCEPT ![t] = next]
    <3>1. \A k \in Messages : Owned(k)' => Owned(k)
      BY <2>1, <2>3, LetsGoOfOne
    <3> QED BY <2>1, <3>1, LetGo
  <2> QED BY <1>2, <2>2, <2>3 DEF Send
<1>3. ASSUME NEW t \in Threads, PostOk(t) PROVE goal
  <2> DEFINE th == [thread[t] EXCEPT !.pc = "settled"]
  <2>1. /\ thread' = [thread EXCEPT ![t] = th] /\ thread[t].pc = "post"
        /\ th.pc # "idle" /\ th.msg = thread[t].msg /\ th.todo = thread[t].todo
        /\ received' = [received EXCEPT ![thread[t].msg] = OneMore(@)]
        /\ UNCHANGED <<log, sched, accepted>>
    BY <1>0, <1>3 DEF PostOk, Thread
  <2>2. \A k \in Messages : Owned(k)' <=> Owned(k)
    BY <2>1, KeepsAll
  <2>3. thread[t].msg \in Messages /\ Owned(thread[t].msg)
    BY <1>0, <2>1
  <2> QED BY <2>1, <2>2, <2>3, Delivered
<1>4. ASSUME NEW t \in Threads, PostFails(t) PROVE goal
  <2> DEFINE th == RetryOrGiveUp(thread[t])
  <2>1. /\ thread' = [thread EXCEPT ![t] = th] /\ thread[t].pc = "post"
        /\ th.pc # "idle" /\ th.msg = thread[t].msg /\ th.todo = thread[t].todo
        /\ UNCHANGED <<log, sched, accepted>>
    BY <1>0, <1>4 DEF PostFails, RetryOrGiveUp, Thread
  <2>2. \A k \in Messages : Owned(k)' <=> Owned(k)
    BY <2>1, KeepsAll
  <2>3. thread[t].msg \in Messages /\ Owned(thread[t].msg)
    BY <1>0, <2>1
  <2>4. CASE UNCHANGED received
    BY <2>1, <2>2, <2>4, LetGo
  <2>5. CASE received' = [received EXCEPT ![thread[t].msg] = OneMore(@)]
    BY <2>1, <2>2, <2>3, <2>5, Delivered
  <2> QED BY <1>4, <2>4, <2>5 DEF PostFails
<1>5. ASSUME NEW t \in Threads, Wake(t) PROVE goal
  <2> DEFINE th == [thread[t] EXCEPT !.pc = "send"]
  <2>1. /\ thread' = [thread EXCEPT ![t] = th] /\ thread[t].pc = "sleep"
        /\ th.pc # "idle" /\ th.msg = thread[t].msg /\ th.todo = thread[t].todo
        /\ UNCHANGED <<log, sched, accepted, received>>
    BY <1>0, <1>5 DEF Wake, Thread
  <2>2. \A k \in Messages : Owned(k)' <=> Owned(k)
    BY <2>1, KeepsAll
  <2> QED BY <2>1, <2>2, LetGo
<1>6. ASSUME NEW t \in Threads, WriteLog(t) PROVE goal
  <2>0. PICK m \in Messages : m = thread[t].msg
    BY <1>0, <1>6 DEF WriteLog
  <2>1. /\ thread[t].pc \in {"settled", "gaveup"}
        /\ Owned(m) /\ m \in accepted
        /\ UNCHANGED <<sched, accepted, received>>
        /\ \E next \in After(thread[t].todo) : thread' = [thread EXCEPT ![t] = next]
    BY <1>0, <1>6, <2>0 DEF WriteLog
  <2>2. \A k \in Messages : Owned(k)' <=> Owned(k) /\ k # m
    BY <2>0, <2>1, LetsGoOfOne
  <2>3. CASE UNCHANGED log
    <3>1. \A k \in Messages : Owned(k)' => Owned(k)
      BY <2>2
    <3> QED BY <2>1, <2>3, <3>1, LetGo
  <2>4. CASE log' = [log EXCEPT ![m] =
                       [status |-> IF thread[t].pc = "settled" THEN "sent" ELSE "failed",
                        inProgress |-> FALSE]]
    <3>1. /\ log'[m] = [status |-> IF thread[t].pc = "settled" THEN "sent" ELSE "failed",
                        inProgress |-> FALSE]
          /\ \A k \in Messages \ {m} : log'[k] = log[k]
      BY <2>0, <2>1, <2>4 DEF IInv, Typing, TypeOK
    <3>2. Phase' = [k \in Messages |-> IF k \in {m} THEN Phase'[m] ELSE Phase[k]]
      BY <2>1, <2>2, <3>1, OneMoves
    <3>3. Phase[m] = "sending"
      BY <2>1, Facts DEF PhaseFacts
    <3>4. CASE thread[t].pc = "settled"
      <4>1. Phase'[m] = "sent"
        <5>1. log'[m].status = "sent"
          BY <3>1, <3>4
        <5> QED BY <2>1, <2>2, <5>1, FactsNext DEF PhaseFacts
      <4>2. received[m] > 0
        BY <2>0, <3>4 DEF ReceivedInv, AnsweredInv
      <4>3. Outbox!Confirm(m)
        BY <2>1, <3>2, <3>3, <4>1, <4>2 DEF Outbox!Confirm, Outbox!Move
      <4> QED BY <2>1, <4>3 DEF Outbox!OutboxNext
    <3>5. CASE thread[t].pc = "gaveup"
      <4>1. Phase'[m] = "failed"
        <5>1. log'[m].status = "failed" /\ ~log'[m].inProgress
          BY <3>1, <3>5
        <5> QED BY <2>1, <2>2, <5>1, FactsNext DEF PhaseFacts
      <4>2. Outbox!GiveUp(m)
        BY <2>1, <3>2, <3>3, <4>1 DEF Outbox!GiveUp, Outbox!Move
      <4> QED BY <2>1, <4>2 DEF Outbox!OutboxNext
    <3> QED BY <2>1, <3>4, <3>5
  <2> QED BY <1>6, <2>0, <2>3, <2>4 DEF WriteLog
<1>7. ASSUME NEW n \in Nodes, UNCHANGED <<log, thread, accepted, received>>,
             NEW s \in Sched, sched' = [sched EXCEPT ![n] = s],
             s.claimed \subseteq sched[n].claimed
      PROVE  goal
  <2>1. \A k \in Messages : Owned(k)' => Owned(k)
    BY <1>7 DEF Owned, Held, IInv, Typing, TypeOK
  <2> QED BY <1>7, <2>1, LetGo
<1>8. ASSUME NEW n \in Nodes, Tick(n) PROVE goal
  <2> DEFINE s == [IdleSched EXCEPT !.pc = "scan", !.dbs = Databases]
  <2>1. s \in Sched /\ s.claimed = {}
    BY DEF IdleSched, Sched
  <2> QED BY <1>7, <1>8, <2>1 DEF Tick
<1>9. ASSUME NEW n \in Nodes, NEW d \in Databases, SelectFaults(n, d) PROVE goal
  <2> DEFINE s == [sched[n] EXCEPT !.dbs = @ \ {d}, !.found = FaultRows(d),
                     !.pc = IF FaultRows(d) = {} THEN "scan" ELSE "claim"]
  <2>1. FaultRows(d) \in SUBSET Messages
    BY DEF FaultRows
  <2>2. s \in Sched /\ s.claimed = sched[n].claimed
    BY <2>1 DEF Sched, IInv, Typing, TypeOK
  <2>3. sched' = [sched EXCEPT ![n] = s] /\ UNCHANGED <<log, thread, accepted, received>>
    BY <1>9 DEF SelectFaults
  <2> HIDE DEF s
  <2> QED BY <1>7, <2>2, <2>3
<1>10. ASSUME NEW n \in Nodes, Claim(n) PROVE goal
  <2> DEFINE F == sched[n].found
  <2>1. /\ F \in SUBSET Messages
        /\ log' = [m \in Messages |-> IF m \in F THEN [log[m] EXCEPT !.inProgress = TRUE]
                                                 ELSE log[m]]
        /\ sched'[n].claimed = sched[n].claimed \cup F
        /\ \A a \in Nodes \ {n} : sched'[a] = sched[a]
        /\ UNCHANGED <<thread, accepted, received>>
    BY <1>10 DEF Claim, IInv, Typing, TypeOK, Sched
  <2>2. ASSUME NEW m \in F PROVE Phase[m] = "failed" /\ Phase'[m] = "sending"
    <3>1. m \in Messages /\ log[m].status = "failed" /\ ~log[m].inProgress
      BY <2>1 DEF IInv, SchedInv
    <3>2. Phase[m] = "failed"
      BY <3>1, Facts DEF PhaseFacts, OwnedFacts, ClaimedRow, NoRow
    <3>3. Owned(m)'
      BY <2>1 DEF Owned
    <3> QED BY <3>1, <3>2, <3>3, FactsNext DEF PhaseFacts
  <2>3. ASSUME NEW m \in Messages \ F PROVE Phase'[m] = Phase[m]
    <3>1. log'[m] = log[m] /\ accepted' = accepted
      BY <2>1
    <3>2. Owned(m)' <=> Owned(m)
      BY <2>1 DEF Owned, Held
    <3> QED BY <3>1, <3>2, Facts, FactsNext DEF PhaseFacts, RowFacts, ClaimedRow, NoRow
  <2> HIDE DEF F
  <2>4. Phase' = [m \in Messages |-> IF m \in F THEN "sending" ELSE Phase[m]]
    BY <2>2, <2>3, Facts, FactsNext DEF PhaseFacts
  <2>5. CASE F = {}
    <3>1. Phase' = Phase
      BY <2>4, <2>5, Facts DEF PhaseFacts
    <3> QED BY <2>1, <3>1 DEF Outbox!outboxVars
  <2>6. CASE F # {}
    <3>1. Outbox!Resend(F)
      BY <2>1, <2>2, <2>4, <2>6 DEF Outbox!Resend, Outbox!Move
    <3> QED BY <2>1, <3>1 DEF Outbox!OutboxNext
  <2> QED BY <2>5, <2>6
<1>11. ASSUME NEW n \in Nodes, AbortRun(n) PROVE goal
  <2>1. IdleSched \in Sched /\ IdleSched.claimed = {}
    BY IdleSchedType DEF IdleSched
  <2> QED BY <1>7, <1>11, <2>1 DEF AbortRun
<1>12. ASSUME NEW n \in Nodes, FinishRun(n) PROVE goal
  <2>1. /\ sched' = [sched EXCEPT ![n] = IdleSched]
        /\ UNCHANGED <<log, accepted, received>>
    BY <1>12 DEF FinishRun
  <2>2. IdleSched \in Sched /\ IdleSched.claimed = {}
    BY IdleSchedType DEF IdleSched
  <2>3. CASE UNCHANGED thread
    BY <1>7, <2>1, <2>2, <2>3
  <2>4. CASE \E t \in Threads, next \in After(sched[n].claimed) :
               thread' = [thread EXCEPT ![t] = next]
    <3>1. PICK t \in Threads, next \in After(sched[n].claimed) :
            thread' = [thread EXCEPT ![t] = next]
      BY <2>4
    <3>2. Carried(next) = sched[n].claimed
      BY AfterCarries DEF IInv, Typing, TypeOK, Sched
    <3>3. thread'[t] = next /\ \A u \in Threads \ {t} : thread'[u] = thread[u]
      BY <3>1 DEF IInv, Typing, TypeOK
    <3>4. Held(t)' = sched[n].claimed /\ \A u \in Threads \ {t} : Held(u)' = Held(u)
      BY <3>2, <3>3 DEF Held, Carried
    <3>5. \A a \in Nodes : sched'[a].claimed \subseteq sched[a].claimed
      BY <2>1, <2>2 DEF IInv, Typing, TypeOK
    <3>6. \A k \in Messages : Owned(k)' => Owned(k)
      BY <3>4, <3>5 DEF Owned
    <3> QED BY <2>1, <3>6, LetGo
  <2> QED BY <1>12, <2>3, <2>4 DEF FinishRun
<1>13. ASSUME NEW n \in Nodes, NEW c \in Teams, NEW s \in ConfigStates, SetConfig(n, c, s)
       PROVE  goal
  <2>1. UNCHANGED <<log, thread, sched, accepted, received>>
    BY <1>13 DEF SetConfig
  <2>2. \A k \in Messages : Owned(k)' => Owned(k)
    BY <2>1 DEF Owned, Held
  <2> QED BY <2>1, <2>2, LetGo
<1>14. ASSUME NEW n \in Nodes, Crash(n) PROVE goal
  <2>1. /\ UNCHANGED <<log, accepted, received>>
        /\ \A t \in Threads : thread'[t] = IdleThread \/ thread'[t] = thread[t]
        /\ \A a \in Nodes : sched'[a] = IdleSched \/ sched'[a] = sched[a]
    BY <1>14 DEF Crash, IInv, Typing, TypeOK
  <2>2. \A t \in Threads : Held(t)' \subseteq Held(t)
    BY <2>1 DEF Held, IdleThread
  <2>3. \A a \in Nodes : sched'[a].claimed \subseteq sched[a].claimed
    BY <2>1 DEF IdleSched
  <2>4. \A k \in Messages : Owned(k)' => Owned(k)
    BY <2>2, <2>3 DEF Owned
  <2> QED BY <2>1, <2>4, LetGo
<1>15. CASE UNCHANGED vars
  <2>1. UNCHANGED <<log, thread, sched, accepted, received>>
    BY <1>15 DEF vars
  <2>2. \A k \in Messages : Owned(k)' => Owned(k)
    BY <2>1 DEF Owned, Held
  <2> QED BY <2>1, <2>2, LetGo
<1> HIDE DEF goal
<1>16. ASSUME NEW t \in Threads, ThreadStep(t) PROVE goal
  BY <1>2, <1>3, <1>4, <1>5, <1>6, <1>16 DEF ThreadStep
<1>17. ASSUME NEW n \in Nodes, SchedStep(n) PROVE goal
  BY <1>8, <1>9, <1>10, <1>12, <1>17 DEF SchedStep
<1>18. ASSUME Next PROVE goal
  BY <1>1, <1>11, <1>13, <1>14, <1>16, <1>17, <1>18, Zenon DEF Next
<1> QED BY <1>15, <1>18 DEF goal

\* Where at most one node runs the scheduler, threads of all nodes, batches, retries,
\* resends and every fault do to a message only what the outbox allows: it is sent again
\* only while it is failed, and what is sent or was let go of is left alone.
THEOREM OutboxIsImplemented ==
  ASSUME OneScheduler
  PROVE  Spec => ImplementsOutbox
<1>1. Init => Outbox!OutboxInit
  <2> SUFFICES ASSUME Init PROVE Outbox!OutboxInit
    OBVIOUS
  <2>1. \A m \in Messages : log[m].status = "none" /\ m \notin accepted
    BY DEF Init
  <2>2. \A m \in Messages : ~Owned(m)
    BY DEF Init, Owned, Held, IdleThread, IdleSched
  <2>3. Phase = [m \in Messages |-> "new"]
    BY <2>1, <2>2 DEF Phase
  <2> QED BY <2>3 DEF Init, Outbox!OutboxInit
<1>2. IInv /\ IInv' /\ ReceivedInv /\ [Next]_vars => [Outbox!OutboxNext]_(Outbox!outboxVars)
  BY OutboxStep
<1> QED
  BY <1>1, <1>2, OwnershipInvariant, ReceivedInvariant, PTL
  DEF Spec, ImplementsOutbox, Outbox!OutboxSpec

\* What was let go of stays so: a row whose sender crashed, whose run was aborted or
\* whose configuration was inactive when its turn came keeps INPROGRESS = 1, an event
\* whose log was not written leaves no row, and no later step of send or
\* reSendFaultRequests, and no restart, ever sends such a message or marks its row.
THEOREM AbandonedForGood ==
  ASSUME OneScheduler
  PROVE  Spec => [][\A m \in Messages : Phase[m] = "abandoned" => Phase'[m] = "abandoned"]_vars
<1>1. ASSUME [Outbox!OutboxNext]_(Outbox!outboxVars), IInv, IInv', NEW m \in Messages,
             Phase[m] = "abandoned"
      PROVE  Phase'[m] = "abandoned"
  <2>1. CASE UNCHANGED Outbox!outboxVars
    BY <1>1, <2>1 DEF Outbox!outboxVars
  <2>2. CASE Outbox!OutboxNext
    BY <1>1, <2>2
    DEF Outbox!OutboxNext, Outbox!Take, Outbox!Deliver, Outbox!Confirm, Outbox!GiveUp,
        Outbox!Resend, Outbox!Abandon, Outbox!Move
  <2> QED BY <1>1, <2>1, <2>2
<1>2. IInv /\ IInv' /\ ReceivedInv /\ [Next]_vars =>
        [\A m \in Messages : Phase[m] = "abandoned" => Phase'[m] = "abandoned"]_vars
  BY <1>1, OutboxStep
<1> QED
  BY <1>2, OwnershipInvariant, ReceivedInvariant, PTL DEF Spec

================================================================================
