------------------------------ MODULE WebhookQueue ------------------------------
(***************************************************************************)
(* How a change in the main database becomes one webhook message:          *)
(* WebhookService.syncWebhook, which coalesces the events of one entity    *)
(* over four seconds, and the timer task that reads the data to send.      *)
(*                                                                         *)
(* An event is one INSERT, UPDATE or DELETE of an entity.  Its row trigger *)
(* posts it to the API inside the transaction that makes the change, so    *)
(* the commit comes at any time after the post.  Nothing orders the events *)
(* of an entity: after its DELETE come the UPDATEs of rows that hang on it *)
(* and whatever follows when the DELETE is rolled back.                    *)
(***************************************************************************)
EXTENDS Naturals, Sequences

CONSTANTS
  Events,
  EntityOf,  \* the entity an event changes: team and id, as digits, and type
  OpOf,      \* 1 [Insert], 2 [Update] or 3 [Delete]
  Faults     \* subset of FaultKinds

\* No thread for a timer, a node that stops, a configuration that changes or is
\* missing, a data query that fails.
FaultKinds == {"threads", "crash", "config", "data"}

ASSUME QueueAssumption ==
  /\ OpOf \in [Events -> 1..3]
  /\ DOMAIN EntityOf = Events
  /\ Faults \subseteq FaultKinds

VARIABLES
  syncList,    \* how often each item is in syncList
  event,       \* what has become of each event
  enabled,     \* the kinds of entity webHooksMap enables by now
  committed,   \* events whose change is committed
  shown,       \* events whose change was in the data of some message
  overtaken,   \* events whose transaction was open when a message was built
  deleted,     \* events coalesced before a message told of a Delete
  missed,      \* entities a timer was lost of, or a read, and no data sent since
  told         \* the entity and operation of each message

answers == <<committed, shown, overtaken, deleted, missed, told>>

vars == <<syncList, event, enabled, answers>>

EventStates ==
  {"new", "coalesced", "schedule", "timer", "read", "done", "failed"}

\* getSyncItem: teamId + id + syncType, one string.
SyncItem(x) == x.team \o x.id \o <<x.type>>

Entities == {EntityOf[e] : e \in Events}

Items == {SyncItem(x) : x \in Entities}

ItemOf(e) == SyncItem(EntityOf[e])

Siblings(e) == {f \in Events : EntityOf[f] = EntityOf[e]}

\* What enableSyncType looks up: the team in the map, then the flag of the type.
Kind(x) == <<x.team, x.type>>

Kinds == {Kind(x) : x \in Entities}

Init ==
  /\ syncList = [i \in Items |-> 0]
  /\ event = [e \in Events |-> "new"]
  /\ enabled = Kinds
  /\ committed = {}
  /\ shown = {}
  /\ overtaken = {}
  /\ deleted = {}
  /\ missed = {}
  /\ told = {}

\* Mutant: the item is added without looking for it first.
PostUnchecked(e) ==
  /\ event[e] = "new"
  /\ event' = [event EXCEPT ![e] = "schedule"]
  /\ syncList' = [syncList EXCEPT ![ItemOf(e)] = @ + 1]
  /\ UNCHANGED <<enabled, answers>>

\* The trigger's POST reaches syncWebhook: under synObj the item is added, or
\* the event is dropped because one is pending, whatever the two operations.
Post(e) ==
  /\ event[e] = "new"
  /\ IF syncList[ItemOf(e)] > 0
     THEN /\ event' = [event EXCEPT ![e] = "coalesced"]
          /\ UNCHANGED syncList
     ELSE /\ event' = [event EXCEPT ![e] = "schedule"]
          /\ syncList' = [syncList EXCEPT ![ItemOf(e)] = @ + 1]
  /\ UNCHANGED <<enabled, answers>>

\* The transaction of the change commits.
Commit(e) ==
  /\ event[e] # "new"
  /\ e \notin committed
  /\ committed' = committed \cup {e}
  /\ UNCHANGED <<syncList, event, enabled, shown, overtaken, deleted, missed, told>>

\* new Timer().schedule: a thread of its own for every item.
Schedule(e) ==
  /\ event[e] = "schedule"
  /\ event' = [event EXCEPT ![e] = "timer"]
  /\ UNCHANGED <<syncList, enabled, answers>>

\* No thread can be created: syncWebhook throws and the item stays behind.
ScheduleFails(e) ==
  /\ "threads" \in Faults
  /\ event[e] = "schedule"
  /\ event' = [event EXCEPT ![e] = "failed"]
  /\ UNCHANGED <<syncList, enabled, answers>>

\* Mutants: canExecute leaves the item on the list; its answer is inverted.
FireKeepsItem(e) ==
  /\ event[e] = "timer"
  /\ event' = [event EXCEPT ![e] = "read"]
  /\ UNCHANGED <<syncList, enabled, answers>>

FireInverted(e) ==
  /\ event[e] = "timer"
  /\ syncList' = [syncList EXCEPT ![ItemOf(e)] = 0]
  /\ event' = [event EXCEPT ![e] = IF syncList[ItemOf(e)] > 0 THEN "done" ELSE "read"]
  /\ UNCHANGED <<enabled, answers>>

\* The four seconds are over: canExecute takes the item off the list.
Fire(e) ==
  /\ event[e] = "timer"
  /\ IF syncList[ItemOf(e)] > 0
     THEN /\ syncList' = [syncList EXCEPT ![ItemOf(e)] = @ - 1]
          /\ event' = [event EXCEPT ![e] = "read"]
     ELSE /\ event' = [event EXCEPT ![e] = "done"]
          /\ UNCHANGED syncList
  /\ UNCHANGED <<enabled, answers>>

\* The configuration of a team is written or deleted, or its refresh is on the way
\* or has failed: the map enables other kinds of entity than before, or none.
Configure ==
  /\ "config" \in Faults
  /\ \E kinds \in SUBSET Kinds : enabled' = kinds
  /\ UNCHANGED <<syncList, event, answers>>

\* Mutant: operations counted from zero.
ReadShifted(e) ==
  /\ event[e] = "read" /\ Kind(EntityOf[e]) \in enabled
  /\ event' = [event EXCEPT ![e] = "done"]
  /\ told' = told \cup {<<EntityOf[e], OpOf[e] - 1>>}
  /\ UNCHANGED <<syncList, enabled, committed, shown, overtaken, deleted, missed>>

\* WebhookDao.syncWebhook builds the message: the operation of the event that
\* started the timer and, but for a Delete, the data as committed by now.
Read(e) ==
  /\ event[e] = "read" /\ Kind(EntityOf[e]) \in enabled
  /\ event' = [event EXCEPT ![e] = "done"]
  /\ told' = told \cup {<<EntityOf[e], OpOf[e]>>}
  /\ IF OpOf[e] = 3
     THEN /\ shown' = shown \cup {e}
          /\ deleted' = deleted \cup {f \in Siblings(e) : event[f] = "coalesced"}
          /\ UNCHANGED <<overtaken, missed>>
     ELSE /\ shown' = shown \cup (Siblings(e) \cap committed)
          /\ overtaken' = overtaken \cup
               {f \in Siblings(e) \ committed : event[f] # "new"}
          /\ missed' = missed \ {EntityOf[e]}
          /\ UNCHANGED deleted
  /\ UNCHANGED <<syncList, enabled, committed>>

\* The timer task ends without a message.  Its item is off the list and its
\* exception swallowed: nobody tries again.
Drop(e) ==
  /\ event' = [event EXCEPT ![e] = "done"]
  /\ missed' = missed \cup {EntityOf[e]}
  /\ UNCHANGED <<syncList, enabled, committed, shown, overtaken, deleted, told>>

\* enableSyncType is false.
Skip(e) ==
  /\ event[e] = "read" /\ Kind(EntityOf[e]) \notin enabled
  /\ Drop(e)

\* Connection or query fails: an exception, or null instead of rows and then one.
ReadFails(e) ==
  /\ "data" \in Faults
  /\ event[e] = "read" /\ Kind(EntityOf[e]) \in enabled /\ OpOf[e] # 3
  /\ Drop(e)

\* The API node stops: list and timers are in memory only.
Crash ==
  /\ "crash" \in Faults
  /\ LET gone == {e \in Events : event[e] \in {"schedule", "timer", "read", "failed"}}
     IN /\ event' = [e \in Events |-> IF e \in gone THEN "done" ELSE event[e]]
        /\ missed' = missed \cup {EntityOf[e] : e \in gone}
  /\ syncList' = [i \in Items |-> 0]
  /\ UNCHANGED <<enabled, committed, shown, overtaken, deleted, told>>

Work(e) == Schedule(e) \/ Fire(e) \/ Read(e) \/ Skip(e)

Fail(e) == ScheduleFails(e) \/ ReadFails(e)

Next ==
  \/ \E e \in Events : Post(e) \/ Commit(e) \/ Work(e) \/ Fail(e)
  \/ Configure
  \/ Crash

Spec == Init /\ [][Next]_vars

\* Timers fire and handlers run on.
FairSpec == Spec /\ \A e \in Events : WF_vars(Work(e))

-----------------------------------------------------------------------------
(* Properties *)

\* Every variable has its type (syncList, the events on their way, the messages).
TypeOK ==
  /\ syncList \in [Items -> Nat]
  /\ event \in [Events -> EventStates]
  /\ enabled \subseteq Kinds
  /\ committed \subseteq Events
  /\ shown \subseteq Events
  /\ overtaken \subseteq Events
  /\ deleted \subseteq Events
  /\ missed \subseteq Entities
  /\ told \subseteq Entities \X (1..3)

\* The event that put its item on the list and has not taken it off.
Owner(e) == event[e] \in {"schedule", "timer", "failed"}

\* An item of syncList and a timer belong together one to one, through crashes
\* and whatever the order of posts and canExecute: no entity has two timers, and
\* none is blocked but by a thread that could not be created.
ItemsHaveOwners ==
  \A i \in Items :
    /\ syncList[i] <= 1
    /\ syncList[i] = 1 <=> \E e \in Events : Owner(e) /\ ItemOf(e) = i
    /\ \A e, f \in Events :
         Owner(e) /\ Owner(f) /\ ItemOf(e) = i /\ ItemOf(f) = i => e = f

\* Nothing of this entity is on its way to a message.
Quiet(x) ==
  \A e \in Events : EntityOf[e] = x => event[e] \notin {"schedule", "timer", "read"}

\* A timer task of this entity was lost or ended without a message and no data of
\* it was sent since, or an item of it is stuck on the list.
Hit(x) ==
  \/ x \in missed
  \/ \E e \in Events : EntityOf[e] = x /\ event[e] = "failed"

Answered == shown \cup overtaken \cup deleted

\* Coalescing loses no change: when nothing of an entity is on its way and no
\* fault has hit it since data of it was sent, each of its events went into the
\* data of a message, or its transaction was still open when one was built (the
\* trigger posts before the commit), or it was coalesced and the message sent told
\* of a Delete.  canExecute takes the item off before the data is read, so a later
\* event starts a new timer.
NoLostUpdate ==
  \A e \in Events :
    event[e] # "new" /\ Quiet(EntityOf[e]) /\ ~Hit(EntityOf[e]) => e \in Answered

\* Every posted event is answered in one of these ways sooner or later, or its
\* entity is hit: the timer of a pending item always fires and its task ends.
EventuallyShown ==
  \A e \in Events :
    event[e] # "new" ~> (e \in Answered \/ Hit(EntityOf[e]))

InFlight(e) == event[e] \in {"schedule", "timer", "read"}

\* An event of e's entity whose message will answer for e.
Covers(f, e) ==
  /\ EntityOf[f] = EntityOf[e] /\ InFlight(f)
  /\ OpOf[f] # 3 \/ f = e \/ event[e] = "coalesced"

Posted == {e \in Events : event[e] # "new"}

\* Refinement mapping: what a message answered for stays answered; the rest is
\* pending while a timer or a read of its entity is still to come.
Phase ==
  [e \in Events |->
     CASE e \notin Posted -> "new"
       [] e \in Posted \cap shown -> "shown"
       [] e \in (Posted \cap overtaken) \ shown -> "overtaken"
       [] e \in (Posted \cap deleted) \ (shown \cup overtaken) -> "deleted"
       [] e \in Posted \ Answered ->
            IF \E f \in Events : Covers(f, e) THEN "pending" ELSE "lost"]

Changes == INSTANCE WebhookChanges WITH
  Changes <- Events, Lossy <- Faults # {}, phase <- Phase,
  hit <- {x \in Entities : Hit(x)}

\* syncList, its timers and their threads keep the promise of WebhookChanges: one
\* message answers for all changes of its entity posted before the data is read,
\* one of a Delete for those coalesced, and a change is dropped only where a fault
\* hit its entity: until data of the entity is sent again, nobody knows of it.
ImplementsChanges == Changes!Spec

\* "operation = 1 [Insert] / 2 [Update] / 3 [Delete]" (WebhookController): once
\* nothing of an entity is on its way, the customer was told of its deletion.
DeleteTold ==
  \A e \in Events :
    OpOf[e] = 3 /\ event[e] # "new" /\ Quiet(EntityOf[e])
      => <<EntityOf[e], 3>> \in told

=============================================================================
