--------------------------- MODULE WebhookQueueProofs ---------------------------
(***************************************************************************)
(* Coalescing, for every number of events and entities and every fault.    *)
(***************************************************************************)
EXTENDS WebhookQueue, SequenceTheorems, TLAPS

\* The string getSyncItem builds tells any two entities apart.  It does not
\* always: team 1 with id 23 and team 12 with id 3 give the same string.
DistinctItems ==
  \A e, f \in Events : ItemOf(e) = ItemOf(f) => EntityOf[e] = EntityOf[f]

\* The team's digits, then those of the id, then the type; C is what there is to
\* write them with.
LEMMA SyncItemParts ==
  ASSUME NEW C, NEW x \in [team : Seq(C), id : Seq(C), type : C]
  PROVE  /\ Len(x.team) \in Nat /\ Len(x.id) \in Nat
         /\ Len(SyncItem(x)) = Len(x.team) + Len(x.id) + 1
         /\ \A i \in 1..Len(x.team) : SyncItem(x)[i] = x.team[i]
         /\ \A i \in 1..Len(x.id) : SyncItem(x)[Len(x.team) + i] = x.id[i]
         /\ SyncItem(x)[Len(x.team) + Len(x.id) + 1] = x.type
<1> DEFINE number == x.team \o x.id
           last == <<x.type>>
<1>1. x.team \in Seq(C) /\ x.id \in Seq(C) /\ Len(x.team) \in Nat /\ Len(x.id) \in Nat
  OBVIOUS
<1>2. /\ number \in Seq(C)
      /\ Len(number) = Len(x.team) + Len(x.id)
      /\ \A i \in 1..Len(x.team) + Len(x.id) :
           number[i] = IF i <= Len(x.team) THEN x.team[i] ELSE x.id[i - Len(x.team)]
  BY <1>1, ConcatProperties
<1>3. last \in Seq(C) /\ Len(last) = 1 /\ last[1] = x.type
  OBVIOUS
<1>4. SyncItem(x) = number \o last
  BY DEF SyncItem
<1> HIDE DEF number, last
<1>5a. /\ Len(number \o last) = Len(number) + Len(last)
       /\ \A i \in 1..Len(number) + Len(last) : (number \o last)[i] =
            IF i <= Len(number) THEN number[i] ELSE last[i - Len(number)]
  <2>1. number \in Seq(C) /\ last \in Seq(C)
    BY <1>2, <1>3
  <2> QED
    BY <2>1, ConcatProperties, Zenon
<1>5. /\ Len(SyncItem(x)) = Len(number) + 1
      /\ \A i \in 1..Len(number) + 1 :
           SyncItem(x)[i] = IF i <= Len(number) THEN number[i] ELSE last[i - Len(number)]
  BY <1>3, <1>4, <1>5a
<1>6. SyncItem(x)[Len(number) + 1] = x.type
  BY <1>1, <1>2, <1>3, <1>5
<1>7. \A i \in 1..Len(x.team) : SyncItem(x)[i] = x.team[i]
  BY <1>1, <1>2, <1>5
<1>8. \A i \in 1..Len(x.id) : SyncItem(x)[Len(x.team) + i] = x.id[i]
  <2> SUFFICES ASSUME NEW i \in 1..Len(x.id)
               PROVE  SyncItem(x)[Len(x.team) + i] = x.id[i]
    OBVIOUS
  <2>1. /\ Len(x.team) + i \in 1..Len(x.team) + Len(x.id)
        /\ ~(Len(x.team) + i <= Len(x.team))
        /\ (Len(x.team) + i) - Len(x.team) = i
    BY <1>1
  <2>2. SyncItem(x)[Len(x.team) + i] = number[Len(x.team) + i]
    BY <1>1, <1>2, <1>5, <2>1
  <2> QED
    BY <1>2, <2>1, <2>2
<1> QED
  BY <1>1, <1>2, <1>5, <1>6, <1>7, <1>8

\* getSyncItem of two entities whose teams have equally long numbers.
LEMMA SyncItemSplits ==
  ASSUME NEW C, NEW x \in [team : Seq(C), id : Seq(C), type : C],
         NEW y \in [team : Seq(C), id : Seq(C), type : C],
         Len(x.team) = Len(y.team), SyncItem(x) = SyncItem(y)
  PROVE  x = y
<1> DEFINE Parts(z) ==
      /\ Len(z.team) \in Nat /\ Len(z.id) \in Nat
      /\ Len(SyncItem(z)) = Len(z.team) + Len(z.id) + 1
      /\ \A i \in 1..Len(z.team) : SyncItem(z)[i] = z.team[i]
      /\ \A i \in 1..Len(z.id) : SyncItem(z)[Len(z.team) + i] = z.id[i]
      /\ SyncItem(z)[Len(z.team) + Len(z.id) + 1] = z.type
<1>a. Parts(x)
  BY SyncItemParts, Zenon
<1>b. Parts(y)
  BY SyncItemParts, Zenon
<1>1. Len(x.id) = Len(y.id)
  BY <1>a, <1>b
<1>2. \A i \in 1..Len(x.team) : x.team[i] = y.team[i]
  BY <1>a, <1>b
<1>3. \A i \in 1..Len(x.id) : x.id[i] = y.id[i]
  BY <1>1, <1>a, <1>b
<1>4. x.type = y.type
  BY <1>1, <1>a, <1>b
<1>5. x.team = y.team
  BY <1>2, SeqEqual
<1>6. x.id = y.id
  BY <1>1, <1>3, SeqEqual
<1> QED
  BY <1>4, <1>5, <1>6

\* Where all team numbers have the same number of digits, as they do for one team,
\* the keys of syncList tell entities apart whatever their ids and types are.
\* (A type is one symbol here: getSyncItem puts it last, and it starts with a letter.)
THEOREM EqualTeamsAreDistinct ==
  ASSUME NEW C,
         \A e \in Events : EntityOf[e] \in [team : Seq(C), id : Seq(C), type : C],
         \A e, f \in Events : Len(EntityOf[e].team) = Len(EntityOf[f].team)
  PROVE  DistinctItems
BY SyncItemSplits DEF DistinctItems, ItemOf

\* Elsewhere they need not: the object 23 of team 1 and the object 3 of team 12 have
\* one key in syncList, so the event of one is dropped for the other's.
THEOREM KeysMayCollide ==
  ASSUME NEW t
  PROVE  SyncItem([team |-> <<1>>, id |-> <<2, 3>>, type |-> t])
           = SyncItem([team |-> <<1, 2>>, id |-> <<3>>, type |-> t])
BY DEF SyncItem

LEMMA ItemOfEvent == \A e \in Events : ItemOf(e) \in Items
BY DEF ItemOf, Items, Entities

\* An item on the list has an owner; the types of the two variables go along.
OwnerInv ==
  /\ syncList \in [Items -> Nat]
  /\ event \in [Events -> EventStates]
  /\ ItemsHaveOwners

LEMMA OwnerInvariant == Spec => []OwnerInv
<1> USE ItemOfEvent
<1>1. Init => OwnerInv
  BY DEF Init, OwnerInv, ItemsHaveOwners, Owner, EventStates
<1>2. OwnerInv /\ [Next]_vars => OwnerInv'
  <2> SUFFICES ASSUME OwnerInv, [Next]_vars PROVE OwnerInv'
    OBVIOUS
  <2> USE DEF OwnerInv
  <2>1. ASSUME NEW e \in Events, Post(e) PROVE OwnerInv'
    <3>1. CASE syncList[ItemOf(e)] > 0
      BY <2>1, <3>1 DEF Post, ItemsHaveOwners, Owner, EventStates
    <3>2. CASE ~(syncList[ItemOf(e)] > 0)
      <4>1. /\ event' = [event EXCEPT ![e] = "schedule"]
            /\ syncList' = [syncList EXCEPT ![ItemOf(e)] = 1]
            /\ syncList[ItemOf(e)] = 0
        BY <2>1, <3>2 DEF Post
      <4>2. \A f \in Events : Owner(f) => ItemOf(f) # ItemOf(e)
        BY <4>1 DEF ItemsHaveOwners
      <4>3. \A f \in Events : Owner(f)' <=> Owner(f) \/ f = e
        BY <4>1 DEF Owner
      <4>4. \A i \in Items : syncList'[i] = IF i = ItemOf(e) THEN 1 ELSE syncList[i]
        BY <4>1
      <4>5. ItemsHaveOwners'
        BY <4>2, <4>3, <4>4 DEF ItemsHaveOwners
      <4> QED
        BY <4>1, <4>5 DEF EventStates
    <3> QED
      BY <3>1, <3>2
  <2>2. ASSUME NEW e \in Events, Schedule(e) \/ ScheduleFails(e) PROVE OwnerInv'
    <3>1. /\ UNCHANGED syncList
          /\ event' \in [Events -> EventStates]
          /\ \A f \in Events : Owner(f)' <=> Owner(f)
      BY <2>2 DEF Schedule, ScheduleFails, Owner, EventStates
    <3> QED
      BY <3>1 DEF ItemsHaveOwners
  <2>3. ASSUME NEW e \in Events, Fire(e) PROVE OwnerInv'
    <3>1. syncList[ItemOf(e)] = 1
      BY <2>3 DEF Fire, Owner, ItemsHaveOwners
    <3>2. /\ syncList' = [syncList EXCEPT ![ItemOf(e)] = 0]
          /\ event' = [event EXCEPT ![e] = "read"]
      BY <2>3, <3>1 DEF Fire
    <3>3. \A f \in Events : Owner(f)' <=> Owner(f) /\ f # e
      BY <2>3, <3>2 DEF Fire, Owner
    <3>4. \A i \in Items : syncList'[i] = IF i = ItemOf(e) THEN 0 ELSE syncList[i]
      BY <3>2
    <3>5. Owner(e)
      BY <2>3 DEF Fire, Owner
    <3>6. ItemsHaveOwners'
      BY <3>3, <3>4, <3>5 DEF ItemsHaveOwners
    <3> QED
      BY <3>2, <3>6 DEF EventStates
  <2>4. ASSUME NEW e \in Events, Read(e) \/ Skip(e) \/ ReadFails(e) PROVE OwnerInv'
    <3>1. event[e] = "read" /\ event' = [event EXCEPT ![e] = "done"] /\ UNCHANGED syncList
      BY <2>4 DEF Read, Skip, ReadFails, Drop
    <3>2. /\ event' \in [Events -> EventStates]
          /\ \A f \in Events : Owner(f)' <=> Owner(f)
      BY <3>1 DEF Owner, EventStates
    <3> QED
      BY <3>1, <3>2 DEF ItemsHaveOwners
  <2>5. CASE Crash
    <3>1. /\ \A i \in Items : syncList'[i] = 0
          /\ syncList' \in [Items -> Nat]
          /\ event' \in [Events -> EventStates]
          /\ \A f \in Events : ~Owner(f)'
      BY <2>5 DEF Crash, Owner, EventStates
    <3> QED
      BY <3>1 DEF ItemsHaveOwners
  <2>6. CASE UNCHANGED <<syncList, event>>
    BY <2>6 DEF ItemsHaveOwners, Owner
  <2> QED
    BY <2>1, <2>2, <2>3, <2>4, <2>5, <2>6 DEF Next, Work, Fail, Commit, Configure, vars
<1> QED
  BY <1>1, <1>2, PTL DEF Spec

\* Items of syncList and timers belong together one to one, for any events and
\* any order of posts, timers, crashes and failures to create a thread.
THEOREM ItemsAlwaysHaveOwners == Spec => []ItemsHaveOwners
<1>1. OwnerInv => ItemsHaveOwners
  BY DEF OwnerInv
<1> QED
  BY <1>1, OwnerInvariant, PTL

\* What was committed, shown, overtaken or deleted was an event, the map enables
\* kinds of entity only, and every message tells of an entity that changed and of
\* one of the operations Insert, Update and Delete: syncWebhook, canExecute and the
\* timer task invent nothing.
THEOREM TypeCorrect == Spec => []TypeOK
<1> DEFINE Recorded == /\ enabled \subseteq Kinds
                       /\ committed \subseteq Events
                       /\ shown \subseteq Events
                       /\ overtaken \subseteq Events
                       /\ deleted \subseteq Events
                       /\ missed \subseteq Entities
                       /\ told \subseteq Entities \X (1..3)
<1>1. Init => Recorded
  BY DEF Init
<1>2. Recorded /\ [Next]_vars => Recorded'
  <2> SUFFICES ASSUME Recorded, [Next]_vars PROVE Recorded'
    OBVIOUS
  <2>1. ASSUME NEW e \in Events, Commit(e) PROVE Recorded'
    BY <2>1 DEF Commit
  <2>2. ASSUME NEW e \in Events, Read(e) PROVE Recorded'
    <3>1. <<EntityOf[e], OpOf[e]>> \in Entities \X (1..3)
      BY QueueAssumption DEF Entities
    <3>2. Siblings(e) \subseteq Events
      BY DEF Siblings
    <3>3. /\ told' = told \cup {<<EntityOf[e], OpOf[e]>>}
          /\ missed' \subseteq missed
          /\ UNCHANGED <<enabled, committed>>
      BY <2>2 DEF Read
    <3>4. /\ shown' \subseteq shown \cup {e} \cup Siblings(e)
          /\ overtaken' \subseteq overtaken \cup Siblings(e)
          /\ deleted' \subseteq deleted \cup Siblings(e)
      BY <2>2 DEF Read
    <3> QED
      BY <3>1, <3>2, <3>3, <3>4
  <2>3. ASSUME NEW e \in Events, Skip(e) \/ ReadFails(e) PROVE Recorded'
    BY <2>3 DEF Skip, ReadFails, Drop, Entities
  <2>4. CASE Crash
    <3>1. missed' \subseteq missed \cup {EntityOf[e] : e \in Events}
      BY <2>4 DEF Crash
    <3> QED
      BY <2>4, <3>1 DEF Crash, Entities
  <2>5. CASE Configure
    BY <2>5 DEF Configure, answers
  <2>6. CASE UNCHANGED <<enabled, answers>>
    BY <2>6 DEF answers
  <2> QED
    BY <2>1, <2>2, <2>3, <2>4, <2>5, <2>6
    DEF Next, Work, Fail, Post, Schedule, ScheduleFails, Fire, vars
<1>3. Recorded /\ OwnerInv => TypeOK
  BY DEF OwnerInv, TypeOK
<1> QED
  BY <1>1, <1>2, <1>3, OwnerInvariant, PTL DEF Spec

-----------------------------------------------------------------------------

\* Every posted event is answered, or one in flight will answer for it, or the
\* entity was hit and no data of it was sent since.
CoveredInv ==
  \A e \in Events : event[e] # "new" =>
    \/ e \in Answered
    \/ \E f \in Events : Covers(f, e)
    \/ Hit(EntityOf[e])

LEMMA CoveredStep ==
  ASSUME DistinctItems, OwnerInv, CoveredInv, [Next]_vars
  PROVE  CoveredInv'
<1> USE DEF OwnerInv, Covers, Answered, answers
<1>1. ASSUME NEW e \in Events, Post(e) PROVE CoveredInv'
  <2>0. \A g \in Events : /\ Hit(EntityOf[g]) => Hit(EntityOf[g])'
                          /\ InFlight(g) => InFlight(g)'
    BY <1>1 DEF Post, Hit, InFlight
  <2>1. CASE syncList[ItemOf(e)] > 0
    <3>1. PICK f \in Events : Owner(f) /\ ItemOf(f) = ItemOf(e)
      BY <2>1, ItemOfEvent DEF ItemsHaveOwners
    <3>2. EntityOf[f] = EntityOf[e] /\ f # e
      BY <1>1, <3>1 DEF DistinctItems, Owner, Post
    <3>3. InFlight(f) \/ Hit(EntityOf[e])
      BY <3>1, <3>2 DEF Owner, InFlight, Hit
    <3>4. /\ event' = [event EXCEPT ![e] = "coalesced"]
          /\ UNCHANGED <<shown, overtaken, deleted>>
      BY <1>1, <2>1 DEF Post
    <3>5. event'[e] = "coalesced" /\ \A g \in Events : g # e => event'[g] = event[g]
      BY <3>4
    <3>6. (\E g \in Events : Covers(g, e)') \/ Hit(EntityOf[e])'
      BY <2>0, <3>2, <3>3, <3>5
    <3>7. \A g, h \in Events : h # e /\ Covers(g, h) => Covers(g, h)'
      BY <2>0, <3>5
    <3> QED
      BY <2>0, <3>4, <3>5, <3>6, <3>7 DEF CoveredInv
  <2>2. CASE ~(syncList[ItemOf(e)] > 0)
    <3>1. /\ event' = [event EXCEPT ![e] = "schedule"]
          /\ UNCHANGED <<shown, overtaken, deleted>>
      BY <1>1, <2>2 DEF Post
    <3>2. event[e] = "new" /\ InFlight(e)'
      BY <1>1, <3>1 DEF Post, InFlight
    <3> QED
      BY <2>0, <3>1, <3>2 DEF CoveredInv
  <2> QED
    BY <2>1, <2>2
<1>2. ASSUME NEW e \in Events, Schedule(e) PROVE CoveredInv'
  <2>1. \A g \in Events : /\ InFlight(g) <=> InFlight(g)'
                          /\ Hit(EntityOf[g]) => Hit(EntityOf[g])'
    BY <1>2 DEF Schedule, InFlight, Hit
  <2> QED
    BY <1>2, <2>1 DEF Schedule, CoveredInv
<1>3. ASSUME NEW e \in Events, Fire(e) PROVE CoveredInv'
  <2>1. syncList[ItemOf(e)] = 1
    BY <1>3, ItemOfEvent DEF Fire, Owner, ItemsHaveOwners
  <2>2. /\ event' = [event EXCEPT ![e] = "read"]
        /\ UNCHANGED <<shown, overtaken, deleted, missed>>
    BY <1>3, <2>1 DEF Fire
  <2>3. \A g \in Events : /\ InFlight(g) <=> InFlight(g)'
                          /\ Hit(EntityOf[g]) => Hit(EntityOf[g])'
    BY <1>3, <2>2 DEF Fire, InFlight, Hit
  <2> QED
    BY <1>3, <2>2, <2>3 DEF Fire, CoveredInv
<1>4. ASSUME NEW e \in Events, Read(e) PROVE CoveredInv'
  <2>1. event[e] = "read" /\ event' = [event EXCEPT ![e] = "done"]
    BY <1>4 DEF Read
  <2>2. /\ \A g \in Events : event'[g] = "new" <=> event[g] = "new"
        /\ \A g \in Events : event'[g] = "coalesced" <=> event[g] = "coalesced"
        /\ \A g \in Events : InFlight(g) => InFlight(g)' \/ g = e
    BY <2>1 DEF InFlight
  <2>3. CASE OpOf[e] = 3
    <3>1. /\ shown' = shown \cup {e} /\ UNCHANGED <<overtaken, missed>>
          /\ deleted' = deleted \cup {f \in Siblings(e) : event[f] = "coalesced"}
      BY <1>4, <2>3 DEF Read
    <3>2. \A g \in Events : Hit(EntityOf[g]) => Hit(EntityOf[g])'
      BY <2>1, <3>1 DEF Hit
    <3>3. \A g \in Events : Covers(e, g) => g \in Answered'
      BY <2>3, <3>1 DEF Siblings
    <3>4. \A f, g \in Events : Covers(f, g) /\ f # e => Covers(f, g)'
      BY <2>2
    <3>5. \A g \in Events : g \in Answered => g \in Answered'
      BY <3>1
    <3> QED
      BY <2>2, <3>2, <3>3, <3>4, <3>5 DEF CoveredInv
  <2>4. CASE OpOf[e] # 3
    <3>1. /\ shown' = shown \cup (Siblings(e) \cap committed)
          /\ overtaken' = overtaken \cup
               {f \in Siblings(e) \ committed : event[f] # "new"}
          /\ missed' = missed \ {EntityOf[e]}
          /\ UNCHANGED deleted
      BY <1>4, <2>4 DEF Read
    <3>2. \A g \in Events : event'[g] # "new" /\ EntityOf[g] = EntityOf[e] => g \in Answered'
      BY <2>2, <3>1 DEF Siblings
    <3>3. \A g \in Events : EntityOf[g] # EntityOf[e] /\ Hit(EntityOf[g])
                              => Hit(EntityOf[g])'
      BY <2>1, <3>1 DEF Hit
    <3>4. \A f, g \in Events : EntityOf[g] # EntityOf[e] /\ Covers(f, g) => Covers(f, g)'
      BY <2>2
    <3> QED
      BY <2>2, <3>1, <3>2, <3>3, <3>4 DEF CoveredInv
  <2> QED
    BY <2>3, <2>4
<1>5. ASSUME NEW e \in Events, ScheduleFails(e) \/ Skip(e) \/ ReadFails(e) PROVE CoveredInv'
  <2>1. PICK s \in {"failed", "done"} :
          /\ InFlight(e) /\ event' = [event EXCEPT ![e] = s]
          /\ UNCHANGED <<shown, overtaken, deleted>>
          /\ missed \subseteq missed'
          /\ s = "done" => EntityOf[e] \in missed'
    <3>1. CASE ScheduleFails(e)
      BY <3>1 DEF ScheduleFails, InFlight
    <3>2. CASE Skip(e) \/ ReadFails(e)
      BY <3>2 DEF Skip, ReadFails, Drop, InFlight
    <3> QED
      BY <1>5, <3>1, <3>2
  <2>2. /\ Hit(EntityOf[e])'
        /\ \A g \in Events : Hit(EntityOf[g]) => Hit(EntityOf[g])'
    BY <2>1 DEF Hit, InFlight
  <2>3. /\ \A g \in Events : event'[g] = "new" => event[g] = "new"
        /\ \A g \in Events : event[g] = "coalesced" => event'[g] = "coalesced"
        /\ \A g \in Events : InFlight(g) => InFlight(g)' \/ g = e
    BY <2>1 DEF InFlight
  <2> QED
    BY <2>1, <2>2, <2>3 DEF CoveredInv
<1>6. CASE Crash
  <2>1. \A g \in Events : /\ InFlight(g) => Hit(EntityOf[g])'
                          /\ Hit(EntityOf[g]) => Hit(EntityOf[g])'
    BY <1>6 DEF Crash, InFlight, Hit
  <2>2. /\ \A e \in Events : event[e] = "new" <=> event'[e] = "new"
        /\ UNCHANGED <<shown, overtaken, deleted>>
    BY <1>6 DEF Crash
  <2>3. \A g, e \in Events : Covers(g, e) => Hit(EntityOf[e])'
    BY <2>1
  <2> QED
    BY <2>1, <2>2, <2>3 DEF CoveredInv
<1>7. CASE UNCHANGED <<event, shown, overtaken, deleted, missed>>
  BY <1>7 DEF CoveredInv, InFlight, Hit
<1> QED
  BY <1>1, <1>2, <1>3, <1>4, <1>5, <1>6, <1>7
  DEF Next, Work, Fail, Commit, Configure, vars

\* Coalescing loses no change, for any number of events and entities and every
\* fault, if the strings of getSyncItem are distinct.  Each change is in the data
\* of a message, its transaction was open when one was built, or it was coalesced
\* and a Delete was told; else a timer of the entity was lost, or ended in
\* syncWebhook without a message, and no data of the entity was sent after that.
THEOREM NoUpdateIsLost ==
  ASSUME DistinctItems
  PROVE  Spec => []NoLostUpdate
<1>1. Init => CoveredInv
  BY DEF Init, CoveredInv
<1>2. OwnerInv /\ CoveredInv /\ [Next]_vars => CoveredInv'
  BY CoveredStep
<1>3. CoveredInv => NoLostUpdate
  BY DEF CoveredInv, Covers, NoLostUpdate, Quiet, InFlight
<1> QED
  BY <1>1, <1>2, <1>3, OwnerInvariant, PTL DEF Spec

-----------------------------------------------------------------------------
(* Every step is a step of WebhookChanges, or none.                         *)

HitSet == {x \in Entities : Hit(x)}

\* Only what was posted is committed or answered, and the map is short of a kind of
\* entity only where configurations change or go missing.
PostedInv ==
  /\ committed \cup Answered \subseteq Posted
  /\ enabled # Kinds => "config" \in Faults

\* What the mapping says of a change, case by case.
PhaseFact ==
  /\ Phase = [e \in Events |-> Phase[e]]
  /\ \A e \in Events :
       /\ event[e] = "new" => Phase[e] = "new"
       /\ event[e] # "new" /\ e \in shown => Phase[e] = "shown"
       /\ event[e] # "new" /\ e \in overtaken \ shown => Phase[e] = "overtaken"
       /\ event[e] # "new" /\ e \in deleted \ (shown \cup overtaken) => Phase[e] = "deleted"
       /\ event[e] # "new" /\ e \notin shown \cup overtaken \cup deleted =>
            /\ (\E f \in Events : Covers(f, e)) => Phase[e] = "pending"
            /\ ~(\E f \in Events : Covers(f, e)) => Phase[e] = "lost"

LEMMA PhaseCases == PhaseFact
<1> USE DEF Answered
<1>1. Phase = [e \in Events |-> Phase[e]]
  BY DEF Phase
<1>2. \A e \in Events : event[e] = "new" => Phase[e] = "new"
  BY DEF Phase, Posted
<1>3. \A e \in Events : event[e] # "new" /\ e \in shown => Phase[e] = "shown"
  BY DEF Phase, Posted
<1>4. \A e \in Events : event[e] # "new" /\ e \in overtaken \ shown => Phase[e] = "overtaken"
  BY DEF Phase, Posted
<1>5. \A e \in Events : event[e] # "new" /\ e \in deleted \ (shown \cup overtaken)
                          => Phase[e] = "deleted"
  BY DEF Phase, Posted
<1>6. ASSUME NEW e \in Events, event[e] # "new", e \notin shown \cup overtaken \cup deleted
      PROVE  /\ (\E f \in Events : Covers(f, e)) => Phase[e] = "pending"
             /\ ~(\E f \in Events : Covers(f, e)) => Phase[e] = "lost"
  BY <1>6 DEF Phase, Posted
<1> QED
  BY <1>1, <1>2, <1>3, <1>4, <1>5, <1>6 DEF PhaseFact

LEMMA PostedStep ==
  ASSUME OwnerInv, PostedInv, [Next]_vars
  PROVE  PostedInv'
<1> USE DEF OwnerInv, PostedInv, Posted, Answered, answers
<1>1. ASSUME NEW e \in Events, Read(e) PROVE PostedInv'
  BY <1>1 DEF Read, Siblings
<1>2. ASSUME NEW e \in Events, Post(e) PROVE PostedInv'
  BY <1>2 DEF Post
<1>3. ASSUME NEW e \in Events, Schedule(e) \/ ScheduleFails(e) \/ Fire(e) \/ Commit(e)
      PROVE  PostedInv'
  BY <1>3 DEF Schedule, ScheduleFails, Fire, Commit
<1>4. ASSUME NEW e \in Events, Skip(e) \/ ReadFails(e) PROVE PostedInv'
  BY <1>4 DEF Skip, ReadFails, Drop
<1>5. CASE Crash
  BY <1>5 DEF Crash
<1>6. CASE Configure
  BY <1>6 DEF Configure
<1>7. CASE UNCHANGED vars
  BY <1>7 DEF vars
<1> QED
  BY <1>1, <1>2, <1>3, <1>4, <1>5, <1>6, <1>7 DEF Next, Work, Fail

\* Steps that move no message and no fault.
LEMMA Stutters ==
  ASSUME UNCHANGED <<shown, overtaken, deleted, missed>>,
         \A f \in Events : /\ event[f] = "new" <=> event'[f] = "new"
                           /\ event[f] = "coalesced" <=> event'[f] = "coalesced"
                           /\ InFlight(f)' <=> InFlight(f)
                           /\ event[f] = "failed" <=> event'[f] = "failed"
  PROVE  Phase' = Phase /\ HitSet' = HitSet
<1>1. \A e, f \in Events : Covers(f, e)' <=> Covers(f, e)
  BY DEF Covers
<1>2. PhaseFact /\ PhaseFact'
  BY PhaseCases, PTL
<1>3. \A e \in Events : Phase'[e] = Phase[e]
  BY <1>1, <1>2 DEF PhaseFact
<1>4. Phase' = Phase
  BY <1>2, <1>3 DEF PhaseFact
<1>5. HitSet' = HitSet
  BY DEF HitSet, Hit
<1> QED
  BY <1>4, <1>5

LEMMA ChangesStep ==
  ASSUME DistinctItems, OwnerInv, PostedInv, [Next]_vars
  PROVE  Changes!Next \/ UNCHANGED <<Phase, committed, told, HitSet>>
<1> DEFINE goal == Changes!Next \/ UNCHANGED <<Phase, committed, told, HitSet>>
<1> USE DEF OwnerInv
<1>p. PhaseFact /\ PhaseFact'
  BY PhaseCases, PTL
<1>1. ASSUME NEW e \in Events, Post(e) PROVE goal
  <2>1. /\ event[e] = "new" /\ e \notin shown \cup overtaken \cup deleted
        /\ UNCHANGED <<committed, shown, overtaken, deleted, missed, told>>
    BY <1>1 DEF Post, PostedInv, Posted, Answered, answers
  <2>2. PICK s \in {"coalesced", "schedule"} : event' = [event EXCEPT ![e] = s]
    BY <1>1 DEF Post
  <2>3. /\ HitSet' = HitSet
        /\ Phase[e] = "new"
    BY <1>p, <2>1, <2>2 DEF HitSet, Hit, PhaseFact
  <2>4. CASE s = "schedule"
    <3> DEFINE back == {f \in Events : /\ EntityOf[f] = EntityOf[e] /\ Phase[f] = "lost"
                                       /\ OpOf[e] # 3 \/ event[f] = "coalesced"}
    <3>1. \A f, g \in Events :
            f # e => (Covers(g, f)' <=>
                        \/ Covers(g, f)
                        \/ g = e /\ EntityOf[f] = EntityOf[e]
                             /\ (OpOf[e] # 3 \/ event[f] = "coalesced"))
      BY <2>1, <2>2, <2>4 DEF Covers, InFlight
    <3>2. Phase'[e] = "pending"
      <4>1. Covers(e, e)'
        BY <2>1, <2>2, <2>4 DEF Covers, InFlight
      <4> QED
        BY <1>p, <2>1, <2>2, <2>4, <4>1 DEF PhaseFact
    <3>3. ASSUME NEW f \in Events, f # e
          PROVE  Phase'[f] = IF f \in back THEN "pending" ELSE Phase[f]
      BY <1>p, <2>1, <2>2, <2>4, <3>1, <3>3 DEF PhaseFact
    <3>4. Phase' = [f \in Events |-> IF f \in back \cup {e} THEN "pending" ELSE Phase[f]]
      BY <1>p, <3>2, <3>3 DEF PhaseFact
    <3>5. back \in SUBSET {f \in Events : EntityOf[f] = EntityOf[e] /\ Phase[f] = "lost"}
      OBVIOUS
    <3> HIDE DEF back
    <3>6. Changes!Post(e)
      BY <2>1, <2>3, <3>4, <3>5 DEF Changes!Post, HitSet
    <3> QED
      BY <3>6 DEF Changes!Next
  <2>5. CASE s = "coalesced"
    <3>1. syncList[ItemOf(e)] > 0
      BY <1>1, <2>1, <2>2, <2>5 DEF Post
    <3>2. PICK g \in Events : Owner(g) /\ ItemOf(g) = ItemOf(e)
      BY <3>1, ItemOfEvent DEF ItemsHaveOwners
    <3>3. EntityOf[g] = EntityOf[e] /\ g # e
      BY <2>1, <3>2 DEF DistinctItems, Owner
    <3>4. \A f, h \in Events : f # e => (Covers(h, f)' <=> Covers(h, f))
      BY <2>1, <2>2, <2>5 DEF Covers, InFlight
    <3>5. \A f \in Events : f # e => Phase'[f] = Phase[f]
      BY <1>p, <2>1, <2>2, <3>4 DEF PhaseFact
    <3>6. CASE \E h \in Events : Covers(h, e)'
      <4>1. Phase'[e] = "pending"
        BY <1>p, <2>1, <2>2, <3>6 DEF PhaseFact
      <4>2. Phase' = [f \in Events |-> IF f \in {} \cup {e} THEN "pending" ELSE Phase[f]]
        BY <1>p, <3>5, <4>1 DEF PhaseFact
      <4>3. Changes!Post(e)
        BY <2>1, <2>3, <4>2 DEF Changes!Post, HitSet
      <4> QED
        BY <4>3 DEF Changes!Next
    <3>7. CASE ~\E h \in Events : Covers(h, e)'
      <4>1. Phase'[e] = "lost"
        BY <1>p, <2>1, <2>2, <2>5, <3>7 DEF PhaseFact
      <4>2. event[g] = "failed"
        BY <2>2, <2>5, <3>2, <3>3, <3>7 DEF Owner, Covers, InFlight
      <4>3. EntityOf[e] \in HitSet
        BY <3>3, <4>2 DEF HitSet, Hit, Entities
      <4>4. Phase' = [Phase EXCEPT ![e] = "lost"]
        BY <1>p, <3>5, <4>1 DEF PhaseFact
      <4>5. Changes!Post(e)
        BY <2>1, <2>3, <4>3, <4>4 DEF Changes!Post, HitSet
      <4> QED
        BY <4>5 DEF Changes!Next
    <3> QED
      BY <3>6, <3>7
  <2> QED
    BY <2>2, <2>4, <2>5
<1>2. ASSUME NEW e \in Events, Commit(e) PROVE goal
  <2>1. /\ Phase' = Phase /\ HitSet' = HitSet
        /\ Phase[e] # "new"
        /\ committed' = committed \cup {e} /\ told' = told
    <3>1. UNCHANGED <<event, shown, overtaken, deleted, missed, told>> /\ event[e] # "new"
      BY <1>2 DEF Commit
    <3>2. Phase' = Phase /\ HitSet' = HitSet
      BY <3>1, Stutters DEF InFlight
    <3> QED
      BY <1>2, <1>p, <3>1, <3>2 DEF Commit, PhaseFact
  <2>2. Changes!Commit(e)
    BY <2>1 DEF Changes!Commit, HitSet
  <2> QED
    BY <2>2 DEF Changes!Next
<1>3. ASSUME NEW e \in Events, Schedule(e) \/ Fire(e) PROVE goal
  <2>1. PICK s \in {"timer", "read"} :
          event[e] \in {"schedule", "timer"} /\ event' = [event EXCEPT ![e] = s]
    <3>1. CASE Schedule(e)
      BY <3>1 DEF Schedule
    <3>2. CASE Fire(e)
      <4>1. syncList[ItemOf(e)] = 1
        BY <3>2, ItemOfEvent DEF Fire, Owner, ItemsHaveOwners
      <4> QED
        BY <3>2, <4>1 DEF Fire
    <3> QED
      BY <1>3, <3>1, <3>2
  <2>2. UNCHANGED <<committed, shown, overtaken, deleted, missed, told>>
    BY <1>3 DEF Schedule, Fire, answers
  <2>3. Phase' = Phase /\ HitSet' = HitSet
    BY <2>1, <2>2, Stutters DEF InFlight
  <2> QED
    BY <2>2, <2>3
<1>4. ASSUME NEW e \in Events, Read(e) PROVE goal
  <2>1. /\ event[e] = "read" /\ event' = [event EXCEPT ![e] = "done"]
        /\ committed' = committed
        /\ told' = told \cup {<<EntityOf[e], OpOf[e]>>}
        /\ Phase[e] # "new"
    BY <1>4, <1>p DEF Read, PhaseFact
  <2>2. \A f, g \in Events :
          Covers(g, f)' <=> Covers(g, f) /\ g # e
    BY <2>1 DEF Covers, InFlight
  <2>3. CASE OpOf[e] = 3
    <3> DEFINE others == {f \in Events : /\ EntityOf[f] = EntityOf[e]
                                         /\ Phase[f] \in {"pending", "lost"}
                                         /\ Phase'[f] = "deleted"}
    <3>1. /\ shown' = shown \cup {e} /\ UNCHANGED <<overtaken, missed>>
          /\ deleted' = deleted \cup {f \in Siblings(e) : event[f] = "coalesced"}
      BY <1>4, <2>3 DEF Read
    <3>2. HitSet' = HitSet
      BY <2>1, <3>1 DEF HitSet, Hit
    <3>3. ASSUME NEW f \in Events, f # e
          PROVE  Phase'[f] = IF f \in others THEN "deleted" ELSE Phase[f]
      <4>1. event'[f] = event[f]
        BY <2>1, <3>3
      <4>2. CASE f \in shown \cup overtaken \/ event[f] = "new"
        BY <1>p, <3>1, <3>3, <4>1, <4>2 DEF PhaseFact
      <4>3. CASE f \in deleted' /\ f \notin shown \cup overtaken /\ event[f] # "new"
        <5>1. Phase'[f] = "deleted"
          BY <1>p, <3>1, <3>3, <4>1, <4>3 DEF PhaseFact
        <5>2. \/ Phase[f] = "deleted"
              \/ Phase[f] \in {"pending", "lost"} /\ f \in Siblings(e)
          <6>1. CASE f \in deleted
            <7>1. event[f] # "new" /\ f \in deleted \ (shown \cup overtaken)
              BY <4>3, <6>1
            <7>2. Phase[f] = "deleted"
              BY <1>p, <7>1 DEF PhaseFact
            <7> QED
              BY <7>2
          <6>2. CASE f \notin deleted
            <7>1. f \in Siblings(e)
              BY <3>1, <4>3, <6>2
            <7>2. Phase[f] \in {"pending", "lost"}
              BY <1>p, <4>3, <6>2 DEF PhaseFact
            <7> QED
              BY <7>1, <7>2
          <6> QED
            BY <6>1, <6>2
        <5> QED
          BY <5>1, <5>2 DEF Siblings
      <4>4. CASE f \notin deleted' \cup shown \cup overtaken /\ event[f] # "new"
        <5>1. f \notin deleted /\ ~(EntityOf[f] = EntityOf[e] /\ event[f] = "coalesced")
          BY <3>1, <4>4 DEF Siblings
        <5>2. \A g \in Events : Covers(g, f)' <=> Covers(g, f)
          BY <2>2, <2>3, <3>3, <5>1 DEF Covers
        <5>3. Phase'[f] = Phase[f] /\ Phase[f] # "deleted"
          BY <1>p, <3>1, <3>3, <4>1, <4>4, <5>1, <5>2 DEF PhaseFact
        <5> QED
          BY <5>3
      <4> QED
        BY <3>1, <4>2, <4>3, <4>4
    <3>4. Phase'[e] = "shown"
      BY <1>p, <2>1, <3>1 DEF PhaseFact
    <3>5. Phase' = [f \in Events |-> IF f = e THEN "shown"
                                     ELSE IF f \in others THEN "deleted" ELSE Phase[f]]
      BY <1>p, <3>3, <3>4 DEF PhaseFact
    <3>6. others \in SUBSET {f \in Events : /\ EntityOf[f] = EntityOf[e]
                                            /\ Phase[f] \in {"pending", "lost"}}
      OBVIOUS
    <3> HIDE DEF others
    <3>7. Changes!TellDelete(e)
      BY <2>1, <2>3, <3>2, <3>5, <3>6 DEF Changes!TellDelete, HitSet
    <3> QED
      BY <3>7 DEF Changes!Next
  <2>4. CASE OpOf[e] # 3
    <3>1. /\ shown' = shown \cup (Siblings(e) \cap committed)
          /\ overtaken' = overtaken \cup
               {f \in Siblings(e) \ committed : event[f] # "new"}
          /\ missed' = missed \ {EntityOf[e]} /\ deleted' = deleted
      BY <1>4, <2>4 DEF Read
    <3>2. ASSUME NEW f \in Events, EntityOf[f] # EntityOf[e] PROVE Phase'[f] = Phase[f]
      <4>1. \A g \in Events : Covers(g, f)' <=> Covers(g, f)
        BY <2>2, <3>2 DEF Covers
      <4>2. /\ f \in shown' <=> f \in shown
            /\ f \in overtaken' <=> f \in overtaken
            /\ event'[f] = event[f]
        BY <2>1, <3>1, <3>2 DEF Siblings
      <4> QED
        BY <1>p, <3>1, <4>1, <4>2 DEF PhaseFact
    <3>3. ASSUME NEW f \in Events, EntityOf[f] = EntityOf[e], Phase[f] \in {"new", "shown"}
          PROVE  Phase'[f] = Phase[f]
      <4>1. CASE event[f] = "new"
        BY <1>p, <2>1, <4>1 DEF PhaseFact
      <4>2. CASE event[f] # "new"
        <5>1. f \in shown
          BY <1>p, <3>3, <4>2 DEF PhaseFact
        <5> QED
          BY <1>p, <2>1, <3>1, <4>2, <5>1 DEF PhaseFact
      <4> QED
        BY <4>1, <4>2
    <3>4. ASSUME NEW f \in Events, EntityOf[f] = EntityOf[e], Phase[f] \notin {"new", "shown"}
          PROVE  Phase'[f] = IF f \in committed THEN "shown" ELSE "overtaken"
      <4>1. event[f] # "new" /\ event'[f] # "new" /\ f \notin shown /\ f \in Siblings(e)
        BY <1>p, <2>1, <3>4 DEF PhaseFact, Siblings
      <4> QED
        BY <1>p, <3>1, <4>1 DEF PhaseFact
    <3>5. Phase' = [f \in Events |->
            IF EntityOf[f] # EntityOf[e] \/ Phase[f] \in {"new", "shown"} THEN Phase[f]
            ELSE IF f \in committed THEN "shown" ELSE "overtaken"]
      BY <1>p, <3>2, <3>3, <3>4 DEF PhaseFact
    <3>6. \E well \in SUBSET {EntityOf[e]} : HitSet' = HitSet \ well
      <4>1. \A x \in Entities : x # EntityOf[e] => (Hit(x)' <=> Hit(x))
        BY <2>1, <3>1 DEF Hit
      <4>2. Hit(EntityOf[e])' => Hit(EntityOf[e])
        BY <2>1, <3>1 DEF Hit
      <4>3. CASE Hit(EntityOf[e])'
        <5>1. HitSet' = HitSet \ {}
          BY <4>1, <4>2, <4>3 DEF HitSet
        <5> QED
          BY <5>1
      <4>4. CASE ~Hit(EntityOf[e])'
        <5>1. HitSet' = HitSet \ {EntityOf[e]}
          BY <4>1, <4>4 DEF HitSet
        <5> QED
          BY <5>1
      <4> QED
        BY <4>3, <4>4
    <3>7. Changes!Tell(e)
      BY <2>1, <2>4, <3>5, <3>6 DEF Changes!Tell, HitSet
    <3> QED
      BY <3>7 DEF Changes!Next
  <2> QED
    BY <2>3, <2>4
<1>5. ASSUME Crash \/ \E e \in Events : ScheduleFails(e) \/ Skip(e) \/ ReadFails(e) PROVE goal
  <2> DEFINE gone == {f \in Events : Phase[f] = "pending" /\ Phase'[f] = "lost"}
  <2>1. UNCHANGED <<committed, shown, overtaken, deleted, told>>
    BY <1>5 DEF Crash, ScheduleFails, Skip, ReadFails, Drop, answers
  <2>2. Faults # {}
    <3>1. ASSUME NEW e \in Events, Skip(e) PROVE Faults # {}
      <4>1. Kind(EntityOf[e]) \in Kinds
        BY DEF Kinds, Entities
      <4> QED
        BY <3>1, <4>1 DEF Skip, PostedInv
    <3> QED
      BY <1>5, <3>1 DEF Crash, ScheduleFails, ReadFails
  <2>3. \A f \in Events : /\ event'[f] = "new" <=> event[f] = "new"
                          /\ event'[f] = "coalesced" <=> event[f] = "coalesced"
                          /\ InFlight(f)' => InFlight(f)
                          /\ InFlight(f) => InFlight(f)' \/ Hit(EntityOf[f])'
                          /\ Hit(EntityOf[f]) => Hit(EntityOf[f])'
    <3>1. CASE Crash
      BY <3>1 DEF Crash, InFlight, Hit
    <3>2. ASSUME NEW e \in Events, ScheduleFails(e)
          PROVE  \A f \in Events : /\ event'[f] = "new" <=> event[f] = "new"
                                   /\ event'[f] = "coalesced" <=> event[f] = "coalesced"
                                   /\ InFlight(f)' => InFlight(f)
                                   /\ InFlight(f) => InFlight(f)' \/ Hit(EntityOf[f])'
                                   /\ Hit(EntityOf[f]) => Hit(EntityOf[f])'
      BY <3>2 DEF ScheduleFails, InFlight, Hit, answers
    <3>3. ASSUME NEW e \in Events, Skip(e) \/ ReadFails(e)
          PROVE  \A f \in Events : /\ event'[f] = "new" <=> event[f] = "new"
                                   /\ event'[f] = "coalesced" <=> event[f] = "coalesced"
                                   /\ InFlight(f)' => InFlight(f)
                                   /\ InFlight(f) => InFlight(f)' \/ Hit(EntityOf[f])'
                                   /\ Hit(EntityOf[f]) => Hit(EntityOf[f])'
      BY <3>3 DEF Skip, ReadFails, Drop, InFlight, Hit
    <3> QED
      BY <1>5, <3>1, <3>2, <3>3
  <2>4. HitSet \subseteq HitSet' /\ HitSet' \subseteq Entities
    <3>1. \A x \in Entities : \E f \in Events : x = EntityOf[f]
      BY DEF Entities
    <3> QED
      BY <2>3, <3>1 DEF HitSet
  <2>5. \A f, g \in Events : Covers(g, f) => Covers(g, f)' \/ EntityOf[f] \in HitSet'
    BY <2>3 DEF Covers, HitSet, Entities
  <2>6. \A f, g \in Events : Covers(g, f)' => Covers(g, f)
    BY <2>3 DEF Covers
  <2>7. \A f \in Events : Phase'[f] = Phase[f] \/ f \in gone
    BY <1>p, <2>1, <2>3, <2>6 DEF PhaseFact
  <2>8. \A f \in gone : EntityOf[f] \in HitSet'
    <3> SUFFICES ASSUME NEW f \in gone PROVE EntityOf[f] \in HitSet'
      OBVIOUS
    <3>1. PICK g \in Events : Covers(g, f)
      BY <1>p DEF PhaseFact
    <3>2. ~Covers(g, f)'
      BY <1>p DEF PhaseFact
    <3> QED
      BY <2>5, <3>1, <3>2
  <2>9. Phase' = [f \in Events |-> IF f \in gone THEN "lost" ELSE Phase[f]]
    BY <1>p, <2>7 DEF PhaseFact
  <2>10. gone \in SUBSET {f \in Events : /\ Phase[f] = "pending"
                                         /\ EntityOf[f] \in HitSet \cup HitSet'}
    BY <2>8
  <2>11. HitSet' \in SUBSET {EntityOf[e] : e \in Events} /\ HitSet' = HitSet \cup HitSet'
    BY <2>4 DEF Entities
  <2> HIDE DEF gone
  <2>12. Changes!Fault
    BY <2>1, <2>2, <2>9, <2>10, <2>11 DEF Changes!Fault, HitSet
  <2> QED
    BY <2>12 DEF Changes!Next
<1>6. ASSUME Configure \/ UNCHANGED vars PROVE goal
  <2>1. UNCHANGED <<event, committed, shown, overtaken, deleted, missed, told>>
    BY <1>6 DEF Configure, vars, answers
  <2>2. Phase' = Phase /\ HitSet' = HitSet
    BY <2>1, Stutters DEF InFlight
  <2> QED
    BY <2>1, <2>2
<1> QED
  BY <1>1, <1>2, <1>3, <1>4, <1>5, <1>6 DEF Next, Work, Fail

\* For any events, entities and faults, if the strings of getSyncItem are distinct:
\* the list, the timers and canExecute drop a change only where a fault hit its
\* entity - a crash, no thread, no entry of the map or a failed data query - and a
\* message with data answers for all changes posted before it.
THEOREM ChangesIsImplemented ==
  ASSUME DistinctItems
  PROVE  Spec => ImplementsChanges
<1>1. Init => PostedInv
  BY DEF Init, PostedInv, Answered
<1>2. OwnerInv /\ PostedInv /\ [Next]_vars => PostedInv'
  BY PostedStep
<1>3. Init => Changes!Init
  <2> SUFFICES ASSUME Init PROVE Changes!Init
    OBVIOUS
  <2>1. Phase = [e \in Events |-> "new"]
    BY PhaseCases DEF Init, PhaseFact
  <2>2. \A x \in Entities : ~Hit(x)
    BY DEF Init, Hit
  <2> QED
    BY <2>1, <2>2 DEF Init, Changes!Init
<1>4. OwnerInv /\ PostedInv /\ [Next]_vars => [Changes!Next]_(Changes!vars)
  <2> SUFFICES ASSUME OwnerInv, PostedInv, [Next]_vars PROVE [Changes!Next]_(Changes!vars)
    OBVIOUS
  <2>1. Changes!Next \/ UNCHANGED <<Phase, committed, told, HitSet>>
    BY ChangesStep
  <2> QED
    BY <2>1 DEF Changes!vars, HitSet
<1> QED
  BY <1>1, <1>2, <1>3, <1>4, OwnerInvariant, PTL
  DEF Spec, ImplementsChanges, Changes!Spec

=============================================================================
