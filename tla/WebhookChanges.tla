----------------------------- MODULE WebhookChanges -----------------------------
(***************************************************************************)
(* What WebhookService promises about the changes posted to it, without    *)
(* lists, timers and threads.  A change is pending until a message of its  *)
(* entity is built.  One message answers for every change of the entity    *)
(* posted so far: it shows those that are committed and overtakes the      *)
(* others.  The message of a Delete carries no data: it answers for the    *)
(* Delete, and of the other changes for those it took the place of.  A     *)
(* change gets lost only while its entity is hit by a fault; a later       *)
(* change may bring it back, and the next message with data shows it.      *)
(***************************************************************************)
CONSTANTS
  Changes,
  EntityOf,  \* the entity of each change
  OpOf,      \* 1, 2 or 3 (Delete)
  Lossy      \* whether anything fails

VARIABLES
  phase,     \* new, pending, shown, overtaken, deleted or lost
  committed, \* changes whose transaction is committed
  told,      \* entity and operation of each message
  hit        \* entities a fault has hit since their data was told

vars == <<phase, committed, told, hit>>

Init ==
  /\ phase = [e \in Changes |-> "new"]
  /\ committed = {}
  /\ told = {}
  /\ hit = {}

\* Lost changes of the entity that the new one brings back, or the new one is lost
\* where an earlier one was.
Post(e) ==
  /\ phase[e] = "new"
  /\ \/ \E back \in SUBSET {f \in Changes : EntityOf[f] = EntityOf[e] /\ phase[f] = "lost"} :
          phase' = [f \in Changes |-> IF f \in back \cup {e} THEN "pending" ELSE phase[f]]
     \/ /\ EntityOf[e] \in hit
        /\ phase' = [phase EXCEPT ![e] = "lost"]
  /\ UNCHANGED <<committed, told, hit>>

Commit(e) ==
  /\ phase[e] # "new"
  /\ committed' = committed \cup {e}
  /\ UNCHANGED <<phase, told, hit>>

\* The message change e started, of everything there is to tell of its entity.  The
\* entity may be hit once more by then.
Tell(e) ==
  /\ phase[e] # "new" /\ OpOf[e] # 3
  /\ phase' = [f \in Changes |->
       IF EntityOf[f] # EntityOf[e] \/ phase[f] \in {"new", "shown"} THEN phase[f]
       ELSE IF f \in committed THEN "shown" ELSE "overtaken"]
  /\ told' = told \cup {<<EntityOf[e], OpOf[e]>>}
  /\ \E well \in SUBSET {EntityOf[e]} : hit' = hit \ well
  /\ UNCHANGED committed

\* The message of a Delete, in the place of some other changes of the entity.
TellDelete(e) ==
  /\ phase[e] # "new" /\ OpOf[e] = 3
  /\ \E others \in SUBSET {f \in Changes : /\ EntityOf[f] = EntityOf[e]
                                            /\ phase[f] \in {"pending", "lost"}} :
       phase' = [f \in Changes |-> IF f = e THEN "shown"
                                  ELSE IF f \in others THEN "deleted" ELSE phase[f]]
  /\ told' = told \cup {<<EntityOf[e], 3>>}
  /\ UNCHANGED <<committed, hit>>

\* A fault hits entities and takes some of what was pending of them.
Fault ==
  /\ Lossy
  /\ \E X \in SUBSET {EntityOf[e] : e \in Changes} :
       /\ hit' = hit \cup X
       /\ \E gone \in SUBSET {e \in Changes : phase[e] = "pending" /\ EntityOf[e] \in hit \cup X} :
            phase' = [e \in Changes |-> IF e \in gone THEN "lost" ELSE phase[e]]
  /\ UNCHANGED <<committed, told>>

Next ==
  \/ \E e \in Changes : Post(e) \/ Commit(e) \/ Tell(e) \/ TellDelete(e)
  \/ Fault

Spec == Init /\ [][Next]_vars

=============================================================================
