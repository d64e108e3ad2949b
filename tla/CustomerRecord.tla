----------------------------- MODULE CustomerRecord -----------------------------
(***************************************************************************)
(* The owners and the addresses of a company (UpdateCompanyDao) or of a    *)
(* contact (ContactDao), and the requests updateCompany and updateContact  *)
(* that change them.  A request reads the rows, works through its list one *)
(* item at a time, checks that there is one primary owner at most, or one  *)
(* default address, and writes, all in one transaction.  Nothing locks the *)
(* rows it has read.                                                       *)
(*                                                                         *)
(* The statements of a request take effect at its commit: until then no    *)
(* other request sees them, and Oracle's row locks make two requests that  *)
(* write the same row take effect in the order of their commits.  A        *)
(* request that brings owners and addresses treats them one after the      *)
(* other; they share no table, and a request here brings one of them.      *)
(***************************************************************************)
EXTENDS Integers, FiniteSets

CONSTANTS
  Requests,  \* calls of updateCompany, or of updateContact
  Owners,    \* recruiters of the team
  Ids,       \* 1..n: numbers of addresses (bound)
  MaxItems   \* items in the list of each request (bound)

ASSUME RecordAssumption ==
  /\ IsFiniteSet(Owners)
  /\ Ids \subseteq Nat \ {0}
  /\ MaxItems \in [Requests -> Nat]

\* A row of the owners: none, an owner, the primary owner.
OwnerRows == {"none", "other", "primary"}

\* A row of the addresses: none, marked deleted (of a contact only), an address that
\* is not the default one, the default one, and the default one without data.
AddressRows == {"none", "deleted", "plain", "default", "blank"}

Live == {"plain", "default", "blank"}

Defaults == {"default", "blank"}

Places == {"new", "owners", "addresses", "done", "refused"}

Running == {"owners", "addresses"}

VARIABLES
  kind,          \* whether the record is a "company" or a "contact"
  owner,         \* TCUSTOMER_COMPANY_OWNERS or TCUSTOMER_OWNERS of the record
  addr,          \* TCUSTOMERCOMPANYADDRESSES or TCUSTOMERADDRESS of the record
  at,            \* where each request is
  left,          \* items a request may still bring
  all,           \* the owners as a request read and changed them
  numOfprimary,  \* its count of the primary owners
  update,        \* the owners it will write
  fresh,         \* those of its owners it did not read (insertMode)
  gone,          \* the owners it has deleted
  old,           \* the addresses a request read
  pairs,         \* its table of the default flags
  maxAddId_tmp,  \* the last number in pairs
  maxAddressId,  \* the last number it gave to an address
  mine,          \* the addresses it has written
  inserted,      \* those that are new rows
  erased,        \* the rows it has deleted
  clean,         \* no other request has committed since it read the rows (history)
  honest,        \* it flagged primary no owner to remove that is none (history)
  word           \* the last thing its items say about an owner (history)

ownerVars == <<all, numOfprimary, update, fresh, gone, honest, word>>

addressVars == <<old, pairs, maxAddId_tmp, maxAddressId, mine, inserted, erased>>

tables == <<kind, owner, addr>>

vars == <<tables, at, left, ownerVars, addressVars, clean>>

Primaries(rows) == {o \in Owners : rows[o] = "primary"}

LiveIds == {i \in Ids : addr[i] \in Live}

\* createCompany stores the owners with the flags it is given and the address 1 as
\* the default one; createContact stores both with the flags it is given.
Init ==
  /\ kind \in {"company", "contact"}
  /\ owner \in [Owners -> OwnerRows]
  /\ \E n \in Ids :
       addr \in [Ids -> Live \cup {"none"}] /\ \A i \in Ids : addr[i] = "none" <=> i > n
  /\ kind = "company" => LiveIds = {1} /\ addr[1] # "plain"
  /\ at = [q \in Requests |-> "new"]
  /\ left = MaxItems
  /\ clean = [q \in Requests |-> TRUE]
  /\ all = [q \in Requests |-> [o \in Owners |-> "none"]]
  /\ numOfprimary = [q \in Requests |-> 0]
  /\ update = [q \in Requests |-> {}]
  /\ fresh = [q \in Requests |-> {}]
  /\ gone = [q \in Requests |-> {}]
  /\ old = [q \in Requests |-> {}]
  /\ pairs = [q \in Requests |-> [i \in Ids |-> "none"]]
  /\ maxAddId_tmp = [q \in Requests |-> 0]
  /\ maxAddressId = [q \in Requests |-> 0]
  /\ mine = [q \in Requests |-> [i \in Ids |-> "untouched"]]
  /\ inserted = [q \in Requests |-> {}]
  /\ erased = [q \in Requests |-> {}]
  /\ honest = [q \in Requests |-> TRUE]
  /\ word = [q \in Requests |-> [o \in Owners |-> "untouched"]]

Goto(q, place) == at' = [at EXCEPT ![q] = place]

\* The call returns or throws, and its local variables are gone.
Forget(q) ==
  /\ all' = [all EXCEPT ![q] = [o \in Owners |-> "none"]]
  /\ numOfprimary' = [numOfprimary EXCEPT ![q] = 0]
  /\ update' = [update EXCEPT ![q] = {}]
  /\ fresh' = [fresh EXCEPT ![q] = {}]
  /\ gone' = [gone EXCEPT ![q] = {}]
  /\ old' = [old EXCEPT ![q] = {}]
  /\ pairs' = [pairs EXCEPT ![q] = [i \in Ids |-> "none"]]
  /\ maxAddId_tmp' = [maxAddId_tmp EXCEPT ![q] = 0]
  /\ maxAddressId' = [maxAddressId EXCEPT ![q] = 0]
  /\ mine' = [mine EXCEPT ![q] = [i \in Ids |-> "untouched"]]
  /\ inserted' = [inserted EXCEPT ![q] = {}]
  /\ erased' = [erased EXCEPT ![q] = {}]
  /\ honest' = [honest EXCEPT ![q] = TRUE]
  /\ word' = [word EXCEPT ![q] = [o \in Owners |-> "untouched"]]
  /\ left' = [left EXCEPT ![q] = 0]

(***************************************************************************)
(* Owners.                                                                 *)
(***************************************************************************)

\* SELECT of the owners; numOfprimary counts the primary ones.
ReadOwners(q) ==
  /\ at[q] = "new"
  /\ all' = [all EXCEPT ![q] = owner]
  /\ numOfprimary' = [numOfprimary EXCEPT ![q] = Cardinality(Primaries(owner))]
  /\ clean' = [clean EXCEPT ![q] = TRUE]
  /\ Goto(q, "owners")
  /\ UNCHANGED <<tables, left, update, fresh, gone, honest, word, addressVars>>

\* The next item of the list is about owner o.
OwnerItem(q, o, said) ==
  /\ at[q] = "owners"
  /\ left[q] > 0
  /\ left' = [left EXCEPT ![q] = @ - 1]
  /\ all' = [all EXCEPT ![q][o] = said]
  /\ word' = [word EXCEPT ![q][o] = said]
  /\ UNCHANGED <<tables, at, addressVars, clean>>

\* Action 2: DELETE of an owner that is there; the flag the item carries, and not
\* the row, decides whether one primary owner less is counted.
RemoveOwner(q, o, primary) ==
  /\ OwnerItem(q, o, "none")
  /\ gone' = [gone EXCEPT ![q] = @ \cup {p \in {o} : all[q][p] # "none"}]
  /\ update' = [update EXCEPT ![q] = @ \ {o}]
  /\ fresh' = [fresh EXCEPT ![q] = @ \ {o}]
  /\ numOfprimary' = [numOfprimary EXCEPT ![q] = IF primary THEN @ - 1 ELSE @]
  /\ honest' = [honest EXCEPT ![q] = @ /\ (primary => all[q][o] = "primary")]

\* Mutants: a primary owner is not counted; a new owner is not marked as new.
PutUncounted(q, o, primary) ==
  /\ OwnerItem(q, o, IF primary THEN "primary" ELSE "other")
  /\ update' = [update EXCEPT ![q] = @ \cup {o}]
  /\ fresh' = [fresh EXCEPT ![q] = @ \cup {p \in {o} : all[q][p] = "none"}]
  /\ UNCHANGED <<gone, numOfprimary, honest>>

PutAsRead(q, o, primary) ==
  /\ OwnerItem(q, o, IF primary THEN "primary" ELSE "other")
  /\ update' = [update EXCEPT ![q] = @ \cup {o}]
  /\ numOfprimary' = [numOfprimary EXCEPT ![q] = IF primary THEN @ + 1 ELSE @]
  /\ UNCHANGED <<fresh, gone, honest>>

\* Any other action adds the owner or changes its flag; a primary one is counted
\* again even if it is the primary owner already.
PutOwner(q, o, primary) ==
  /\ OwnerItem(q, o, IF primary THEN "primary" ELSE "other")
  /\ update' = [update EXCEPT ![q] = @ \cup {o}]
  /\ fresh' = [fresh EXCEPT ![q] = @ \cup {p \in {o} : all[q][p] = "none"}]
  /\ numOfprimary' = [numOfprimary EXCEPT ![q] = IF primary THEN @ + 1 ELSE @]
  /\ UNCHANGED <<gone, honest>>

\* The row of an owner once the statements of q have run: a company's owner that was
\* read is written by an UPDATE, which finds nothing if the row is gone by now; a
\* contact's owner is inserted when its UPDATE finds nothing.
OwnerAfter(q, o) ==
  IF o \in update[q]
  THEN IF kind = "company" /\ o \notin fresh[q] /\ (owner[o] = "none" \/ o \in gone[q])
       THEN "none" ELSE all[q][o]
  ELSE IF o \in gone[q] THEN "none" ELSE owner[o]

\* A company's new owner is inserted: the row must not be there.
OwnersFit(q) ==
  kind = "company" => \A o \in fresh[q] \ gone[q] : owner[o] = "none"

Committed(q) ==
  /\ Goto(q, "done")
  /\ clean' = [p \in Requests |-> FALSE]
  /\ Forget(q)
  /\ kind' = kind

\* No more than one primary owner counted: the owners are written.
CommitOwners(q) ==
  /\ at[q] = "owners"
  /\ numOfprimary[q] =< 1
  /\ OwnersFit(q)
  /\ owner' = [o \in Owners |-> OwnerAfter(q, o)]
  /\ addr' = addr
  /\ Committed(q)

(***************************************************************************)
(* Addresses.                                                              *)
(***************************************************************************)

\* The only address of the record, if it is the default one and has no data.
Blank == {i \in LiveIds : LiveIds = {i} /\ addr[i] = "blank"}

FlagOf(row) == IF row \in Defaults THEN "default" ELSE "plain"

\* SELECT of the addresses that are not marked deleted; a single one without data is
\* deleted first.
ReadAddresses(q) ==
  /\ at[q] = "new"
  /\ LET read == LiveIds \ Blank IN
       /\ old' = [old EXCEPT ![q] = read]
       /\ pairs' = [pairs EXCEPT ![q] =
                      [i \in Ids |-> IF i \in read THEN FlagOf(addr[i]) ELSE "none"]]
       /\ \E m \in read \cup {0} :
            /\ \A i \in read : i =< m
            /\ maxAddId_tmp' = [maxAddId_tmp EXCEPT ![q] = m]
            /\ maxAddressId' = [maxAddressId EXCEPT ![q] = m]
  /\ erased' = [erased EXCEPT ![q] = Blank]
  /\ mine' = [mine EXCEPT ![q] = [i \in Ids |-> IF i \in Blank THEN "none" ELSE "untouched"]]
  /\ clean' = [clean EXCEPT ![q] = TRUE]
  /\ Goto(q, "addresses")
  /\ UNCHANGED <<tables, left, ownerVars, inserted>>

\* The row of an address as the transaction of q sees it.
Seen(q, i) == IF mine[q][i] = "untouched" THEN addr[i] ELSE mine[q][i]

AddressItem(q) ==
  /\ at[q] = "addresses"
  /\ left[q] > 0
  /\ left' = [left EXCEPT ![q] = @ - 1]
  /\ UNCHANGED <<tables, at, ownerVars, clean, old>>

\* What a row with a flag may be.  A default address may have no data; that of a plain
\* one is not kept, so whether it has data when it becomes the default one is open.
Written(flag) == IF flag = "default" THEN Defaults ELSE {"plain"}

Write(q, i, row) == mine' = [mine EXCEPT ![q][i] = row]

Flag(q, i, flag) == pairs' = [pairs EXCEPT ![q][i] = flag]

InsertRow(q, i) ==
  /\ Seen(q, i) = "none"
  /\ inserted' = [inserted EXCEPT ![q] = @ \cup {i}]

\* Action 1 of a contact without an id: the next number, in pairs and in the table.
\* The row must not be there: a deleted address may have that number.
AddContactAddress(q, flag) ==
  /\ kind = "contact"
  /\ AddressItem(q)
  /\ LET i == maxAddressId[q] + 1 IN
       /\ i \in Ids
       /\ Flag(q, i, flag)
       /\ InsertRow(q, i)
       /\ \E row \in Written(flag) : Write(q, i, row)
       /\ maxAddId_tmp' = [maxAddId_tmp EXCEPT ![q] = i]
       /\ maxAddressId' = [maxAddressId EXCEPT ![q] = i]
  /\ UNCHANGED erased

\* Action 1 of a contact with an id: the address is changed, brought back if it is
\* marked deleted, inserted if there is none.
PutContactAddress(q, i, flag) ==
  /\ kind = "contact"
  /\ AddressItem(q)
  /\ Flag(q, i, flag)
  /\ IF Seen(q, i) = "none" THEN InsertRow(q, i) ELSE UNCHANGED inserted
  /\ \E row \in Written(flag) : Write(q, i, row)
  /\ UNCHANGED <<maxAddId_tmp, maxAddressId, erased>>

\* Mutant: the deleted address stays in the table of flags.
DeleteUnflagged(q, i) ==
  /\ kind = "contact"
  /\ AddressItem(q)
  /\ Seen(q, i) # "none"
  /\ Write(q, i, "deleted")
  /\ UNCHANGED <<pairs, maxAddId_tmp, maxAddressId, inserted, erased>>

\* Action 2 of a contact marks the address deleted; it must be there.
DeleteContactAddress(q, i) ==
  /\ kind = "contact"
  /\ AddressItem(q)
  /\ Seen(q, i) # "none"
  /\ Flag(q, i, "none")
  /\ Write(q, i, "deleted")
  /\ UNCHANGED <<maxAddId_tmp, maxAddressId, inserted, erased>>

\* What an item with action 1 does to the flags of a company: without the default
\* flag it counts as a new address, with it as the one it names, if it names one.
CompanyFlags(q, named, flag) ==
  IF flag = "plain"
  THEN /\ maxAddId_tmp[q] + 1 \in Ids
       /\ maxAddId_tmp' = [maxAddId_tmp EXCEPT ![q] = @ + 1]
       /\ Flag(q, maxAddId_tmp[q] + 1, "plain")
  ELSE /\ IF named = {} THEN pairs' = pairs ELSE \E i \in named : Flag(q, i, "default")
       /\ UNCHANGED maxAddId_tmp

\* Action 1 of a company, named the id or none: an address that was read is changed,
\* any other is inserted under the next number.  Neither writes the default flag.
PutCompanyAddress(q, named, flag) ==
  /\ kind = "company"
  /\ AddressItem(q)
  /\ CompanyFlags(q, named, flag)
  /\ \/ /\ named \cap old[q] = {}
        /\ LET i == maxAddressId[q] + 1 IN
             i \in Ids /\ InsertRow(q, i) /\ Write(q, i, "plain")
        /\ maxAddressId' = [maxAddressId EXCEPT ![q] = @ + 1]
     \/ /\ \E i \in named \cap old[q] :
             IF Seen(q, i) = "blank" THEN \E row \in Defaults : Write(q, i, row)
                                     ELSE mine' = mine
        /\ UNCHANGED <<maxAddressId, inserted>>
  /\ UNCHANGED erased

\* Action 2 of a company deletes an address that was read, if the item brings the id
\* of the team, and nothing if it does not.
DeleteCompanyAddress(q, i, withTeam) ==
  /\ kind = "company"
  /\ AddressItem(q)
  /\ i \in old[q]
  /\ Flag(q, i, "none")
  /\ IF withTeam
     THEN Write(q, i, "none") /\ erased' = [erased EXCEPT ![q] = @ \cup {i}]
     ELSE UNCHANGED <<mine, erased>>
  /\ UNCHANGED <<maxAddId_tmp, maxAddressId, inserted>>

\* The statements of q leave a row as it is: there are none, or the row is gone by
\* now, or they are an UPDATE of a company's address, which keeps the flag.
LeavesAddress(q, i) ==
  \/ mine[q][i] = "untouched"
  \/ i \notin inserted[q] /\ addr[i] = "none"
  \/ i \notin inserted[q] /\ kind = "company" /\ addr[i] # "blank" /\ mine[q][i] # "none"

\* Mutant: the rows a request has not written are lost.
OnlyWhatWasWritten(q, i) == mine[q][i]

\* The row of an address once the statements of q have run.
AddressAfter(q, i) == IF LeavesAddress(q, i) THEN addr[i] ELSE mine[q][i]

\* No other request has inserted a row q has inserted.
AddressesFit(q) == \A i \in inserted[q] \ erased[q] : addr[i] = "none"

\* One and only one default address among the flags: the addresses are written.
CommitAddresses(q) ==
  /\ at[q] = "addresses"
  /\ \E i \in Ids : \A j \in Ids : pairs[q][j] = "default" <=> j = i
  /\ AddressesFit(q)
  /\ addr' = [i \in Ids |-> AddressAfter(q, i)]
  /\ owner' = owner
  /\ Committed(q)

(***************************************************************************)
(* A check or a statement fails, or two rows have the same number: the     *)
(* transaction is rolled back.                                             *)
(***************************************************************************)
Refuse(q) ==
  /\ at[q] \in Running
  /\ Goto(q, "refused")
  /\ Forget(q)
  /\ UNCHANGED <<tables, clean>>

Items(q) ==
  \/ \E o \in Owners, primary \in BOOLEAN : RemoveOwner(q, o, primary) \/ PutOwner(q, o, primary)
  \/ \E flag \in {"plain", "default"} :
       \/ AddContactAddress(q, flag)
       \/ \E i \in Ids : PutContactAddress(q, i, flag)
       \/ \E named \in {{}} \cup {{i} : i \in Ids} : PutCompanyAddress(q, named, flag)
  \/ \E i \in Ids : DeleteContactAddress(q, i)
  \/ \E i \in Ids, withTeam \in BOOLEAN : DeleteCompanyAddress(q, i, withTeam)

Step(q) ==
  \/ ReadOwners(q)
  \/ ReadAddresses(q)
  \/ Items(q)
  \/ CommitOwners(q)
  \/ CommitAddresses(q)
  \/ Refuse(q)

Next == \E q \in Requests : Step(q)

Spec == Init /\ [][Next]_vars

-----------------------------------------------------------------------------
(* Properties *)

\* Every variable has its type: the rows of the record and what the requests know.
TypeOK ==
  /\ kind \in {"company", "contact"}
  /\ owner \in [Owners -> OwnerRows]
  /\ addr \in [Ids -> AddressRows]
  /\ at \in [Requests -> Places]
  /\ left \in [Requests -> Nat]
  /\ all \in [Requests -> [Owners -> OwnerRows]]
  /\ numOfprimary \in [Requests -> Int]
  /\ update \in [Requests -> SUBSET Owners]
  /\ fresh \in [Requests -> SUBSET Owners]
  /\ gone \in [Requests -> SUBSET Owners]
  /\ old \in [Requests -> SUBSET Ids]
  /\ pairs \in [Requests -> [Ids -> {"none", "plain", "default"}]]
  /\ maxAddId_tmp \in [Requests -> Nat]
  /\ maxAddressId \in [Requests -> Nat]
  /\ mine \in [Requests -> [Ids -> AddressRows \cup {"untouched"}]]
  /\ inserted \in [Requests -> SUBSET Ids]
  /\ erased \in [Requests -> SUBSET Ids]
  /\ clean \in [Requests -> BOOLEAN]
  /\ honest \in [Requests -> BOOLEAN]
  /\ word \in [Requests -> [Owners -> OwnerRows \cup {"untouched"}]]

Commits(q) == at[q] \in Running /\ at'[q] = "done"

\* numOfprimary counts items and not owners, and yet: whatever the rows were before,
\* createCompany may have stored two primary owners, a request that met no other one
\* leaves one primary owner at most, if it flagged no removal as that of the primary
\* owner when it was none.
OnePrimaryLeft ==
  [][\A q \in Requests :
       Commits(q) /\ at[q] = "owners" /\ clean[q] /\ honest[q] =>
         \A o, p \in Primaries(owner') : o = p]_vars

\* The last item about an owner decides, through DELETE, insertMode and the order of
\* the writes, and who is not named stays as he was.  Another request in between can
\* take that from a company, whose UPDATE may find no row, and from a removal; an
\* owner put to a contact is there in any case.
LastWordCounts ==
  [][\A q \in Requests, o \in Owners :
       Commits(q) /\ at[q] = "owners" =>
         CASE word[q][o] = "untouched" -> owner'[o] = owner[o]
           [] OTHER ->
                clean[q] \/ (kind = "contact" /\ word[q][o] # "none") =>
                  owner'[o] = word[q][o]]_vars

\* The flags are counted before the items are carried out: a request that met no
\* other one leaves a contact with exactly one default address, whatever flags
\* createContact stored, and deletes, revives and new numbers between them.  A
\* company, whose flags no update writes, never gets a second default address.
OneDefaultLeft ==
  [][\A q \in Requests :
       Commits(q) /\ at[q] = "addresses" =>
         /\ kind = "contact" /\ clean[q] =>
              \E i \in Ids : \A j \in Ids : addr'[j] \in Defaults <=> j = i
         /\ kind = "company" =>
              \A i, j \in Ids : addr'[i] \in Defaults /\ addr'[j] \in Defaults => i = j]_vars

=============================================================================
