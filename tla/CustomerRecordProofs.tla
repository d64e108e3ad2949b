-------------------------- MODULE CustomerRecordProofs --------------------------
(***************************************************************************)
(* Proofs about CustomerRecord, for any number of requests, recruiters and *)
(* addresses and lists of any length.  For a request that no other one has *)
(* overtaken the inductive invariant says what its commit will leave: of   *)
(* the owners what the table `all` holds, which has no more primary ones   *)
(* than numOfprimary counts; of the addresses of a contact the rows it     *)
(* sees, with the default flags that pairs holds.                          *)
(***************************************************************************)
EXTENDS CustomerRecord, FiniteSetTheorems, TLAPS

\* What the items said about the owners is what `all` and `update` hold.
WordInv ==
  \A q \in Requests : at[q] = "owners" =>
    /\ fresh[q] \subseteq update[q]
    /\ \A o \in Owners :
         /\ word[q][o] = "untouched" => o \notin update[q] /\ o \notin gone[q]
         /\ word[q][o] # "untouched" => all[q][o] = word[q][o]
         /\ word[q][o] \in {"other", "primary"} <=> o \in update[q]

\* A request that no other one has overtaken knows the owners in the table.
OwnersInv ==
  \A q \in Requests : at[q] = "owners" /\ clean[q] =>
    \A o \in Owners :
      /\ word[q][o] = "untouched" => all[q][o] = owner[o]
      /\ o \in update[q] => (o \in fresh[q] <=> owner[o] = "none" \/ o \in gone[q])
      /\ word[q][o] = "none" => owner[o] = "none" \/ o \in gone[q]

\* numOfprimary never falls below the number of primary owners.
CountInv ==
  \A q \in Requests : at[q] = "owners" /\ honest[q] =>
    Cardinality(Primaries(all[q])) =< numOfprimary[q]

\* The flags of a contact that was not overtaken are those of the rows it sees, and
\* the rows it has written were there or are new.
FlagsInv ==
  \A q \in Requests : at[q] = "addresses" /\ kind = "contact" /\ clean[q] =>
    \A i \in Ids :
      /\ pairs[q][i] = "default" <=> Seen(q, i) \in Defaults
      /\ mine[q][i] # "untouched" => addr[i] # "none" \/ i \in inserted[q]

\* A company has one default address at most, and a new row is never one.
CompanyInv ==
  kind = "company" =>
    /\ \A i, j \in Ids : addr[i] \in Defaults /\ addr[j] \in Defaults => i = j
    /\ \A q \in Requests : \A i \in inserted[q] : mine[q][i] \in {"plain", "none"}

\* A request that has not begun has nothing to write.
NewInv ==
  \A q \in Requests : at[q] = "new" =>
    /\ update[q] = {} /\ fresh[q] = {} /\ gone[q] = {} /\ inserted[q] = {}
    /\ \A o \in Owners : word[q][o] = "untouched"

IInv == TypeOK /\ NewInv /\ WordInv /\ OwnersInv /\ CountInv /\ FlagsInv /\ CompanyInv

-----------------------------------------------------------------------------

\* A finite set with one element at most has no two.
LEMMA OneAtMost ==
  ASSUME NEW S, IsFiniteSet(S), Cardinality(S) =< 1
  PROVE  \A x, y \in S : x = y
<1> SUFFICES ASSUME NEW x \in S, NEW y \in S, x # y PROVE FALSE
  OBVIOUS
<1>1. IsFiniteSet({x}) /\ Cardinality({x}) = 1
  BY FS_Singleton
<1>2. IsFiniteSet({x} \cup {y}) /\ Cardinality({x} \cup {y}) = 2
  <2>1. y \notin {x}
    OBVIOUS
  <2>2. IsFiniteSet({x} \cup {y}) /\ Cardinality({x} \cup {y}) = Cardinality({x}) + 1
    BY <1>1, <2>1, FS_AddElement, Zenon
  <2> QED BY <1>1, <2>2
<1>3. Cardinality({x} \cup {y}) =< Cardinality(S)
  BY FS_Subset, <1>2
<1>4. Cardinality(S) \in Nat
  BY FS_CardinalityType
<1> QED BY <1>2, <1>3, <1>4

\* The primary owners are finitely many.
LEMMA PrimariesFinite ==
  ASSUME NEW rows
  PROVE  IsFiniteSet(Primaries(rows)) /\ Cardinality(Primaries(rows)) \in Nat
  BY RecordAssumption, FS_Subset, FS_CardinalityType DEF Primaries

\* Changing one row adds one primary owner at most, and none if the row is none.
LEMMA OneMore ==
  ASSUME NEW r \in [Owners -> OwnerRows], NEW s \in [Owners -> OwnerRows],
         NEW o \in Owners, \A p \in Owners \ {o} : s[p] = r[p]
  PROVE  /\ Cardinality(Primaries(s)) =< Cardinality(Primaries(r)) + 1
         /\ s[o] # "primary" => Cardinality(Primaries(s)) =< Cardinality(Primaries(r))
         /\ s[o] # "primary" /\ r[o] = "primary" =>
              Cardinality(Primaries(s)) = Cardinality(Primaries(r)) - 1
<1>1. IsFiniteSet(Primaries(r)) /\ Cardinality(Primaries(r)) \in Nat
  BY PrimariesFinite
<1>2. IsFiniteSet(Primaries(s)) /\ Cardinality(Primaries(s)) \in Nat
  BY PrimariesFinite
<1>3. Primaries(s) \subseteq Primaries(r) \cup {o}
  BY DEF Primaries
<1>4. /\ IsFiniteSet(Primaries(r) \cup {o})
      /\ Cardinality(Primaries(r) \cup {o}) =< Cardinality(Primaries(r)) + 1
  <2>1. /\ IsFiniteSet(Primaries(r) \cup {o})
        /\ Cardinality(Primaries(r) \cup {o}) =
             IF o \in Primaries(r) THEN Cardinality(Primaries(r))
                                   ELSE Cardinality(Primaries(r)) + 1
    BY <1>1, FS_AddElement, Zenon
  <2> QED BY <1>1, <2>1
<1>5. Cardinality(Primaries(r) \cup {o}) \in Nat
  BY <1>4, FS_CardinalityType
<1>6. Cardinality(Primaries(s)) =< Cardinality(Primaries(r) \cup {o})
  BY <1>3, <1>4, FS_Subset
<1>7. ASSUME s[o] # "primary"
      PROVE  Cardinality(Primaries(s)) =< Cardinality(Primaries(r))
  <2>1. Primaries(s) \subseteq Primaries(r)
    BY <1>7 DEF Primaries
  <2> QED BY <1>1, <2>1, FS_Subset
<1>8. ASSUME s[o] # "primary", r[o] = "primary"
      PROVE  Cardinality(Primaries(s)) = Cardinality(Primaries(r)) - 1
  <2>1. Primaries(s) = Primaries(r) \ {o} /\ o \in Primaries(r)
    BY <1>8 DEF Primaries
  <2> QED BY <1>1, <2>1, FS_RemoveElement
<1> QED BY <1>1, <1>2, <1>4, <1>5, <1>6, <1>7, <1>8

-----------------------------------------------------------------------------

LEMMA InitIInv == Init => IInv
<1> SUFFICES ASSUME Init PROVE IInv
  OBVIOUS
<1> USE RecordAssumption
<1>1. TypeOK
  BY DEF Init, TypeOK, Places, OwnerRows, AddressRows, Live
<1>2. NewInv /\ WordInv /\ OwnersInv /\ CountInv /\ FlagsInv
  BY DEF Init, NewInv, WordInv, OwnersInv, CountInv, FlagsInv
<1>3. CompanyInv
  <2>1. ASSUME NEW i \in Ids, NEW j \in Ids, kind = "company",
               addr[i] \in Defaults, addr[j] \in Defaults
        PROVE  i = j
    BY <2>1 DEF Init, LiveIds, Live, Defaults
  <2>2. ASSUME NEW q \in Requests PROVE inserted[q] = {}
    BY DEF Init
  <2> QED BY <2>1, <2>2 DEF CompanyInv
<1> QED BY <1>1, <1>2, <1>3 DEF IInv

\* Numbers of addresses are natural numbers.
LEMMA NumberOrZero ==
  ASSUME NEW R \in SUBSET Ids, NEW m \in R \cup {0}
  PROVE  m \in Nat
  BY RecordAssumption

\* The steps of a request, one by one.
LEMMA StepKinds ==
  ASSUME NEW q \in Requests, Step(q)
  PROVE  \/ ReadOwners(q)
         \/ ReadAddresses(q)
         \/ \E o \in Owners, primary \in BOOLEAN : RemoveOwner(q, o, primary)
         \/ \E o \in Owners, primary \in BOOLEAN : PutOwner(q, o, primary)
         \/ \E flag \in {"plain", "default"} : AddContactAddress(q, flag)
         \/ \E flag \in {"plain", "default"}, i \in Ids : PutContactAddress(q, i, flag)
         \/ \E flag \in {"plain", "default"}, named \in SUBSET Ids :
              PutCompanyAddress(q, named, flag)
         \/ \E i \in Ids : DeleteContactAddress(q, i)
         \/ \E i \in Ids, withTeam \in BOOLEAN : DeleteCompanyAddress(q, i, withTeam)
         \/ CommitOwners(q)
         \/ CommitAddresses(q)
         \/ Refuse(q)
<1>1. \A named \in {{}} \cup {{i} : i \in Ids} : named \in SUBSET Ids
  OBVIOUS
<1> QED BY <1>1, Zenon DEF Step, Items

\* The requests and the rows keep their types.
LEMMA TypeInv ==
  ASSUME TypeOK, NEW q \in Requests, Step(q)
  PROVE  TypeOK'
<1> USE RecordAssumption
        DEF TypeOK, Places, OwnerRows, AddressRows, Live, Defaults, Goto, Running,
            tables, ownerVars, addressVars
<1>1. CASE ReadOwners(q)
  <2>1. Cardinality(Primaries(owner)) \in Int
    BY PrimariesFinite
  <2> QED BY <1>1, <2>1 DEF ReadOwners
<1>2. CASE ReadAddresses(q)
  <2>1. LiveIds \subseteq Ids /\ Blank \subseteq Ids
    BY DEF LiveIds, Blank
  <2> DEFINE read == LiveIds \ Blank
  <2>2. read \subseteq Ids
    BY <2>1
  <2>3. old' \in [Requests -> SUBSET Ids] /\ erased' \in [Requests -> SUBSET Ids]
    BY <1>2, <2>1, <2>2 DEF ReadAddresses
  <2>4. pairs' \in [Requests -> [Ids -> {"none", "plain", "default"}]]
    BY <1>2 DEF ReadAddresses, FlagOf
  <2>5. /\ maxAddId_tmp' \in [Requests -> Nat]
        /\ maxAddressId' \in [Requests -> Nat]
    <3>1. PICK m \in read \cup {0} :
            /\ maxAddId_tmp' = [maxAddId_tmp EXCEPT ![q] = m]
            /\ maxAddressId' = [maxAddressId EXCEPT ![q] = m]
      BY <1>2 DEF ReadAddresses
    <3>2. m \in Nat
      BY <2>2, <3>1, NumberOrZero
    <3> QED BY <3>1, <3>2
  <2>6. mine' \in [Requests -> [Ids -> AddressRows \cup {"untouched"}]]
    BY <1>2 DEF ReadAddresses
  <2> QED BY <1>2, <2>3, <2>4, <2>5, <2>6 DEF ReadAddresses
<1>3. ASSUME NEW o \in Owners, NEW primary \in BOOLEAN, RemoveOwner(q, o, primary)
      PROVE  TypeOK'
  BY <1>3 DEF RemoveOwner, OwnerItem
<1>4. ASSUME NEW o \in Owners, NEW primary \in BOOLEAN, PutOwner(q, o, primary)
      PROVE  TypeOK'
  BY <1>4 DEF PutOwner, OwnerItem
<1>5. ASSUME NEW flag \in {"plain", "default"}, AddContactAddress(q, flag) PROVE TypeOK'
  BY <1>5 DEF AddContactAddress, AddressItem, Flag, InsertRow, Written, Write
<1>6. ASSUME NEW flag \in {"plain", "default"}, NEW i \in Ids, PutContactAddress(q, i, flag)
      PROVE  TypeOK'
  BY <1>6 DEF PutContactAddress, AddressItem, Flag, InsertRow, Written, Write
<1>7. ASSUME NEW flag \in {"plain", "default"}, NEW named \in SUBSET Ids,
             PutCompanyAddress(q, named, flag)
      PROVE  TypeOK'
  <2>1. /\ pairs' \in [Requests -> [Ids -> {"none", "plain", "default"}]]
        /\ maxAddId_tmp' \in [Requests -> Nat]
    <3>1. CASE flag = "plain"
      <4>1. maxAddId_tmp[q] + 1 \in Nat
        BY SMT
      <4>2. /\ maxAddId_tmp' = [maxAddId_tmp EXCEPT ![q] = @ + 1]
            /\ pairs' = [pairs EXCEPT ![q][maxAddId_tmp[q] + 1] = "plain"]
        BY <1>7, <3>1 DEF PutCompanyAddress, CompanyFlags, Flag
      <4> QED BY <4>1, <4>2
    <3>2. CASE flag # "plain"
      <4>1. /\ pairs' = pairs \/ \E i \in named : pairs' = [pairs EXCEPT ![q][i] = "default"]
            /\ maxAddId_tmp' = maxAddId_tmp
        BY <1>7, <3>2, Zenon DEF PutCompanyAddress, CompanyFlags, Flag
      <4>2. CASE pairs' = pairs
        BY <4>1, <4>2
      <4>3. CASE \E i \in named : pairs' = [pairs EXCEPT ![q][i] = "default"]
        BY <4>1, <4>3
      <4> QED BY <4>1, <4>2, <4>3
    <3> QED BY <3>1, <3>2
  <2>2. /\ mine' \in [Requests -> [Ids -> AddressRows \cup {"untouched"}]]
        /\ inserted' \in [Requests -> SUBSET Ids]
        /\ maxAddressId' \in [Requests -> Nat]
    <3>1. CASE \E i \in {maxAddressId[q] + 1} :
                 /\ i \in Ids /\ InsertRow(q, i) /\ Write(q, i, "plain")
                 /\ maxAddressId' = [maxAddressId EXCEPT ![q] = @ + 1]
      BY <3>1 DEF InsertRow, Write
    <3>2. CASE /\ mine' = mine \/ \E i \in Ids, row \in Defaults : Write(q, i, row)
               /\ UNCHANGED <<maxAddressId, inserted>>
      <4>1. ASSUME NEW i \in Ids, NEW row \in Defaults, Write(q, i, row)
            PROVE  mine' \in [Requests -> [Ids -> AddressRows \cup {"untouched"}]]
        BY <4>1 DEF Write
      <4> QED BY <3>2, <4>1
    <3> QED BY <1>7, <3>1, <3>2 DEF PutCompanyAddress
  <2>3. UNCHANGED <<tables, at, ownerVars, clean, old, erased>>
    BY <1>7 DEF PutCompanyAddress, AddressItem
  <2>4. left' \in [Requests -> Nat]
    BY <1>7 DEF PutCompanyAddress, AddressItem
  <2> QED BY <2>1, <2>2, <2>3, <2>4
<1>8. ASSUME NEW i \in Ids, DeleteContactAddress(q, i) PROVE TypeOK'
  BY <1>8 DEF DeleteContactAddress, AddressItem, Flag, Write
<1>9. ASSUME NEW i \in Ids, NEW withTeam \in BOOLEAN, DeleteCompanyAddress(q, i, withTeam)
      PROVE  TypeOK'
  <2>1. pairs' \in [Requests -> [Ids -> {"none", "plain", "default"}]]
    BY <1>9 DEF DeleteCompanyAddress, Flag
  <2>2. /\ mine' \in [Requests -> [Ids -> AddressRows \cup {"untouched"}]]
        /\ erased' \in [Requests -> SUBSET Ids]
    <3>1. CASE withTeam
      <4>1. /\ mine' = [mine EXCEPT ![q][i] = "none"]
            /\ erased' = [erased EXCEPT ![q] = @ \cup {i}]
        BY <1>9, <3>1, Zenon DEF DeleteCompanyAddress, Write
      <4> QED BY <4>1
    <3>2. CASE ~withTeam
      BY <1>9, <3>2 DEF DeleteCompanyAddress
    <3> QED BY <3>1, <3>2
  <2>3. /\ UNCHANGED <<tables, at, ownerVars, clean, old, maxAddId_tmp, maxAddressId, inserted>>
        /\ left' \in [Requests -> Nat]
    BY <1>9 DEF DeleteCompanyAddress, AddressItem
  <2> QED BY <2>1, <2>2, <2>3
<1>10. CASE CommitOwners(q)
  <2>1. owner' \in [Owners -> OwnerRows]
    BY <1>10 DEF CommitOwners, OwnerAfter
  <2> QED BY <1>10, <2>1 DEF CommitOwners, Committed, Forget
<1>11. CASE CommitAddresses(q)
  <2>1. addr' \in [Ids -> AddressRows]
    BY <1>11 DEF CommitAddresses, AddressAfter, LeavesAddress
  <2> QED BY <1>11, <2>1 DEF CommitAddresses, Committed, Forget
<1>12. CASE Refuse(q)
  BY <1>12 DEF Refuse, Forget
<1> HIDE DEF TypeOK
<1> QED BY <1>1, <1>2, <1>3, <1>4, <1>5, <1>6, <1>7, <1>8, <1>9, <1>10, <1>11, <1>12,
           StepKinds, Zenon

\* What a request that has not begun has stays empty.
LEMMA NewStays ==
  ASSUME TypeOK, NewInv, NEW q \in Requests, Step(q)
  PROVE  NewInv'
<1> USE DEF NewInv, TypeOK, OwnerRows, Running, Goto, tables, ownerVars, addressVars
<1>1. CASE ReadOwners(q)
  BY <1>1 DEF ReadOwners
<1>2. CASE ReadAddresses(q)
  BY <1>2 DEF ReadAddresses
<1>3. ASSUME NEW o \in Owners, NEW primary \in BOOLEAN,
             RemoveOwner(q, o, primary)
      PROVE  NewInv'
  BY <1>3 DEF RemoveOwner, OwnerItem
<1>4. ASSUME NEW o \in Owners, NEW primary \in BOOLEAN,
             PutOwner(q, o, primary)
      PROVE  NewInv'
  BY <1>4 DEF PutOwner, OwnerItem
<1>5. ASSUME NEW flag \in {"plain", "default"}, AddContactAddress(q, flag) PROVE NewInv'
  BY <1>5 DEF AddContactAddress, AddressItem, Flag, InsertRow, Written, Write
<1>6. ASSUME NEW flag \in {"plain", "default"}, NEW i \in Ids,
             PutContactAddress(q, i, flag)
      PROVE  NewInv'
  BY <1>6 DEF PutContactAddress, AddressItem, Flag, InsertRow, Written, Write
<1>7. ASSUME NEW flag \in {"plain", "default"}, NEW named \in SUBSET Ids,
             PutCompanyAddress(q, named, flag)
      PROVE  NewInv'
  <2>1. at[q] = "addresses" /\ UNCHANGED <<at, update, fresh, gone, word>>
    BY <1>7 DEF PutCompanyAddress, AddressItem
  <2>2. inserted' = inserted \/ \E i \in Ids : inserted' = [inserted EXCEPT ![q] = @ \cup {i}]
    BY <1>7 DEF PutCompanyAddress, InsertRow
  <2>3. ASSUME NEW r \in Requests, r # q PROVE inserted'[r] = inserted[r]
    BY <2>2, <2>3
  <2> QED BY <2>1, <2>3
<1>8. ASSUME NEW i \in Ids, DeleteContactAddress(q, i) PROVE NewInv'
  BY <1>8 DEF DeleteContactAddress, AddressItem, Flag, Write
<1>9. ASSUME NEW i \in Ids, NEW withTeam \in BOOLEAN,
             DeleteCompanyAddress(q, i, withTeam)
      PROVE  NewInv'
  BY <1>9 DEF DeleteCompanyAddress, AddressItem
<1>10. CASE CommitOwners(q)
  BY <1>10 DEF CommitOwners, Committed, Forget
<1>11. CASE CommitAddresses(q)
  BY <1>11 DEF CommitAddresses, Committed, Forget
<1>12. CASE Refuse(q)
  BY <1>12 DEF Refuse, Forget
<1> HIDE DEF TypeOK, NewInv
<1> QED BY <1>1, <1>2, <1>3, <1>4, <1>5, <1>6, <1>7, <1>8, <1>9, <1>10, <1>11, <1>12,
           StepKinds, Zenon

\* The items and the two tables of a request keep agreeing.
LEMMA WordStays ==
  ASSUME TypeOK, NewInv, WordInv, NEW q \in Requests, Step(q)
  PROVE  WordInv'
<1> USE DEF NewInv, WordInv, TypeOK, OwnerRows, Running, Goto, tables, ownerVars, addressVars
<1>1. CASE ReadOwners(q)
  BY <1>1 DEF ReadOwners
<1>2. CASE ReadAddresses(q)
  BY <1>2 DEF ReadAddresses
<1>3. ASSUME NEW o \in Owners, NEW primary \in BOOLEAN,
             RemoveOwner(q, o, primary)
      PROVE  WordInv'
  BY <1>3 DEF RemoveOwner, OwnerItem
<1>4. ASSUME NEW o \in Owners, NEW primary \in BOOLEAN,
             PutOwner(q, o, primary)
      PROVE  WordInv'
  BY <1>4 DEF PutOwner, OwnerItem
<1>5. ASSUME NEW flag \in {"plain", "default"}, AddContactAddress(q, flag) PROVE WordInv'
  BY <1>5 DEF AddContactAddress, AddressItem, Flag, InsertRow, Written, Write
<1>6. ASSUME NEW flag \in {"plain", "default"}, NEW i \in Ids,
             PutContactAddress(q, i, flag)
      PROVE  WordInv'
  BY <1>6 DEF PutContactAddress, AddressItem, Flag, InsertRow, Written, Write
<1>7. ASSUME NEW flag \in {"plain", "default"}, NEW named \in SUBSET Ids,
             PutCompanyAddress(q, named, flag)
      PROVE  WordInv'
  BY <1>7 DEF PutCompanyAddress, AddressItem
<1>8. ASSUME NEW i \in Ids, DeleteContactAddress(q, i) PROVE WordInv'
  BY <1>8 DEF DeleteContactAddress, AddressItem, Flag, Write
<1>9. ASSUME NEW i \in Ids, NEW withTeam \in BOOLEAN,
             DeleteCompanyAddress(q, i, withTeam)
      PROVE  WordInv'
  BY <1>9 DEF DeleteCompanyAddress, AddressItem
<1>10. CASE CommitOwners(q)
  BY <1>10 DEF CommitOwners, Committed, Forget
<1>11. CASE CommitAddresses(q)
  BY <1>11 DEF CommitAddresses, Committed, Forget
<1>12. CASE Refuse(q)
  BY <1>12 DEF Refuse, Forget
<1> HIDE DEF TypeOK, NewInv, WordInv
<1> QED BY <1>1, <1>2, <1>3, <1>4, <1>5, <1>6, <1>7, <1>8, <1>9, <1>10, <1>11, <1>12,
           StepKinds, Zenon

\* What a request knows of the owners stays true until another one commits.
LEMMA OwnersStay ==
  ASSUME TypeOK, NewInv, WordInv, OwnersInv, NEW q \in Requests, Step(q)
  PROVE  OwnersInv'
<1> USE DEF NewInv, WordInv, OwnersInv, TypeOK, OwnerRows, Running, Goto, tables, ownerVars, addressVars
<1>1. CASE ReadOwners(q)
  BY <1>1 DEF ReadOwners
<1>2. CASE ReadAddresses(q)
  BY <1>2 DEF ReadAddresses
<1>3. ASSUME NEW o \in Owners, NEW primary \in BOOLEAN,
             RemoveOwner(q, o, primary)
      PROVE  OwnersInv'
  BY <1>3 DEF RemoveOwner, OwnerItem
<1>4. ASSUME NEW o \in Owners, NEW primary \in BOOLEAN,
             PutOwner(q, o, primary)
      PROVE  OwnersInv'
  BY <1>4 DEF PutOwner, OwnerItem
<1>5. ASSUME NEW flag \in {"plain", "default"},
             AddContactAddress(q, flag)
      PROVE  OwnersInv'
  BY <1>5 DEF AddContactAddress, AddressItem, Flag, InsertRow, Written, Write
<1>6. ASSUME NEW flag \in {"plain", "default"}, NEW i \in Ids,
             PutContactAddress(q, i, flag)
      PROVE  OwnersInv'
  BY <1>6 DEF PutContactAddress, AddressItem, Flag, InsertRow, Written, Write
<1>7. ASSUME NEW flag \in {"plain", "default"}, NEW named \in SUBSET Ids,
             PutCompanyAddress(q, named, flag)
      PROVE  OwnersInv'
  BY <1>7 DEF PutCompanyAddress, AddressItem
<1>8. ASSUME NEW i \in Ids, DeleteContactAddress(q, i) PROVE OwnersInv'
  BY <1>8 DEF DeleteContactAddress, AddressItem, Flag, Write
<1>9. ASSUME NEW i \in Ids, NEW withTeam \in BOOLEAN,
             DeleteCompanyAddress(q, i, withTeam)
      PROVE  OwnersInv'
  BY <1>9 DEF DeleteCompanyAddress, AddressItem
<1>10. CASE CommitOwners(q)
  BY <1>10 DEF CommitOwners, Committed, Forget
<1>11. CASE CommitAddresses(q)
  BY <1>11 DEF CommitAddresses, Committed, Forget
<1>12. CASE Refuse(q)
  BY <1>12 DEF Refuse, Forget
<1> HIDE DEF TypeOK, NewInv, WordInv, OwnersInv
<1> QED BY <1>1, <1>2, <1>3, <1>4, <1>5, <1>6, <1>7, <1>8, <1>9, <1>10, <1>11, <1>12,
           StepKinds, Zenon

\* numOfprimary stays at least the number of primary owners in `all`.
LEMMA CountStays ==
  ASSUME TypeOK, CountInv, NEW q \in Requests, Step(q)
  PROVE  CountInv'
<1> USE DEF CountInv, TypeOK, OwnerRows, Running, Goto, tables, ownerVars, addressVars
<1>1. CASE ReadOwners(q)
  <2>1. Cardinality(Primaries(owner)) \in Nat
    BY PrimariesFinite
  <2>2. all'[q] = owner /\ numOfprimary'[q] = Cardinality(Primaries(owner))
    BY <1>1 DEF ReadOwners
  <2>3. \A r \in Requests \ {q} : UNCHANGED <<at[r], all[r], numOfprimary[r], honest[r]>>
    BY <1>1 DEF ReadOwners
  <2>4. ASSUME NEW r \in Requests, at'[r] = "owners", honest'[r]
        PROVE  Cardinality(Primaries(all'[r])) =< numOfprimary'[r]
    <3>1. CASE r = q
      <4>1. Cardinality(Primaries(all'[r])) = Cardinality(Primaries(owner))
        BY <2>2, <3>1
      <4> QED BY <2>1, <2>2, <3>1, <4>1
    <3>2. CASE r # q
      BY <2>3, <2>4, <3>2
    <3> QED BY <3>1, <3>2
  <2> QED BY <2>4
<1>2. CASE ReadAddresses(q)
  BY <1>2 DEF ReadAddresses
<1>3. ASSUME NEW o \in Owners, NEW primary \in BOOLEAN,
             RemoveOwner(q, o, primary)
      PROVE  CountInv'
  <2>1. /\ at[q] = "owners" /\ at' = at
        /\ all'[q] = [all[q] EXCEPT ![o] = "none"]
        /\ numOfprimary'[q] = IF primary THEN numOfprimary[q] - 1 ELSE numOfprimary[q]
        /\ honest'[q] <=> honest[q] /\ (primary => all[q][o] = "primary")
    BY <1>3 DEF RemoveOwner, OwnerItem
  <2>2. \A r \in Requests \ {q} : UNCHANGED <<all[r], numOfprimary[r], honest[r]>>
    BY <1>3 DEF RemoveOwner, OwnerItem
  <2>3. ASSUME honest'[q] PROVE Cardinality(Primaries(all'[q])) =< numOfprimary'[q]
    <3>1. /\ Cardinality(Primaries(all'[q])) =< Cardinality(Primaries(all[q]))
          /\ all[q][o] = "primary" =>
               Cardinality(Primaries(all'[q])) = Cardinality(Primaries(all[q])) - 1
      <4>1. all[q] \in [Owners -> OwnerRows] /\ all'[q] \in [Owners -> OwnerRows]
        BY <2>1
      <4>2. \A p \in Owners \ {o} : all'[q][p] = all[q][p]
        BY <2>1
      <4>3. all'[q][o] = "none"
        BY <2>1
      <4> HIDE DEF OwnerRows
      <4> QED BY <4>1, <4>2, <4>3, OneMore
    <3>2. Cardinality(Primaries(all[q])) \in Nat /\ Cardinality(Primaries(all'[q])) \in Nat
      BY PrimariesFinite
    <3> QED BY <2>1, <2>3, <3>1, <3>2
  <2> QED BY <2>1, <2>2, <2>3
<1>4. ASSUME NEW o \in Owners, NEW primary \in BOOLEAN,
             PutOwner(q, o, primary)
      PROVE  CountInv'
  <2>1. /\ at[q] = "owners" /\ at' = at /\ honest' = honest
        /\ all'[q] = [all[q] EXCEPT ![o] = IF primary THEN "primary" ELSE "other"]
        /\ numOfprimary'[q] = IF primary THEN numOfprimary[q] + 1 ELSE numOfprimary[q]
    BY <1>4 DEF PutOwner, OwnerItem
  <2>2. \A r \in Requests \ {q} : UNCHANGED <<all[r], numOfprimary[r]>>
    BY <1>4 DEF PutOwner, OwnerItem
  <2>3. ASSUME honest[q] PROVE Cardinality(Primaries(all'[q])) =< numOfprimary'[q]
    <3>1. /\ Cardinality(Primaries(all'[q])) =< Cardinality(Primaries(all[q])) + 1
          /\ ~primary => Cardinality(Primaries(all'[q])) =< Cardinality(Primaries(all[q]))
      <4>1. all[q] \in [Owners -> OwnerRows] /\ all'[q] \in [Owners -> OwnerRows]
        BY <2>1
      <4>2. \A p \in Owners \ {o} : all'[q][p] = all[q][p]
        BY <2>1
      <4>3. all'[q][o] = IF primary THEN "primary" ELSE "other"
        BY <2>1
      <4> HIDE DEF OwnerRows
      <4> QED BY <4>1, <4>2, <4>3, OneMore
    <3>2. Cardinality(Primaries(all[q])) \in Nat /\ Cardinality(Primaries(all'[q])) \in Nat
      BY PrimariesFinite
    <3> QED BY <2>1, <2>3, <3>1, <3>2
  <2> QED BY <2>1, <2>2, <2>3
<1>5. ASSUME NEW flag \in {"plain", "default"},
             AddContactAddress(q, flag)
      PROVE  CountInv'
  BY <1>5 DEF AddContactAddress, AddressItem, Flag, InsertRow, Written, Write
<1>6. ASSUME NEW flag \in {"plain", "default"}, NEW i \in Ids,
             PutContactAddress(q, i, flag)
      PROVE  CountInv'
  BY <1>6 DEF PutContactAddress, AddressItem, Flag, InsertRow, Written, Write
<1>7. ASSUME NEW flag \in {"plain", "default"}, NEW named \in SUBSET Ids,
             PutCompanyAddress(q, named, flag)
      PROVE  CountInv'
  BY <1>7 DEF PutCompanyAddress, AddressItem
<1>8. ASSUME NEW i \in Ids, DeleteContactAddress(q, i) PROVE CountInv'
  BY <1>8 DEF DeleteContactAddress, AddressItem, Flag, Write
<1>9. ASSUME NEW i \in Ids, NEW withTeam \in BOOLEAN,
             DeleteCompanyAddress(q, i, withTeam)
      PROVE  CountInv'
  BY <1>9 DEF DeleteCompanyAddress, AddressItem
<1>10. CASE CommitOwners(q)
  BY <1>10 DEF CommitOwners, Committed, Forget
<1>11. CASE CommitAddresses(q)
  BY <1>11 DEF CommitAddresses, Committed, Forget
<1>12. CASE Refuse(q)
  BY <1>12 DEF Refuse, Forget
<1> HIDE DEF TypeOK, CountInv
<1> QED BY <1>1, <1>2, <1>3, <1>4, <1>5, <1>6, <1>7, <1>8, <1>9, <1>10, <1>11, <1>12,
           StepKinds, Zenon

\* The flags of a contact stay those of the rows, through deletes and new numbers.
LEMMA FlagsStay ==
  ASSUME TypeOK, NewInv, FlagsInv, NEW q \in Requests, Step(q)
  PROVE  FlagsInv'
<1> USE DEF FlagsInv, Seen, Defaults, AddressRows, TypeOK, OwnerRows, Running, Goto, tables, ownerVars, addressVars
<1>1. CASE ReadOwners(q)
  BY <1>1 DEF ReadOwners
<1>2. CASE ReadAddresses(q)
  <2>1. /\ pairs'[q] = [i \in Ids |-> IF i \in LiveIds \ Blank THEN FlagOf(addr[i]) ELSE "none"]
        /\ mine'[q] = [i \in Ids |-> IF i \in Blank THEN "none" ELSE "untouched"]
        /\ addr' = addr /\ kind' = kind
    BY <1>2 DEF ReadAddresses
  <2>2. \A r \in Requests \ {q} :
          UNCHANGED <<at[r], clean[r], pairs[r], mine[r], inserted[r]>>
    BY <1>2 DEF ReadAddresses
  <2>3. ASSUME NEW i \in Ids
        PROVE  /\ pairs'[q][i] = "default" <=> Seen(q, i)' \in Defaults
               /\ mine'[q][i] # "untouched" => addr[i] # "none"
    <3>1. CASE i \in Blank
      <4>1. i \in LiveIds /\ addr[i] = "blank"
        BY <3>1 DEF Blank
      <4> QED BY <2>1, <3>1, <4>1
    <3>2. CASE i \notin Blank /\ i \in LiveIds
      BY <2>1, <3>2 DEF FlagOf
    <3>3. CASE i \notin Blank /\ i \notin LiveIds
      BY <2>1, <3>3 DEF LiveIds, Live
    <3> QED BY <3>1, <3>2, <3>3
  <2>4. ASSUME NEW r \in Requests, at'[r] = "addresses", kind' = "contact", clean'[r],
               NEW i \in Ids
        PROVE  /\ pairs'[r][i] = "default" <=> Seen(r, i)' \in Defaults
               /\ mine'[r][i] # "untouched" => addr'[i] # "none" \/ i \in inserted'[r]
    <3>1. CASE r = q
      BY <2>1, <2>3, <3>1
    <3>2. CASE r # q
      BY <2>1, <2>2, <2>4, <3>2
    <3> QED BY <3>1, <3>2
  <2> QED BY <2>4
<1>3. ASSUME NEW o \in Owners, NEW primary \in BOOLEAN,
             RemoveOwner(q, o, primary)
      PROVE  FlagsInv'
  BY <1>3 DEF RemoveOwner, OwnerItem
<1>4. ASSUME NEW o \in Owners, NEW primary \in BOOLEAN,
             PutOwner(q, o, primary)
      PROVE  FlagsInv'
  BY <1>4 DEF PutOwner, OwnerItem
<1>5. ASSUME NEW flag \in {"plain", "default"},
             AddContactAddress(q, flag)
      PROVE  FlagsInv'
  <2>1. PICK i \in Ids, row \in Written(flag) :
          /\ pairs' = [pairs EXCEPT ![q][i] = flag]
          /\ mine' = [mine EXCEPT ![q][i] = row]
          /\ inserted' = [inserted EXCEPT ![q] = @ \cup {i}]
    BY <1>5 DEF AddContactAddress, Flag, InsertRow, Write
  <2>2. UNCHANGED <<kind, addr, at, clean>>
    BY <1>5 DEF AddContactAddress, AddressItem
  <2> QED BY <2>1, <2>2 DEF Written
<1>6. ASSUME NEW flag \in {"plain", "default"}, NEW i \in Ids,
             PutContactAddress(q, i, flag)
      PROVE  FlagsInv'
  BY <1>6 DEF PutContactAddress, AddressItem, Flag, InsertRow, Written, Write
<1>7. ASSUME NEW flag \in {"plain", "default"}, NEW named \in SUBSET Ids,
             PutCompanyAddress(q, named, flag)
      PROVE  FlagsInv'
  BY <1>7 DEF PutCompanyAddress, AddressItem
<1>8. ASSUME NEW i \in Ids, DeleteContactAddress(q, i) PROVE FlagsInv'
  BY <1>8 DEF DeleteContactAddress, AddressItem, Flag, Write
<1>9. ASSUME NEW i \in Ids, NEW withTeam \in BOOLEAN,
             DeleteCompanyAddress(q, i, withTeam)
      PROVE  FlagsInv'
  BY <1>9 DEF DeleteCompanyAddress, AddressItem
<1>10. CASE CommitOwners(q)
  BY <1>10 DEF CommitOwners, Committed, Forget
<1>11. CASE CommitAddresses(q)
  BY <1>11 DEF CommitAddresses, Committed, Forget
<1>12. CASE Refuse(q)
  BY <1>12 DEF Refuse, Forget
<1> HIDE DEF TypeOK, NewInv, FlagsInv
<1> QED BY <1>1, <1>2, <1>3, <1>4, <1>5, <1>6, <1>7, <1>8, <1>9, <1>10, <1>11, <1>12,
           StepKinds, Zenon

\* No update gives a company a second default address.
LEMMA CompanyStays ==
  ASSUME TypeOK, NewInv, CompanyInv, NEW q \in Requests, Step(q)
  PROVE  CompanyInv'
<1> USE DEF NewInv, CompanyInv, Seen, Defaults, AddressRows, TypeOK, OwnerRows, Running, Goto, tables, ownerVars, addressVars
<1>1. CASE ReadOwners(q)
  BY <1>1 DEF ReadOwners
<1>2. CASE ReadAddresses(q)
  BY <1>2 DEF ReadAddresses
<1>3. ASSUME NEW o \in Owners, NEW primary \in BOOLEAN,
             RemoveOwner(q, o, primary)
      PROVE  CompanyInv'
  BY <1>3 DEF RemoveOwner, OwnerItem
<1>4. ASSUME NEW o \in Owners, NEW primary \in BOOLEAN,
             PutOwner(q, o, primary)
      PROVE  CompanyInv'
  BY <1>4 DEF PutOwner, OwnerItem
<1>5. ASSUME NEW flag \in {"plain", "default"},
             AddContactAddress(q, flag)
      PROVE  CompanyInv'
  BY <1>5 DEF AddContactAddress, AddressItem, Flag, InsertRow, Written, Write
<1>6. ASSUME NEW flag \in {"plain", "default"}, NEW i \in Ids,
             PutContactAddress(q, i, flag)
      PROVE  CompanyInv'
  BY <1>6 DEF PutContactAddress, AddressItem, Flag, InsertRow, Written, Write
<1>7. ASSUME NEW flag \in {"plain", "default"}, NEW named \in SUBSET Ids,
             PutCompanyAddress(q, named, flag)
      PROVE  CompanyInv'
  <2>1. UNCHANGED <<kind, addr>>
    BY <1>7 DEF PutCompanyAddress, AddressItem
  <2>2. \A r \in Requests \ {q} : UNCHANGED <<mine[r], inserted[r]>>
    BY <1>7 DEF PutCompanyAddress, InsertRow, Write
  <2>3. CASE \E i \in Ids :
               /\ mine' = [mine EXCEPT ![q][i] = "plain"]
               /\ inserted' = [inserted EXCEPT ![q] = @ \cup {i}]
    BY <2>1, <2>2, <2>3
  <2>4. CASE \E i \in Ids, row \in Defaults :
               /\ Seen(q, i) = "blank"
               /\ mine' = [mine EXCEPT ![q][i] = row]
               /\ inserted' = inserted
    BY <2>1, <2>2, <2>4
  <2>5. CASE UNCHANGED <<mine, inserted>>
    BY <2>1, <2>5
  <2> HIDE DEF CompanyInv, NewInv, TypeOK
  <2>6. QED BY <1>7, <2>3, <2>4, <2>5 DEF PutCompanyAddress, InsertRow, Write
<1>8. ASSUME NEW i \in Ids, DeleteContactAddress(q, i) PROVE CompanyInv'
  BY <1>8 DEF DeleteContactAddress, AddressItem, Flag, Write
<1>9. ASSUME NEW i \in Ids, NEW withTeam \in BOOLEAN,
             DeleteCompanyAddress(q, i, withTeam)
      PROVE  CompanyInv'
  <2>1. UNCHANGED <<kind, addr, inserted>>
    BY <1>9 DEF DeleteCompanyAddress, AddressItem
  <2>2. mine' = mine \/ mine' = [mine EXCEPT ![q][i] = "none"]
    <3>1. CASE withTeam
      BY <1>9, <3>1, Zenon DEF DeleteCompanyAddress, Write
    <3>2. CASE ~withTeam
      BY <1>9, <3>2, Zenon DEF DeleteCompanyAddress, Write
    <3> QED BY <3>1, <3>2
  <2>3. CASE mine' = mine
    BY <2>1, <2>3
  <2>4. CASE mine' = [mine EXCEPT ![q][i] = "none"]
    BY <2>1, <2>4
  <2> QED BY <2>2, <2>3, <2>4
<1>10. CASE CommitOwners(q)
  BY <1>10 DEF CommitOwners, Committed, Forget
<1>11. CASE CommitAddresses(q)
  <2>1. ASSUME kind = "company", NEW i \in Ids, addr'[i] \in Defaults
        PROVE  addr[i] \in Defaults
    BY <1>11, <2>1 DEF CommitAddresses, AddressAfter, LeavesAddress
  <2>2. kind' = kind /\ inserted'[q] = {}
    BY <1>11 DEF CommitAddresses, Committed, Forget
  <2>3. \A r \in Requests \ {q} : UNCHANGED <<mine[r], inserted[r]>>
    BY <1>11 DEF CommitAddresses, Committed, Forget
  <2> QED BY <2>1, <2>2, <2>3
<1>12. CASE Refuse(q)
  BY <1>12 DEF Refuse, Forget
<1> HIDE DEF TypeOK, NewInv, CompanyInv
<1> QED BY <1>1, <1>2, <1>3, <1>4, <1>5, <1>6, <1>7, <1>8, <1>9, <1>10, <1>11, <1>12,
           StepKinds, Zenon

\* Every step keeps the inductive invariant.
LEMMA NextIInv ==
  ASSUME IInv, [Next]_vars
  PROVE  IInv'
<1>1. CASE Next
  <2>1. PICK q \in Requests : Step(q)
    BY <1>1 DEF Next
  <2> QED BY <2>1, TypeInv, NewStays, WordStays, OwnersStay, CountStays, FlagsStay,
             CompanyStays DEF IInv
<1>2. CASE UNCHANGED vars
  <2> USE <1>2 DEF vars, tables, ownerVars, addressVars
  <2>1. TypeOK'
    BY DEF IInv, TypeOK
  <2>2. NewInv' /\ WordInv'
    BY DEF IInv, NewInv, WordInv
  <2>3. OwnersInv' /\ CountInv'
    BY DEF IInv, OwnersInv, CountInv, Primaries
  <2>4. FlagsInv' /\ CompanyInv'
    BY DEF IInv, FlagsInv, CompanyInv, Seen
  <2> QED BY <2>1, <2>2, <2>3, <2>4 DEF IInv
<1> QED BY <1>1, <1>2

THEOREM Invariance == Spec => []IInv
<1>1. Init => IInv
  BY InitIInv
<1>2. IInv /\ [Next]_vars => IInv'
  BY NextIInv
<1> QED BY <1>1, <1>2, PTL DEF Spec

\* Every reachable state of the requests and of the record has its type.
THEOREM TypeCorrect == Spec => []TypeOK
<1>1. IInv => TypeOK
  BY DEF IInv
<1> QED BY <1>1, Invariance, PTL

\* The step in which a request ends well is its own commit.
LEMMA CommitSteps ==
  ASSUME TypeOK, [Next]_vars, NEW q \in Requests, Commits(q)
  PROVE  CommitOwners(q) \/ CommitAddresses(q)
<1>1. PICK p \in Requests : Step(p)
  BY DEF Next, vars, Commits, Running
<1>2. \/ at' = at
      \/ \E place \in {"owners", "addresses", "refused"} : Goto(p, place)
      \/ Goto(p, "done") /\ (CommitOwners(p) \/ CommitAddresses(p))
  BY <1>1, StepKinds
     DEF ReadOwners, ReadAddresses, RemoveOwner, PutOwner, OwnerItem, AddContactAddress,
         PutContactAddress, PutCompanyAddress, DeleteContactAddress, DeleteCompanyAddress,
         AddressItem, CommitOwners, CommitAddresses, Committed, Refuse
<1>3. at' # at /\ at'[q] = "done" /\ at[q] # "done"
  BY DEF Commits, Running
<1> QED BY <1>2, <1>3 DEF Goto, TypeOK

\* What a request that no other one has overtaken leaves of the owners is what it
\* has in `all`.
LEMMA CleanCommit ==
  ASSUME IInv, NEW q \in Requests, CommitOwners(q), clean[q], NEW o \in Owners
  PROVE  owner'[o] = all[q][o]
<1> USE DEF IInv, TypeOK, OwnerRows
<1>1. owner'[o] = OwnerAfter(q, o) /\ at[q] = "owners"
  BY DEF CommitOwners
<1>2. /\ word[q][o] = "untouched" => o \notin update[q] /\ o \notin gone[q]
      /\ word[q][o] # "untouched" => all[q][o] = word[q][o]
      /\ word[q][o] \in {"other", "primary"} <=> o \in update[q]
  BY <1>1 DEF WordInv
<1>3. /\ word[q][o] = "untouched" => all[q][o] = owner[o]
      /\ o \in update[q] => (o \in fresh[q] <=> owner[o] = "none" \/ o \in gone[q])
      /\ word[q][o] = "none" => owner[o] = "none" \/ o \in gone[q]
  BY <1>1 DEF OwnersInv
<1>4. CASE word[q][o] = "untouched"
  BY <1>1, <1>2, <1>3, <1>4 DEF OwnerAfter
<1>5. CASE word[q][o] = "none"
  BY <1>1, <1>2, <1>3, <1>5 DEF OwnerAfter
<1>6. CASE word[q][o] \in {"other", "primary"}
  BY <1>1, <1>2, <1>3, <1>6 DEF OwnerAfter
<1> QED BY <1>4, <1>5, <1>6

\* A request that met no other one and flagged no removal wrongly leaves one primary
\* owner at most, though numOfprimary counts items and not owners.
THEOREM OnePrimaryLeftAlways == Spec => OnePrimaryLeft
<1>1. ASSUME IInv, [Next]_vars, NEW q \in Requests,
             Commits(q), at[q] = "owners", clean[q], honest[q]
      PROVE  \A o, p \in Primaries(owner') : o = p
  <2>1. CommitOwners(q)
    BY <1>1, CommitSteps DEF IInv, CommitAddresses
  <2>2. Primaries(owner') = Primaries(all[q])
    BY <1>1, <2>1, CleanCommit DEF Primaries
  <2>3. Cardinality(Primaries(all[q])) =< numOfprimary[q] /\ numOfprimary[q] =< 1
    BY <1>1, <2>1 DEF IInv, CountInv, CommitOwners
  <2>4. IsFiniteSet(Primaries(all[q])) /\ Cardinality(Primaries(all[q])) \in Nat
    BY PrimariesFinite
  <2>5. numOfprimary[q] \in Int
    BY <1>1 DEF IInv, TypeOK
  <2>6. Cardinality(Primaries(all[q])) =< 1
    BY <2>3, <2>4, <2>5
  <2>7. \A x, y \in Primaries(all[q]) : x = y
    BY <2>4, <2>6, OneAtMost
  <2> QED BY <2>2, <2>7
<1>2. IInv /\ [Next]_vars =>
        [\A q \in Requests :
           Commits(q) /\ at[q] = "owners" /\ clean[q] /\ honest[q] =>
             \A o, p \in Primaries(owner') : o = p]_vars
  BY <1>1
<1> QED BY <1>2, Invariance, PTL DEF OnePrimaryLeft, Spec

\* The last item about an owner decides, and an owner no item names stays as he was.
THEOREM LastWordCountsAlways == Spec => LastWordCounts
<1> DEFINE kept(q, o) ==
      CASE word[q][o] = "untouched" -> owner'[o] = owner[o]
        [] OTHER -> clean[q] \/ (kind = "contact" /\ word[q][o] # "none") =>
                      owner'[o] = word[q][o]
<1>1. ASSUME IInv, [Next]_vars, NEW q \in Requests, NEW o \in Owners,
             Commits(q), at[q] = "owners"
      PROVE  kept(q, o)
  <2>1. CommitOwners(q)
    BY <1>1, CommitSteps DEF IInv, CommitAddresses
  <2>2. owner'[o] = OwnerAfter(q, o)
    BY <2>1 DEF CommitOwners
  <2>3. /\ word[q][o] = "untouched" => o \notin update[q] /\ o \notin gone[q]
        /\ word[q][o] # "untouched" => all[q][o] = word[q][o]
        /\ word[q][o] \in {"other", "primary"} <=> o \in update[q]
    BY <1>1 DEF IInv, WordInv
  <2>4. word[q][o] \in {"none", "other", "primary", "untouched"}
    BY <1>1 DEF IInv, TypeOK, OwnerRows
  <2>5. CASE word[q][o] = "untouched"
    BY <2>2, <2>3, <2>5 DEF OwnerAfter
  <2>6. CASE word[q][o] # "untouched" /\ clean[q]
    BY <1>1, <2>1, <2>3, <2>6, CleanCommit
  <2>7. CASE kind = "contact" /\ word[q][o] \in {"other", "primary"}
    BY <2>2, <2>3, <2>7 DEF OwnerAfter
  <2> QED BY <2>4, <2>5, <2>6, <2>7
<1>2. IInv /\ [Next]_vars =>
        [\A q \in Requests, o \in Owners :
           Commits(q) /\ at[q] = "owners" => kept(q, o)]_vars
  BY <1>1
<1> QED BY <1>2, Invariance, PTL DEF LastWordCounts, Spec

\* The addresses a request leaves have one default address: of a contact exactly one
\* if no other request came in between, of a company never two.
THEOREM OneDefaultLeftAlways == Spec => OneDefaultLeft
<1>1. ASSUME IInv, [Next]_vars, NEW q \in Requests, Commits(q), at[q] = "addresses",
             kind = "contact", clean[q]
      PROVE  \E i \in Ids : \A j \in Ids : addr'[j] \in Defaults <=> j = i
  <2>1. CommitAddresses(q)
    BY <1>1, CommitSteps DEF IInv, CommitOwners
  <2>2. PICK i \in Ids : \A j \in Ids : pairs[q][j] = "default" <=> j = i
    BY <2>1 DEF CommitAddresses
  <2>3. ASSUME NEW j \in Ids PROVE addr'[j] = Seen(q, j)
    <3>1. mine[q][j] # "untouched" => addr[j] # "none" \/ j \in inserted[q]
      BY <1>1 DEF IInv, FlagsInv
    <3>2. addr'[j] = AddressAfter(q, j)
      BY <2>1 DEF CommitAddresses
    <3> QED BY <1>1, <3>1, <3>2 DEF AddressAfter, LeavesAddress, Seen
  <2>4. \A j \in Ids : pairs[q][j] = "default" <=> Seen(q, j) \in Defaults
    BY <1>1 DEF IInv, FlagsInv
  <2> QED BY <2>2, <2>3, <2>4
<1>2. ASSUME IInv, [Next]_vars, NEW q \in Requests, Commits(q), at[q] = "addresses",
             kind = "company", NEW i \in Ids, NEW j \in Ids,
             addr'[i] \in Defaults, addr'[j] \in Defaults
      PROVE  i = j
  <2>1. CommitAddresses(q)
    BY <1>1, <1>2, CommitSteps DEF IInv, CommitOwners
  <2>2. CompanyInv' /\ kind' = kind
    BY <1>2, <2>1, NextIInv DEF IInv, CommitAddresses, Committed
  <2> QED BY <1>2, <2>2 DEF CompanyInv
<1>3. IInv /\ [Next]_vars =>
        [\A q \in Requests :
           Commits(q) /\ at[q] = "addresses" =>
             /\ kind = "contact" /\ clean[q] =>
                  \E i \in Ids : \A j \in Ids : addr'[j] \in Defaults <=> j = i
             /\ kind = "company" =>
                  \A i, j \in Ids : addr'[i] \in Defaults /\ addr'[j] \in Defaults => i = j]_vars
  BY <1>1, <1>2
<1> QED BY <1>3, Invariance, PTL DEF OneDefaultLeft, Spec

=============================================================================
