-------------------------- MODULE AddressesProofs --------------------------
(***************************************************************************)
(* Types of the address books, and: with one request at a time no customer *)
(* gets a second default address, for every set of customers.              *)
(***************************************************************************)
EXTENDS Addresses, SequenceTheorems, TLAPS

\* No two addresses of table t outside S are default addresses of one customer.
OneDefaultIn(t, S) ==
    \A a, b \in DOMAIN t \ S :
        /\ t[a].owner = t[b].owner
        /\ ~ t[a].deleted /\ ~ t[b].deleted
        /\ t[a].isDefault /\ t[b].isDefault
        => a = b

\* What a request is about to save keeps one default address, and what
\* SetDefaultAddress has read is still so.
FreshInv ==
    /\ TypeOK
    /\ OneDefault
    /\ \A r \in Requests :
          /\ pc[r] = "saving" =>
                OneDefaultIn(Written(tracked[r]), restored \cup BroughtBack(tracked[r]))
          /\ pc[r] = "listing" =>
                /\ target[r].id \in Ids
                /\ target[r].isDefault = address[target[r].id].isDefault

\* The new row at a's place.
Row(changes, a) ==
    [owner     |-> address[a].owner,
     isDefault |-> IF a \in DOMAIN changes.isDefault
                   THEN changes.isDefault[a] ELSE address[a].isDefault,
     deleted   |-> IF a \in DOMAIN changes.deleted
                   THEN changes.deleted[a] ELSE address[a].deleted]

-----------------------------------------------------------------------------

\* A column of new values, element by element.
LEMMA ColumnType ==
    ASSUME NEW S, NEW f \in Column(S)
    PROVE  /\ DOMAIN f \subseteq S
           /\ \A a \in DOMAIN f : f[a] \in BOOLEAN
BY DEF Column

\* Functions into BOOLEAN on a subset of S are columns.
LEMMA ColumnIntro ==
    ASSUME NEW S, NEW D \in SUBSET S, NEW f \in [D -> BOOLEAN]
    PROVE  f \in Column(S)
BY DEF Column

\* Written keeps the rows in their place and appends the inserted ones.
LEMMA WrittenRows ==
    ASSUME TypeOK, NEW changes \in Changes
    PROVE  /\ Written(changes) \in Seq(Address)
           /\ DOMAIN Written(changes) = 1..(Len(address) + Len(changes.insert))
           /\ Ids \subseteq DOMAIN Written(changes)
           /\ \A a \in Ids : Written(changes)[a] = Row(changes, a)
           /\ \A a \in DOMAIN Written(changes) \ Ids :
                 /\ a - Len(address) \in DOMAIN changes.insert
                 /\ Written(changes)[a] = changes.insert[a - Len(address)]
<1> DEFINE rows == [a \in Ids |-> Row(changes, a)]
<1>1. /\ address \in Seq(Address)
      /\ changes.insert \in Seq(Address)
      /\ changes.isDefault \in Column(Ids)
      /\ changes.deleted \in Column(Ids)
  BY DEF TypeOK, Changes
<1>2. /\ Len(address) \in Nat /\ Ids = 1..Len(address)
      /\ Len(changes.insert) \in Nat
      /\ DOMAIN changes.insert = 1..Len(changes.insert)
  BY <1>1 DEF Ids
<1>3. \A a \in Ids : address[a] \in Address
  BY <1>1, <1>2
<1>4. \A a \in Ids : Row(changes, a) \in Address
  BY <1>1, <1>3, ColumnType DEF Row, Address
<1>5. rows \in [1..Len(address) -> Address]
  BY <1>2, <1>4
<1>6. rows \in Seq(Address) /\ Len(rows) = Len(address)
  BY <1>2, <1>5
<1>7. Written(changes) = rows \o changes.insert
  BY DEF Written, Row
<1>8. /\ Written(changes) \in Seq(Address)
      /\ Len(Written(changes)) = Len(address) + Len(changes.insert)
      /\ \A i \in 1..(Len(address) + Len(changes.insert)) :
            Written(changes)[i] = IF i <= Len(address) THEN rows[i]
                                  ELSE changes.insert[i - Len(address)]
  <2>1. /\ rows \o changes.insert \in Seq(Address)
        /\ Len(rows \o changes.insert) = Len(rows) + Len(changes.insert)
        /\ \A i \in 1 .. Len(rows) + Len(changes.insert) :
              (rows \o changes.insert)[i] =
                 IF i <= Len(rows) THEN rows[i] ELSE changes.insert[i - Len(rows)]
    <3> HIDE DEF rows
    <3> QED  BY <1>1, <1>6, ConcatProperties, Zenon
  <2> HIDE DEF rows
  <2> QED  BY <1>6, <1>7, <2>1
<1>9. DOMAIN Written(changes) = 1..(Len(address) + Len(changes.insert))
  BY <1>8
<1>10. \A a \in Ids : Written(changes)[a] = Row(changes, a)
  BY <1>2, <1>8
<1>11. \A a \in DOMAIN Written(changes) \ Ids :
          /\ a - Len(address) \in DOMAIN changes.insert
          /\ Written(changes)[a] = changes.insert[a - Len(address)]
  BY <1>2, <1>8, <1>9
<1> QED
  BY <1>2, <1>8, <1>9, <1>10, <1>11

-----------------------------------------------------------------------------

\* A handler that has prepared well-formed changes leaves the types in order.
LEMMA PrepareType ==
    ASSUME TypeOK, NEW r \in Requests, NEW changes \in Changes,
           \A c, d \in Owners(changes) : c = d,
           Prepare(r, changes),
           target' \in [Requests -> [id : {0} \cup Ids, isDefault : BOOLEAN]],
           \A s \in Requests \ {r} : target'[s] = target[s]
    PROVE  TypeOK'
<1>1. /\ address' = address /\ restored' = restored
      /\ pc' = [pc EXCEPT ![r] = "saving"]
      /\ tracked' = [tracked EXCEPT ![r] = changes]
  BY DEF Prepare
<1>2. Ids' = Ids /\ Changes' = Changes
  BY <1>1 DEF Ids, Changes
<1>3. tracked' \in [Requests -> Changes]
  BY <1>1 DEF TypeOK
<1>4. ASSUME NEW s \in Requests
      PROVE  \A c, d \in Owners(tracked[s])' : c = d
  <2>1. \A c, d \in Owners(tracked'[s]) : c = d
    BY <1>1 DEF TypeOK
  <2>2. Owners(tracked[s])' = Owners(tracked'[s])
    BY <1>1, Zenon DEF Owners
  <2> QED  BY <2>1, <2>2
<1>5. \A s \in Requests : pc'[s] = "listing" => target'[s].id # 0
  BY <1>1 DEF TypeOK
<1> QED
  BY <1>1, <1>2, <1>3, <1>4, <1>5 DEF TypeOK

\* The changes the handlers prepare are well formed and within one owner.
LEMMA AddChangesType ==
    ASSUME TypeOK, NEW c \in Customers, NEW isDefault \in BOOLEAN,
           NEW changes,
           changes = [insert    |-> <<[owner |-> c, isDefault |-> isDefault,
                                       deleted |-> FALSE]>>,
                      isDefault |-> IF isDefault THEN [a \in Marked(c) |-> FALSE] ELSE <<>>,
                      deleted   |-> <<>>]
    PROVE  changes \in Changes /\ \A d, e \in Owners(changes) : d = e
<1>1. <<>> \in Column(Ids)
  BY ColumnIntro, <<>> \in [{} -> BOOLEAN]
<1>2. [a \in Marked(c) |-> FALSE] \in Column(Ids)
  BY ColumnIntro, Marked(c) \in SUBSET Ids DEF Marked
<1>3. <<[owner |-> c, isDefault |-> isDefault, deleted |-> FALSE]>> \in Seq(Address)
  BY DEF Address
<1>4. changes \in Changes
  BY <1>1, <1>2, <1>3 DEF Changes
<1>5. \A d \in Owners(changes) : d = c
  <2>1. \A a \in DOMAIN changes.isDefault : address[a].owner = c
    BY DOMAIN <<>> = {} DEF Marked
  <2>2. DOMAIN changes.deleted = {}
    OBVIOUS
  <2>3. \A i \in DOMAIN changes.insert : changes.insert[i].owner = c
    OBVIOUS
  <2> QED  BY <2>1, <2>2, <2>3 DEF Owners
<1> QED  BY <1>4, <1>5

LEMMA MarkChangesType ==
    ASSUME TypeOK, NEW c \in Customers, NEW D \in SUBSET Ids,
           \A a \in D : address[a].owner = c,
           NEW f \in [D -> BOOLEAN], NEW changes,
           changes = [NoChanges EXCEPT !.isDefault = f]
    PROVE  changes \in Changes /\ \A d, e \in Owners(changes) : d = e
<1>1. <<>> \in Column(Ids)
  BY ColumnIntro, <<>> \in [{} -> BOOLEAN]
<1>2. /\ changes.insert = <<>> /\ changes.isDefault = f /\ changes.deleted = <<>>
      /\ changes = [insert |-> <<>>, isDefault |-> f, deleted |-> <<>>]
  BY DEF NoChanges
<1>3. f \in Column(Ids)
  BY ColumnIntro
<1>4. changes \in Changes
  BY <1>1, <1>2, <1>3, <<>> \in Seq(Address) DEF Changes
<1> QED  BY <1>2, <1>4, DOMAIN <<>> = {} DEF Owners

LEMMA DeleteChangesType ==
    ASSUME TypeOK, NEW a \in Ids, NEW v \in BOOLEAN, NEW changes,
           changes = [NoChanges EXCEPT !.deleted = [b \in {a} |-> v]]
    PROVE  changes \in Changes /\ \A d, e \in Owners(changes) : d = e
<1>1. <<>> \in Column(Ids)
  BY ColumnIntro, <<>> \in [{} -> BOOLEAN]
<1>2. /\ changes.insert = <<>> /\ changes.isDefault = <<>>
      /\ changes.deleted = [b \in {a} |-> v]
      /\ changes = [insert |-> <<>>, isDefault |-> <<>>, deleted |-> [b \in {a} |-> v]]
  BY DEF NoChanges
<1>3. [b \in {a} |-> v] \in Column(Ids) /\ <<>> \in Seq(Address)
  BY ColumnIntro, {a} \in SUBSET Ids
<1>4. changes \in Changes
  BY <1>1, <1>2, <1>3 DEF Changes
<1> QED  BY <1>2, <1>4, DOMAIN <<>> = {} DEF Owners

LEMMA NoChangesType ==
    ASSUME TypeOK
    PROVE  NoChanges \in Changes /\ Owners(NoChanges) = {}
<1>1. <<>> \in Column(Ids)
  BY ColumnIntro, <<>> \in [{} -> BOOLEAN]
<1> QED  BY <1>1, DOMAIN <<>> = {} DEF NoChanges, Changes, Owners

\* A request that ends has nothing left to say; more addresses than before do
\* not disturb what the others are about to write.
LEMMA ReleaseType ==
    ASSUME TypeOK, NEW r \in Requests, Release(r),
           address' \in Seq(Address), Ids \subseteq Ids',
           \A a \in Ids : address'[a].owner = address[a].owner,
           restored' \subseteq Ids'
    PROVE  TypeOK'
<1>1. ASSUME NEW D \in SUBSET Ids, NEW f \in [D -> BOOLEAN]
      PROVE  f \in Column(Ids')
  BY ColumnIntro
<1>2. ASSUME NEW f \in Column(Ids)
      PROVE  f \in Column(Ids')
  BY <1>1 DEF Column
<1>3. ASSUME NEW changes \in Changes
      PROVE  changes \in Changes'
  BY <1>2 DEF Changes, Column
<1>4. tracked' \in [Requests -> Changes']
  <2>1. tracked' \in [Requests -> Changes]
    BY NoChangesType DEF Release, TypeOK
  <2> QED  BY <1>3, <2>1
<1>5. ASSUME NEW s \in Requests
      PROVE  \A c, d \in Owners(tracked[s])' : c = d
  <2>1. \A c, d \in Owners(tracked'[s]) : c = d
    BY NoChangesType DEF Release, TypeOK
  <2>2. tracked'[s] \in Changes
    BY NoChangesType DEF Release, TypeOK
  <2>3. /\ DOMAIN tracked'[s].isDefault \subseteq Ids
        /\ DOMAIN tracked'[s].deleted \subseteq Ids
    BY <2>2, ColumnType DEF Changes
  <2>4. Owners(tracked[s])' \subseteq Owners(tracked'[s])
    BY <2>3 DEF Owners
  <2> QED  BY <2>1, <2>4
<1>6. target' \in [Requests -> [id : {0} \cup Ids', isDefault : BOOLEAN]]
  BY DEF Release, TypeOK, NoTarget
<1> QED
  BY <1>4, <1>5, <1>6 DEF Release, TypeOK

\* SaveChanges replaces the table by a longer one with the same owners.
LEMMA SaveType ==
    ASSUME TypeOK, NEW r \in Requests, SaveChanges(r)
    PROVE  TypeOK'
<1>1. tracked[r] \in Changes /\ Release(r) /\ address' = Written(tracked[r])
  BY DEF TypeOK, SaveChanges
<1>2. /\ address' \in Seq(Address)
      /\ Ids \subseteq Ids'
      /\ \A a \in Ids : address'[a].owner = address[a].owner
  <2>1. /\ Written(tracked[r]) \in Seq(Address)
        /\ Ids \subseteq DOMAIN Written(tracked[r])
        /\ \A a \in Ids : Written(tracked[r])[a] = Row(tracked[r], a)
    BY <1>1, WrittenRows
  <2>2. Ids' = DOMAIN Written(tracked[r])
    BY <1>1 DEF Ids
  <2>3. \A a \in Ids : Row(tracked[r], a).owner = address[a].owner
    BY DEF Row
  <2>4. address' \in Seq(Address) /\ Ids \subseteq Ids'
    BY <1>1, <2>1, <2>2
  <2>5. \A a \in Ids : address'[a].owner = address[a].owner
    BY <1>1, <2>1, <2>3
  <2> QED  BY <2>4, <2>5
<1>3. BroughtBack(tracked[r]) \subseteq Ids
  BY <1>1, ColumnType DEF BroughtBack, Changes
<1>4. restored' \subseteq Ids'
  BY <1>2, <1>3 DEF SaveChanges, TypeOK
<1> QED
  BY <1>1, <1>2, <1>4, ReleaseType

\* Each step keeps the types.
LEMMA TypeStep ==
    ASSUME TypeOK, [Next]_vars
    PROVE  TypeOK'
<1>1. CASE UNCHANGED vars
  <2>1. Ids' = Ids /\ Changes' = Changes
    BY <1>1 DEF vars, Ids, Changes
  <2>2. ASSUME NEW s \in Requests
        PROVE  Owners(tracked[s])' = Owners(tracked[s])
    BY <1>1 DEF vars, Owners
  <2> QED  BY <1>1, <2>1, <2>2 DEF TypeOK, vars
<1>2. ASSUME NEW r \in Requests, NEW c \in Customers, NEW isDefault \in BOOLEAN,
             AddAddress(r, c, isDefault)
      PROVE  TypeOK'
  BY <1>2, AddChangesType, PrepareType DEF AddAddress, TypeOK
<1>3. ASSUME NEW r \in Requests, NEW c \in Customers, NEW a \in Ids,
             SetDefaultAddress(r, c, a)
      PROVE  TypeOK'
  <2>1. Ids' = Ids /\ Changes' = Changes
    BY <1>3 DEF SetDefaultAddress, Ids, Changes
  <2>2. ASSUME NEW s \in Requests
        PROVE  Owners(tracked[s])' = Owners(tracked[s])
    BY <1>3 DEF SetDefaultAddress, Owners
  <2>3. address[a] \in Address
    BY DEF TypeOK, Ids
  <2>4. target' \in [Requests -> [id : {0} \cup Ids, isDefault : BOOLEAN]]
    BY <1>3, <2>3 DEF SetDefaultAddress, TypeOK, Address
  <2>5. a # 0
    BY DEF TypeOK, Ids
  <2>6. \A s \in Requests : pc'[s] = "listing" => target'[s].id # 0
    BY <1>3, <2>5 DEF SetDefaultAddress, TypeOK
  <2>7. /\ address' = address /\ tracked' = tracked /\ restored' = restored
        /\ pc' \in [Requests -> {"idle", "listing", "saving"}]
    BY <1>3 DEF SetDefaultAddress, TypeOK
  <2> QED  BY <2>1, <2>2, <2>4, <2>6, <2>7 DEF TypeOK
<1>4. ASSUME NEW r \in Requests, NEW c \in Customers, NEW a \in Ids,
             UnsetDefaultAddress(r, c, a)
      PROVE  TypeOK'
  <2> DEFINE changes == [NoChanges EXCEPT !.isDefault = [b \in {a} |-> FALSE]]
  <2>1. \A b \in {a} : address[b].owner = c
    BY <1>4 DEF UnsetDefaultAddress
  <2>2. [b \in {a} |-> FALSE] \in [{a} -> BOOLEAN] /\ {a} \in SUBSET Ids
    OBVIOUS
  <2>3. changes \in Changes /\ \A d, e \in Owners(changes) : d = e
    <3> DEFINE D == {a}
               f == [b \in D |-> FALSE]
    <3>1. D \in SUBSET Ids /\ (\A b \in D : address[b].owner = c) /\ f \in [D -> BOOLEAN]
      BY <2>1, <2>2
    <3>2. changes = [NoChanges EXCEPT !.isDefault = f]
      OBVIOUS
    <3> HIDE DEF D, f, changes
    <3> QED  BY <3>1, <3>2, MarkChangesType
  <2>4. Prepare(r, changes) /\ target' = target
    BY <1>4 DEF UnsetDefaultAddress
  <2> HIDE DEF changes
  <2> QED  BY <2>3, <2>4, PrepareType DEF TypeOK
<1>5. ASSUME NEW r \in Requests, NEW c \in Customers, NEW a \in Ids,
             DeleteAddress(r, c, a)
      PROVE  TypeOK'
  BY <1>5, DeleteChangesType, PrepareType DEF DeleteAddress, TypeOK
<1>6. ASSUME NEW r \in Requests, NEW c \in Customers, NEW a \in Ids,
             RestoreAddress(r, c, a)
      PROVE  TypeOK'
  BY <1>6, DeleteChangesType, PrepareType DEF RestoreAddress, TypeOK
<1>7. ASSUME NEW r \in Requests, ListAddresses(r)
      PROVE  TypeOK'
  <2> DEFINE a == target[r].id
             c == address[a].owner
             D == (Marked(c) \ {a}) \cup (IF target[r].isDefault THEN {} ELSE {a})
             changes == [NoChanges EXCEPT !.isDefault = [b \in D |-> b = a]]
  <2>1. a \in Ids
    BY <1>7 DEF ListAddresses, TypeOK
  <2>2. c \in Customers
    <3>1. address[a] \in Address
      BY <2>1 DEF TypeOK, Ids
    <3> QED  BY <3>1 DEF Address
  <2>3. D \in SUBSET Ids /\ \A b \in D : address[b].owner = c
    BY <2>1 DEF Marked
  <2>5. changes \in Changes /\ \A d, e \in Owners(changes) : d = e
    <3> DEFINE f == [b \in D |-> b = a]
    <3>1. f \in [D -> BOOLEAN] /\ changes = [NoChanges EXCEPT !.isDefault = f]
      OBVIOUS
    <3> HIDE DEF D, f, changes, c, a
    <3> QED  BY <2>2, <2>3, <3>1, MarkChangesType
  <2>6. Prepare(r, changes) /\ target' = [target EXCEPT ![r] = NoTarget]
    BY <1>7 DEF ListAddresses
  <2>7. target' \in [Requests -> [id : {0} \cup Ids, isDefault : BOOLEAN]]
    BY <2>6 DEF TypeOK, NoTarget
  <2> HIDE DEF changes
  <2> QED  BY <2>5, <2>6, <2>7, PrepareType
<1>8. ASSUME NEW r \in Requests, SaveChanges(r)
      PROVE  TypeOK'
  BY <1>8, SaveType
<1>9. ASSUME NEW r \in Requests, Abort(r)
      PROVE  TypeOK'
  BY <1>9, ReleaseType DEF Abort, TypeOK, Ids
<1> QED
  BY <1>1, <1>2, <1>3, <1>4, <1>5, <1>6, <1>7, <1>8, <1>9 DEF Next, Refused

\* Every value of a variable is of its kind, and no request writes the addresses
\* of two customers, however requests interleave.
THEOREM TypeCorrect == Spec => []TypeOK
<1>1. Init => TypeOK
  <2> SUFFICES ASSUME Init
               PROVE  TypeOK
    OBVIOUS
  <2>1. address \in Seq(Address) /\ Ids = {}
    BY DEF Init, Ids
  <2>2. <<>> \in Column(Ids)
    BY ColumnIntro, <<>> \in [{} -> BOOLEAN]
  <2>3. NoChanges \in Changes /\ Owners(NoChanges) = {}
    BY <2>2, DOMAIN <<>> = {} DEF NoChanges, Changes, Owners
  <2> QED  BY <2>1, <2>3 DEF Init, TypeOK, NoTarget
<1>2. TypeOK /\ [Next]_vars => TypeOK'
  BY TypeStep
<1> QED  BY <1>1, <1>2, PTL DEF Spec

-----------------------------------------------------------------------------

\* Changes that insert nothing and give no row a mark it did not have keep one
\* default address.
LEMMA FewerMarks ==
    ASSUME TypeOK, OneDefault, NEW changes \in Changes, changes.insert = <<>>,
           \A a \in Ids \ BroughtBack(changes) :
              Row(changes, a).isDefault /\ ~ Row(changes, a).deleted
                 => address[a].isDefault /\ ~ address[a].deleted
    PROVE  OneDefaultIn(Written(changes), restored \cup BroughtBack(changes))
<1>1. Len(address) \in Nat /\ Ids = 1..Len(address)
  BY DEF TypeOK, Ids
<1>2. /\ DOMAIN Written(changes) = Ids
      /\ \A a \in Ids : Written(changes)[a] = Row(changes, a)
  BY <1>1, WrittenRows
<1>3. \A a \in Ids : Row(changes, a).owner = address[a].owner
  BY DEF Row
<1> QED
  BY <1>2, <1>3 DEF OneDefaultIn, OneDefault

\* A default address that is added takes the mark of the old one.
LEMMA AddKeepsOne ==
    ASSUME TypeOK, OneDefault, NEW c \in Customers, NEW isDefault \in BOOLEAN,
           NEW changes \in Changes,
           changes.insert = <<[owner |-> c, isDefault |-> isDefault, deleted |-> FALSE]>>,
           changes.isDefault = IF isDefault THEN [a \in Marked(c) |-> FALSE] ELSE <<>>,
           changes.deleted = <<>>
    PROVE  OneDefaultIn(Written(changes), restored \cup BroughtBack(changes))
<1>1. Len(address) \in Nat /\ Ids = 1..Len(address) /\ restored \subseteq Ids
  BY DEF TypeOK, Ids
<1>2. BroughtBack(changes) = {}
  BY DOMAIN <<>> = {} DEF BroughtBack
<1>3. /\ DOMAIN Written(changes) = 1..(Len(address) + 1)
      /\ \A a \in Ids : Written(changes)[a] = Row(changes, a)
      /\ Written(changes)[Len(address) + 1]
            = [owner |-> c, isDefault |-> isDefault, deleted |-> FALSE]
  <2>1. /\ DOMAIN Written(changes) = 1..(Len(address) + Len(changes.insert))
        /\ \A a \in Ids : Written(changes)[a] = Row(changes, a)
        /\ \A a \in DOMAIN Written(changes) \ Ids :
              Written(changes)[a] = changes.insert[a - Len(address)]
    BY WrittenRows
  <2>2. Len(changes.insert) = 1
    OBVIOUS
  <2>3. Len(address) + 1 \in DOMAIN Written(changes) \ Ids
    BY <1>1, <2>1, <2>2
  <2>4. Written(changes)[Len(address) + 1] = changes.insert[1]
    <3>1. (Len(address) + 1) - Len(address) = 1
      BY <1>1
    <3>2. Written(changes)[Len(address) + 1]
             = changes.insert[(Len(address) + 1) - Len(address)]
      BY <2>1, <2>3, Zenon
    <3> QED  BY <3>1, <3>2
  <2> QED  BY <2>1, <2>2, <2>4
<1>4. \A a \in Ids : /\ Row(changes, a).owner = address[a].owner
                     /\ Row(changes, a).deleted = address[a].deleted
  BY DOMAIN <<>> = {} DEF Row
<1>5. \A a \in Ids : Row(changes, a).isDefault => address[a].isDefault
  BY DOMAIN <<>> = {} DEF Row
<1>6. isDefault => \A a \in Ids : address[a].owner = c /\ ~ address[a].deleted
                                   => ~ Row(changes, a).isDefault
  BY DEF Row, Marked
<1> QED
  BY <1>1, <1>2, <1>3, <1>4, <1>5, <1>6 DEF OneDefaultIn, OneDefault

\* SetDefaultAddress leaves its customer with the target as the only mark.
LEMMA SetKeepsOne ==
    ASSUME TypeOK, OneDefault, NEW a \in Ids, NEW D,
           D = (Marked(address[a].owner) \ {a})
                  \cup (IF address[a].isDefault THEN {} ELSE {a}),
           NEW changes \in Changes,
           changes.insert = <<>>, changes.deleted = <<>>,
           changes.isDefault = [b \in D |-> b = a]
    PROVE  OneDefaultIn(Written(changes), restored \cup BroughtBack(changes))
<1>1. Len(address) \in Nat /\ Ids = 1..Len(address)
  BY DEF TypeOK, Ids
<1>2. /\ DOMAIN Written(changes) = Ids
      /\ \A b \in Ids : Written(changes)[b] = Row(changes, b)
  BY <1>1, WrittenRows
<1>3. \A b \in Ids : /\ Row(changes, b).owner = address[b].owner
                     /\ Row(changes, b).deleted = address[b].deleted
  BY DOMAIN <<>> = {} DEF Row
<1>4. \A b \in Ids : Row(changes, b).isDefault => b = a \/ address[b].isDefault
  BY DEF Row
<1>5. \A b \in Ids : /\ address[b].owner = address[a].owner /\ b # a
                     /\ ~ address[b].deleted
                     => ~ Row(changes, b).isDefault
  BY DEF Row, Marked
<1> QED
  BY <1>2, <1>3, <1>4, <1>5 DEF OneDefaultIn, OneDefault

-----------------------------------------------------------------------------

\* With one request at a time each step keeps FreshInv.
LEMMA FreshStep ==
    ASSUME \A r, s \in Requests : r = s, FreshInv, [Next]_vars
    PROVE  FreshInv'
<1>1. TypeOK /\ TypeOK' /\ OneDefault
  BY TypeStep DEF FreshInv
<1>2. ASSUME NEW r \in Requests, pc'[r] = "idle", OneDefault'
      PROVE  FreshInv'
  BY <1>1, <1>2 DEF FreshInv
<1>3. ASSUME NEW r \in Requests, NEW changes \in Changes, Prepare(r, changes),
             OneDefaultIn(Written(changes), restored \cup BroughtBack(changes))
      PROVE  FreshInv'
  <2>1. /\ pc'[r] = "saving" /\ tracked'[r] = changes
        /\ address' = address /\ restored' = restored
    BY <1>1, <1>3 DEF Prepare, TypeOK
  <2>2. OneDefault'
    BY <1>1, <2>1 DEF OneDefault, Ids
  <2>3. Written(tracked[r])' = Written(changes)
    BY <2>1 DEF Written, Ids
  <2>4. BroughtBack(tracked[r])' = BroughtBack(changes)
    BY <2>1 DEF BroughtBack
  <2>5. OneDefaultIn(Written(tracked[r]), restored \cup BroughtBack(tracked[r]))'
    BY <1>3, <2>1, <2>3, <2>4 DEF OneDefaultIn
  <2>6. \A s \in Requests : s = r
    OBVIOUS
  <2> QED  BY <1>1, <2>1, <2>2, <2>5, <2>6 DEF FreshInv
<1>4. CASE UNCHANGED vars
  <2>1. \A s \in Requests : Written(tracked[s])' = Written(tracked[s])
    BY <1>4 DEF vars, Written, Ids
  <2>2. \A s \in Requests : BroughtBack(tracked[s])' = BroughtBack(tracked[s])
    BY <1>4 DEF vars, BroughtBack
  <2>3. OneDefault'
    BY <1>1, <1>4 DEF vars, OneDefault, Ids
  <2> QED  BY <1>1, <1>4, <2>1, <2>2, <2>3 DEF FreshInv, vars, OneDefaultIn, Ids
<1>5. ASSUME NEW r \in Requests, NEW c \in Customers, NEW isDefault \in BOOLEAN,
             AddAddress(r, c, isDefault)
      PROVE  FreshInv'
  <2> DEFINE changes ==
          [insert    |-> <<[owner |-> c, isDefault |-> isDefault, deleted |-> FALSE]>>,
           isDefault |-> IF isDefault THEN [a \in Marked(c) |-> FALSE] ELSE <<>>,
           deleted   |-> <<>>]
  <2>1. changes \in Changes
    BY <1>1, AddChangesType
  <2>2. OneDefaultIn(Written(changes), restored \cup BroughtBack(changes))
    <3>1. /\ changes.insert = <<[owner |-> c, isDefault |-> isDefault, deleted |-> FALSE]>>
          /\ changes.isDefault = IF isDefault THEN [a \in Marked(c) |-> FALSE] ELSE <<>>
          /\ changes.deleted = <<>>
      OBVIOUS
    <3> HIDE DEF changes
    <3> QED  BY <1>1, <2>1, <3>1, AddKeepsOne
  <2>3. Prepare(r, changes)
    BY <1>5 DEF AddAddress
  <2> HIDE DEF changes
  <2> QED  BY <1>3, <2>1, <2>2, <2>3
<1>6. ASSUME NEW r \in Requests, NEW c \in Customers, NEW a \in Ids,
             SetDefaultAddress(r, c, a)
      PROVE  FreshInv'
  <2>1. /\ address' = address /\ restored' = restored /\ pc'[r] = "listing"
        /\ target'[r] = [id |-> a, isDefault |-> address[a].isDefault]
    BY <1>1, <1>6 DEF SetDefaultAddress, TypeOK
  <2>2. OneDefault'
    BY <1>1, <2>1 DEF OneDefault, Ids
  <2>3. \A s \in Requests : s = r
    OBVIOUS
  <2> QED  BY <1>1, <2>1, <2>2, <2>3 DEF FreshInv, Ids
<1>7. ASSUME NEW r \in Requests, NEW c \in Customers, NEW a \in Ids,
             UnsetDefaultAddress(r, c, a)
      PROVE  FreshInv'
  <2> DEFINE changes == [NoChanges EXCEPT !.isDefault = [b \in {a} |-> FALSE]]
  <2>1. /\ changes.insert = <<>> /\ changes.deleted = <<>>
        /\ changes.isDefault = [b \in {a} |-> FALSE]
    BY DEF NoChanges
  <2>2. changes \in Changes /\ Prepare(r, changes)
    <3>1. Prepare(r, changes)
      BY <1>7 DEF UnsetDefaultAddress
    <3>2. tracked'[r] = changes /\ tracked'[r] \in Changes' /\ Changes' = Changes
      BY <1>1, <3>1 DEF Prepare, TypeOK, Changes, Ids
    <3> QED  BY <3>1, <3>2
  <2> HIDE DEF changes
  <2>3. \A b \in Ids : Row(changes, b).isDefault /\ ~ Row(changes, b).deleted
                          => address[b].isDefault /\ ~ address[b].deleted
    BY <2>1, DOMAIN <<>> = {} DEF Row
  <2> QED  BY <1>1, <1>3, <2>1, <2>2, <2>3, FewerMarks
<1>8. ASSUME NEW r \in Requests, NEW a \in Ids, NEW v \in BOOLEAN,
             Prepare(r, [NoChanges EXCEPT !.deleted = [b \in {a} |-> v]])
      PROVE  FreshInv'
  <2> DEFINE changes == [NoChanges EXCEPT !.deleted = [b \in {a} |-> v]]
  <2>1. /\ changes.insert = <<>> /\ changes.isDefault = <<>>
        /\ changes.deleted = [b \in {a} |-> v]
    BY DEF NoChanges
  <2>2. changes \in Changes /\ Prepare(r, changes)
    BY <1>1, <1>8, DeleteChangesType
  <2> HIDE DEF changes
  <2>3. \A b \in Ids \ BroughtBack(changes) :
            Row(changes, b).isDefault /\ ~ Row(changes, b).deleted
               => address[b].isDefault /\ ~ address[b].deleted
    BY <2>1, DOMAIN <<>> = {} DEF Row, BroughtBack
  <2> QED  BY <1>1, <1>3, <2>1, <2>2, <2>3, FewerMarks
<1>9. ASSUME NEW r \in Requests, ListAddresses(r)
      PROVE  FreshInv'
  <2> DEFINE a == target[r].id
             D == (Marked(address[a].owner) \ {a})
                     \cup (IF target[r].isDefault THEN {} ELSE {a})
             changes == [NoChanges EXCEPT !.isDefault = [b \in D |-> b = a]]
  <2>1. a \in Ids /\ target[r].isDefault = address[a].isDefault
    BY <1>9 DEF ListAddresses, FreshInv
  <2>2. /\ changes.insert = <<>> /\ changes.deleted = <<>>
        /\ changes.isDefault = [b \in D |-> b = a]
    BY DEF NoChanges
  <2>3. changes \in Changes /\ Prepare(r, changes)
    <3>1. Prepare(r, changes)
      BY <1>9 DEF ListAddresses
    <3> HIDE DEF changes
    <3>2. tracked'[r] = changes /\ tracked'[r] \in Changes' /\ Changes' = Changes
      BY <1>1, <3>1 DEF Prepare, TypeOK, Changes, Ids
    <3> QED  BY <3>1, <3>2
  <2>4. D = (Marked(address[a].owner) \ {a})
               \cup (IF address[a].isDefault THEN {} ELSE {a})
    BY <2>1
  <2> HIDE DEF a, D, changes
  <2>5. OneDefaultIn(Written(changes), restored \cup BroughtBack(changes))
    BY <1>1, <2>1, <2>2, <2>3, <2>4, SetKeepsOne
  <2> QED  BY <1>3, <2>3, <2>5
<1>10. ASSUME NEW r \in Requests, SaveChanges(r)
       PROVE  FreshInv'
  <2>1. /\ address' = Written(tracked[r])
        /\ restored' = restored \cup BroughtBack(tracked[r])
        /\ pc'[r] = "idle"
    BY <1>1, <1>10 DEF SaveChanges, Release, TypeOK
  <2>2. OneDefaultIn(Written(tracked[r]), restored \cup BroughtBack(tracked[r]))
    BY <1>10 DEF SaveChanges, FreshInv
  <2>3. OneDefault'
    BY <2>1, <2>2 DEF OneDefault, OneDefaultIn, Ids
  <2> QED  BY <1>2, <2>1, <2>3
<1>11. ASSUME NEW r \in Requests, Abort(r)
       PROVE  FreshInv'
  <2>1. address' = address /\ restored' = restored /\ pc'[r] = "idle"
    BY <1>1, <1>11 DEF Abort, Release, TypeOK
  <2>2. OneDefault'
    BY <1>1, <2>1 DEF OneDefault, Ids
  <2> QED  BY <1>2, <2>1, <2>2
<1>12. ASSUME NEW r \in Requests, NEW c \in Customers, NEW a \in Ids,
              DeleteAddress(r, c, a) \/ RestoreAddress(r, c, a)
       PROVE  FreshInv'
  BY <1>8, <1>12 DEF DeleteAddress, RestoreAddress
<1> QED
  BY <1>4, <1>5, <1>6, <1>7, <1>9, <1>10, <1>11, <1>12 DEF Next, Refused

\* While requests run one after the other, no customer gets a second default
\* address, but by restoring one (AddAddressHandler.cs 16-34,
\* SetDefaultAddressHandler.cs 16-33), whatever fails in between.
THEOREM SerialOneDefault ==
    ASSUME \A r, s \in Requests : r = s
    PROVE  Spec => []OneDefault
<1>1. Init => FreshInv
  <2> SUFFICES ASSUME Init
               PROVE  FreshInv
    OBVIOUS
  <2>1. address \in Seq(Address) /\ Ids = {}
    BY DEF Init, Ids
  <2>2. <<>> \in Column(Ids)
    BY ColumnIntro, <<>> \in [{} -> BOOLEAN]
  <2>3. NoChanges \in Changes /\ Owners(NoChanges) = {}
    BY <2>2, DOMAIN <<>> = {} DEF NoChanges, Changes, Owners
  <2>4. TypeOK
    BY <2>1, <2>3 DEF Init, TypeOK, NoTarget
  <2> QED  BY <2>1, <2>4 DEF Init, FreshInv, OneDefault
<1>2. FreshInv /\ [Next]_vars => FreshInv'
  BY FreshStep
<1>3. FreshInv => OneDefault
  BY DEF FreshInv
<1> QED  BY <1>1, <1>2, <1>3, PTL DEF Spec

=============================================================================
