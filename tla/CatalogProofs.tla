---------------------------- MODULE CatalogProofs ----------------------------
(***************************************************************************)
(* Types of the catalogue, for any number of requests; while requests that *)
(* name categories do not overlap, every category has its own name; and    *)
(* what a customer is shown who pages through a list that is edited.       *)
(***************************************************************************)
EXTENDS Catalog, SequenceTheorems, FiniteSetTheorems, TLAPS

Category == [name : Names, deleted : BOOLEAN]

\* The parts of TypeOK.
RowsOK ==
    /\ category \in Seq(Category)
    /\ product \in Seq([category : Categories, deleted : BOOLEAN])

NamesOK ==
    /\ pc \in [Requests -> {"idle", "checking", "saving"}]
    /\ naming \in [Requests -> [id : {0} \cup Categories, name : Names \cup {""}]]
    /\ \A r \in Requests : pc[r] # "idle" => naming[r].name \in Names

VisitOK ==
    visit \in [place : {"away", "counted", "reading"}, filter : {0} \cup Categories,
               page : Nat \ {0}, total : Nat]

FlagsOK == twice \in BOOLEAN /\ shrunk \in BOOLEAN /\ grown \in BOOLEAN

SeenOK == seen \subseteq Products /\ steady \subseteq Listed(visit.filter)

-----------------------------------------------------------------------------

LEMMA TypeParts == TypeOK <=> RowsOK /\ NamesOK /\ VisitOK /\ FlagsOK /\ SeenOK
BY Zenon DEF TypeOK, RowsOK, NamesOK, VisitOK, FlagsOK, SeenOK, Category

LEMMA TypePartsNext ==
    TypeOK' <=> RowsOK' /\ NamesOK' /\ VisitOK' /\ FlagsOK' /\ SeenOK'
BY TypeParts, PTL

\* What a step that does not touch the customer's page leaves alone.
LEMMA ReadingKept ==
    ASSUME UNCHANGED reading
    PROVE  /\ visit' = visit /\ seen' = seen /\ steady' = steady
           /\ twice' = twice /\ shrunk' = shrunk /\ grown' = grown
BY Zenon DEF reading

\* Replacing an element of a sequence.
LEMMA ReplaceElement ==
    ASSUME NEW S, NEW s \in Seq(S), NEW i \in DOMAIN s, NEW x \in S
    PROVE  /\ [s EXCEPT ![i] = x] \in Seq(S)
           /\ DOMAIN [s EXCEPT ![i] = x] = DOMAIN s
           /\ \A j \in DOMAIN s : [s EXCEPT ![i] = x][j] = IF j = i THEN x ELSE s[j]
<1>1. Len(s) \in Nat /\ DOMAIN s = 1..Len(s) /\ \A j \in 1..Len(s) : s[j] \in S
  OBVIOUS
<1> DEFINE t == [s EXCEPT ![i] = x]
<1>2. DOMAIN t = 1..Len(s) /\ \A j \in 1..Len(s) : t[j] = IF j = i THEN x ELSE s[j]
  BY <1>1
<1>3. t \in Seq(S)
  BY <1>1, <1>2
<1> QED  BY <1>1, <1>2, <1>3

\* Appending an element to a sequence.
LEMMA AppendElement ==
    ASSUME NEW S, NEW s \in Seq(S), NEW x \in S
    PROVE  /\ Append(s, x) \in Seq(S)
           /\ DOMAIN Append(s, x) = DOMAIN s \cup {Len(s) + 1}
           /\ Len(s) + 1 \notin DOMAIN s
           /\ \A j \in DOMAIN s : Append(s, x)[j] = s[j]
           /\ Append(s, x)[Len(s) + 1] = x
OBVIOUS

\* A sequence over S is one over every larger set.
LEMMA SeqMonotone ==
    ASSUME NEW S, NEW T, S \subseteq T, NEW s \in Seq(S)
    PROVE  s \in Seq(T)
<1>1. Len(s) \in Nat /\ s \in [1..Len(s) -> S]
  OBVIOUS
<1>2. s \in [1..Len(s) -> T]
  BY <1>1
<1> QED  BY <1>1, <1>2

\* The elements of a sequence, by their positions.
LEMMA Elements ==
    ASSUME NEW S, NEW s \in Seq(S)
    PROVE  /\ Len(s) \in Nat /\ DOMAIN s = 1..Len(s)
           /\ \A i \in DOMAIN s : s[i] \in S
OBVIOUS

\* The rows of the two tables, by their keys.
LEMMA Tables ==
    ASSUME TypeOK
    PROVE  /\ category \in Seq(Category)
           /\ \A i \in Categories : category[i] \in Category
           /\ \A p \in Products : product[p] \in [category : Categories, deleted : BOOLEAN]
           /\ 0 \notin Categories
<1>1. /\ category \in Seq(Category)
      /\ product \in Seq([category : Categories, deleted : BOOLEAN])
  BY DEF TypeOK, Category
<1>2. DOMAIN category = 1..Len(category) /\ \A i \in DOMAIN category : category[i] \in Category
  BY <1>1, Elements
<1>3. \A p \in DOMAIN product : product[p] \in [category : Categories, deleted : BOOLEAN]
  BY <1>1, Elements
<1> QED
  BY <1>1, <1>2, <1>3 DEF Categories, Products

\* A product list is finite, so that its products can be counted.
LEMMA ListFinite ==
    ASSUME TypeOK, NEW f
    PROVE  Cardinality(Listed(f)) \in Nat
<1>1. Len(product) \in Nat /\ Products = 1..Len(product)
  <2>1. product \in Seq([category : Categories, deleted : BOOLEAN])
    BY DEF TypeOK
  <2> QED  BY <2>1, Elements DEF Products
<1>2. IsFiniteSet(Products)
  BY <1>1, FS_Interval
<1>3. Listed(f) \subseteq Products
  BY DEF Listed
<1>4. IsFiniteSet(Listed(f))
  BY <1>2, <1>3, FS_Subset
<1> QED
  BY <1>4, FS_CardinalityType

LEMMA InitType == Init => TypeOK
<1> SUFFICES ASSUME Init PROVE TypeOK
  OBVIOUS
<1>1. category \in Seq([name : Names, deleted : BOOLEAN])
  BY DEF Init
<1>2. product \in Seq([category : Categories, deleted : BOOLEAN])
  BY DEF Init
<1>3. RowsOK
  BY <1>1, <1>2 DEF RowsOK, Category
<1>4. NamesOK
  BY DEF Init, NamesOK, NoName
<1>5. VisitOK
  BY DEF Init, VisitOK
<1>6. FlagsOK /\ SeenOK
  BY DEF Init, FlagsOK, SeenOK
<1> QED
  BY <1>3, <1>4, <1>5, <1>6, TypeParts

-----------------------------------------------------------------------------

\* New or renamed categories leave the products and the reader's list in order.
LEMMA CategoryType ==
    ASSUME TypeOK, category' \in Seq(Category), Categories \subseteq Categories',
           pc' \in [Requests -> {"idle", "checking", "saving"}],
           naming' \in [Requests -> [id : {0} \cup Categories', name : Names \cup {""}]],
           \A r \in Requests : pc'[r] # "idle" => naming'[r].name \in Names,
           UNCHANGED <<product, reading>>
    PROVE  TypeOK'
<1>1. Products' = Products /\ Listed(visit.filter)' = Listed(visit.filter)
  BY DEF Products, Listed, InList, reading
<1>2. product' \in Seq([category : Categories', deleted : BOOLEAN])
  <2>1. product \in Seq([category : Categories, deleted : BOOLEAN])
    BY DEF TypeOK
  <2>2. [category : Categories, deleted : BOOLEAN]
          \subseteq [category : Categories', deleted : BOOLEAN]
    OBVIOUS
  <2> HIDE DEF Categories
  <2> QED
    BY <2>1, <2>2, SeqMonotone
<1>3. RowsOK'
  BY <1>2 DEF RowsOK
<1>4. NamesOK'
  BY DEF NamesOK
<1>5. VisitOK' /\ SeenOK'
  <2>1. visit' = visit /\ seen' = seen /\ steady' = steady
    BY ReadingKept, Zenon
  <2>2. VisitOK'
    <3> HIDE DEF Categories
    <3> QED  BY <2>1, TypeParts DEF VisitOK
  <2>3. product' = product
    OBVIOUS
  <2>4. SeenOK'
    BY <2>1, <2>3, TypeParts DEF SeenOK, Products, Listed, InList
  <2> QED  BY <2>2, <2>4
<1>6. FlagsOK'
  BY TypeParts, Zenon DEF FlagsOK, reading
<1> QED
  BY <1>3, <1>4, <1>5, <1>6, TypePartsNext, Zenon

\* A request that is over.
LEMMA ReleaseType ==
    ASSUME TypeOK, NEW r \in Requests, Release(r), NEW ids,
           Categories \subseteq ids
    PROVE  /\ pc' \in [Requests -> {"idle", "checking", "saving"}]
           /\ naming' \in [Requests -> [id : {0} \cup ids, name : Names \cup {""}]]
           /\ \A s \in Requests : pc'[s] # "idle" => naming'[s].name \in Names
BY DEF TypeOK, Release, NoName

\* A request that goes on to give a name.
LEMMA NameType ==
    ASSUME TypeOK, NEW r \in Requests, NEW place \in {"checking", "saving"},
           NEW id \in {0} \cup Categories, NEW name \in Names,
           Name(r, place, id, name)
    PROVE  TypeOK'
<1>1. UNCHANGED <<rows, reading>> /\ Categories' = Categories
  BY DEF Name, rows, Categories
<1>2. /\ pc' \in [Requests -> {"idle", "checking", "saving"}]
      /\ naming' \in [Requests -> [id : {0} \cup Categories', name : Names \cup {""}]]
      /\ \A s \in Requests : pc'[s] # "idle" => naming'[s].name \in Names
  BY <1>1 DEF TypeOK, Name
<1>3. category' \in Seq(Category)
  BY <1>1 DEF TypeOK, rows, Category
<1> QED
  BY <1>1, <1>2, <1>3, CategoryType DEF rows

\* What SaveName makes of the table: one category, new or old, has the name.
LEMMA SavedName ==
    ASSUME TypeOK, NEW r \in Requests, SaveName(r)
    PROVE  /\ category' \in Seq(Category)
           /\ Categories \subseteq Categories'
           /\ \E i \in Categories' :
                 /\ category'[i].name = naming[r].name
                 /\ \A j \in Categories' \ {i} :
                       j \in Categories /\ category'[j] = category[j]
<1>1. naming[r].id \in {0} \cup Categories /\ naming[r].name \in Names
  BY DEF TypeOK, SaveName
<1>2. category \in Seq(Category) /\ \A i \in Categories : category[i] \in Category
  BY Tables
<1>3. CASE naming[r].id = 0
  <2> DEFINE row == [name |-> naming[r].name, deleted |-> FALSE]
  <2>1. row \in Category /\ category' = Append(category, row)
    BY <1>1, <1>3 DEF Category, SaveName
  <2> HIDE DEF row
  <2>2. /\ category' \in Seq(Category)
        /\ Categories' = Categories \cup {Len(category) + 1}
        /\ \A j \in Categories : category'[j] = category[j]
        /\ category'[Len(category) + 1] = row
    BY <1>2, <2>1, AppendElement DEF Categories
  <2> QED
    BY <2>2 DEF row
<1>4. CASE naming[r].id # 0
  <2> DEFINE i == naming[r].id
             row == [category[i] EXCEPT !.name = naming[r].name]
  <2>1. i \in Categories /\ row \in Category /\ row.name = naming[r].name
    BY <1>1, <1>2, <1>4 DEF Category
  <2>2. category' = [category EXCEPT ![i] = row]
    BY <1>4 DEF SaveName
  <2> HIDE DEF row
  <2>3. /\ category' \in Seq(Category) /\ Categories' = Categories
        /\ \A j \in Categories : category'[j] = IF j = i THEN row ELSE category[j]
    BY <1>2, <2>1, <2>2, ReplaceElement DEF Categories
  <2> QED
    BY <2>1, <2>3
<1> QED  BY <1>3, <1>4

\* A category that is deleted or restored keeps its name.
LEMMA MarkedCategory ==
    ASSUME TypeOK, NEW i \in Categories, NEW mark \in BOOLEAN,
           category' = [category EXCEPT ![i].deleted = mark]
    PROVE  /\ category' \in Seq(Category) /\ Categories' = Categories
           /\ \A j \in Categories : category'[j].name = category[j].name
<1> DEFINE row == [category[i] EXCEPT !.deleted = mark]
<1>1. category \in Seq(Category) /\ category[i] \in Category
  BY Tables
<1>2. row \in Category /\ row.name = category[i].name
  BY <1>1 DEF Category
<1>3. category' = [category EXCEPT ![i] = row]
  OBVIOUS
<1> HIDE DEF row
<1> QED
  BY <1>1, <1>2, <1>3, ReplaceElement DEF Categories

\* A product that is edited, deleted or restored.
LEMMA RewriteType ==
    ASSUME TypeOK, NEW i \in Products,
           NEW row \in [category : Categories, deleted : BOOLEAN],
           Rewrite(i, row)
    PROVE  TypeOK'
<1>1. product \in Seq([category : Categories, deleted : BOOLEAN])
  BY DEF TypeOK
<1>2. /\ product' = [product EXCEPT ![i] = row]
      /\ UNCHANGED <<category, names, visit, seen, twice>>
      /\ steady' = IF InList(visit.filter, row) THEN steady ELSE steady \ {i}
      /\ shrunk' \in BOOLEAN /\ grown' \in BOOLEAN
  BY DEF Rewrite, TypeOK
<1>3. /\ product' \in Seq([category : Categories, deleted : BOOLEAN])
      /\ Products' = Products /\ Categories' = Categories
      /\ \A j \in Products : product'[j] = IF j = i THEN row ELSE product[j]
  BY <1>1, <1>2, ReplaceElement DEF Products, Categories
<1>4. steady' \subseteq Listed(visit.filter)'
  <2>1. ASSUME NEW j \in steady'
        PROVE  j \in Products /\ InList(visit.filter, product'[j])
    <3>1. j \in steady /\ j \in Products /\ InList(visit.filter, product[j])
      BY <1>2 DEF TypeOK, Listed
    <3>2. j = i => InList(visit.filter, row)
      BY <1>2
    <3> QED  BY <1>3, <3>1, <3>2
  <2> QED  BY <1>2, <1>3, <2>1 DEF Listed
<1> QED
  BY <1>2, <1>3, <1>4 DEF TypeOK, names

-----------------------------------------------------------------------------

LEMMA NextType == TypeOK /\ [Next]_vars => TypeOK'
<1> SUFFICES ASSUME TypeOK, [Next]_vars PROVE TypeOK'
  OBVIOUS
<1>1. ASSUME NEW r \in Requests, NEW name \in Names, CreateCategory(r, name)
      PROVE  TypeOK'
  BY <1>1, NameType DEF CreateCategory
<1>2. ASSUME NEW r \in Requests, NEW name \in Names, NEW i \in Categories,
             UpdateCategoryName(r, i, name)
      PROVE  TypeOK'
  BY <1>2, NameType DEF UpdateCategoryName
<1>3. ASSUME NEW r \in Requests, Release(r), UNCHANGED <<rows, reading>>
      PROVE  TypeOK'
  <2>1. Categories' = Categories /\ category' \in Seq(Category)
    BY <1>3 DEF TypeOK, rows, Categories, Category
  <2> QED
    BY <1>3, <2>1, ReleaseType, CategoryType DEF rows
<1>4. ASSUME NEW r \in Requests, CheckName(r) PROVE TypeOK'
  <2>1. CASE Release(r)
    BY <1>3, <1>4, <2>1 DEF CheckName
  <2>2. CASE pc' = [pc EXCEPT ![r] = "saving"] /\ UNCHANGED naming
    <3>1. UNCHANGED <<rows, reading>> /\ pc[r] = "checking"
      BY <1>4 DEF CheckName
    <3>2. Categories' = Categories /\ category' \in Seq(Category)
      BY <3>1 DEF TypeOK, rows, Categories, Category
    <3>3. /\ pc' \in [Requests -> {"idle", "checking", "saving"}]
          /\ \A s \in Requests : pc'[s] # "idle" => naming'[s].name \in Names
      BY <2>2, <3>1 DEF TypeOK
    <3> QED
      BY <2>2, <3>1, <3>2, <3>3, CategoryType DEF rows, TypeOK
  <2> QED  BY <1>4, <2>1, <2>2 DEF CheckName
<1>5. ASSUME NEW r \in Requests, SaveName(r) PROVE TypeOK'
  <2>1. Release(r) /\ UNCHANGED <<product, reading>>
    BY <1>5 DEF SaveName
  <2> QED
    BY <1>5, <2>1, SavedName, ReleaseType, CategoryType
<1>6. ASSUME NEW i \in Categories, DeleteCategory(i) \/ RestoreCategory(i)
      PROVE  TypeOK'
  <2>1. PICK mark \in BOOLEAN : category' = [category EXCEPT ![i].deleted = mark]
    BY <1>6 DEF DeleteCategory, RestoreCategory
  <2>2. UNCHANGED <<product, names, reading>>
    BY <1>6 DEF DeleteCategory, RestoreCategory
  <2>3. category' \in Seq(Category) /\ Categories' = Categories
    BY <2>1, MarkedCategory
  <2> QED
    BY <2>2, <2>3, CategoryType DEF names, TypeOK
<1>7. ASSUME NEW c \in Categories, CreateProduct(c) PROVE TypeOK'
  <2> DEFINE row == [category |-> c, deleted |-> FALSE]
  <2>1. product \in Seq([category : Categories, deleted : BOOLEAN])
    BY DEF TypeOK
  <2>2. /\ product' = Append(product, row)
        /\ row \in [category : Categories, deleted : BOOLEAN]
        /\ UNCHANGED <<category, names, reading>>
    BY <1>7 DEF CreateProduct
  <2> HIDE DEF row
  <2>3. /\ product' \in Seq([category : Categories, deleted : BOOLEAN])
        /\ Products \subseteq Products' /\ Categories' = Categories
        /\ \A j \in Products : product'[j] = product[j]
    BY <2>1, <2>2, AppendElement DEF Products, Categories
  <2>4. Listed(visit.filter) \subseteq Listed(visit.filter)'
    BY <2>2, <2>3 DEF Listed, InList, reading
  <2> QED
    BY <2>2, <2>3, <2>4 DEF TypeOK, names, reading
<1>8. ASSUME NEW i \in Products, NEW c \in Categories, UpdateProduct(i, c)
      PROVE  TypeOK'
  BY <1>8, Tables, RewriteType DEF UpdateProduct
<1>9. ASSUME NEW i \in Products, DeleteProduct(i) \/ RestoreProduct(i)
      PROVE  TypeOK'
  BY <1>9, Tables, RewriteType DEF DeleteProduct, RestoreProduct
<1>10. ASSUME NEW f \in {0} \cup Categories, NEW page \in Nat \ {0},
              CountProducts(f, page), UNCHANGED <<rows, names>>,
              seen' \subseteq Products, steady' \subseteq Listed(f),
              twice' \in BOOLEAN, shrunk' \in BOOLEAN, grown' \in BOOLEAN
       PROVE  TypeOK'
  <2>1. /\ Products' = Products /\ Categories' = Categories
        /\ Listed(f)' = Listed(f) /\ Cardinality(Listed(f)) \in Nat
    BY <1>10, ListFinite DEF rows, Products, Categories, Listed, InList
  <2>2. visit' = [place |-> "counted", filter |-> f, page |-> page,
                  total |-> Cardinality(Listed(f))]
    BY <1>10 DEF CountProducts
  <2>3. visit'.filter = f
    BY <2>2
  <2>4. Listed(visit.filter)' = Listed(f)
    BY <2>1, <2>3 DEF Listed
  <2>5. RowsOK' /\ NamesOK'
    BY <1>10, <2>1, TypeParts DEF RowsOK, NamesOK, rows, names
  <2>6. VisitOK'
    BY <2>1, <2>2 DEF VisitOK
  <2>7. SeenOK' /\ FlagsOK'
    BY <1>10, <2>1, <2>4, Zenon DEF SeenOK, FlagsOK
  <2> QED
    BY <2>5, <2>6, <2>7, TypePartsNext, Zenon
<1>11. ASSUME NEW f \in {0} \cup Categories, OpenList(f) PROVE TypeOK'
  <2>1. /\ CountProducts(f, 1) /\ UNCHANGED <<rows, names>>
        /\ seen' = {} /\ steady' = Listed(f)
        /\ twice' = FALSE /\ shrunk' = FALSE /\ grown' = FALSE
    BY <1>11, Zenon DEF OpenList
  <2>2. 1 \in Nat \ {0} /\ seen' \subseteq Products /\ steady' \subseteq Listed(f)
    BY <2>1
  <2>3. twice' \in BOOLEAN /\ shrunk' \in BOOLEAN /\ grown' \in BOOLEAN
    BY <2>1, Zenon
  <2> QED
    BY <1>10, <2>1, <2>2, <2>3, Zenon
<1>12. CASE NextPage
  <2>1. visit.filter \in {0} \cup Categories /\ visit.page + 1 \in Nat \ {0}
    BY TypeParts DEF VisitOK
  <2>2. /\ CountProducts(visit.filter, visit.page + 1)
        /\ UNCHANGED <<rows, names>>
        /\ seen' = seen /\ steady' = steady
        /\ twice' = twice /\ shrunk' = shrunk /\ grown' = grown
    BY <1>12, Zenon DEF NextPage
  <2>3. seen' \subseteq Products /\ steady' \subseteq Listed(visit.filter)
    BY <2>2, TypeParts DEF SeenOK
  <2>4. twice' \in BOOLEAN /\ shrunk' \in BOOLEAN /\ grown' \in BOOLEAN
    BY <2>2, TypeParts, Zenon DEF FlagsOK
  <2> QED
    BY <1>10, <2>1, <2>2, <2>3, <2>4, Zenon
<1>13. CASE ShowPage
  <2>1. /\ UNCHANGED <<rows, names, steady, shrunk, grown>>
        /\ visit' = [visit EXCEPT !.place = "reading"]
        /\ seen' = seen \cup Page(visit.filter, visit.page)
        /\ twice' \in BOOLEAN
    BY <1>13 DEF ShowPage, TypeOK
  <2>2. Products' = Products /\ Categories' = Categories /\ visit'.filter = visit.filter
    BY <2>1 DEF rows, Products, Categories, TypeOK
  <2>3. Listed(visit.filter)' = Listed(visit.filter)
    BY <2>1, <2>2 DEF Listed, InList, rows
  <2>4. Page(visit.filter, visit.page) \subseteq Products
    BY DEF Page, Listed
  <2> QED
    <3>1. RowsOK' /\ NamesOK'
      BY <2>1, <2>2, TypeParts DEF RowsOK, NamesOK, rows, names
    <3>2. VisitOK'
      BY <2>1, <2>2, TypeParts DEF VisitOK
    <3>3. SeenOK'
      BY <2>1, <2>2, <2>3, <2>4, TypeParts DEF SeenOK
    <3>4. FlagsOK'
      BY <2>1, TypeParts, Zenon DEF FlagsOK
    <3> QED
      BY <3>1, <3>2, <3>3, <3>4, TypePartsNext, Zenon
<1>14. CASE UNCHANGED vars
  <2>1. Products' = Products /\ Categories' = Categories
        /\ Listed(visit.filter)' = Listed(visit.filter)
    BY <1>14 DEF vars, rows, reading, Products, Categories, Listed, InList
  <2> QED
    <3>1. RowsOK' /\ NamesOK' /\ VisitOK' /\ SeenOK'
      <4>1. UNCHANGED rows /\ UNCHANGED names /\ UNCHANGED reading
        BY <1>14, Zenon DEF vars
      <4>2. visit' = visit /\ seen' = seen /\ steady' = steady
        BY <4>1, ReadingKept, Zenon
      <4>3. RowsOK' /\ NamesOK'
        BY <4>1, <2>1, TypeParts DEF rows, names, RowsOK, NamesOK
      <4> QED
        BY <4>2, <4>3, <2>1, TypeParts DEF VisitOK, SeenOK
    <3>2. FlagsOK'
      BY <1>14, TypeParts, Zenon DEF vars, reading, FlagsOK
    <3> QED
      BY <3>1, <3>2, TypePartsNext, Zenon
<1>15. ASSUME NEW r \in Requests, Abort(r) PROVE TypeOK'
  BY <1>3, <1>15 DEF Abort
<1> QED
  BY <1>1, <1>2, <1>4, <1>5, <1>6, <1>7, <1>8, <1>9, <1>11, <1>12, <1>13, <1>14, <1>15
     DEF Next

\* Every variable keeps to its type; products never lose their category.
THEOREM TypeCorrect == Spec => []TypeOK
BY InitType, NextType, PTL DEF Spec

-----------------------------------------------------------------------------

\* Overlapping requests can give one name twice; these do not overlap.
OneRequest == \A r, s \in Requests : r = s

\* The name that each request is about to save is free.
SavingFree == \A r \in Requests : pc[r] = "saving" => ~ NameTaken(naming[r].name)

LEMMA NamesStep ==
    ASSUME OneRequest, TypeOK, UniqueNames, SavingFree, [Next]_vars
    PROVE  UniqueNames' /\ SavingFree'
<1>1. ASSUME Categories' = Categories, UNCHANGED names,
             \A j \in Categories : category'[j].name = category[j].name
      PROVE  UniqueNames' /\ SavingFree'
  <2>1. pc' = pc /\ naming' = naming
    BY <1>1 DEF names
  <2>2. UniqueNames'
    BY <1>1 DEF UniqueNames
  <2>3. SavingFree'
    BY <1>1, <2>1 DEF SavingFree, NameTaken
  <2> QED  BY <2>2, <2>3
<1>2. ASSUME NEW r \in Requests, UNCHANGED category,
             pc'[r] = "saving" => ~ NameTaken(naming'[r].name)
      PROVE  UniqueNames' /\ SavingFree'
  <2>1. UniqueNames'
    BY <1>2 DEF UniqueNames, Categories
  <2>2. SavingFree'
    BY <1>2 DEF SavingFree, NameTaken, Categories, OneRequest
  <2> QED  BY <2>1, <2>2
<1>3. pc \in [Requests -> {"idle", "checking", "saving"}]
      /\ naming \in [Requests -> [id : {0} \cup Categories, name : Names \cup {""}]]
  BY TypeParts DEF NamesOK
<1>4. ASSUME NEW r \in Requests, NEW name \in Names, CreateCategory(r, name)
      PROVE  UniqueNames' /\ SavingFree'
  <2>1. UNCHANGED category /\ ~ NameTaken(name) /\ naming'[r].name = name
    BY <1>3, <1>4 DEF CreateCategory, Name, rows
  <2> QED  BY <1>2, <2>1
<1>5. ASSUME NEW r \in Requests, NEW name \in Names, NEW i \in Categories,
             UpdateCategoryName(r, i, name)
      PROVE  UniqueNames' /\ SavingFree'
  <2>1. UNCHANGED category /\ pc'[r] = "checking"
    BY <1>3, <1>5 DEF UpdateCategoryName, Name, rows
  <2> QED  BY <1>2, <2>1
<1>6. ASSUME NEW r \in Requests, CheckName(r)
      PROVE  UniqueNames' /\ SavingFree'
  <2>1. UNCHANGED category /\ (pc'[r] = "saving" => ~ NameTaken(naming'[r].name))
    BY <1>3, <1>6 DEF CheckName, Release, rows
  <2> QED  BY <1>2, <2>1
<1>7. ASSUME NEW r \in Requests, Abort(r)
      PROVE  UniqueNames' /\ SavingFree'
  <2>1. UNCHANGED category /\ pc'[r] = "idle"
    BY <1>3, <1>7 DEF Abort, Release, rows
  <2> QED  BY <1>2, <2>1
<1>8. ASSUME NEW r \in Requests, SaveName(r)
      PROVE  UniqueNames' /\ SavingFree'
  <2>1. ~ NameTaken(naming[r].name) /\ pc'[r] = "idle"
    BY <1>3, <1>8 DEF SavingFree, SaveName, Release
  <2>2. PICK i \in Categories' :
           /\ category'[i].name = naming[r].name
           /\ \A j \in Categories' \ {i} :
                 j \in Categories /\ category'[j] = category[j]
    BY <1>8, SavedName
  <2>3. \A j \in Categories' \ {i} :
           j \in Categories /\ category'[j].name = category[j].name
                            /\ category'[j].name # category'[i].name
    BY <2>1, <2>2 DEF NameTaken
  <2>4. UniqueNames'
    BY <2>3 DEF UniqueNames
  <2>5. SavingFree'
    BY <2>1 DEF SavingFree, OneRequest
  <2> QED  BY <2>4, <2>5
<1>9. ASSUME NEW i \in Categories, DeleteCategory(i) \/ RestoreCategory(i)
      PROVE  UniqueNames' /\ SavingFree'
  <2>1. PICK mark \in BOOLEAN : category' = [category EXCEPT ![i].deleted = mark]
    BY <1>9 DEF DeleteCategory, RestoreCategory
  <2>2. UNCHANGED names
    BY <1>9 DEF DeleteCategory, RestoreCategory
  <2> QED
    BY <1>1, <2>1, <2>2, MarkedCategory
<1>10. ASSUME UNCHANGED <<category, names>>
       PROVE  UniqueNames' /\ SavingFree'
  BY <1>1, <1>10 DEF Categories
<1>11. CASE \E c \in Categories :
               CreateProduct(c) \/ \E i \in Products : UpdateProduct(i, c)
  BY <1>10, <1>11, Zenon DEF CreateProduct, UpdateProduct, Rewrite
<1>12. CASE \E i \in Products : DeleteProduct(i) \/ RestoreProduct(i)
  BY <1>10, <1>12, Zenon DEF DeleteProduct, RestoreProduct, Rewrite
<1>13. CASE (\E f \in {0} \cup Categories : OpenList(f)) \/ ShowPage \/ NextPage
  <2>1. UNCHANGED <<rows, names>>
    BY <1>13, Zenon DEF OpenList, ShowPage, NextPage
  <2> QED
    BY <1>10, <2>1 DEF rows
<1>14. CASE UNCHANGED vars
  <2>1. UNCHANGED rows /\ UNCHANGED names
    BY <1>14, Zenon DEF vars
  <2> QED
    BY <1>10, <2>1 DEF rows
<1> QED
  BY <1>4, <1>5, <1>6, <1>7, <1>8, <1>9, <1>11, <1>12, <1>13, <1>14, Zenon DEF Next

\* While one request at a time creates or renames categories, no two of them
\* have the same name, whatever is deleted and restored meanwhile.
THEOREM SerialUniqueNames == OneRequest => (Spec => []UniqueNames)
<1> SUFFICES ASSUME OneRequest PROVE Spec => []UniqueNames
  OBVIOUS
<1>1. Init => UniqueNames /\ SavingFree
  BY DEF Init, UniqueNames, SavingFree, Categories
<1>2. TypeOK /\ UniqueNames /\ SavingFree /\ [Next]_vars => UniqueNames' /\ SavingFree'
  BY NamesStep
<1> QED
  BY <1>1, <1>2, TypeCorrect, PTL DEF Spec

-----------------------------------------------------------------------------
(* The reader.                                                              *)

\* The products of list L up to product i: i stands at their number.
UpTo(L, i) == {j \in L : j <= i}
Position(L, i) == Cardinality(UpTo(L, i))

\* The list the customer pages through, and the pages shown of it.
List == Listed(visit.filter)
Shown == IF visit.place = "reading" THEN visit.page ELSE visit.page - 1

\* Products that were shown stand in the pages shown, unless an old product came in.
SeenStay ==
    ~ grown => /\ ~ twice
               /\ \A i \in seen \cap List : Position(List, i) <= Shown * PageSize

\* Products that were there all the time and stand in the pages shown were
\* shown, and all of them are within the last count.
SteadySeen ==
    ~ grown /\ ~ shrunk =>
        \A i \in steady : /\ Position(List, i) <= Shown * PageSize => i \in seen
                          /\ Position(List, i) <= visit.total

ReadInv == TypeOK /\ SeenStay /\ SteadySeen

\* The product ids are numbers, and finitely many.
LEMMA ProductIds ==
    ASSUME TypeOK
    PROVE  Products \subseteq Nat /\ IsFiniteSet(Products) /\ Products = 1..Len(product)
           /\ Len(product) \in Nat
<1>1. Len(product) \in Nat /\ Products = 1..Len(product)
  <2>1. product \in Seq([category : Categories, deleted : BOOLEAN])
    BY DEF TypeOK
  <2> QED  BY <2>1, Elements DEF Products
<1> QED  BY <1>1, FS_Interval

\* Positions in a list count from one and do not exceed its length.
LEMMA PositionBounds ==
    ASSUME TypeOK, NEW L \in SUBSET Products, NEW i \in Products
    PROVE  /\ IsFiniteSet(L) /\ Cardinality(L) \in Nat
           /\ IsFiniteSet(UpTo(L, i)) /\ Position(L, i) \in Nat
           /\ Position(L, i) <= Cardinality(L)
           /\ i \in L => Position(L, i) >= 1
<1>1. IsFiniteSet(L)
  BY ProductIds, FS_Subset
<1>2. UpTo(L, i) \in SUBSET L
  BY DEF UpTo
<1>3. /\ IsFiniteSet(UpTo(L, i)) /\ Cardinality(UpTo(L, i)) <= Cardinality(L)
  BY <1>1, <1>2, FS_Subset
<1>4. Cardinality(L) \in Nat /\ Cardinality(UpTo(L, i)) \in Nat
  BY <1>1, <1>3, FS_CardinalityType
<1>5. ASSUME i \in L
      PROVE  Cardinality(UpTo(L, i)) >= 1
  <2>1. i \in UpTo(L, i)
    BY <1>5, ProductIds DEF UpTo
  <2>2. Cardinality(UpTo(L, i)) # 0
    BY <1>3, <2>1, FS_EmptySet
  <2> QED  BY <1>4, <2>2
<1> QED  BY <1>1, <1>3, <1>4, <1>5 DEF Position

\* In a shorter list no product stands further back.
LEMMA PositionShrinks ==
    ASSUME TypeOK, NEW L \in SUBSET Products, NEW M \in SUBSET L, NEW i \in Products
    PROVE  Position(M, i) <= Position(L, i)
<1>1. UpTo(M, i) \in SUBSET UpTo(L, i)
  BY DEF UpTo
<1>2. IsFiniteSet(UpTo(L, i))
  BY PositionBounds
<1> QED  BY <1>1, <1>2, FS_Subset DEF Position

\* New products come last and move no other.
LEMMA PositionStays ==
    ASSUME TypeOK, NEW L \in SUBSET Products, NEW M, L \subseteq M,
           \A n \in M \ L : \A j \in Products : n \in Nat /\ j < n, NEW i \in Products
    PROVE  Position(M, i) = Position(L, i)
<1>1. ASSUME NEW n \in M \ L
      PROVE  ~(n <= i)
  <2>1. n \in Nat /\ i \in Nat /\ i < n
    BY ProductIds
  <2> QED  BY <2>1
<1>2. UpTo(M, i) = UpTo(L, i)
  BY <1>1 DEF UpTo
<1> QED  BY <1>2 DEF Position

\* Dividing and rounding up.
LEMMA RoundedUp ==
    ASSUME NEW n \in Nat \ {0}, NEW t \in Nat, NEW p \in Nat, p >= (t + n - 1) \div n
    PROVE  t <= p * n
<1>1. PICK x \in Nat : x = t + n - 1
  OBVIOUS
<1>2. PICK q \in Int : q = x \div n
  OBVIOUS
<1>3. n * q > x - n
  BY <1>2
<1>4. q * n >= t
  BY <1>1, <1>3
<1>5. p * n >= q * n
  BY <1>1, <1>2
<1>6. q * n \in Int /\ p * n \in Int
  OBVIOUS
<1> QED  BY <1>4, <1>5, <1>6

\* The pages up to the last one hold as many products as were counted.
LEMMA LastPageHoldsAll ==
    ASSUME TypeOK, visit.page >= LastPage
    PROVE  visit.total <= visit.page * PageSize
<1>1. visit.total \in Nat /\ visit.page \in Nat
  BY DEF TypeOK
<1>2. visit.page >= (visit.total + PageSize - 1) \div PageSize
  BY DEF LastPage
<1> QED  BY <1>1, <1>2, PageSizeIsPositive, RoundedUp

\* A customer's page stands after the pages shown.
LEMMA ShownType ==
    ASSUME TypeOK
    PROVE  /\ Shown \in Nat /\ Shown * PageSize \in Nat
           /\ List \subseteq Products /\ seen \subseteq Products /\ steady \subseteq List
           /\ visit.page \in Nat \ {0} /\ visit.total \in Nat
<1>1. visit.page \in Nat \ {0} /\ visit.total \in Nat
  BY DEF TypeOK
<1>2. Shown \in Nat
  BY <1>1 DEF Shown
<1>3. Shown * PageSize \in Nat
  BY <1>2, PageSizeIsPositive
<1> QED  BY <1>1, <1>2, <1>3 DEF TypeOK, List, Listed

\* What a step that is not the reader's does to his list: nothing, or it puts new
\* products at its end, or it is recorded as a loss or a gain.
ListChange(L, M) ==
    \/ M = L
    \/ L \subseteq M /\ \A n \in M \ L : \A j \in Products : n \in Nat /\ j < n
    \/ M \subseteq L /\ shrunk'
    \/ grown'

\* The step of an editor, as the reader sees it.
EditStep ==
    /\ visit' = visit /\ seen' = seen /\ twice' = twice
    /\ steady' \subseteq steady
    /\ (grown => grown') /\ (shrunk => shrunk')
    /\ ListChange(List, List')

\* Steps that leave the products alone.
LEMMA RowsKept ==
    ASSUME UNCHANGED <<product, reading>>
    PROVE  EditStep
<1>1. /\ visit' = visit /\ seen' = seen /\ steady' = steady
      /\ twice' = twice /\ shrunk' = shrunk /\ grown' = grown
  BY ReadingKept
<1>2. List' = List
  BY <1>1 DEF List, Listed, InList, Products
<1> QED  BY <1>1, <1>2 DEF EditStep, ListChange

\* A product's new row puts it into the list, or out of it, or neither.
LEMMA RewriteEdits ==
    ASSUME TypeOK, NEW i \in Products, NEW row, Rewrite(i, row)
    PROVE  EditStep
<1>1. /\ visit' = visit /\ seen' = seen /\ twice' = twice /\ steady' \subseteq steady
      /\ product' = [product EXCEPT ![i] = row]
      /\ shrunk' = (shrunk \/ (i \in List /\ ~InList(visit.filter, row)))
      /\ grown' = (grown \/ (i \notin List /\ InList(visit.filter, row)))
  BY DEF Rewrite, List
<1>2. Products' = Products /\ product'[i] = row
      /\ \A j \in Products : j # i => product'[j] = product[j]
  BY <1>1 DEF Products
<1>3. \A j : j \in List' <=> j \in Products /\ (IF j = i THEN InList(visit.filter, row)
                                                ELSE j \in List)
  <2> SUFFICES ASSUME NEW j
               PROVE  j \in List' <=> j \in Products /\ (IF j = i THEN InList(visit.filter, row)
                                                          ELSE j \in List)
    OBVIOUS
  <2>1. j \in List' <=> j \in Products /\ InList(visit.filter, product'[j])
    BY <1>1, <1>2 DEF List, Listed, InList
  <2>2. j \in List <=> j \in Products /\ InList(visit.filter, product[j])
    BY DEF List, Listed
  <2> QED  BY <1>2, <2>1, <2>2
<1>4. ListChange(List, List')
  <2>1. CASE (i \in List) <=> InList(visit.filter, row)
    <3>1. List' = List
      BY <1>3, <2>1 DEF List, Listed
    <3> QED  BY <3>1 DEF ListChange
  <2>2. CASE i \in List /\ ~InList(visit.filter, row)
    <3>1. List' \subseteq List /\ shrunk'
      BY <1>1, <1>3, <2>2
    <3> QED  BY <3>1 DEF ListChange
  <2>3. CASE i \notin List /\ InList(visit.filter, row)
    <3>1. grown'
      BY <1>1, <2>3
    <3> QED  BY <3>1 DEF ListChange
  <2> QED  BY <2>1, <2>2, <2>3
<1> QED  BY <1>1, <1>4 DEF EditStep

\* A new product comes last, if it is in the list at all.
LEMMA CreateEdits ==
    ASSUME TypeOK, NEW c \in Categories, CreateProduct(c)
    PROVE  EditStep
<1>1. UNCHANGED reading
  BY DEF CreateProduct
<1>2. /\ visit' = visit /\ seen' = seen /\ steady' = steady
      /\ twice' = twice /\ shrunk' = shrunk /\ grown' = grown
  BY <1>1, ReadingKept
<1>3. PICK row \in [category : Categories, deleted : BOOLEAN] : product' = Append(product, row)
  BY DEF CreateProduct
<1>4. product \in Seq([category : Categories, deleted : BOOLEAN])
  BY DEF TypeOK
<1>5. /\ Products' = Products \cup {Len(product) + 1}
      /\ \A j \in Products : product'[j] = product[j]
  BY <1>3, <1>4, AppendElement DEF Products
<1>6. \A j \in Products : Len(product) + 1 \in Nat /\ j < Len(product) + 1
  BY ProductIds
<1>7. List \subseteq List' /\ \A n \in List' \ List : n = Len(product) + 1
  <2>1. \A j \in Products : j \in List' <=> j \in List
    BY <1>2, <1>5 DEF List, Listed, InList
  <2>2. List \subseteq Products /\ List' \subseteq Products'
    BY DEF List, Listed
  <2> QED  BY <1>5, <2>1, <2>2
<1>8. ListChange(List, List')
  BY <1>6, <1>7 DEF ListChange
<1> QED  BY <1>2, <1>8 DEF EditStep

\* A step of Next is the reader's, or an editor's.
LEMMA Steps ==
    ASSUME TypeOK, [Next]_vars
    PROVE  EditStep \/ ShowPage \/ NextPage \/ \E f \in {0} \cup Categories : OpenList(f)
<1>1. ASSUME NEW r \in Requests, NEW name \in Names,
             CreateCategory(r, name) \/ \E i \in Categories : UpdateCategoryName(r, i, name)
      PROVE  EditStep
  BY <1>1, RowsKept DEF CreateCategory, UpdateCategoryName, Name, rows
<1>2. ASSUME NEW r \in Requests, CheckName(r) \/ SaveName(r) \/ Abort(r)
      PROVE  EditStep
  BY <1>2, RowsKept DEF CheckName, SaveName, Abort, rows
<1>3. ASSUME NEW c \in Categories, DeleteCategory(c) \/ RestoreCategory(c)
      PROVE  EditStep
  BY <1>3, RowsKept DEF DeleteCategory, RestoreCategory
<1>4. ASSUME NEW i \in Products,
             DeleteProduct(i) \/ RestoreProduct(i) \/ \E c \in Categories : UpdateProduct(i, c)
      PROVE  EditStep
  BY <1>4, RewriteEdits DEF DeleteProduct, RestoreProduct, UpdateProduct
<1>5. CASE UNCHANGED vars
  BY <1>5, RowsKept DEF vars, rows
<1> QED  BY <1>1, <1>2, <1>3, <1>4, <1>5, CreateEdits DEF Next

\* Editors keep what is known of the products shown.
LEMMA EditKeeps ==
    ASSUME ReadInv, TypeOK', EditStep
    PROVE  SeenStay' /\ SteadySeen'
<1>1. PICK L, M : L = List /\ M = List'
  OBVIOUS
<1>2. PICK k, t : k = Shown * PageSize /\ t = visit.total
  OBVIOUS
<1>3. /\ L \in SUBSET Products /\ seen \subseteq Products /\ steady \subseteq L
      /\ k \in Nat /\ t \in Nat
  BY <1>1, <1>2, ShownType DEF ReadInv
<1>4. /\ (Shown * PageSize)' = k /\ visit'.total = t /\ seen' = seen /\ twice' = twice
      /\ steady' \subseteq steady
  BY <1>2 DEF EditStep, Shown
<1>5. TypeOK /\ ListChange(L, M)
  BY <1>1 DEF ReadInv, EditStep
<1>6. ASSUME ~ grown'
      PROVE  ~ twice' /\ \A i \in seen' \cap M : Position(M, i) <= k
  <2>1. ~ grown /\ ~ twice /\ \A i \in seen \cap L : Position(L, i) <= k
    BY <1>1, <1>2, <1>6 DEF ReadInv, SeenStay, EditStep
  <2>2. ASSUME NEW i \in seen \cap M
        PROVE  Position(M, i) <= k
    <3>1. i \in Products
      BY <1>3
    <3>2. CASE M = L
      BY <2>1, <3>2
    <3>3. CASE L \subseteq M /\ \A n \in M \ L : \A j \in Products : n \in Nat /\ j < n
      <4>1. i \in L
        <5>1. ASSUME i \in M \ L
              PROVE  FALSE
          <6>1. i \in Nat /\ i < i
            BY <3>1, <3>3, <5>1
          <6> QED  BY <6>1
        <5> QED  BY <5>1
      <4>2. Position(M, i) = Position(L, i)
        BY <1>3, <1>5, <3>1, <3>3, PositionStays
      <4> QED  BY <2>1, <4>1, <4>2
    <3>4. CASE M \subseteq L
      <4>1. Position(M, i) <= Position(L, i)
        BY <1>3, <1>5, <3>1, <3>4, PositionShrinks
      <4>2. Position(L, i) <= k /\ Position(L, i) \in Nat
        BY <1>3, <1>5, <2>1, <3>1, <3>4, PositionBounds
      <4>3. Position(M, i) \in Nat
        <5>1. M \in SUBSET Products
          BY <1>3, <3>4
        <5> QED  BY <1>5, <3>1, <5>1, PositionBounds
      <4> QED  BY <1>3, <4>1, <4>2, <4>3
    <3> QED  BY <1>5, <1>6, <3>2, <3>3, <3>4 DEF ListChange
  <2> QED  BY <1>4, <2>1, <2>2
<1>7. ASSUME ~ grown', ~ shrunk'
      PROVE  \A i \in steady' : /\ Position(M, i) <= k => i \in seen'
                                /\ Position(M, i) <= t
  <2>1. \A i \in steady : (Position(L, i) <= k => i \in seen) /\ Position(L, i) <= t
    BY <1>1, <1>2, <1>7 DEF ReadInv, SteadySeen, EditStep
  <2>2. ASSUME NEW i \in steady
        PROVE  Position(M, i) = Position(L, i)
    <3>1. CASE M = L
      BY <3>1
    <3>2. CASE L \subseteq M /\ \A n \in M \ L : \A j \in Products : n \in Nat /\ j < n
      BY <1>3, <1>5, <3>2, PositionStays
    <3> QED  BY <1>5, <1>7, <3>1, <3>2 DEF ListChange
  <2> QED  BY <1>4, <2>1, <2>2
<1> QED  BY <1>1, <1>4, <1>6, <1>7 DEF SeenStay, SteadySeen

\* What the reader's own steps leave of his list and of the flags.
LEMMA OpenKeeps ==
    ASSUME ReadInv, NEW f \in {0} \cup Categories, OpenList(f)
    PROVE  SeenStay' /\ SteadySeen'
<1>1. PICK L : L = Listed(f)
  OBVIOUS
<1>2. TypeOK /\ L \in SUBSET Products
  BY <1>1 DEF ReadInv, Listed
<1>3. /\ visit' = [place |-> "counted", filter |-> f, page |-> 1, total |-> Cardinality(L)]
      /\ seen' = {} /\ ~ twice' /\ steady' = L /\ product' = product
  BY <1>1 DEF OpenList, CountProducts, rows
<1>4. List' = L
  BY <1>1, <1>3 DEF List, Listed, InList, Products
<1>5. Shown' = 0
  BY <1>3 DEF Shown
<1>6. (Shown * PageSize)' = 0
  BY <1>5, PageSizeIsPositive
<1>7. SeenStay'
  BY <1>3 DEF SeenStay
<1>8. ASSUME NEW i \in L
      PROVE  Position(L, i) <= Cardinality(L) /\ ~(Position(L, i) <= 0)
  <2>1. i \in Products
    BY <1>2
  <2>2. Position(L, i) \in Nat /\ Position(L, i) >= 1 /\ Position(L, i) <= Cardinality(L)
    BY <1>2, <2>1, PositionBounds
  <2> QED  BY <2>2
<1>9. SteadySeen'
  BY <1>3, <1>4, <1>6, <1>8 DEF SteadySeen
<1> QED  BY <1>7, <1>9

\* The page that is shown holds the products that stand next.
LEMMA ShowKeeps ==
    ASSUME ReadInv, ShowPage
    PROVE  SeenStay' /\ SteadySeen'
<1> DEFINE page == Page(visit.filter, visit.page)
<1>1. PICK L : L = List
  OBVIOUS
<1>2. TypeOK /\ visit.place = "counted" /\ L \in SUBSET Products
  BY <1>1, ShownType DEF ReadInv, ShowPage
<1>3. /\ visit' = [visit EXCEPT !.place = "reading"]
      /\ seen' = seen \cup page /\ twice' = (twice \/ seen \cap page # {})
      /\ steady' = steady /\ shrunk' = shrunk /\ grown' = grown /\ product' = product
  BY DEF ShowPage, rows
<1>4. /\ visit'.place = "reading" /\ visit'.page = visit.page /\ visit'.total = visit.total
      /\ visit'.filter = visit.filter
  BY <1>2, <1>3 DEF TypeOK
<1>5. List' = L
  BY <1>1, <1>3, <1>4 DEF List, Listed, InList, Products
<1>6. PICK k, m, t : k = (visit.page - 1) * PageSize /\ m = visit.page * PageSize /\ t = visit.total
  OBVIOUS
<1>7. Shown * PageSize = k /\ (Shown * PageSize)' = m
  BY <1>2, <1>4, <1>6 DEF Shown
<1>8. k \in Nat /\ m \in Nat /\ k <= m /\ t \in Nat
  <2>1. visit.page \in Nat \ {0} /\ visit.total \in Nat /\ PageSize \in Nat
    BY <1>2, PageSizeIsPositive DEF TypeOK
  <2>2. k = visit.page * PageSize - PageSize
    BY <1>6, <2>1
  <2>3. k \in Nat
    BY <1>7, <1>2, ShownType
  <2> QED  BY <1>6, <2>1, <2>2, <2>3
<1>9. page = {i \in L : Position(L, i) > k /\ Position(L, i) <= m}
  BY <1>1, <1>6 DEF Page, List, Position, UpTo
<1>10. \A i \in L : Position(L, i) \in Nat
  BY <1>2, PositionBounds
<1> HIDE DEF page
<1>11. ASSUME ~ grown
       PROVE  ~ twice' /\ \A i \in seen' \cap L : Position(L, i) <= m
  <2>1. ~ twice /\ \A i \in seen \cap L : Position(L, i) <= k
    BY <1>1, <1>7, <1>11 DEF ReadInv, SeenStay
  <2>2. ASSUME NEW i \in seen, i \in page
        PROVE  FALSE
    <3>1. i \in L /\ Position(L, i) > k /\ Position(L, i) <= k
      BY <1>9, <2>1, <2>2
    <3> QED  BY <1>8, <1>10, <3>1
  <2>3. ASSUME NEW i \in seen' \cap L
        PROVE  Position(L, i) <= m
    <3>1. CASE i \in page
      BY <1>9, <3>1
    <3>2. CASE i \in seen
      BY <1>8, <1>10, <2>1, <2>3, <3>2
    <3> QED  BY <1>3, <3>1, <3>2
  <2> QED  BY <1>3, <2>1, <2>2, <2>3
<1>12. ASSUME ~ grown, ~ shrunk, NEW i \in steady
       PROVE  (Position(L, i) <= m => i \in seen') /\ Position(L, i) <= t
  <2>1. /\ Position(L, i) <= k => i \in seen
        /\ Position(L, i) <= t
    BY <1>1, <1>6, <1>7, <1>12 DEF ReadInv, SteadySeen
  <2>2. i \in L
    BY <1>1, <1>2, ShownType
  <2>3. Position(L, i) <= k \/ Position(L, i) > k
    BY <1>8, <1>10, <2>2
  <2> QED  BY <1>3, <1>9, <2>1, <2>2, <2>3
<1>13. SeenStay'
  BY <1>3, <1>5, <1>7, <1>11 DEF SeenStay
<1>14. SteadySeen'
  BY <1>3, <1>4, <1>5, <1>6, <1>7, <1>12 DEF SteadySeen
<1> QED  BY <1>13, <1>14

\* With the next page the products are counted again.
LEMMA NextPageKeeps ==
    ASSUME ReadInv, NextPage
    PROVE  SeenStay' /\ SteadySeen'
<1>1. PICK L : L = List
  OBVIOUS
<1>2. TypeOK /\ visit.place = "reading" /\ L \in SUBSET Products /\ steady \subseteq L
  BY <1>1, ShownType DEF ReadInv, NextPage
<1>3. /\ visit' = [place |-> "counted", filter |-> visit.filter, page |-> visit.page + 1,
                   total |-> Cardinality(L)]
      /\ seen' = seen /\ twice' = twice
      /\ steady' = steady /\ shrunk' = shrunk /\ grown' = grown /\ product' = product
  BY <1>1 DEF NextPage, CountProducts, rows, List
<1>4. List' = L
  BY <1>1, <1>3 DEF List, Listed, InList, Products
<1>5. Shown' = Shown
  <2>1. visit.page \in Nat
    BY <1>2, ShownType
  <2>2. visit'.place = "counted" /\ visit'.page = visit.page + 1
    BY <1>3
  <2>3. Shown' = visit'.page - 1 /\ Shown = visit.page
    BY <1>2, <2>2 DEF Shown
  <2> QED  BY <2>1, <2>2, <2>3
<1>6. \A i \in steady : Position(L, i) <= Cardinality(L)
  BY <1>2, PositionBounds
<1>7. SeenStay'
  BY <1>1, <1>3, <1>4, <1>5 DEF SeenStay, ReadInv
<1>8. SteadySeen'
  BY <1>1, <1>3, <1>4, <1>5, <1>6 DEF SteadySeen, ReadInv
<1> QED  BY <1>7, <1>8

\* The invariant of the reader is inductive.
LEMMA ReadStep == ReadInv /\ [Next]_vars => ReadInv'
<1> SUFFICES ASSUME ReadInv, [Next]_vars PROVE ReadInv'
  OBVIOUS
<1>1. TypeOK /\ TypeOK'
  BY NextType DEF ReadInv
<1>2. SeenStay' /\ SteadySeen'
  BY <1>1, Steps, EditKeeps, OpenKeeps, ShowKeeps, NextPageKeeps
<1> QED  BY <1>1, <1>2 DEF ReadInv

\* It holds at the start, when nothing was shown.
LEMMA ReadInit == Init => ReadInv
BY InitType DEF Init, ReadInv, SeenStay, SteadySeen

\* No product is shown on two pages, unless an old one joined the list in
\* between: whatever is added, deleted and moved away, and although the page and
\* the count are two queries (ProductReadRepository.cs 58-80).
THEOREM NothingTwice == Spec => []ReaderSeesNothingTwice
<1>1. ReadInv => ReaderSeesNothingTwice
  BY DEF ReadInv, SeenStay, ReaderSeesNothingTwice
<1> QED  BY <1>1, ReadInit, ReadStep, PTL DEF Spec

\* A customer who pages to the end has been shown every product that was there
\* all the time, unless one left the list or an old one joined it meanwhile: for
\* any page size, and however many products are added
\* (ProductReadRepository.cs 58-80, Index.cshtml).
THEOREM NothingMissed == Spec => []ReaderMissesNothing
<1>1. ReadInv => ReaderMissesNothing
  <2> SUFFICES ASSUME ReadInv, visit.place = "reading", visit.page >= LastPage,
                      ~ shrunk, ~ grown, NEW i \in steady
               PROVE  i \in seen
    BY DEF ReaderMissesNothing
  <2>1. TypeOK /\ List \in SUBSET Products /\ i \in List
    BY ShownType DEF ReadInv
  <2>2. /\ Position(List, i) <= Shown * PageSize => i \in seen
        /\ Position(List, i) <= visit.total
    BY DEF ReadInv, SteadySeen
  <2>3. visit.total <= Shown * PageSize
    BY <2>1, LastPageHoldsAll DEF Shown
  <2>4. Position(List, i) \in Nat /\ visit.total \in Nat /\ Shown * PageSize \in Nat
    BY <2>1, ShownType, PositionBounds
  <2>5. PICK a, b, c : a = Position(List, i) /\ b = visit.total /\ c = Shown * PageSize
    OBVIOUS
  <2>6. a <= c
    BY <2>2, <2>3, <2>4, <2>5
  <2> QED  BY <2>2, <2>5, <2>6
<1> QED  BY <1>1, ReadInit, ReadStep, PTL DEF Spec

=============================================================================
