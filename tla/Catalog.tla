------------------------------ MODULE Catalog ------------------------------
(***************************************************************************)
(* The categories and the products that the administrator edits, and a     *)
(* customer who pages through the product list meanwhile.  Nothing is ever *)
(* removed from either table: deletion is a mark.                          *)
(*                                                                         *)
(* Only the handlers that look a category's name up before they write it   *)
(* are split into steps.  What the others write (a mark, a category_id)    *)
(* does not depend on what they have read, so each is one action.          *)
(*                                                                         *)
(* A new product gets its id and becomes visible in one step.  The code    *)
(* does not promise that: of two creations that overlap, the one with the  *)
(* lower id may be committed later, and push products that a reader has    *)
(* seen onto his next page.  Such creations are left out.                  *)
(***************************************************************************)
EXTENDS Naturals, Sequences, FiniteSets

CONSTANTS
    Names,          \* names of categories
    Requests,       \* requests that create or rename a category
    PageSize,       \* products on a page, 6 in the code
    MaxCategories,  \* bounds: no more rows than these are inserted
    MaxProducts

ASSUME PageSizeIsPositive == PageSize \in Nat \ {0}

VARIABLES
    category,       \* the rows of table category, by category_id
    product,        \* the rows of table product, by product_id
    pc,             \* where each naming request's handler is
    naming,         \* the name it is about to give, and to which category
    visit,          \* the customer's page: category, number, product count
    seen,           \* history: products shown since the first page
    twice,          \* history: some product has been shown twice
    steady,         \* history: products in the list all the time since then
    shrunk, grown   \* history: a product has left, an old one has joined it

rows    == <<category, product>>
names   == <<pc, naming>>
reading == <<visit, seen, twice, steady, shrunk, grown>>
vars    == <<rows, names, reading>>

Categories == DOMAIN category
Products   == DOMAIN product

\* The products that the list of category f shows; 0 stands for no category.
\* It does not matter whether the category itself has been deleted.
InList(f, p) == ~ p.deleted /\ (f = 0 \/ p.category = f)

Listed(f) == {i \in Products : InList(f, product[i])}

NoName == [id |-> 0, name |-> ""]

Init ==
    /\ category = <<>> /\ product = <<>>
    /\ pc = [r \in Requests |-> "idle"]
    /\ naming = [r \in Requests |-> NoName]
    /\ visit = [place |-> "away", filter |-> 0, page |-> 1, total |-> 0]
    /\ seen = {} /\ twice = FALSE
    /\ steady = {} /\ shrunk = FALSE /\ grown = FALSE

-----------------------------------------------------------------------------

\* GetByNameAsync, which finds deleted categories too.
NameTaken(name) == \E i \in Categories : category[i].name = name

\* The request goes on to give name to category id, 0 for a new one.
Name(r, place, id, name) ==
    /\ pc[r] = "idle"
    /\ pc' = [pc EXCEPT ![r] = place]
    /\ naming' = [naming EXCEPT ![r] = [id |-> id, name |-> name]]
    /\ UNCHANGED <<rows, reading>>

\* Variant of CreateCategory with a bug: it looks only at the active categories.
CreateCategoryActive(r, name) ==
    /\ Len(category) < MaxCategories
    /\ ~ \E i \in Categories : category[i].name = name /\ ~ category[i].deleted
    /\ Name(r, "saving", 0, name)

\* CreateCategory: the factory makes one if the name is free.
CreateCategory(r, name) ==
    /\ Len(category) < MaxCategories
    /\ ~ NameTaken(name)
    /\ Name(r, "saving", 0, name)

\* UpdateCategoryName, up to the query for the new name.
UpdateCategoryName(r, i, name) ==
    /\ category[i].name # name
    /\ Name(r, "checking", i, name)

\* The request is over.
Release(r) ==
    /\ pc' = [pc EXCEPT ![r] = "idle"]
    /\ naming' = [naming EXCEPT ![r] = NoName]

\* UpdateCategoryName: the query for the new name, which ends the request if
\* the name is taken.
CheckName(r) ==
    /\ pc[r] = "checking"
    /\ IF NameTaken(naming[r].name) THEN Release(r)
       ELSE pc' = [pc EXCEPT ![r] = "saving"] /\ UNCHANGED naming
    /\ UNCHANGED <<rows, reading>>

\* SaveChangesAsync: nothing in the table keeps names apart.
SaveName(r) ==
    LET i == naming[r].id
        name == naming[r].name
    IN
    /\ pc[r] = "saving"
    /\ category' = IF i = 0 THEN Append(category, [name |-> name, deleted |-> FALSE])
                   ELSE [category EXCEPT ![i].name = name]
    /\ Release(r)
    /\ UNCHANGED <<product, reading>>

\* The request dies, or its name or category is refused.
Abort(r) ==
    /\ Release(r)
    /\ UNCHANGED <<rows, reading>>

\* Variant of DeleteCategory with a bug: it removes the row.
DeleteCategoryRow(i) ==
    /\ category' = SubSeq(category, 1, i - 1) \o SubSeq(category, i + 1, Len(category))
    /\ UNCHANGED <<product, names, reading>>

\* DeleteCategory: its products stay in the shop.
DeleteCategory(i) ==
    /\ ~ category[i].deleted
    /\ category' = [category EXCEPT ![i].deleted = TRUE]
    /\ UNCHANGED <<product, names, reading>>

RestoreCategory(i) ==
    /\ category[i].deleted
    /\ category' = [category EXCEPT ![i].deleted = FALSE]
    /\ UNCHANGED <<product, names, reading>>

-----------------------------------------------------------------------------

\* The old product i gets a new row; the list the customer pages through may
\* lose or gain it.
Rewrite(i, row) ==
    LET was == i \in Listed(visit.filter)
        is  == InList(visit.filter, row)
    IN
    /\ product' = [product EXCEPT ![i] = row]
    /\ steady' = IF is THEN steady ELSE steady \ {i}
    /\ shrunk' = (shrunk \/ (was /\ ~ is))
    /\ grown' = (grown \/ (~ was /\ is))
    /\ UNCHANGED <<category, names, visit, seen, twice>>

\* CreateProduct: the foreign key asks for a category, deleted or not.
CreateProduct(c) ==
    /\ Len(product) < MaxProducts
    /\ product' = Append(product, [category |-> c, deleted |-> FALSE])
    /\ UNCHANGED <<category, names, reading>>

\* UpdateProduct, as far as the list can tell: the product's category.
UpdateProduct(i, c) == Rewrite(i, [product[i] EXCEPT !.category = c])

DeleteProduct(i) ==
    /\ ~ product[i].deleted
    /\ Rewrite(i, [product[i] EXCEPT !.deleted = TRUE])

RestoreProduct(i) ==
    /\ product[i].deleted
    /\ Rewrite(i, [product[i] EXCEPT !.deleted = FALSE])

-----------------------------------------------------------------------------

\* First query of GetPagedProductsAsync: the count.
CountProducts(f, page) ==
    visit' = [place |-> "counted", filter |-> f, page |-> page,
              total |-> Cardinality(Listed(f))]

\* The customer opens the first page of a category, or of all products.
OpenList(f) ==
    /\ CountProducts(f, 1)
    /\ seen' = {} /\ twice' = FALSE
    /\ steady' = Listed(f) /\ shrunk' = FALSE /\ grown' = FALSE
    /\ UNCHANGED <<rows, names>>

\* Variant of Page with a bug: a page begins one product too early.
PageOverlap(f, page) ==
    LET position(i) == Cardinality({j \in Listed(f) : j <= i})
    IN  {i \in Listed(f) : /\ position(i) >= (page - 1) * PageSize
                           /\ position(i) <= page * PageSize}

\* The products on a page: OrderBy(ProductId), Skip and Take.
Page(f, page) ==
    LET position(i) == Cardinality({j \in Listed(f) : j <= i})
    IN  {i \in Listed(f) : /\ position(i) > (page - 1) * PageSize
                           /\ position(i) <= page * PageSize}

\* Second query of GetPagedProductsAsync: the products, which are shown.
ShowPage ==
    LET page == Page(visit.filter, visit.page) IN
    /\ visit.place = "counted"
    /\ visit' = [visit EXCEPT !.place = "reading"]
    /\ seen' = seen \cup page
    /\ twice' = (twice \/ seen \cap page # {})
    /\ UNCHANGED <<rows, names, steady, shrunk, grown>>

\* Variant of LastPage with a bug: a last page that is not full has no link.
LastPageFloor == visit.total \div PageSize

\* The number of pages that the view offers, rounded up.
LastPage == (visit.total + PageSize - 1) \div PageSize

\* The customer follows the link to the next page.
NextPage ==
    /\ visit.place = "reading"
    /\ visit.page < LastPage
    /\ CountProducts(visit.filter, visit.page + 1)
    /\ UNCHANGED <<rows, names, seen, twice, steady, shrunk, grown>>

Next ==
    \/ \E r \in Requests :
          \/ \E name \in Names :
                \/ CreateCategory(r, name)
                \/ \E i \in Categories : UpdateCategoryName(r, i, name)
          \/ CheckName(r)
          \/ SaveName(r)
          \/ Abort(r)
    \/ \E c \in Categories :
          \/ DeleteCategory(c)
          \/ RestoreCategory(c)
          \/ CreateProduct(c)
          \/ \E i \in Products : UpdateProduct(i, c)
    \/ \E i \in Products : DeleteProduct(i) \/ RestoreProduct(i)
    \/ \E f \in {0} \cup Categories : OpenList(f)
    \/ ShowPage
    \/ NextPage

Spec == Init /\ [][Next]_vars

-----------------------------------------------------------------------------

\* Every variable holds a value of its kind; a product's category exists.
TypeOK ==
    /\ category \in Seq([name : Names, deleted : BOOLEAN])
    /\ product \in Seq([category : Categories, deleted : BOOLEAN])
    /\ pc \in [Requests -> {"idle", "checking", "saving"}]
    /\ naming \in [Requests -> [id : {0} \cup Categories, name : Names \cup {""}]]
    /\ \A r \in Requests : pc[r] # "idle" => naming[r].name \in Names
    /\ visit \in [place : {"away", "counted", "reading"}, filter : {0} \cup Categories,
                  page : Nat \ {0}, total : Nat]
    /\ seen \subseteq Products
    /\ steady \subseteq Listed(visit.filter)
    /\ twice \in BOOLEAN /\ shrunk \in BOOLEAN /\ grown \in BOOLEAN

\* While no two requests name categories at the same time, no two categories
\* have one name, whatever is deleted, renamed and restored.
UniqueNames ==
    \A i, j \in Categories : category[i].name = category[j].name => i = j

\* A customer who pages to the end has been shown every product that was in the
\* list all the time, unless a product left the list or an old one joined it
\* meanwhile: new products do no harm, though count and page are two queries.
ReaderMissesNothing ==
    /\ visit.place = "reading"
    /\ visit.page >= LastPage
    => steady \subseteq seen \/ shrunk \/ grown

\* No product is shown on two pages, unless an old one joined the list.
ReaderSeesNothingTwice == twice => grown

=============================================================================
