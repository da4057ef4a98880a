------------------------------ MODULE Checkout ------------------------------
(***************************************************************************)
(* The carts, the stock and the checkout of the shop.                      *)
(*                                                                         *)
(* Every HTTP request runs a MediatR handler in a DbContext of its own.    *)
(* A handler loads entities (one SQL statement, hence one snapshot),       *)
(* changes them in memory through the domain model, and SaveChangesAsync   *)
(* writes the changed columns back, with absolute values, in one           *)
(* transaction.  No entity has a concurrency token: the only conflicts the *)
(* database reports are a DELETE or UPDATE that finds no row and an INSERT *)
(* that finds one.  Between the load and the save other requests may       *)
(* commit, and that is what this module is about.                          *)
(*                                                                         *)
(* A handler that throws before it saves changes nothing; those exits are  *)
(* collected in Rejected.                                                  *)
(***************************************************************************)
EXTENDS Integers, Sequences, FiniteSets

CONSTANTS
    Customers,          \* customers; each owns exactly one cart
    Products,           \* products in the catalogue (rows are never deleted)
    Requests,           \* HTTP requests that may be in progress at one time
    MaxQty,             \* the largest quantity of one cart row (99 in the code)
    LowStockThreshold,  \* stock at or below which a LowStock event is due (5)
    MaxStock,           \* the largest stock level (2147483647 in the code)
    InitialStock,       \* [Products -> 0..MaxStock]
    InitialPrice,       \* [Products -> Prices]
    Prices,             \* the prices a product may have
    StockInputs,        \* stock levels an administrator may enter; {} for none
    MaxOrders,          \* bound: no checkout starts once this many orders exist
    MaxRows             \* bound: row insertions per customer and product

ASSUME BoundsAssumption ==
    MaxQty \in Nat \ {0} /\ MaxStock \in Nat /\ LowStockThreshold \in Nat

ASSUME InputsAssumption ==
    /\ InitialStock \in [Products -> 0..MaxStock]
    /\ InitialPrice \in [Products -> Prices]
    /\ StockInputs \subseteq 0..MaxStock

VARIABLES
    \* the database
    stock,         \* product.stock_quantity
    price,         \* product.price
    cart,          \* cart_item.quantity, 0 for a row that does not exist
    orders,        \* the orders with their order_item rows, by order_id
    \* the requests in progress
    pc,            \* where each request's handler is
    tracked,       \* the changes its DbContext will write
    placed,        \* the id of the order it has committed, 0 before
    low,           \* products whose LowStock event it has still to publish
    \* the broker
    orderCreated,  \* ids in the OrderCreatedEvent messages published
    lowStock,      \* LowStockDetectedEvent messages published
    \* history, never read by the program
    rowsPut,       \* rows inserted minus rows removed by the customer
    ledger,        \* stock had every order been subtracted from it
    died           \* orders whose request died before it announced them

db      == <<stock, price, cart, orders>>
request == <<pc, tracked, placed, low>>
broker  == <<orderCreated, lowStock>>
history == <<rowsPut, ledger, died>>
vars    == <<db, request, broker, history>>

-----------------------------------------------------------------------------

\* The primary keys a cart_item may have.
Rows == Customers \X Products

\* The functions from a subset of S to T.
Partial(S, T) == UNION {[D -> T] : D \in SUBSET S}

\* f where the columns in the domain of g have been written.
Overwrite(f, g) == [x \in DOMAIN f |-> IF x \in DOMAIN g THEN g[x] ELSE f[x]]

\* What change detection makes of assigning v to column x of f: a write only
\* if the value differs from the one that was loaded.
Assign(f, x, v) == [y \in {z \in {x} : f[z] # v} |-> v]

Line  == [qty : 1..MaxQty, price : Prices]
Order == [customer : Customers, lines : Partial(Products, Line)]

Changes == [insert : SUBSET Rows,
            rows   : Partial(Rows, 0..MaxQty),
            stock  : Partial(Products, 0..MaxStock),
            price  : Partial(Products, Prices),
            order  : Seq(Order)]

NoChanges == [insert |-> {}, rows |-> <<>>, stock |-> <<>>, price |-> <<>>,
              order  |-> <<>>]

\* The products in customer c's cart.
InCart(c) == {p \in Products : cart[<<c, p>>] > 0}

Init ==
    /\ stock = InitialStock
    /\ price = InitialPrice
    /\ cart = [row \in Rows |-> 0]
    /\ orders = <<>>
    /\ pc = [r \in Requests |-> "idle"]
    /\ tracked = [r \in Requests |-> NoChanges]
    /\ placed = [r \in Requests |-> 0]
    /\ low = [r \in Requests |-> {}]
    /\ orderCreated = <<>>
    /\ lowStock = <<>>
    /\ rowsPut = [row \in Rows |-> 0]
    /\ ledger = InitialStock
    /\ died = {}

-----------------------------------------------------------------------------
(* The load half of each handler: from the entities read now to the changes *)
(* its DbContext will save later.                                           *)

Load(r, step, changes) ==
    /\ pc[r] = "idle"
    /\ pc' = [pc EXCEPT ![r] = step]
    /\ tracked' = [tracked EXCEPT ![r] = changes]
    /\ UNCHANGED <<db, placed, broker, history>>

\* What AddItemToCart tracks: a row of quantity one.
AddChanges(c, p) ==
    [NoChanges EXCEPT !.insert = {<<c, p>>}, !.rows = [row \in {<<c, p>>} |-> 1]]

\* AddItemToCart: the cart is read first, the product by a second query.
AddItem(r, c, p) ==
    /\ rowsPut[<<c, p>>] < MaxRows
    /\ cart[<<c, p>>] = 0
    /\ Load(r, "reading", AddChanges(c, p))
    /\ UNCHANGED low

\* The second query of AddItemToCart; a product out of stock is refused.
ReadProduct(r) ==
    /\ pc[r] = "reading"
    /\ \E row \in tracked[r].insert : 
          \/ /\ stock[row[2]] # 0
             /\ pc' = [pc EXCEPT ![r] = "saving"]
             /\ UNCHANGED tracked
          \/ /\ stock[row[2]] = 0
             /\ pc' = [pc EXCEPT ![r] = "idle"]
             /\ tracked' = [tracked EXCEPT ![r] = NoChanges]
    /\ UNCHANGED <<db, placed, low, broker, history>>

\* A row of a loaded cart gets another quantity, 0 when it is removed.
QuantityChanges(c, p, q) == [NoChanges EXCEPT !.rows = Assign(cart, <<c, p>>, q)]

\* A handler that sets the quantity of one row of the cart it has loaded.
SetQuantity(r, c, p, q) ==
    /\ cart[<<c, p>>] > 0
    /\ Load(r, "saving", QuantityChanges(c, p, q))
    /\ UNCHANGED low

\* IncreaseCartItemQuantity: the only quantity change that looks at the stock.
Increase(r, c, p) ==
    /\ cart[<<c, p>>] < MaxQty
    /\ cart[<<c, p>>] + 1 <= stock[p]
    /\ SetQuantity(r, c, p, cart[<<c, p>>] + 1)

\* DecreaseCartItemQuantity.
Decrease(r, c, p) ==
    /\ cart[<<c, p>>] > 1
    /\ SetQuantity(r, c, p, cart[<<c, p>>] - 1)

\* UpdateCartItemQuantity: any quantity from 1 to MaxQty, whatever the stock.
UpdateQuantity(r, c, p) ==
    \E q \in 1..MaxQty : SetQuantity(r, c, p, q)

\* RemoveItemFromCart.
RemoveItem(r, c, p) == SetQuantity(r, c, p, 0)

\* The order OrderFactory.CreateAsync builds from the cart as loaded.
OrderFrom(c) ==
    [customer |-> c,
     lines    |-> [p \in InCart(c) |-> [qty   |-> cart[<<c, p>>],
                                        price |-> price[p]]]]

\* Variants of CheckoutChanges with a bug: one unit per line is taken from the
\* stock; the cart is not cleared.
CheckoutTakesOne(c) ==
    [insert |-> {},
     rows   |-> [row \in {<<c, p>> : p \in InCart(c)} |-> 0],
     stock  |-> [p \in InCart(c) |-> stock[p] - 1],
     price  |-> <<>>,
     order  |-> <<OrderFrom(c)>>]
CheckoutKeepsCart(c) ==
    [insert |-> {}, rows |-> <<>>,
     stock  |-> [p \in InCart(c) |-> stock[p] - cart[<<c, p>>]],
     price  |-> <<>>, order |-> <<OrderFrom(c)>>]

\* What CreateOrder tracks: the order, the new stock of its products and the
\* rows that cart.Clear() deletes.
CheckoutChanges(c) ==
    [insert |-> {},
     rows   |-> [row \in {<<c, p>> : p \in InCart(c)} |-> 0],
     stock  |-> [p \in InCart(c) |-> stock[p] - cart[<<c, p>>]],
     price  |-> <<>>,
     order  |-> <<OrderFrom(c)>>]

\* A stock level that warrants a LowStock event; the variant misses the
\* threshold itself.
BelowThreshold(q) == q < LowStockThreshold
IsLow(q) == q <= LowStockThreshold

\* Variant of CreateOrder with a bug: the stock is not checked.
CreateOrderUnchecked(r, c) ==
    /\ Len(orders) < MaxOrders
    /\ InCart(c) # {}
    /\ Load(r, "saving", CheckoutChanges(c))
    /\ UNCHANGED low

\* CreateOrder up to SaveChangesAsync: an empty cart and a product with too
\* little stock are refused, else every change is prepared from one snapshot.
CreateOrder(r, c) ==
    /\ Len(orders) < MaxOrders
    /\ InCart(c) # {}
    /\ \A p \in InCart(c) : cart[<<c, p>>] <= stock[p]
    /\ Load(r, "saving", CheckoutChanges(c))
    /\ low' = [low EXCEPT ![r] =
                  {p \in InCart(c) : IsLow(stock[p] - cart[<<c, p>>])}]

\* The columns of a product that the administrator's form really changes.
ProductChanges(p, q, m) ==
    [NoChanges EXCEPT !.stock = Assign(stock, p, q), !.price = Assign(price, p, m)]

\* UpdateProduct: the form carries a price and a stock level.
UpdateProduct(r, p) ==
    /\ \E q \in StockInputs, m \in Prices :
          Load(r, "saving", ProductChanges(p, q, m))
    /\ UNCHANGED low

\* Requests that the handlers refuse; the exception leaves no trace.
Rejected(r) ==
    /\ pc[r] = "idle"
    /\ \E c \in Customers, p \in Products :
          \/ cart[<<c, p>>] > 0 \/ stock[p] = 0              \* AddItem
          \/ cart[<<c, p>>] \in {0, MaxQty}                  \* Increase
          \/ cart[<<c, p>>] + 1 > stock[p]
          \/ cart[<<c, p>>] <= 1                             \* Decrease
          \/ cart[<<c, p>>] = 0                              \* Update, Remove
          \/ InCart(c) = {} \/ cart[<<c, p>>] > stock[p]     \* CreateOrder
    /\ UNCHANGED vars

-----------------------------------------------------------------------------
(* SaveChangesAsync: one transaction for everything the context tracks.     *)

\* Variant of Savable with a bug: UPDATE and DELETE row counts are ignored.
InsertsSavable(changes) == \A row \in changes.insert : cart[row] = 0

\* Every INSERT finds no row, every UPDATE and DELETE finds its row.
Savable(changes) ==
    \A row \in DOMAIN changes.rows :
        (cart[row] = 0) <=> (row \in changes.insert)

\* A request that ends leaves nothing in the process.
Release(r) ==
    /\ pc' = [pc EXCEPT ![r] = "idle"]
    /\ tracked' = [tracked EXCEPT ![r] = NoChanges]
    /\ placed' = [placed EXCEPT ![r] = 0]
    /\ low' = [low EXCEPT ![r] = {}]

\* What the history variables record of a committed transaction.
RecordHistory(changes) ==
    /\ rowsPut' = [row \in Rows |->
          IF row \in changes.insert THEN rowsPut[row] + 1
          ELSE IF /\ row \in DOMAIN changes.rows
                  /\ changes.rows[row] = 0
                  /\ changes.order = <<>>
               THEN rowsPut[row] - 1
               ELSE rowsPut[row]]
    /\ ledger' = [p \in Products |->
          IF changes.order # <<>>
          THEN IF p \in DOMAIN changes.order[1].lines
               THEN ledger[p] - changes.order[1].lines[p].qty
               ELSE ledger[p]
          ELSE IF p \in DOMAIN changes.stock THEN changes.stock[p]
               ELSE ledger[p]]
    /\ UNCHANGED died

\* The transaction commits.  A cart or product command is then done; a
\* checkout still has its messages to publish.
SaveChanges(r) ==
    LET changes == tracked[r] IN
    /\ pc[r] = "saving"
    /\ Savable(changes)
    /\ stock' = Overwrite(stock, changes.stock)
    /\ price' = Overwrite(price, changes.price)
    /\ cart' = Overwrite(cart, changes.rows)
    /\ orders' = orders \o changes.order
    /\ RecordHistory(changes)
    /\ IF changes.order = <<>>
       THEN Release(r)
       ELSE /\ pc' = [pc EXCEPT ![r] = "announcing"]
            /\ placed' = [placed EXCEPT ![r] = Len(orders) + 1]
            /\ UNCHANGED <<tracked, low>>
    /\ UNCHANGED broker

\* Variant of Conflict with a bug: the stock was saved outside the transaction.
ConflictAfterStock(r) ==
    /\ pc[r] = "saving"
    /\ ~Savable(tracked[r])
    /\ stock' = Overwrite(stock, tracked[r].stock)
    /\ Release(r)
    /\ UNCHANGED <<price, cart, orders, broker, history>>

\* A row count or a key is not what the context expects: the transaction is
\* rolled back and the exception ends the request.
Conflict(r) ==
    /\ pc[r] = "saving"
    /\ ~Savable(tracked[r])
    /\ Release(r)
    /\ UNCHANGED <<db, broker, history>>

-----------------------------------------------------------------------------
(* CreateOrder after the commit: one message for the order, then one for    *)
(* every product the checkout left low.                                     *)

\* Variants of PublishOrderCreated with a bug: the message is published once per
\* low product; it is published only when nothing is low.
AnnouncePerProduct(r) ==
    /\ pc[r] = "announcing"
    /\ orderCreated' = Append(orderCreated, placed[r])
    /\ IF low[r] = {}
       THEN Release(r)
       ELSE /\ \E p \in low[r] : low' = [low EXCEPT ![r] = @ \ {p}]
            /\ UNCHANGED <<pc, tracked, placed>>
    /\ UNCHANGED <<db, lowStock, history>>
AnnounceUnlessLow(r) ==
    /\ pc[r] = "announcing"
    /\ IF low[r] = {}
       THEN /\ orderCreated' = Append(orderCreated, placed[r])
            /\ Release(r)
       ELSE /\ pc' = [pc EXCEPT ![r] = "reporting"]
            /\ UNCHANGED <<orderCreated, tracked, placed, low>>
    /\ UNCHANGED <<db, lowStock, history>>

PublishOrderCreated(r) ==
    /\ pc[r] = "announcing"
    /\ orderCreated' = Append(orderCreated, placed[r])
    /\ IF low[r] = {}
       THEN Release(r)
       ELSE /\ pc' = [pc EXCEPT ![r] = "reporting"]
            /\ UNCHANGED <<tracked, placed, low>>
    /\ UNCHANGED <<db, lowStock, history>>

PublishLowStock(r) ==
    /\ pc[r] = "reporting"
    /\ \E p \in low[r] :
          /\ lowStock' = Append(lowStock, [product |-> p,
                                           stock   |-> tracked[r].stock[p]])
          /\ IF low[r] = {p}
             THEN Release(r)
             ELSE /\ low' = [low EXCEPT ![r] = @ \ {p}]
                  /\ UNCHANGED <<pc, tracked, placed>>
    /\ UNCHANGED <<db, orderCreated, history>>

\* The request dies between two steps: the process is stopped, the database
\* or the broker cannot be reached, or the client goes away and the
\* cancellation token fires.  What was committed or published stays.
Abort(r) ==
    /\ pc[r] # "idle"
    /\ Release(r)
    /\ died' = IF pc[r] = "announcing" THEN died \cup {placed[r]} ELSE died
    /\ UNCHANGED <<db, broker, rowsPut, ledger>>

-----------------------------------------------------------------------------

Handle(r) ==
    \/ \E c \in Customers, p \in Products :
          \/ AddItem(r, c, p)
          \/ Increase(r, c, p)
          \/ Decrease(r, c, p)
          \/ UpdateQuantity(r, c, p)
          \/ RemoveItem(r, c, p)
    \/ \E c \in Customers : CreateOrder(r, c)
    \/ \E p \in Products : UpdateProduct(r, p)
    \/ Rejected(r)

\* The steps of a request that has begun.
Continue(r) ==
    \/ ReadProduct(r)
    \/ SaveChanges(r)
    \/ Conflict(r)
    \/ PublishOrderCreated(r)
    \/ PublishLowStock(r)

Next == \E r \in Requests : Handle(r) \/ Continue(r) \/ Abort(r)

Spec == Init /\ [][Next]_vars

\* No request dies, and each one that has begun runs to its end.
NextReliable == \E r \in Requests : Handle(r) \/ Continue(r)

FairSpec == /\ Init /\ [][NextReliable]_vars
            /\ \A r \in Requests : WF_vars(Continue(r))

-----------------------------------------------------------------------------

\* Every variable holds a value the database schema and the domain model
\* allow; in particular no stock level is ever saved below zero, although it
\* is computed from a snapshot and written back later.
TypeOK ==
    /\ stock \in [Products -> 0..MaxStock]
    /\ price \in [Products -> Prices]
    /\ cart \in [Rows -> 0..MaxQty]
    /\ orders \in Seq(Order)
    /\ pc \in [Requests -> {"idle", "reading", "saving", "announcing", "reporting"}]
    /\ tracked \in [Requests -> Changes]
    /\ placed \in [Requests -> Nat]
    /\ low \in [Requests -> SUBSET Products]
    /\ orderCreated \in Seq(Nat)
    /\ lowStock \in Seq([product : Products, stock : 0..MaxStock])
    /\ rowsPut \in [Rows -> Int]
    /\ ledger \in [Products -> Int]
    /\ died \subseteq Nat

\* The orders in which the customer of a cart row has bought its product.
OrdersWith(row) ==
    {i \in DOMAIN orders : /\ orders[i].customer = row[1]
                           /\ row[2] \in DOMAIN orders[i].lines}

\* Each cart row the customer put in and did not take out is either still in
\* the cart or in exactly one order line: a checkout submitted twice, or
\* racing a removal, an abort or another tab, neither sells a row twice nor
\* loses it (CreateOrderHandler.cs 41-68).
RowsBalance ==
    \A row \in Rows :
        rowsPut[row] = Cardinality(OrdersWith(row))
                         + (IF cart[row] > 0 THEN 1 ELSE 0)

\* However requests interleave, no unit of stock disappears: the stock is at
\* least what it would be had every order been subtracted from it.  (The other
\* direction fails, see StockMatchesLedger.)
NoUnitVanishes == \A p \in Products : stock[p] >= ledger[p]

\* The stock has been decreased by the quantity of every order placed since
\* it was last set (docs/use-cases.md, use case 8).
StockMatchesLedger == \A p \in Products : stock[p] = ledger[p]

\* What a customer sees is the shop of module Shop: every transaction is one of
\* its steps.  It holds while requests run one after the other, and for that
\* case CheckoutRefinement proves it.
AtomicShop == INSTANCE Shop
ImplementsShop == AtomicShop!Spec

\* An OrderCreated message names a committed order, and no order is announced
\* twice: the id in a pending announcement is used by no other request and has
\* not been published (CreateOrderHandler.cs 68-91).
AnnouncedOnce ==
    /\ \A i \in DOMAIN orderCreated : orderCreated[i] \in DOMAIN orders
    /\ \A i, j \in DOMAIN orderCreated :
          orderCreated[i] = orderCreated[j] => i = j

\* However many requests die, and whenever they do, an order stays without its
\* announcement only when its own request has died between the commit and the
\* message: until then that request is about to announce it (CreateOrderHandler.cs
\* 68-79; there is no outbox, so what died is never made up for).
SilentOnlyIfDied ==
    /\ \A n \in DOMAIN orders :
          \/ \E i \in DOMAIN orderCreated : orderCreated[i] = n
          \/ \E r \in Requests : pc[r] = "announcing" /\ placed[r] = n
          \/ n \in died
    /\ \A i \in DOMAIN orderCreated : orderCreated[i] \notin died

\* If no request dies, every order is announced.  Checkouts that overlap commit
\* up to one order each after the last one that MaxOrders let start.
EveryOrderAnnounced ==
    \A n \in 1..(MaxOrders + Cardinality(Requests)) :
        (n \in DOMAIN orders) ~> (\E i \in DOMAIN orderCreated : orderCreated[i] = n)

\* If no request dies and nobody but checkouts changes the stock, a product
\* that has become low is reported, even when two checkouts overwrite each
\* other's stock.
LowStockReported ==
    \A p \in Products :
        (stock[p] <= LowStockThreshold)
            ~> (\E i \in DOMAIN lowStock : lowStock[i].product = p)

=============================================================================
