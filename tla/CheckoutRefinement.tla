------------------------- MODULE CheckoutRefinement -------------------------
(***************************************************************************)
(* While requests run one after the other, Checkout implements Shop.  What *)
(* a handler has prepared is then still right when it is saved.            *)
(***************************************************************************)
EXTENDS CheckoutProofs

\* The changes were prepared from the database as it is now.
Prepared(ch) ==
    \/ \E c \in Customers, p \in Products :
          ch = AddChanges(c, p) /\ cart[<<c, p>>] = 0 /\ stock[p] > 0
    \/ \E c \in Customers, p \in Products, q \in 0..MaxQty :
          ch = QuantityChanges(c, p, q) /\ cart[<<c, p>>] > 0
    \/ \E c \in Customers :
          /\ ch = CheckoutChanges(c)
          /\ InCart(c) # {}
          /\ \A p \in InCart(c) : cart[<<c, p>>] <= stock[p]
    \/ \E p \in Products, q \in StockInputs, m \in Prices :
          ch = ProductChanges(p, q, m)

Fresh(r) ==
    /\ pc[r] = "reading" =>
          \E c \in Customers, p \in Products :
             tracked[r] = AddChanges(c, p) /\ cart[<<c, p>>] = 0
    /\ pc[r] = "saving" => Prepared(tracked[r])

FreshInv == TypeInv /\ \A r \in Requests : Fresh(r)

\* Only a commit makes prepared changes stale.
LEMMA StillPrepared ==
    ASSUME UNCHANGED <<stock, price, cart>>, NEW ch, Prepared(ch)
    PROVE  Prepared(ch)'
<1>1. ASSUME NEW c, NEW p, NEW q
      PROVE  /\ AddChanges(c, p)' = AddChanges(c, p)
             /\ QuantityChanges(c, p, q)' = QuantityChanges(c, p, q)
  BY DEF AddChanges, QuantityChanges, NoChanges, Assign
<1>2. ASSUME NEW c
      PROVE  InCart(c)' = InCart(c) /\ CheckoutChanges(c)' = CheckoutChanges(c)
  BY DEF CheckoutChanges, OrderFrom, InCart
<1>3. ASSUME NEW p, NEW q, NEW m
      PROVE  ProductChanges(p, q, m)' = ProductChanges(p, q, m)
  BY DEF ProductChanges, NoChanges, Assign
<1> QED  BY <1>1, <1>2, <1>3 DEF Prepared

\* Committing what is still right is a step of the shop.
LEMMA SaveRefines ==
    ASSUME TypeOK, NEW r \in Requests, SaveChanges(r), Prepared(tracked[r])
    PROVE  AtomicShop!Next
<1> DEFINE ch == tracked[r]
<1>1. /\ stock' = Overwrite(stock, ch.stock) /\ price' = Overwrite(price, ch.price)
      /\ cart' = Overwrite(cart, ch.rows) /\ orders' = orders \o ch.order
  BY DEF SaveChanges
<1>2. /\ stock \in [Products -> 0..MaxStock] /\ price \in [Products -> Prices]
      /\ cart \in [Rows -> 0..MaxQty] /\ orders \in Seq(Order)
  BY DEF TypeOK
<1>3. orders \o <<>> = orders
  BY <1>2, ConcatEmptySeq
<1>4. Overwrite(stock, <<>>) = stock /\ Overwrite(price, <<>>) = price
      /\ Overwrite(cart, <<>>) = cart
  BY <1>2 DEF Overwrite
<1>5. CASE \E c \in Customers, p \in Products :
              ch = AddChanges(c, p) /\ cart[<<c, p>>] = 0 /\ stock[p] > 0
  <2>1. PICK c \in Customers, p \in Products :
           ch = AddChanges(c, p) /\ cart[<<c, p>>] = 0 /\ stock[p] > 0
    BY <1>5
  <2>2. /\ ch.rows = [row \in {<<c, p>>} |-> 1]
        /\ ch.stock = <<>> /\ ch.price = <<>> /\ ch.order = <<>>
    BY <2>1 DEF AddChanges, NoChanges
  <2>3. <<c, p>> \in Rows /\ 1 \in 0..MaxQty
    BY BoundsAssumption DEF Rows
  <2>4. cart' = [cart EXCEPT ![<<c, p>>] = 1]
    BY <1>1, <1>2, <2>2, <2>3 DEF Overwrite
  <2>5. UNCHANGED <<stock, price, orders>>
    BY <1>1, <1>3, <1>4, <2>2
  <2>6. AtomicShop!Put(c, p)
    BY <2>1, <2>4, <2>5 DEF AtomicShop!Put
  <2> QED  BY <2>6 DEF AtomicShop!Next
<1>6. CASE \E c \in Customers, p \in Products, q \in 0..MaxQty :
              ch = QuantityChanges(c, p, q) /\ cart[<<c, p>>] > 0
  <2>1. PICK c \in Customers, p \in Products, q \in 0..MaxQty :
           ch = QuantityChanges(c, p, q) /\ cart[<<c, p>>] > 0
    BY <1>6
  <2>2. /\ ch.rows = Assign(cart, <<c, p>>, q)
        /\ ch.stock = <<>> /\ ch.price = <<>> /\ ch.order = <<>>
    BY <2>1 DEF QuantityChanges, NoChanges
  <2>3. <<c, p>> \in Rows
    BY DEF Rows
  <2>4. cart' = [cart EXCEPT ![<<c, p>>] = q]
    BY <1>1, <1>2, <2>2, <2>3 DEF Overwrite, Assign
  <2>5. UNCHANGED <<stock, price, orders>>
    BY <1>1, <1>3, <1>4, <2>2
  <2>6. CASE q = 0
    <3>1. AtomicShop!TakeOut(c, p)
      BY <2>1, <2>4, <2>5, <2>6 DEF AtomicShop!TakeOut
    <3> QED  BY <3>1 DEF AtomicShop!Next
  <2>7. CASE q # 0
    <3>1. q \in 1..MaxQty
      BY <2>7, BoundsAssumption
    <3>2. AtomicShop!SetQuantity(c, p)
      BY <2>1, <2>4, <2>5, <3>1 DEF AtomicShop!SetQuantity
    <3> QED  BY <3>2 DEF AtomicShop!Next
  <2> QED  BY <2>6, <2>7
<1>7. CASE \E c \in Customers :
              /\ ch = CheckoutChanges(c)
              /\ InCart(c) # {}
              /\ \A p \in InCart(c) : cart[<<c, p>>] <= stock[p]
  <2>1. PICK c \in Customers :
              /\ ch = CheckoutChanges(c)
              /\ InCart(c) # {}
              /\ \A p \in InCart(c) : cart[<<c, p>>] <= stock[p]
    BY <1>7
  <2>2. /\ ch.rows = [row \in {<<c, p>> : p \in InCart(c)} |-> 0]
        /\ ch.stock = [p \in InCart(c) |-> stock[p] - cart[<<c, p>>]]
        /\ ch.price = <<>> /\ ch.order = <<OrderFrom(c)>>
    BY <2>1 DEF CheckoutChanges
  <2>3. stock' = [p \in Products |-> IF p \in InCart(c)
                                     THEN stock[p] - cart[<<c, p>>] ELSE stock[p]]
    BY <1>1, <1>2, <2>2 DEF Overwrite
  <2>4. cart' = [row \in Rows |-> IF row[1] = c THEN 0 ELSE cart[row]]
    <3>1. ASSUME NEW row \in Rows
          PROVE  row \in DOMAIN ch.rows <=> row[1] = c /\ cart[row] > 0
      <4>1. PICK a \in Customers, b \in Products : row = <<a, b>>
        BY DEF Rows
      <4>2. DOMAIN ch.rows = {<<c, p>> : p \in InCart(c)}
        BY <2>2
      <4>3. row \in {<<c, p>> : p \in InCart(c)} <=> a = c /\ b \in InCart(c)
        BY <4>1
      <4> QED  BY <4>1, <4>2, <4>3 DEF InCart
    <3>2. ASSUME NEW row \in Rows
          PROVE  cart[row] \in 0..MaxQty
      BY <1>2
    <3>3. cart' = [row \in Rows |-> IF row \in DOMAIN ch.rows
                                    THEN ch.rows[row] ELSE cart[row]]
      BY <1>1, <1>2 DEF Overwrite
    <3>4. ASSUME NEW row \in Rows
          PROVE  cart'[row] = IF row[1] = c THEN 0 ELSE cart[row]
      <4>1. CASE row \in DOMAIN ch.rows
        BY <2>2, <3>1, <3>3, <4>1
      <4>2. CASE row \notin DOMAIN ch.rows
        BY <3>1, <3>2, <3>3, <4>2, BoundsAssumption
      <4> QED  BY <4>1, <4>2
    <3> QED  BY <3>3, <3>4
  <2>5. orders' = Append(orders, OrderFrom(c))
    <3>1. OrderFrom(c) \in Order
      BY OrderFromType
    <3> QED  BY <1>1, <1>2, <2>2, <3>1, AppendIsConcat
  <2>6. price' = price
    BY <1>1, <1>4, <2>2
  <2>7. AtomicShop!PlaceOrder(c)
    BY <2>1, <2>3, <2>4, <2>5, <2>6
       DEF AtomicShop!PlaceOrder, OrderFrom, InCart, Rows
  <2> QED  BY <2>7 DEF AtomicShop!Next
<1>8. CASE \E p \in Products, q \in StockInputs, m \in Prices :
              ch = ProductChanges(p, q, m)
  <2>1. PICK p \in Products, q \in StockInputs, m \in Prices :
              ch = ProductChanges(p, q, m)
    BY <1>8
  <2>2. /\ ch.stock = Assign(stock, p, q) /\ ch.price = Assign(price, p, m)
        /\ ch.rows = <<>> /\ ch.order = <<>>
    BY <2>1 DEF ProductChanges, NoChanges
  <2>3. q \in 0..MaxStock
    BY InputsAssumption
  <2>4. stock' = [stock EXCEPT ![p] = q] /\ price' = [price EXCEPT ![p] = m]
    BY <1>1, <1>2, <2>2, <2>3 DEF Overwrite, Assign
  <2>5. UNCHANGED <<cart, orders>>
    BY <1>1, <1>3, <1>4, <2>2
  <2>6. AtomicShop!Edit(p)
    BY <2>3, <2>4, <2>5 DEF AtomicShop!Edit
  <2> QED  BY <2>6 DEF AtomicShop!Next
<1> QED  BY <1>5, <1>6, <1>7, <1>8 DEF Prepared

\* With a single request at a time, nothing goes stale.
LEMMA FreshStep ==
    ASSUME \A r, s \in Requests : r = s
    PROVE  FreshInv /\ [Next]_vars => FreshInv'
<1> SUFFICES ASSUME FreshInv, [Next]_vars PROVE FreshInv'
  OBVIOUS
<1>1. TypeInv /\ TypeOK /\ TypeInv'
  BY TypeStep DEF FreshInv, TypeInv
<1>2. ASSUME NEW r \in Requests, pc'[r] \notin {"reading", "saving"}
      PROVE  FreshInv'
  <2>1. Requests = {r}
    OBVIOUS
  <2> QED  BY <1>1, <1>2, <2>1 DEF FreshInv, Fresh
<1>3. CASE UNCHANGED vars
  <2>1. UNCHANGED <<stock, price, cart, pc, tracked>>
    BY <1>3 DEF vars, db, request
  <2>2. ASSUME NEW r \in Requests, pc[r] = "saving"
        PROVE  Prepared(tracked[r])'
    <3> DEFINE ch == tracked[r]
    <3>1. ch' = ch /\ Prepared(ch)
      BY <2>1, <2>2 DEF FreshInv, Fresh
    <3> QED  BY <2>1, <3>1, StillPrepared
  <2>3. ASSUME NEW r \in Requests, pc[r] = "reading"
        PROVE  \E c \in Customers, p \in Products :
                  tracked'[r] = AddChanges(c, p) /\ cart'[<<c, p>>] = 0
    BY <2>1, <2>3 DEF FreshInv, Fresh
  <2>4. ASSUME NEW r \in Requests
        PROVE  Fresh(r)'
    BY <2>1, <2>2, <2>3 DEF Fresh, AddChanges, NoChanges
  <2> QED  BY <1>1, <2>4 DEF FreshInv
<1>4. ASSUME NEW r \in Requests, Release(r)
      PROVE  FreshInv'
  BY <1>1, <1>2, <1>4 DEF Release, TypeOK
<1>5. ASSUME NEW r \in Requests, NEW ch, Load(r, "saving", ch), Prepared(ch)
      PROVE  FreshInv'
  <2>1. Requests = {r} /\ tracked'[r] = ch /\ pc'[r] = "saving"
    BY <1>1, <1>5 DEF Load, TypeOK
  <2>2. UNCHANGED <<stock, price, cart, orders>>
    BY <1>5 DEF Load, db
  <2>3. Prepared(ch)'
    BY <1>5, <2>2, StillPrepared
  <2> QED  BY <1>1, <2>1, <2>3 DEF FreshInv, Fresh, Prepared
<1>6. ASSUME NEW r \in Requests, NEW c \in Customers, NEW p \in Products,
             AddItem(r, c, p)
      PROVE  FreshInv'
  <2>1. /\ Requests = {r} /\ tracked'[r] = AddChanges(c, p) /\ pc'[r] = "reading"
        /\ cart'[<<c, p>>] = 0
    BY <1>1, <1>6 DEF AddItem, Load, TypeOK, db
  <2> QED  BY <1>1, <2>1 DEF FreshInv, Fresh, AddChanges, NoChanges
<1>7. ASSUME NEW r \in Requests, NEW c \in Customers, NEW p \in Products,
             NEW q \in 0..MaxQty, SetQuantity(r, c, p, q)
      PROVE  FreshInv'
  BY <1>5, <1>7 DEF SetQuantity, Prepared
<1>8. ASSUME NEW r \in Requests, NEW c \in Customers, CreateOrder(r, c)
      PROVE  FreshInv'
  BY <1>5, <1>8 DEF CreateOrder, Prepared
<1>9. ASSUME NEW r \in Requests, NEW p \in Products, UpdateProduct(r, p)
      PROVE  FreshInv'
  BY <1>5, <1>9 DEF UpdateProduct, Prepared
<1>10. ASSUME NEW r \in Requests, ReadProduct(r)
       PROVE  FreshInv'
  <2>1. PICK c \in Customers, p \in Products :
           tracked[r] = AddChanges(c, p) /\ cart[<<c, p>>] = 0
    BY <1>10 DEF ReadProduct, FreshInv, Fresh
  <2>2. tracked[r].insert = {<<c, p>>}
    BY <2>1 DEF AddChanges, NoChanges
  <2>3. /\ UNCHANGED <<stock, price, cart, orders>>
        /\ \/ stock[p] # 0 /\ pc'[r] = "saving" /\ UNCHANGED tracked
           \/ pc'[r] = "idle"
    BY <1>1, <1>10, <2>2 DEF ReadProduct, db, TypeOK
  <2>4. CASE pc'[r] = "idle"
    BY <1>2, <2>4
  <2>5. CASE stock[p] # 0 /\ pc'[r] = "saving" /\ UNCHANGED tracked
    <3>1. stock[p] > 0
      BY <1>1, <2>5, BoundsAssumption DEF TypeOK
    <3>2. /\ Requests = {r} /\ tracked'[r] = AddChanges(c, p)
          /\ cart'[<<c, p>>] = 0 /\ stock'[p] > 0
      BY <2>1, <2>3, <2>5, <3>1
    <3> QED  BY <1>1, <2>5, <3>2 DEF FreshInv, Fresh, Prepared, AddChanges, NoChanges
  <2> QED  BY <2>3, <2>4, <2>5
<1>11. ASSUME NEW r \in Requests, SaveChanges(r)
       PROVE  FreshInv'
  <2>1. CASE tracked[r].order = <<>>
    BY <1>4, <1>11, <2>1 DEF SaveChanges
  <2>2. CASE tracked[r].order # <<>>
    BY <1>1, <1>2, <1>11, <2>2 DEF SaveChanges, TypeOK
  <2> QED  BY <2>1, <2>2
<1>12. ASSUME NEW r \in Requests, PublishOrderCreated(r) \/ PublishLowStock(r)
       PROVE  FreshInv'
  <2>1. pc'[r] \notin {"reading", "saving"}
    BY <1>1, <1>12 DEF PublishOrderCreated, PublishLowStock, Release, TypeOK
  <2> QED  BY <1>2, <2>1
<1>13. ASSUME NEW r \in Requests, Conflict(r) \/ Abort(r)
       PROVE  FreshInv'
  BY <1>4, <1>13 DEF Conflict, Abort
<1>14. ASSUME NEW r \in Requests, Handle(r)
       PROVE  FreshInv'
  BY <1>1, <1>3, <1>6, <1>7, <1>8, <1>9, <1>14, QuantityHandlers
     DEF Handle, Rejected
<1> QED
  BY <1>3, <1>10, <1>11, <1>12, <1>13, <1>14 DEF Next, Continue

\* Requests that run one after the other, with any number of failures between
\* their steps, give the customers the shop of module Shop
\* (CreateOrderHandler.cs 32-92 and the five cart handlers).
THEOREM SerialImplementsShop ==
    ASSUME \A r, s \in Requests : r = s
    PROVE  Spec => ImplementsShop
<1>1. Init => FreshInv /\ AtomicShop!Init
  <2> SUFFICES ASSUME Init PROVE FreshInv /\ AtomicShop!Init
    OBVIOUS
  <2>1. FreshInv
    BY TypeInit DEF Init, FreshInv, Fresh
  <2>2. AtomicShop!Init
    BY DEF Init, AtomicShop!Init, Rows
  <2> QED  BY <2>1, <2>2
<1>2. FreshInv /\ [Next]_vars => [AtomicShop!Next]_(AtomicShop!vars)
  <2> SUFFICES ASSUME FreshInv, [Next]_vars
               PROVE  AtomicShop!Next \/ UNCHANGED <<stock, price, cart, orders>>
    BY DEF AtomicShop!vars
  <2>1. ASSUME NEW r \in Requests, SaveChanges(r)
        PROVE  AtomicShop!Next
    <3>1. TypeOK /\ Prepared(tracked[r])
      BY <2>1 DEF FreshInv, TypeInv, Fresh, SaveChanges
    <3> QED  BY <2>1, <3>1, SaveRefines
  <2>2. ASSUME NEW r \in Requests, Handle(r)
        PROVE  UNCHANGED <<stock, price, cart, orders>>
    BY <2>2 DEF Handle, AddItem, Increase, Decrease, UpdateQuantity, RemoveItem,
       SetQuantity, CreateOrder, UpdateProduct, Load, Rejected, vars, db
  <2>3. ASSUME NEW r \in Requests,
               \/ ReadProduct(r) \/ Conflict(r) \/ Abort(r)
               \/ PublishOrderCreated(r) \/ PublishLowStock(r)
        PROVE  UNCHANGED <<stock, price, cart, orders>>
    BY <2>3 DEF ReadProduct, Conflict, Abort, PublishOrderCreated,
       PublishLowStock, db
  <2> QED  BY <2>1, <2>2, <2>3 DEF Next, Continue, vars, db
<1> QED
  BY <1>1, <1>2, FreshStep, PTL DEF Spec, ImplementsShop, AtomicShop!Spec

-----------------------------------------------------------------------------
(* The stock, one request at a time. *)

\* Committing what is still right changes the stock as it changes the ledger.
LEMMA SaveLedger ==
    ASSUME TypeOK, StockMatchesLedger, NEW r \in Requests, SaveChanges(r),
           Prepared(tracked[r])
    PROVE  StockMatchesLedger'
<1> DEFINE ch == tracked[r]
<1>1. \A p \in Products : stock[p] = ledger[p]
  BY DEF StockMatchesLedger
<1>2. \A p \in Products : stock'[p] = IF p \in DOMAIN ch.stock
                                      THEN ch.stock[p] ELSE stock[p]
  BY DEF SaveChanges, Overwrite, TypeOK
<1>3. \A p \in Products :
         ledger'[p] = IF ch.order # <<>>
                      THEN IF p \in DOMAIN ch.order[1].lines
                           THEN ledger[p] - ch.order[1].lines[p].qty
                           ELSE ledger[p]
                      ELSE IF p \in DOMAIN ch.stock THEN ch.stock[p] ELSE ledger[p]
  BY DEF SaveChanges, RecordHistory
<1>4. CASE ch.order = <<>>
  BY <1>1, <1>2, <1>3, <1>4 DEF StockMatchesLedger
<1>5. CASE ch.order # <<>>
  <2>1. PICK c \in Customers : ch = CheckoutChanges(c)
    BY <1>5 DEF Prepared, AddChanges, QuantityChanges, ProductChanges, NoChanges
  <2>2. /\ ch.order = <<OrderFrom(c)>>
        /\ ch.stock = [p \in InCart(c) |-> stock[p] - cart[<<c, p>>]]
    BY <2>1 DEF CheckoutChanges
  <2>3. /\ DOMAIN ch.order[1].lines = InCart(c)
        /\ \A p \in InCart(c) : ch.order[1].lines[p].qty = cart[<<c, p>>]
    BY <2>2, OrderFromType
  <2> QED  BY <1>1, <1>2, <1>3, <1>5, <2>2, <2>3 DEF StockMatchesLedger
<1> QED  BY <1>4, <1>5

\* While requests run one after the other, the stock is decreased by exactly
\* the quantities ordered (CreateOrderHandler.cs 45-68).
THEOREM SerialStock ==
    ASSUME \A r, s \in Requests : r = s
    PROVE  Spec => []StockMatchesLedger
<1>1. Init => FreshInv /\ StockMatchesLedger
  BY TypeInit DEF Init, FreshInv, Fresh, StockMatchesLedger
<1>2. FreshInv /\ StockMatchesLedger /\ [Next]_vars => StockMatchesLedger'
  <2> SUFFICES ASSUME FreshInv, StockMatchesLedger, [Next]_vars
               PROVE  StockMatchesLedger'
    OBVIOUS
  <2>1. ASSUME UNCHANGED <<stock, ledger>>
        PROVE  StockMatchesLedger'
    BY <2>1 DEF StockMatchesLedger
  <2>2. ASSUME NEW r \in Requests, SaveChanges(r)
        PROVE  StockMatchesLedger'
    <3>1. TypeOK /\ Prepared(tracked[r])
      BY <2>2 DEF FreshInv, TypeInv, Fresh, SaveChanges
    <3> QED  BY <2>2, <3>1, SaveLedger
  <2>3. ASSUME NEW r \in Requests, Handle(r)
        PROVE  UNCHANGED <<stock, ledger>>
    BY <2>3 DEF Handle, AddItem, Increase, Decrease, UpdateQuantity, RemoveItem,
       SetQuantity, CreateOrder, UpdateProduct, Load, Rejected, vars, db, history
  <2>4. ASSUME NEW r \in Requests,
               \/ ReadProduct(r) \/ Conflict(r) \/ Abort(r)
               \/ PublishOrderCreated(r) \/ PublishLowStock(r)
        PROVE  UNCHANGED <<stock, ledger>>
    BY <2>4 DEF ReadProduct, Conflict, Abort, PublishOrderCreated,
       PublishLowStock, db, history
  <2> QED  BY <2>1, <2>2, <2>3, <2>4 DEF Next, Continue, vars, db, history
<1> QED
  BY <1>1, <1>2, FreshStep, PTL DEF Spec

=============================================================================
