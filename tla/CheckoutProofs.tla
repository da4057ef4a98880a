--------------------------- MODULE CheckoutProofs ---------------------------
(***************************************************************************)
(* Theorems about Checkout, for every set of customers, products and       *)
(* requests.                                                               *)
(***************************************************************************)
EXTENDS Checkout, FiniteSetTheorems, SequenceTheorems, TLAPS

-----------------------------------------------------------------------------
(* Partial functions and the operators that write them back. *)

\* Membership in Partial without the UNION.
LEMMA PartialIff ==
    ASSUME NEW S, NEW T, NEW f
    PROVE  f \in Partial(S, T) <=> /\ DOMAIN f \subseteq S
                                   /\ f \in [DOMAIN f -> T]
<1>1. ASSUME f \in Partial(S, T)
      PROVE  DOMAIN f \subseteq S /\ f \in [DOMAIN f -> T]
  <2>1. PICK D \in SUBSET S : f \in [D -> T]
    BY <1>1 DEF Partial
  <2>2. DOMAIN f = D
    BY <2>1
  <2> QED  BY <2>1, <2>2
<1>2. ASSUME DOMAIN f \subseteq S, f \in [DOMAIN f -> T]
      PROVE  f \in Partial(S, T)
  <2>1. [DOMAIN f -> T] \in {[D -> T] : D \in SUBSET S}
    BY <1>2
  <2> QED  BY <2>1, <1>2 DEF Partial
<1> QED  BY <1>1, <1>2

\* A column of a partial function has a value of its range.
LEMMA PartialValue ==
    ASSUME NEW S, NEW T, NEW f \in Partial(S, T), NEW x \in DOMAIN f
    PROVE  x \in S /\ f[x] \in T
BY PartialIff

\* The function with no column is partial on every set.
LEMMA EmptyPartial ==
    ASSUME NEW S, NEW T
    PROVE  <<>> \in Partial(S, T)
<1>1. DOMAIN <<>> = {}
  OBVIOUS
<1>2. <<>> \in [{} -> T]
  BY <1>1
<1> QED  BY <1>1, <1>2, PartialIff

\* Writing columns back keeps the type of the table.
LEMMA OverwriteType ==
    ASSUME NEW S, NEW T, NEW f \in [S -> T], NEW g \in Partial(S, T)
    PROVE  /\ Overwrite(f, g) \in [S -> T]
           /\ \A x \in S : Overwrite(f, g)[x] =
                              IF x \in DOMAIN g THEN g[x] ELSE f[x]
<1>1. DOMAIN g \subseteq S /\ g \in [DOMAIN g -> T]
  BY PartialIff
<1> QED  BY <1>1 DEF Overwrite

\* Change detection yields columns of the table, at most the assigned one.
LEMMA AssignType ==
    ASSUME NEW S, NEW T, NEW f \in [S -> T], NEW x \in S, NEW v \in T
    PROVE  /\ Assign(f, x, v) \in Partial(S, T)
           /\ DOMAIN Assign(f, x, v) = IF f[x] = v THEN {} ELSE {x}
           /\ \A y \in DOMAIN Assign(f, x, v) : y = x /\ Assign(f, x, v)[y] = v
<1> DEFINE D == {z \in {x} : f[z] # v}
<1>1. Assign(f, x, v) = [y \in D |-> v]
  BY DEF Assign
<1>2. DOMAIN Assign(f, x, v) = D
  BY <1>1
<1>3. D \subseteq S /\ D = IF f[x] = v THEN {} ELSE {x}
  OBVIOUS
<1>4. Assign(f, x, v) \in [D -> T]
  BY <1>1
<1>5. Assign(f, x, v) \in Partial(S, T)
  BY <1>2, <1>3, <1>4, PartialIff
<1> QED  BY <1>1, <1>2, <1>3, <1>5

-----------------------------------------------------------------------------
(* Type correctness. *)

\* The request's part of TypeOK.
RequestOK ==
    /\ pc \in [Requests -> {"idle", "reading", "saving", "announcing", "reporting"}]
    /\ tracked \in [Requests -> Changes]
    /\ placed \in [Requests -> Nat]
    /\ low \in [Requests -> SUBSET Products]

\* The products a request has still to report are among those whose stock it
\* has written, and a request that has not prepared a checkout has none.
LowTracked ==
    \A r \in Requests :
        /\ low[r] \subseteq DOMAIN tracked[r].stock
        /\ pc[r] \in {"idle", "reading"} => low[r] = {}

TypeInv == TypeOK /\ LowTracked

\* An idle request tracks nothing.
LEMMA NoChangesType == NoChanges \in Changes
<1>1. <<>> \in Partial(Rows, 0..MaxQty)
  BY EmptyPartial
<1>2. <<>> \in Partial(Products, 0..MaxStock)
  BY EmptyPartial
<1>3. <<>> \in Partial(Products, Prices)
  BY EmptyPartial
<1>4. <<>> \in Seq(Order)
  OBVIOUS
<1> QED  BY <1>1, <1>2, <1>3, <1>4 DEF NoChanges, Changes

\* What each handler tracks is well typed.
LEMMA AddChangesType ==
    ASSUME NEW c \in Customers, NEW p \in Products
    PROVE  AddChanges(c, p) \in Changes
<1> DEFINE put == [row \in {<<c, p>>} |-> 1]
<1>1. put \in Partial(Rows, 0..MaxQty)
  <2>1. DOMAIN put \subseteq Rows
    BY DEF Rows
  <2>2. 1 \in 0..MaxQty
    BY BoundsAssumption
  <2> QED  BY <2>1, <2>2, PartialIff
<1>2. {<<c, p>>} \in SUBSET Rows
  BY DEF Rows
<1> QED  BY <1>1, <1>2, NoChangesType DEF AddChanges, NoChanges, Changes

LEMMA QuantityChangesType ==
    ASSUME TypeOK, NEW c \in Customers, NEW p \in Products, NEW q \in 0..MaxQty
    PROVE  QuantityChanges(c, p, q) \in Changes
<1>1. <<c, p>> \in Rows
  BY DEF Rows
<1>2. Assign(cart, <<c, p>>, q) \in Partial(Rows, 0..MaxQty)
  BY <1>1, AssignType DEF TypeOK
<1> QED  BY <1>2, NoChangesType DEF QuantityChanges, NoChanges, Changes

LEMMA ProductChangesType ==
    ASSUME TypeOK, NEW p \in Products, NEW q \in StockInputs, NEW m \in Prices
    PROVE  ProductChanges(p, q, m) \in Changes
<1>1. Assign(stock, p, q) \in Partial(Products, 0..MaxStock)
  BY InputsAssumption, AssignType DEF TypeOK
<1>2. Assign(price, p, m) \in Partial(Products, Prices)
  BY AssignType DEF TypeOK
<1> QED  BY <1>1, <1>2, NoChangesType DEF ProductChanges, NoChanges, Changes

LEMMA OrderFromType ==
    ASSUME TypeOK, NEW c \in Customers
    PROVE  /\ OrderFrom(c) \in Order
           /\ DOMAIN OrderFrom(c).lines = InCart(c)
           /\ \A p \in InCart(c) : OrderFrom(c).lines[p].qty = cart[<<c, p>>]
<1> DEFINE lines == [p \in InCart(c) |-> [qty |-> cart[<<c, p>>], price |-> price[p]]]
<1>1. InCart(c) \subseteq Products
  BY DEF InCart
<1>2. ASSUME NEW p \in InCart(c)
      PROVE  [qty |-> cart[<<c, p>>], price |-> price[p]] \in Line
  <2>1. <<c, p>> \in Rows
    BY <1>1, <1>2 DEF Rows
  <2>2. cart[<<c, p>>] \in 0..MaxQty /\ cart[<<c, p>>] > 0
    BY <2>1, <1>2 DEF TypeOK, InCart
  <2>3. cart[<<c, p>>] \in 1..MaxQty
    BY <2>2, BoundsAssumption
  <2>4. price[p] \in Prices
    BY <1>1, <1>2 DEF TypeOK
  <2> QED  BY <2>3, <2>4 DEF Line
<1>3. lines \in [InCart(c) -> Line]
  BY <1>2
<1>4. lines \in Partial(Products, Line)
  BY <1>1, <1>3, PartialIff
<1> QED  BY <1>4 DEF OrderFrom, Order

LEMMA CheckoutChangesType ==
    ASSUME TypeOK, NEW c \in Customers,
           \A p \in InCart(c) : cart[<<c, p>>] <= stock[p]
    PROVE  CheckoutChanges(c) \in Changes
<1> DEFINE rows == [row \in {<<c, p>> : p \in InCart(c)} |-> 0]
           left == [p \in InCart(c) |-> stock[p] - cart[<<c, p>>]]
<1>1. InCart(c) \subseteq Products
  BY DEF InCart
<1>2. rows \in Partial(Rows, 0..MaxQty)
  <2>1. DOMAIN rows \subseteq Rows
    BY <1>1 DEF Rows
  <2>2. 0 \in 0..MaxQty
    BY BoundsAssumption
  <2> QED  BY <2>1, <2>2, PartialIff
<1>3. left \in Partial(Products, 0..MaxStock)
  <2>1. ASSUME NEW p \in InCart(c)
        PROVE  stock[p] - cart[<<c, p>>] \in 0..MaxStock
    <3>1. <<c, p>> \in Rows
      BY <1>1, <2>1 DEF Rows
    <3>2. cart[<<c, p>>] \in 0..MaxQty /\ stock[p] \in 0..MaxStock
      BY <3>1, <1>1, <2>1 DEF TypeOK
    <3>3. cart[<<c, p>>] <= stock[p]
      BY <2>1
    <3> QED  BY <3>2, <3>3, BoundsAssumption
  <2>2. left \in [InCart(c) -> 0..MaxStock]
    BY <2>1
  <2> QED  BY <2>2, <1>1, PartialIff
<1>4. <<OrderFrom(c)>> \in Seq(Order)
  BY OrderFromType
<1>5. <<>> \in Partial(Products, Prices)
  BY EmptyPartial
<1> QED  BY <1>2, <1>3, <1>4, <1>5 DEF CheckoutChanges, Changes

\* Starting a handler keeps the types.
LEMMA LoadType ==
    ASSUME TypeOK, NEW r \in Requests, NEW step \in {"reading", "saving"},
           NEW changes \in Changes, Load(r, step, changes),
           low' \in [Requests -> SUBSET Products]
    PROVE  TypeOK'
<1>1. pc' \in [Requests -> {"idle", "reading", "saving", "announcing", "reporting"}]
  BY DEF Load, TypeOK
<1>2. tracked' \in [Requests -> Changes]
  BY DEF Load, TypeOK
<1> QED  BY <1>1, <1>2 DEF Load, TypeOK, db, broker, history

\* Ending a request keeps the types of the request's part.
LEMMA ReleaseType ==
    ASSUME RequestOK, NEW r \in Requests, Release(r)
    PROVE  RequestOK'
<1>1. tracked' \in [Requests -> Changes]
  BY NoChangesType DEF Release, RequestOK
<1> QED  BY <1>1 DEF Release, RequestOK

\* Starting a handler and ending one keep LowTracked.
LEMMA LoadLow ==
    ASSUME TypeInv, NEW r \in Requests, NEW step \in {"reading", "saving"},
           NEW changes, Load(r, step, changes), UNCHANGED low
    PROVE  LowTracked'
BY DEF Load, TypeInv, LowTracked, TypeOK

LEMMA ReleaseLow ==
    ASSUME TypeInv, NEW r \in Requests, Release(r)
    PROVE  LowTracked'
BY DEF Release, TypeInv, LowTracked, TypeOK

\* Committing keeps the database and the history well typed.
LEMMA SaveType ==
    ASSUME TypeInv, NEW r \in Requests, SaveChanges(r)
    PROVE  TypeInv'
<1> DEFINE ch == tracked[r]
<1>0. ch \in Changes
  BY DEF TypeInv, TypeOK
<1>1. stock' \in [Products -> 0..MaxStock]
  <2>1. ch.stock \in Partial(Products, 0..MaxStock)
    BY <1>0 DEF Changes
  <2>2. Overwrite(stock, ch.stock) \in [Products -> 0..MaxStock]
    BY <2>1, OverwriteType DEF TypeInv, TypeOK
  <2> QED  BY <2>2 DEF SaveChanges
<1>2. price' \in [Products -> Prices]
  <2>1. ch.price \in Partial(Products, Prices)
    BY <1>0 DEF Changes
  <2>2. Overwrite(price, ch.price) \in [Products -> Prices]
    BY <2>1, OverwriteType DEF TypeInv, TypeOK
  <2> QED  BY <2>2 DEF SaveChanges
<1>3. cart' \in [Rows -> 0..MaxQty]
  <2>1. ch.rows \in Partial(Rows, 0..MaxQty)
    BY <1>0 DEF Changes
  <2>2. Overwrite(cart, ch.rows) \in [Rows -> 0..MaxQty]
    BY <2>1, OverwriteType DEF TypeInv, TypeOK
  <2> QED  BY <2>2 DEF SaveChanges
<1>4. orders' \in Seq(Order)
  BY <1>0, ConcatProperties DEF SaveChanges, TypeInv, TypeOK, Changes
<1>5. rowsPut' \in [Rows -> Int]
  BY <1>0 DEF SaveChanges, RecordHistory, TypeInv, TypeOK
<1>6. ledger' \in [Products -> Int]
  <2>1. ASSUME NEW p \in Products, p \in DOMAIN ch.stock
        PROVE  ch.stock[p] \in Int
    <3>1. ch.stock \in Partial(Products, 0..MaxStock)
      BY <1>0 DEF Changes
    <3>2. ch.stock[p] \in 0..MaxStock
      BY <2>1, <3>1, PartialValue
    <3> QED  BY <3>2, BoundsAssumption
  <2>2. ASSUME ch.order # <<>>, NEW p \in DOMAIN ch.order[1].lines
        PROVE  ch.order[1].lines[p].qty \in Int
    <3>1. ch.order[1] \in Order
      BY <1>0, <2>2 DEF Changes
    <3>2. ch.order[1].lines \in Partial(Products, Line)
      BY <3>1 DEF Order
    <3>3. ch.order[1].lines[p] \in Line
      BY <3>2, <2>2, PartialIff
    <3> QED  BY <3>3 DEF Line
  <2>3. ledger \in [Products -> Int]
    BY DEF TypeInv, TypeOK
  <2>4. \A p \in Products : ledger'[p] \in Int
    BY <2>1, <2>2, <2>3 DEF SaveChanges, RecordHistory
  <2> QED  BY <2>4 DEF SaveChanges, RecordHistory
<1>7. RequestOK' /\ LowTracked'
  <2>1. CASE ch.order = <<>>
    <3>1. Release(r)
      BY <2>1 DEF SaveChanges
    <3> QED  BY <3>1, ReleaseType, ReleaseLow DEF RequestOK, TypeInv, TypeOK
  <2>2. CASE ch.order # <<>>
    <3>1. Len(orders) + 1 \in Nat
      BY LenProperties DEF TypeInv, TypeOK
    <3>2. RequestOK'
      BY <2>2, <3>1 DEF SaveChanges, RequestOK, TypeInv, TypeOK
    <3>3. LowTracked'
      BY <2>2 DEF SaveChanges, LowTracked, TypeInv, TypeOK
    <3> QED  BY <3>2, <3>3
  <2> QED  BY <2>1, <2>2
<1>8. UNCHANGED <<orderCreated, lowStock, died>>
  BY DEF SaveChanges, RecordHistory, broker
<1> QED
  BY <1>1, <1>2, <1>3, <1>4, <1>5, <1>6, <1>7, <1>8
     DEF TypeInv, TypeOK, RequestOK

LEMMA PublishType ==
    ASSUME TypeInv, NEW r \in Requests,
           PublishOrderCreated(r) \/ PublishLowStock(r)
    PROVE  TypeInv'
<1>1. CASE PublishOrderCreated(r)
  <2>1. orderCreated' \in Seq(Nat)
    BY <1>1, AppendProperties DEF PublishOrderCreated, TypeInv, TypeOK
  <2>2. RequestOK' /\ LowTracked'
    <3>1. CASE low[r] = {}
      BY <1>1, <3>1, ReleaseType, ReleaseLow
         DEF PublishOrderCreated, RequestOK, TypeInv, TypeOK
    <3>2. CASE low[r] # {}
      BY <1>1, <3>2 DEF PublishOrderCreated, RequestOK, LowTracked, TypeInv, TypeOK
    <3> QED  BY <3>1, <3>2
  <2> QED
    BY <1>1, <2>1, <2>2
       DEF PublishOrderCreated, TypeInv, TypeOK, RequestOK, db, history
<1>2. CASE PublishLowStock(r)
  <2>1. PICK p \in low[r] :
          /\ lowStock' = Append(lowStock, [product |-> p,
                                           stock   |-> tracked[r].stock[p]])
          /\ IF low[r] = {p}
             THEN Release(r)
             ELSE /\ low' = [low EXCEPT ![r] = @ \ {p}]
                  /\ UNCHANGED <<pc, tracked, placed>>
    BY <1>2 DEF PublishLowStock
  <2>2. tracked[r].stock[p] \in 0..MaxStock /\ p \in Products
    <3>1. tracked[r].stock \in Partial(Products, 0..MaxStock)
      BY DEF TypeInv, TypeOK, Changes
    <3>2. p \in DOMAIN tracked[r].stock
      BY <2>1 DEF TypeInv, LowTracked
    <3> QED  BY <3>1, <3>2, PartialValue
  <2>3. lowStock' \in Seq([product : Products, stock : 0..MaxStock])
    <3> DEFINE Message == [product : Products, stock : 0..MaxStock]
               message == [product |-> p, stock |-> tracked[r].stock[p]]
    <3>1. message \in Message
      BY <2>2
    <3>2. lowStock \in Seq(Message) /\ lowStock' = Append(lowStock, message)
      BY <2>1 DEF TypeInv, TypeOK
    <3> HIDE DEF Message, message
    <3>3. lowStock' \in Seq(Message)
      BY <3>1, <3>2, AppendProperties
    <3> QED  BY <3>3 DEF Message
  <2>4. RequestOK' /\ LowTracked'
    <3>1. CASE low[r] = {p}
      BY <2>1, <3>1, ReleaseType, ReleaseLow DEF RequestOK, TypeInv, TypeOK
    <3>2. CASE low[r] # {p}
      <4>1. pc[r] = "reporting"
        BY <1>2 DEF PublishLowStock
      <4>2. low' = [low EXCEPT ![r] = @ \ {p}] /\ UNCHANGED <<pc, tracked, placed>>
        BY <2>1, <3>2
      <4>3. RequestOK'
        BY <4>2 DEF RequestOK, TypeInv, TypeOK
      <4>4. LowTracked'
        BY <4>1, <4>2 DEF LowTracked, TypeInv, TypeOK
      <4> QED  BY <4>3, <4>4
    <3> QED  BY <3>1, <3>2
  <2> QED
    BY <1>2, <2>3, <2>4
       DEF PublishLowStock, TypeInv, TypeOK, RequestOK, db, history
<1> QED  BY <1>1, <1>2

\* The four handlers that change a quantity.
LEMMA QuantityHandlers ==
    ASSUME TypeOK, NEW r, NEW c \in Customers, NEW p \in Products,
           \/ Increase(r, c, p) \/ Decrease(r, c, p)
           \/ UpdateQuantity(r, c, p) \/ RemoveItem(r, c, p)
    PROVE  \E q \in 0..MaxQty : SetQuantity(r, c, p, q)
<1>1. cart[<<c, p>>] \in 0..MaxQty
  BY DEF TypeOK, Rows
<1> QED
  BY <1>1, BoundsAssumption DEF Increase, Decrease, UpdateQuantity, RemoveItem

\* The shop opens well typed.
LEMMA TypeInit ==
    ASSUME Init
    PROVE  TypeInv
<1>1. RequestOK /\ LowTracked
  BY NoChangesType DEF Init, RequestOK, LowTracked
<1>2. cart \in [Rows -> 0..MaxQty]
  BY BoundsAssumption DEF Init
<1> QED
  BY <1>1, <1>2, InputsAssumption DEF Init, TypeInv, TypeOK, RequestOK

\* No step breaks the types.
LEMMA TypeStep == TypeInv /\ [Next]_vars => TypeInv'
<1> SUFFICES ASSUME TypeInv, [Next]_vars PROVE TypeInv'
  OBVIOUS
<1>1. CASE UNCHANGED vars
  BY <1>1 DEF TypeInv, TypeOK, LowTracked, vars, db, request, broker, history
<1>2. ASSUME NEW r \in Requests, NEW c \in Customers, NEW p \in Products,
             AddItem(r, c, p)
      PROVE  TypeInv'
  <2>1. Load(r, "reading", AddChanges(c, p)) /\ UNCHANGED low
    BY <1>2 DEF AddItem
  <2> QED  BY <2>1, AddChangesType, LoadType, LoadLow DEF TypeInv, TypeOK
<1>3. ASSUME NEW r \in Requests, NEW c \in Customers, NEW p \in Products,
             NEW q \in 0..MaxQty, SetQuantity(r, c, p, q)
      PROVE  TypeInv'
  <2>1. Load(r, "saving", QuantityChanges(c, p, q)) /\ UNCHANGED low
    BY <1>3 DEF SetQuantity
  <2> QED  BY <2>1, QuantityChangesType, LoadType, LoadLow DEF TypeInv, TypeOK
<1>4. ASSUME NEW r \in Requests, NEW c \in Customers, NEW p \in Products,
             \/ Increase(r, c, p) \/ Decrease(r, c, p)
             \/ UpdateQuantity(r, c, p) \/ RemoveItem(r, c, p)
      PROVE  \E q \in 0..MaxQty : SetQuantity(r, c, p, q)
  BY <1>4, QuantityHandlers DEF TypeInv
<1>5. ASSUME NEW r \in Requests, NEW c \in Customers, CreateOrder(r, c)
      PROVE  TypeInv'
  <2>1. Load(r, "saving", CheckoutChanges(c))
    BY <1>5 DEF CreateOrder
  <2>2. low' = [low EXCEPT ![r] =
          {p \in InCart(c) : IsLow(stock[p] - cart[<<c, p>>])}]
    BY <1>5 DEF CreateOrder
  <2>3. CheckoutChanges(c) \in Changes
    BY <1>5, CheckoutChangesType DEF CreateOrder, TypeInv
  <2>4. low' \in [Requests -> SUBSET Products]
    BY <2>2 DEF TypeInv, TypeOK, InCart
  <2>5. TypeOK'
    BY <2>1, <2>3, <2>4, LoadType DEF TypeInv
  <2>6. DOMAIN CheckoutChanges(c).stock = InCart(c)
    BY DEF CheckoutChanges
  <2>7. LowTracked'
    BY <2>1, <2>2, <2>6 DEF Load, LowTracked, TypeInv, TypeOK
  <2> QED  BY <2>5, <2>7 DEF TypeInv
<1>6. ASSUME NEW r \in Requests, NEW p \in Products, UpdateProduct(r, p)
      PROVE  TypeInv'
  <2>1. PICK q \in StockInputs, m \in Prices :
          Load(r, "saving", ProductChanges(p, q, m))
    BY <1>6 DEF UpdateProduct
  <2>2. UNCHANGED low
    BY <1>6 DEF UpdateProduct
  <2> QED  BY <2>1, <2>2, ProductChangesType, LoadType, LoadLow DEF TypeInv, TypeOK
<1>7. ASSUME NEW r \in Requests, ReadProduct(r)
      PROVE  TypeInv'
  <2>1. \/ pc' = [pc EXCEPT ![r] = "saving"] /\ UNCHANGED tracked
        \/ /\ pc' = [pc EXCEPT ![r] = "idle"]
           /\ tracked' = [tracked EXCEPT ![r] = NoChanges]
    BY <1>7 DEF ReadProduct
  <2>2. pc[r] = "reading" /\ UNCHANGED <<placed, low>>
    BY <1>7 DEF ReadProduct
  <2>3. RequestOK'
    BY <2>1, <2>2, NoChangesType DEF RequestOK, TypeInv, TypeOK
  <2>4. LowTracked'
    BY <2>1, <2>2 DEF LowTracked, TypeInv, TypeOK
  <2> QED
    BY <1>7, <2>3, <2>4 DEF ReadProduct, TypeInv, TypeOK, RequestOK, db, broker, history
<1>8. ASSUME NEW r \in Requests, Conflict(r) \/ Abort(r)
      PROVE  TypeInv'
  <2>1. Release(r) /\ UNCHANGED <<db, broker, rowsPut, ledger>>
    BY <1>8 DEF Conflict, Abort, history
  <2>2. RequestOK' /\ LowTracked'
    BY <2>1, ReleaseType, ReleaseLow DEF RequestOK, TypeInv, TypeOK
  <2>3. died' \subseteq Nat
    <3>1. died \subseteq Nat /\ placed[r] \in Nat
      BY DEF TypeInv, TypeOK
    <3>2. died' = died \/ died' = died \cup {placed[r]}
      BY <1>8 DEF Conflict, Abort, history
    <3> QED  BY <3>1, <3>2
  <2> QED  BY <2>1, <2>2, <2>3 DEF TypeInv, TypeOK, RequestOK, db, broker
<1>9. ASSUME NEW r \in Requests, Handle(r)
      PROVE  TypeInv'
  BY <1>1, <1>2, <1>3, <1>4, <1>5, <1>6, <1>9 DEF Handle, Rejected
<1>10. ASSUME NEW r \in Requests, Continue(r)
       PROVE  TypeInv'
  BY <1>7, <1>8, <1>10, SaveType, PublishType DEF Continue
<1> QED  BY <1>1, <1>8, <1>9, <1>10 DEF Next

\* Every reachable state is well typed: whatever requests do to each other, no
\* stock level is saved below zero and no cart row leaves its range
\* (CreateOrderHandler.cs 52, Product.cs 75-81, CartItem.cs 25-50).
THEOREM TypeCorrect == Spec => []TypeOK
<1>1. Init => TypeInv
  BY TypeInit
<1>2. TypeInv => TypeOK
  BY DEF TypeInv
<1> QED  BY <1>1, <1>2, TypeStep, PTL DEF Spec

-----------------------------------------------------------------------------
(* The balance of cart rows and order lines. *)

\* What a handler may have asked its context to save: rows put in are not
\* empty, and an order comes with the deletion of exactly the rows it sells.
Shape(ch) ==
    /\ ch.insert \subseteq DOMAIN ch.rows
    /\ \A row \in ch.insert : ch.rows[row] # 0
    /\ \/ ch.order = <<>>
       \/ /\ Len(ch.order) = 1
          /\ \A row \in DOMAIN ch.rows : ch.rows[row] = 0
          /\ \A row \in Rows :
                row \in DOMAIN ch.rows <=>
                   /\ row[1] = ch.order[1].customer
                   /\ row[2] \in DOMAIN ch.order[1].lines

ShapeInv == \A r \in Requests : pc[r] \in {"reading", "saving"} => Shape(tracked[r])

BalanceInv == TypeInv /\ ShapeInv /\ RowsBalance

\* Every handler's changes have the shape.
LEMMA CartShape ==
    ASSUME TypeOK, NEW c \in Customers, NEW p \in Products, NEW q \in 0..MaxQty
    PROVE  Shape(AddChanges(c, p)) /\ Shape(QuantityChanges(c, p, q))
<1>1. Shape(AddChanges(c, p))
  BY DEF Shape, AddChanges, NoChanges
<1>2. Shape(QuantityChanges(c, p, q))
  BY DEF Shape, QuantityChanges, NoChanges
<1> QED  BY <1>1, <1>2

LEMMA ProductShape ==
    ASSUME NEW p, NEW q, NEW m
    PROVE  Shape(ProductChanges(p, q, m))
BY DEF Shape, ProductChanges, NoChanges

LEMMA CheckoutShape ==
    ASSUME TypeOK, NEW c \in Customers
    PROVE  Shape(CheckoutChanges(c))
<1> DEFINE ch == CheckoutChanges(c)
<1>1. ch.insert = {} /\ ch.rows = [row \in {<<c, p>> : p \in InCart(c)} |-> 0]
  BY DEF CheckoutChanges
<1>2. ch.order = <<OrderFrom(c)>>
  BY DEF CheckoutChanges
<1>3. ch.order[1].customer = c /\ DOMAIN ch.order[1].lines = InCart(c)
  BY <1>2, OrderFromType DEF OrderFrom
<1>4. DOMAIN ch.rows = {<<c, p>> : p \in InCart(c)}
  BY <1>1
<1>5. ASSUME NEW row \in Rows
      PROVE  row \in DOMAIN ch.rows <=> row[1] = c /\ row[2] \in InCart(c)
  BY <1>4 DEF Rows
<1> QED  BY <1>1, <1>2, <1>3, <1>4, <1>5 DEF Shape

\* Where the changes of a request can come from.
LEMMA LoadedChanges ==
    ASSUME TypeOK, NEW r \in Requests, Handle(r), ~ UNCHANGED vars
    PROVE  \E step \in {"reading", "saving"}, ch \in Changes :
              /\ Load(r, step, ch)
              /\ Shape(ch)
<1>1. ASSUME NEW c \in Customers, NEW p \in Products, AddItem(r, c, p)
      PROVE  Load(r, "reading", AddChanges(c, p))
  BY <1>1 DEF AddItem
<1>2. ASSUME NEW c \in Customers, NEW p \in Products, NEW q \in 0..MaxQty,
             SetQuantity(r, c, p, q)
      PROVE  Load(r, "saving", QuantityChanges(c, p, q))
  BY <1>2 DEF SetQuantity
<1>3. ASSUME NEW c \in Customers, NEW p \in Products,
             \/ Increase(r, c, p) \/ Decrease(r, c, p)
             \/ UpdateQuantity(r, c, p) \/ RemoveItem(r, c, p)
      PROVE  \E q \in 0..MaxQty : SetQuantity(r, c, p, q)
  BY <1>3, QuantityHandlers
<1>4. ASSUME NEW c \in Customers, CreateOrder(r, c)
      PROVE  Load(r, "saving", CheckoutChanges(c)) /\ CheckoutChanges(c) \in Changes
  BY <1>4, CheckoutChangesType DEF CreateOrder
<1>5. ASSUME NEW p \in Products, UpdateProduct(r, p)
      PROVE  \E q \in StockInputs, m \in Prices :
                Load(r, "saving", ProductChanges(p, q, m))
  BY <1>5 DEF UpdateProduct
<1>6. 0 \in 0..MaxQty
  BY BoundsAssumption
<1>7. CASE \E c \in Customers, p \in Products : AddItem(r, c, p)
  BY <1>1, <1>6, <1>7, AddChangesType, CartShape
<1>8. CASE \E c \in Customers, p \in Products, q \in 0..MaxQty : SetQuantity(r, c, p, q)
  BY <1>2, <1>8, QuantityChangesType, CartShape
<1>9. CASE \E c \in Customers : CreateOrder(r, c)
  BY <1>4, <1>9, CheckoutShape
<1>10. CASE \E p \in Products : UpdateProduct(r, p)
  BY <1>5, <1>10, ProductChangesType, ProductShape
<1> QED  BY <1>3, <1>7, <1>8, <1>9, <1>10 DEF Handle, Rejected

\* A committed transaction keeps every row balanced.
LEMMA SaveBalance ==
    ASSUME BalanceInv, NEW r \in Requests, SaveChanges(r)
    PROVE  RowsBalance'
<1> DEFINE ch == tracked[r]
           Holds(row) == IF cart[row] > 0 THEN 1 ELSE 0
<1>1. ch \in Changes /\ Shape(ch) /\ Savable(ch)
  BY DEF BalanceInv, TypeInv, TypeOK, ShapeInv, SaveChanges
<1>2. \A row \in Rows : cart'[row] = IF row \in DOMAIN ch.rows
                                     THEN ch.rows[row] ELSE cart[row]
  BY DEF SaveChanges, Overwrite, BalanceInv, TypeInv, TypeOK
<1>3. \A row \in DOMAIN ch.rows : ch.rows[row] \in 0..MaxQty
  <2>1. ch.rows \in Partial(Rows, 0..MaxQty)
    BY <1>1 DEF Changes
  <2> QED  BY <2>1, PartialValue
<1>4. orders \in Seq(Order) /\ orders' = orders \o ch.order
  BY DEF SaveChanges, BalanceInv, TypeInv, TypeOK
<1> SUFFICES ASSUME NEW row \in Rows
             PROVE  rowsPut'[row] = Cardinality(OrdersWith(row)')
                                      + (IF cart'[row] > 0 THEN 1 ELSE 0)
  BY DEF RowsBalance, OrdersWith
<1>5. rowsPut[row] = Cardinality(OrdersWith(row)) + Holds(row)
  BY DEF BalanceInv, RowsBalance
<1>6. cart[row] \in 0..MaxQty /\ cart'[row] \in 0..MaxQty
  BY <1>2, <1>3 DEF BalanceInv, TypeInv, TypeOK
<1>7. rowsPut'[row] =
         IF row \in ch.insert THEN rowsPut[row] + 1
         ELSE IF row \in DOMAIN ch.rows /\ ch.rows[row] = 0 /\ ch.order = <<>>
              THEN rowsPut[row] - 1
              ELSE rowsPut[row]
  BY DEF SaveChanges, RecordHistory
<1>8. IsFiniteSet(OrdersWith(row)) /\ Cardinality(OrdersWith(row)) \in Nat
  <2>1. DOMAIN orders = 1..Len(orders) /\ Len(orders) \in Nat
    BY <1>4, LenProperties
  <2>2. IsFiniteSet(1..Len(orders))
    BY <2>1, FS_Interval
  <2>3. OrdersWith(row) \subseteq 1..Len(orders)
    BY <2>1 DEF OrdersWith
  <2> QED  BY <2>2, <2>3, FS_Subset, FS_CardinalityType
<1>9. CASE ch.order = <<>>
  <2>1. orders' = orders
    BY <1>4, <1>9
  <2>2. Cardinality(OrdersWith(row)') = Cardinality(OrdersWith(row))
    BY <2>1 DEF OrdersWith
  <2>3. CASE row \in ch.insert
    <3>1. cart[row] = 0 /\ cart'[row] # 0
      BY <1>1, <1>2, <2>3 DEF Shape, Savable
    <3> QED  BY <1>5, <1>6, <1>7, <1>8, <2>2, <2>3, <3>1
  <2>4. CASE row \in DOMAIN ch.rows /\ row \notin ch.insert
    <3>1. cart[row] # 0 /\ cart'[row] = ch.rows[row]
      BY <1>1, <1>2, <2>4 DEF Savable
    <3> QED  BY <1>5, <1>6, <1>7, <1>8, <1>9, <2>2, <2>4, <3>1
  <2>5. CASE row \notin DOMAIN ch.rows
    <3>1. cart'[row] = cart[row] /\ row \notin ch.insert
      BY <1>1, <1>2, <2>5 DEF Shape
    <3> QED  BY <1>5, <1>6, <1>7, <1>8, <2>2, <2>5, <3>1
  <2> QED  BY <1>1, <2>3, <2>4, <2>5 DEF Shape
<1>10. CASE ch.order # <<>>
  <2> DEFINE o == ch.order[1]
             n == Len(orders) + 1
  <2>1. /\ Len(ch.order) = 1
        /\ ch.insert = {}
        /\ \A x \in DOMAIN ch.rows : ch.rows[x] = 0
        /\ row \in DOMAIN ch.rows <=> row[1] = o.customer /\ row[2] \in DOMAIN o.lines
    BY <1>1, <1>10 DEF Shape
  <2>2. ch.order \in Seq(Order)
    BY <1>1 DEF Changes
  <2>3. /\ Len(orders') = n
        /\ \A i \in 1..Len(orders) : orders'[i] = orders[i]
        /\ orders'[n] = o
    <3>1. /\ Len(orders') = Len(orders) + Len(ch.order)
          /\ \A i \in 1..Len(orders) + Len(ch.order) :
                orders'[i] = IF i <= Len(orders) THEN orders[i]
                             ELSE ch.order[i - Len(orders)]
      BY <1>4, <2>2, ConcatProperties
    <3>2. Len(orders) \in Nat
      BY <1>4, LenProperties
    <3>3. n - Len(orders) = 1 /\ n \in 1..Len(orders) + 1 /\ ~ (n <= Len(orders))
      BY <3>2
    <3>4. orders'[n] = o
      BY <2>1, <3>1, <3>3
    <3>5. \A i \in 1..Len(orders) : orders'[i] = orders[i]
      BY <2>1, <3>1, <3>2
    <3> QED  BY <2>1, <3>1, <3>4, <3>5
  <2>4. DOMAIN orders = 1..Len(orders) /\ DOMAIN orders' = 1..n /\ Len(orders) \in Nat
    <3>1. orders' \in Seq(Order)
      BY <1>4, <2>2, ConcatProperties
    <3> QED  BY <1>4, <2>3, <3>1, LenProperties
  <2>5. n \notin OrdersWith(row)
    BY <2>4 DEF OrdersWith
  <2>6. OrdersWith(row)' = IF row \in DOMAIN ch.rows
                           THEN OrdersWith(row) \cup {n} ELSE OrdersWith(row)
    BY <2>1, <2>3, <2>4 DEF OrdersWith
  <2>7. rowsPut'[row] = rowsPut[row]
    BY <1>7, <1>10, <2>1
  <2>8. CASE row \in DOMAIN ch.rows
    <3>1. cart[row] # 0 /\ cart'[row] = 0
      BY <1>1, <1>2, <2>1, <2>8 DEF Savable
    <3>2. Cardinality(OrdersWith(row)') = Cardinality(OrdersWith(row)) + 1
      BY <1>8, <2>5, <2>6, <2>8, FS_AddElement
    <3> QED  BY <1>5, <1>6, <1>8, <2>7, <3>1, <3>2
  <2>9. CASE row \notin DOMAIN ch.rows
    BY <1>2, <1>5, <2>6, <2>7, <2>9
  <2> QED  BY <2>8, <2>9
<1> QED  BY <1>9, <1>10

\* The steps of a request other than the commit leave the balance alone, and
\* keep the shape of what is to be saved.
LEMMA BalanceStep == BalanceInv /\ [Next]_vars => BalanceInv'
<1> SUFFICES ASSUME BalanceInv, [Next]_vars PROVE BalanceInv'
  OBVIOUS
<1>1. TypeInv /\ TypeOK /\ TypeInv'
  BY TypeStep DEF BalanceInv, TypeInv
<1>2. ASSUME UNCHANGED <<cart, orders, rowsPut>>
      PROVE  RowsBalance'
  BY <1>2 DEF BalanceInv, RowsBalance, OrdersWith
<1>3. CASE UNCHANGED vars
  BY <1>1, <1>2, <1>3 DEF BalanceInv, ShapeInv, Shape, vars, db, request, history
<1>4. ASSUME NEW r \in Requests, Release(r)
      PROVE  ShapeInv'
  BY <1>1, <1>4 DEF Release, BalanceInv, ShapeInv, TypeOK, Shape
<1>5. ASSUME NEW r \in Requests, Handle(r), ~ UNCHANGED vars
      PROVE  BalanceInv'
  <2>1. PICK step \in {"reading", "saving"}, ch \in Changes :
           Load(r, step, ch) /\ Shape(ch)
    BY <1>1, <1>5, LoadedChanges
  <2>2. ShapeInv'
    BY <1>1, <2>1 DEF Load, BalanceInv, ShapeInv, TypeOK, Shape
  <2>3. RowsBalance'
    BY <1>2, <2>1 DEF Load, db, history
  <2> QED  BY <1>1, <2>2, <2>3 DEF BalanceInv
<1>6. ASSUME NEW r \in Requests, ReadProduct(r)
      PROVE  BalanceInv'
  <2>1. ShapeInv'
    <3>1. /\ pc[r] = "reading"
          /\ \/ pc' = [pc EXCEPT ![r] = "saving"] /\ UNCHANGED tracked
             \/ /\ pc' = [pc EXCEPT ![r] = "idle"]
                /\ tracked' = [tracked EXCEPT ![r] = NoChanges]
      BY <1>6 DEF ReadProduct
    <3>2. ASSUME NEW q \in Requests, pc'[q] \in {"reading", "saving"}
          PROVE  pc[q] \in {"reading", "saving"} /\ tracked'[q] = tracked[q]
      BY <1>1, <3>1, <3>2 DEF TypeOK
    <3>3. ASSUME NEW q \in Requests, pc'[q] \in {"reading", "saving"}
          PROVE  Shape(tracked'[q])
      BY <3>2, <3>3 DEF BalanceInv, ShapeInv
    <3> QED  BY <3>3 DEF ShapeInv, Shape
  <2>2. RowsBalance'
    BY <1>2, <1>6 DEF ReadProduct, db, history
  <2> QED  BY <1>1, <2>1, <2>2 DEF BalanceInv
<1>7. ASSUME NEW r \in Requests, SaveChanges(r)
      PROVE  BalanceInv'
  <2>1. ShapeInv'
    <3>1. CASE tracked[r].order = <<>>
      BY <1>4, <1>7, <3>1 DEF SaveChanges
    <3>2. CASE tracked[r].order # <<>>
      BY <1>1, <1>7, <3>2 DEF SaveChanges, BalanceInv, ShapeInv, TypeOK, Shape
    <3> QED  BY <3>1, <3>2
  <2> QED  BY <1>1, <1>7, <2>1, SaveBalance DEF BalanceInv
<1>8. ASSUME NEW r \in Requests, Conflict(r) \/ Abort(r)
      PROVE  BalanceInv'
  <2>1. Release(r) /\ UNCHANGED <<cart, orders, rowsPut>>
    BY <1>8 DEF Conflict, Abort, db, history
  <2> QED  BY <1>1, <1>2, <1>4, <2>1 DEF BalanceInv
<1>9. ASSUME NEW r \in Requests, PublishOrderCreated(r) \/ PublishLowStock(r)
      PROVE  BalanceInv'
  <2>1. UNCHANGED <<cart, orders, rowsPut>>
    BY <1>9 DEF PublishOrderCreated, PublishLowStock, db, history
  <2>2. ASSUME ~ Release(r)
        PROVE  /\ UNCHANGED tracked
               /\ pc' = pc \/ pc' = [pc EXCEPT ![r] = "reporting"]
    BY <1>9, <2>2 DEF PublishOrderCreated, PublishLowStock
  <2>3. ShapeInv'
    <3>1. CASE Release(r)
      BY <1>4, <3>1
    <3>2. CASE ~ Release(r)
      BY <1>1, <2>2, <3>2 DEF BalanceInv, ShapeInv, TypeOK, Shape
    <3> QED  BY <3>1, <3>2
  <2> QED  BY <1>1, <1>2, <2>1, <2>3 DEF BalanceInv
<1> QED
  BY <1>3, <1>5, <1>6, <1>7, <1>8, <1>9 DEF Next, Continue

\* The shop opens balanced.
LEMMA BalanceInit ==
    ASSUME Init
    PROVE  BalanceInv
<1>1. TypeInv
  BY TypeInit
<1>2. ShapeInv
  BY DEF Init, ShapeInv
<1>3. \A row \in Rows : Cardinality(OrdersWith(row)) = 0
  <2>1. \A row \in Rows : OrdersWith(row) = {}
    BY DEF Init, OrdersWith
  <2> QED  BY <2>1, FS_EmptySet
<1>4. \A row \in Rows : cart[row] = 0 /\ rowsPut[row] = 0
  BY DEF Init
<1>5. RowsBalance
  BY <1>3, <1>4 DEF RowsBalance
<1> QED  BY <1>1, <1>2, <1>5 DEF BalanceInv

\* No interleaving of requests sells a cart row twice or loses one: every row
\* the customer put in the cart and did not take out is in the cart or in
\* exactly one order (CreateOrderHandler.cs 41-68).
THEOREM RowsBalanced == Spec => []RowsBalance
<1>1. BalanceInv => RowsBalance
  BY DEF BalanceInv
<1> QED  BY <1>1, BalanceInit, BalanceStep, PTL DEF Spec


-----------------------------------------------------------------------------
(* Announcements. *)

\* A pending announcement is for an order that exists, that has not been
\* announced and that no other request is about to announce.
PendingOnce ==
    \A r \in Requests : pc[r] = "announcing" =>
        /\ placed[r] \in DOMAIN orders
        /\ \A i \in DOMAIN orderCreated : orderCreated[i] # placed[r]
        /\ \A s \in Requests : pc[s] = "announcing" /\ placed[s] = placed[r] => s = r

AnnounceInv == BalanceInv /\ AnnouncedOnce /\ PendingOnce

\* A commit creates the order that is then pending.
LEMMA SaveAnnounce ==
    ASSUME AnnounceInv, NEW r \in Requests, SaveChanges(r)
    PROVE  AnnouncedOnce' /\ PendingOnce'
<1> DEFINE ch == tracked[r]
<1>1. TypeOK /\ orderCreated' = orderCreated
  BY DEF AnnounceInv, BalanceInv, TypeInv, SaveChanges, broker
<1>2. orders \in Seq(Order) /\ ch.order \in Seq(Order) /\ orders' = orders \o ch.order
  BY <1>1 DEF TypeOK, Changes, SaveChanges
<1>3. CASE ch.order = <<>>
  <2>1. orders' = orders
    BY <1>2, <1>3, ConcatEmptySeq
  <2>2. Release(r)
    BY <1>3 DEF SaveChanges
  <2>3. AnnouncedOnce'
    BY <1>1, <2>1 DEF AnnounceInv, AnnouncedOnce
  <2>4. PendingOnce'
    BY <1>1, <2>1, <2>2 DEF Release, AnnounceInv, PendingOnce, TypeOK
  <2> QED  BY <2>3, <2>4
<1>4. CASE ch.order # <<>>
  <2> DEFINE n == Len(orders) + 1
  <2>1. Len(ch.order) = 1
    <3>1. Shape(ch)
      BY DEF AnnounceInv, BalanceInv, ShapeInv, SaveChanges
    <3> QED  BY <1>4, <3>1 DEF Shape
  <2>2. orders' \in Seq(Order) /\ Len(orders') = n
    <3>1. /\ orders \o ch.order \in Seq(Order)
          /\ Len(orders \o ch.order) = Len(orders) + Len(ch.order)
      BY <1>2, ConcatProperties
    <3> QED  BY <1>2, <2>1, <3>1
  <2>3. DOMAIN orders = 1..Len(orders) /\ DOMAIN orders' = 1..n /\ Len(orders) \in Nat
    BY <1>2, <2>2, LenProperties
  <2>4. DOMAIN orders \subseteq DOMAIN orders' /\ n \in DOMAIN orders' /\ n \notin DOMAIN orders
    BY <2>3
  <2>5. pc' = [pc EXCEPT ![r] = "announcing"] /\ placed' = [placed EXCEPT ![r] = n]
    BY <1>4 DEF SaveChanges
  <2>6. AnnouncedOnce'
    BY <1>1, <2>4 DEF AnnounceInv, AnnouncedOnce
  <2>7. pc[r] = "saving"
    BY DEF SaveChanges
  <2>8. \A i \in DOMAIN orderCreated : orderCreated[i] # n
    BY <2>4 DEF AnnounceInv, AnnouncedOnce
  <2>9. \A s \in Requests : pc[s] = "announcing" => placed[s] # n
    BY <2>4 DEF AnnounceInv, PendingOnce
  <2>10. \A s \in Requests \ {r} : pc'[s] = pc[s] /\ placed'[s] = placed[s]
    BY <1>1, <2>5 DEF TypeOK
  <2>11. pc'[r] = "announcing" /\ placed'[r] = n
    BY <1>1, <2>5 DEF TypeOK
  <2> HIDE DEF n
  <2>12. ASSUME NEW s \in Requests, pc'[s] = "announcing"
         PROVE  /\ placed'[s] \in DOMAIN orders'
                /\ \A i \in DOMAIN orderCreated' : orderCreated'[i] # placed'[s]
                /\ \A q \in Requests : pc'[q] = "announcing" /\ placed'[q] = placed'[s]
                                          => q = s
    <3>1. CASE s = r
      BY <1>1, <2>4, <2>8, <2>9, <2>10, <2>11, <3>1
    <3>2. CASE s # r
      <4>1. /\ placed[s] \in DOMAIN orders
            /\ \A i \in DOMAIN orderCreated : orderCreated[i] # placed[s]
            /\ \A q \in Requests : pc[q] = "announcing" /\ placed[q] = placed[s] => q = s
            /\ placed[s] # n
        BY <2>9, <2>10, <2>12, <3>2 DEF AnnounceInv, PendingOnce
      <4> QED  BY <1>1, <2>4, <2>10, <2>11, <3>2, <4>1
    <3> QED  BY <3>1, <3>2
  <2> QED  BY <2>6, <2>12 DEF PendingOnce
<1> QED  BY <1>3, <1>4

LEMMA AnnounceStep == AnnounceInv /\ [Next]_vars => AnnounceInv'
<1> SUFFICES ASSUME AnnounceInv, [Next]_vars PROVE AnnounceInv'
  OBVIOUS
<1>1. BalanceInv' /\ TypeOK /\ TypeOK'
  BY BalanceStep DEF AnnounceInv, BalanceInv, TypeInv
<1>2. ASSUME UNCHANGED <<orders, orderCreated>>,
             \A s \in Requests : pc'[s] = "announcing" =>
                pc[s] = "announcing" /\ placed'[s] = placed[s]
      PROVE  AnnounceInv'
  BY <1>1, <1>2 DEF AnnounceInv, AnnouncedOnce, PendingOnce
<1>3. CASE UNCHANGED vars
  BY <1>2, <1>3 DEF vars, db, request, broker
<1>4. ASSUME NEW r \in Requests, Handle(r), ~ UNCHANGED vars
      PROVE  AnnounceInv'
  <2>1. PICK step \in {"reading", "saving"}, ch \in Changes : Load(r, step, ch)
    BY <1>1, <1>4, LoadedChanges
  <2>2. UNCHANGED <<orders, orderCreated, placed>>
    BY <2>1 DEF Load, db, broker
  <2>3. \A s \in Requests : pc'[s] = "announcing" => pc[s] = "announcing"
    BY <1>1, <2>1 DEF Load, TypeOK
  <2> QED  BY <1>2, <2>2, <2>3
<1>5. ASSUME NEW r \in Requests, Release(r), UNCHANGED <<orders, orderCreated>>
      PROVE  AnnounceInv'
  BY <1>1, <1>2, <1>5 DEF Release, TypeOK
<1>6. ASSUME NEW r \in Requests, ReadProduct(r)
      PROVE  AnnounceInv'
  <2>1. /\ UNCHANGED <<orders, orderCreated, placed>>
        /\ pc' = [pc EXCEPT ![r] = "saving"] \/ pc' = [pc EXCEPT ![r] = "idle"]
    BY <1>6 DEF ReadProduct, db, broker
  <2> QED  BY <1>1, <1>2, <2>1 DEF TypeOK
<1>7. ASSUME NEW r \in Requests, PublishOrderCreated(r)
      PROVE  AnnounceInv'
  <2>1. /\ pc[r] = "announcing" /\ orders' = orders
        /\ orderCreated' = Append(orderCreated, placed[r])
    BY <1>7 DEF PublishOrderCreated, db
  <2>2. orderCreated \in Seq(Nat) /\ placed[r] \in Nat
    BY <1>1 DEF TypeOK
  <2>3. /\ Len(orderCreated') = Len(orderCreated) + 1
        /\ \A i \in 1..Len(orderCreated) : orderCreated'[i] = orderCreated[i]
        /\ orderCreated'[Len(orderCreated) + 1] = placed[r]
        /\ orderCreated' \in Seq(Nat)
    BY <2>1, <2>2, AppendProperties
  <2>4. /\ DOMAIN orderCreated = 1..Len(orderCreated)
        /\ DOMAIN orderCreated' = 1..Len(orderCreated) + 1
        /\ Len(orderCreated) \in Nat
    BY <2>2, <2>3, LenProperties
  <2>5. \A i \in DOMAIN orderCreated' :
           \/ i \in DOMAIN orderCreated /\ orderCreated'[i] = orderCreated[i]
           \/ i \notin DOMAIN orderCreated /\ orderCreated'[i] = placed[r]
              /\ i = Len(orderCreated) + 1
    BY <2>3, <2>4
  <2>6. /\ placed[r] \in DOMAIN orders
        /\ \A i \in DOMAIN orderCreated : orderCreated[i] # placed[r]
        /\ \A s \in Requests : pc[s] = "announcing" /\ placed[s] = placed[r] => s = r
    BY <2>1 DEF AnnounceInv, PendingOnce
  <2>7. AnnouncedOnce'
    BY <2>1, <2>5, <2>6 DEF AnnounceInv, AnnouncedOnce
  <2>8. /\ pc'[r] # "announcing"
        /\ \A s \in Requests \ {r} : pc'[s] = pc[s] /\ placed'[s] = placed[s]
    BY <1>1, <1>7 DEF PublishOrderCreated, Release, TypeOK
  <2>9. ASSUME NEW s \in Requests, pc'[s] = "announcing"
        PROVE  /\ placed'[s] \in DOMAIN orders'
               /\ \A i \in DOMAIN orderCreated' : orderCreated'[i] # placed'[s]
               /\ \A q \in Requests : pc'[q] = "announcing" /\ placed'[q] = placed'[s]
                                         => q = s
    <3>1. s # r /\ pc[s] = "announcing" /\ placed'[s] = placed[s]
      BY <2>8, <2>9
    <3>2. placed[s] # placed[r]
      BY <2>6, <3>1
    <3>3. /\ placed[s] \in DOMAIN orders
          /\ \A i \in DOMAIN orderCreated : orderCreated[i] # placed[s]
          /\ \A q \in Requests : pc[q] = "announcing" /\ placed[q] = placed[s] => q = s
      BY <3>1 DEF AnnounceInv, PendingOnce
    <3> QED  BY <2>1, <2>5, <2>8, <3>1, <3>2, <3>3
  <2> QED  BY <1>1, <2>7, <2>9 DEF AnnounceInv, PendingOnce
<1>8. ASSUME NEW r \in Requests, PublishLowStock(r)
      PROVE  AnnounceInv'
  <2>1. UNCHANGED <<orders, orderCreated>>
    BY <1>8 DEF PublishLowStock, db
  <2>2. CASE Release(r)
    BY <1>5, <2>1, <2>2
  <2>3. CASE ~ Release(r)
    <3>1. UNCHANGED <<pc, placed>>
      BY <1>8, <2>3 DEF PublishLowStock
    <3> QED  BY <1>2, <2>1, <3>1
  <2> QED  BY <2>2, <2>3
<1>9. ASSUME NEW r \in Requests, Conflict(r) \/ Abort(r)
      PROVE  AnnounceInv'
  BY <1>5, <1>9 DEF Conflict, Abort, db, broker
<1>10. ASSUME NEW r \in Requests, SaveChanges(r)
       PROVE  AnnounceInv'
  BY <1>1, <1>10, SaveAnnounce DEF AnnounceInv
<1> QED
  BY <1>3, <1>4, <1>6, <1>7, <1>8, <1>9, <1>10 DEF Next, Continue

\* The OrderCreated messages are for orders that were committed, one message for
\* an order at most, whatever fails between the commit and the publication
\* (CreateOrderHandler.cs 68-86).
THEOREM OrdersAnnouncedOnce == Spec => []AnnouncedOnce
<1>1. Init => AnnounceInv
  <2> SUFFICES ASSUME Init PROVE AnnounceInv
    OBVIOUS
  <2>1. DOMAIN orderCreated = {} /\ \A r \in Requests : pc[r] = "idle"
    BY DEF Init
  <2>2. AnnouncedOnce /\ PendingOnce
    BY <2>1 DEF AnnouncedOnce, PendingOnce
  <2> QED  BY <2>2, BalanceInit DEF AnnounceInv
<1>2. AnnounceInv => AnnouncedOnce
  BY DEF AnnounceInv
<1> QED  BY <1>1, <1>2, AnnounceStep, PTL DEF Spec

\* The orders of requests that died exist, and nobody is about to announce them.
DiedAreLost ==
    /\ died \subseteq DOMAIN orders
    /\ \A r \in Requests : pc[r] = "announcing" => placed[r] \notin died

SilentInv == AnnounceInv /\ SilentOnlyIfDied /\ DiedAreLost

\* A commit makes a new order, which its request is about to announce.
LEMMA SaveSilent ==
    ASSUME SilentInv, NEW r \in Requests, SaveChanges(r)
    PROVE  SilentOnlyIfDied' /\ DiedAreLost'
<1> DEFINE ch == tracked[r]
<1>1. /\ TypeOK /\ orderCreated' = orderCreated /\ died' = died
      /\ pc[r] = "saving" /\ Shape(ch)
  BY DEF SilentInv, AnnounceInv, BalanceInv, ShapeInv, TypeInv, SaveChanges, RecordHistory, broker
<1>2. orders \in Seq(Order) /\ ch.order \in Seq(Order) /\ orders' = orders \o ch.order
  BY <1>1 DEF TypeOK, Changes, SaveChanges
<1>3. \A s \in Requests \ {r} : pc'[s] = pc[s] /\ placed'[s] = placed[s]
  BY <1>1 DEF SaveChanges, Release, TypeOK
<1>4. CASE ch.order = <<>>
  <2>1. orders' = orders /\ pc'[r] # "announcing"
    BY <1>1, <1>2, <1>4, ConcatEmptySeq DEF SaveChanges, Release, TypeOK
  <2> QED  BY <1>1, <1>3, <2>1 DEF SilentInv, SilentOnlyIfDied, DiedAreLost
<1>5. CASE ch.order # <<>>
  <2> DEFINE n == Len(orders) + 1
  <2>1. orders' \in Seq(Order) /\ Len(orders') = n
    <3>1. Len(ch.order) = 1
      BY <1>1, <1>5 DEF Shape
    <3>2. orders \o ch.order \in Seq(Order) /\ Len(orders \o ch.order) = Len(orders) + Len(ch.order)
      BY <1>2, ConcatProperties
    <3> QED  BY <1>2, <3>1, <3>2
  <2>2. DOMAIN orders = 1..Len(orders) /\ DOMAIN orders' = 1..n /\ Len(orders) \in Nat
    BY <1>2, <2>1, LenProperties
  <2>3. DOMAIN orders' = DOMAIN orders \cup {n} /\ n \notin DOMAIN orders
    BY <2>2
  <2>4. pc'[r] = "announcing" /\ placed'[r] = n
    BY <1>1, <1>5 DEF SaveChanges, TypeOK
  <2> HIDE DEF n
  <2>5. ASSUME NEW m \in DOMAIN orders'
        PROVE  \/ \E i \in DOMAIN orderCreated' : orderCreated'[i] = m
               \/ \E s \in Requests : pc'[s] = "announcing" /\ placed'[s] = m
               \/ m \in died'
    <3>1. CASE m = n
      BY <2>4, <3>1
    <3>2. CASE m # n
      <4>1. m \in DOMAIN orders
        BY <2>3, <3>2
      <4>2. \/ \E i \in DOMAIN orderCreated : orderCreated[i] = m
            \/ \E s \in Requests : pc[s] = "announcing" /\ placed[s] = m
            \/ m \in died
        BY <4>1 DEF SilentInv, SilentOnlyIfDied
      <4>3. ASSUME NEW s \in Requests, pc[s] = "announcing", placed[s] = m
            PROVE  pc'[s] = "announcing" /\ placed'[s] = m
        BY <1>1, <1>3, <4>3
      <4> QED  BY <1>1, <4>2, <4>3
    <3> QED  BY <3>1, <3>2
  <2>6. \A i \in DOMAIN orderCreated' : orderCreated'[i] \notin died'
    BY <1>1 DEF SilentInv, SilentOnlyIfDied
  <2>7. ASSUME NEW s \in Requests, pc'[s] = "announcing"
        PROVE  placed'[s] \notin died'
    <3>1. n \notin died
      BY <2>3 DEF SilentInv, DiedAreLost
    <3> QED  BY <1>1, <1>3, <2>4, <2>7, <3>1 DEF SilentInv, DiedAreLost
  <2>8. died' \subseteq DOMAIN orders'
    BY <1>1, <2>3 DEF SilentInv, DiedAreLost
  <2> QED  BY <2>5, <2>6, <2>7, <2>8 DEF SilentOnlyIfDied, DiedAreLost
<1> QED  BY <1>4, <1>5

\* A request that announces its order is the only one that has it in hand.
LEMMA PublishSilent ==
    ASSUME SilentInv, NEW r \in Requests, PublishOrderCreated(r)
    PROVE  SilentOnlyIfDied' /\ DiedAreLost'
<1>1. TypeOK /\ orders' = orders /\ died' = died /\ pc[r] = "announcing"
  BY DEF SilentInv, AnnounceInv, BalanceInv, TypeInv, PublishOrderCreated, db, history
<1>2. orderCreated \in Seq(Nat) /\ placed[r] \in Nat /\ orderCreated' = Append(orderCreated, placed[r])
  BY <1>1 DEF TypeOK, PublishOrderCreated
<1>3. /\ Len(orderCreated') = Len(orderCreated) + 1
      /\ \A i \in 1..Len(orderCreated) : orderCreated'[i] = orderCreated[i]
      /\ orderCreated'[Len(orderCreated) + 1] = placed[r]
      /\ orderCreated' \in Seq(Nat)
  BY <1>2, AppendProperties
<1>4. /\ DOMAIN orderCreated = 1..Len(orderCreated)
      /\ DOMAIN orderCreated' = 1..Len(orderCreated) + 1
      /\ Len(orderCreated) \in Nat
  BY <1>2, <1>3, LenProperties
<1>5. /\ \A i \in DOMAIN orderCreated : i \in DOMAIN orderCreated' /\ orderCreated'[i] = orderCreated[i]
      /\ \E i \in DOMAIN orderCreated' : orderCreated'[i] = placed[r]
      /\ \A i \in DOMAIN orderCreated' : i \in DOMAIN orderCreated \/ orderCreated'[i] = placed[r]
  BY <1>3, <1>4
<1>6. /\ pc'[r] # "announcing"
      /\ \A s \in Requests \ {r} : pc'[s] = pc[s] /\ placed'[s] = placed[s]
  BY <1>1 DEF PublishOrderCreated, Release, TypeOK
<1>7. ASSUME NEW m \in DOMAIN orders'
      PROVE  \/ \E i \in DOMAIN orderCreated' : orderCreated'[i] = m
             \/ \E s \in Requests : pc'[s] = "announcing" /\ placed'[s] = m
             \/ m \in died'
  <2>1. CASE m = placed[r]
    BY <1>5, <2>1
  <2>2. CASE m # placed[r]
    BY <1>1, <1>5, <1>6, <2>2 DEF SilentInv, SilentOnlyIfDied
  <2> QED  BY <2>1, <2>2
<1>8. placed[r] \notin died
  BY <1>1 DEF SilentInv, DiedAreLost
<1>9. ASSUME NEW i \in DOMAIN orderCreated'
      PROVE  orderCreated'[i] \notin died'
  BY <1>1, <1>5, <1>8 DEF SilentInv, SilentOnlyIfDied
<1>10. DiedAreLost'
  BY <1>1, <1>6 DEF SilentInv, DiedAreLost
<1> QED  BY <1>7, <1>9, <1>10 DEF SilentOnlyIfDied

\* A request that dies before its announcement leaves the order to the dead ones.
LEMMA AbortSilent ==
    ASSUME SilentInv, NEW r \in Requests, Abort(r)
    PROVE  SilentOnlyIfDied' /\ DiedAreLost'
<1>1. /\ TypeOK /\ UNCHANGED <<orders, orderCreated>>
      /\ died' = IF pc[r] = "announcing" THEN died \cup {placed[r]} ELSE died
  BY DEF SilentInv, AnnounceInv, BalanceInv, TypeInv, Abort, db, broker
<1>2. /\ pc'[r] # "announcing"
      /\ \A s \in Requests \ {r} : pc'[s] = pc[s] /\ placed'[s] = placed[s]
  BY <1>1 DEF Abort, Release, TypeOK
<1>3. CASE pc[r] = "announcing"
  <2>1. /\ placed[r] \in DOMAIN orders
        /\ \A i \in DOMAIN orderCreated : orderCreated[i] # placed[r]
        /\ \A s \in Requests : pc[s] = "announcing" /\ placed[s] = placed[r] => s = r
    BY <1>3 DEF SilentInv, AnnounceInv, PendingOnce
  <2>2. died' = died \cup {placed[r]}
    BY <1>1, <1>3
  <2>3. SilentOnlyIfDied'
    BY <1>1, <1>2, <2>1, <2>2 DEF SilentInv, SilentOnlyIfDied
  <2>4. DiedAreLost'
    BY <1>1, <1>2, <2>1, <2>2 DEF SilentInv, DiedAreLost
  <2> QED  BY <2>3, <2>4
<1>4. CASE pc[r] # "announcing"
  BY <1>1, <1>2, <1>4 DEF SilentInv, SilentOnlyIfDied, DiedAreLost
<1> QED  BY <1>3, <1>4

LEMMA SilentStep == SilentInv /\ [Next]_vars => SilentInv'
<1> SUFFICES ASSUME SilentInv, [Next]_vars PROVE SilentInv'
  OBVIOUS
<1>1. AnnounceInv' /\ TypeOK
  BY AnnounceStep DEF SilentInv, AnnounceInv, BalanceInv, TypeInv
<1>2. ASSUME UNCHANGED <<orders, orderCreated, died>>,
             \A s \in Requests :
                /\ pc'[s] = "announcing" <=> pc[s] = "announcing"
                /\ pc[s] = "announcing" => placed'[s] = placed[s]
      PROVE  SilentInv'
  BY <1>1, <1>2 DEF SilentInv, SilentOnlyIfDied, DiedAreLost
<1>3. CASE UNCHANGED vars
  BY <1>2, <1>3 DEF vars, db, request, broker, history
<1>4. ASSUME NEW r \in Requests, Handle(r), ~ UNCHANGED vars
      PROVE  SilentInv'
  <2>1. PICK step \in {"reading", "saving"}, ch \in Changes : Load(r, step, ch)
    BY <1>1, <1>4, LoadedChanges
  <2>2. UNCHANGED <<orders, orderCreated, placed, died>>
    BY <2>1 DEF Load, db, broker, history
  <2>3. \A s \in Requests : pc'[s] = "announcing" <=> pc[s] = "announcing"
    BY <1>1, <2>1 DEF Load, TypeOK
  <2> QED  BY <1>2, <2>2, <2>3
<1>5. ASSUME NEW r \in Requests, Release(r), pc[r] # "announcing",
             UNCHANGED <<orders, orderCreated, died>>
      PROVE  SilentInv'
  BY <1>1, <1>2, <1>5 DEF Release, TypeOK
<1>6. ASSUME NEW r \in Requests, ReadProduct(r)
      PROVE  SilentInv'
  <2>1. /\ UNCHANGED <<orders, orderCreated, placed, died>> /\ pc[r] = "reading"
        /\ pc' = [pc EXCEPT ![r] = "saving"] \/ pc' = [pc EXCEPT ![r] = "idle"]
    BY <1>6 DEF ReadProduct, db, broker, history
  <2> QED  BY <1>1, <1>2, <2>1 DEF TypeOK
<1>7. ASSUME NEW r \in Requests, PublishLowStock(r)
      PROVE  SilentInv'
  <2>1. UNCHANGED <<orders, orderCreated, died>> /\ pc[r] = "reporting"
    BY <1>7 DEF PublishLowStock, db, history
  <2>2. CASE Release(r)
    BY <1>5, <2>1, <2>2
  <2>3. CASE ~ Release(r)
    <3>1. UNCHANGED <<pc, placed>>
      BY <1>7, <2>3 DEF PublishLowStock
    <3> QED  BY <1>2, <2>1, <3>1
  <2> QED  BY <2>2, <2>3
<1>8. ASSUME NEW r \in Requests, Conflict(r)
      PROVE  SilentInv'
  BY <1>5, <1>8 DEF Conflict, db, broker, history
<1>9. ASSUME NEW r \in Requests, SaveChanges(r) \/ PublishOrderCreated(r) \/ Abort(r)
      PROVE  SilentInv'
  BY <1>1, <1>9, SaveSilent, PublishSilent, AbortSilent DEF SilentInv
<1> QED
  BY <1>3, <1>4, <1>6, <1>7, <1>8, <1>9 DEF Next, Continue

\* Every order is announced, or about to be, or lost its request between the
\* commit and the message: a crash costs the announcements of the requests it
\* ends there and no others (CreateOrderHandler.cs 68-79).
THEOREM OnlyTheDeadAreSilent == Spec => []SilentOnlyIfDied
<1>1. Init => SilentInv
  <2> SUFFICES ASSUME Init PROVE SilentInv
    OBVIOUS
  <2>1. /\ DOMAIN orders = {} /\ DOMAIN orderCreated = {} /\ died = {}
        /\ \A r \in Requests : pc[r] = "idle"
    BY DEF Init
  <2>2. AnnounceInv
    BY <2>1, BalanceInit DEF AnnounceInv, AnnouncedOnce, PendingOnce
  <2> QED  BY <2>1, <2>2 DEF SilentInv, SilentOnlyIfDied, DiedAreLost
<1>2. SilentInv => SilentOnlyIfDied
  BY DEF SilentInv
<1> QED  BY <1>1, <1>2, SilentStep, PTL DEF Spec

-----------------------------------------------------------------------------
(* Whatever the interleaving, no unit disappears.                           *)

\* When nobody edits the stock, only a checkout has stock to save, and what it
\* will write covers the ledger as it will be once the order is subtracted.
\* The ledger may fall after the checkout has read the stock, but never rise.
Covered(ch) ==
    \A p \in DOMAIN ch.stock :
        /\ ch.order # <<>>
        /\ p \in DOMAIN ch.order[1].lines
        /\ ch.stock[p] + ch.order[1].lines[p].qty >= ledger[p]

SoldIsTracked(ch) ==
    ch.order # <<>> => DOMAIN ch.order[1].lines = DOMAIN ch.stock

CoverInv ==
    /\ TypeInv
    /\ NoUnitVanishes
    /\ \A r \in Requests : pc[r] \in {"reading", "saving"} =>
          Covered(tracked[r]) /\ SoldIsTracked(tracked[r])

\* The quantities of a tracked order, and the stock to be written, are numbers.
LEMMA TrackedNumbers ==
    ASSUME TypeOK, NEW r \in Requests
    PROVE  /\ \A p \in DOMAIN tracked[r].stock :
                 p \in Products /\ tracked[r].stock[p] \in Int
           /\ tracked[r].order # <<>> =>
                 \A p \in DOMAIN tracked[r].order[1].lines :
                    /\ p \in Products
                    /\ tracked[r].order[1].lines[p].qty \in Nat \ {0}
<1> DEFINE ch == tracked[r]
<1>1. ch \in Changes
  BY DEF TypeOK
<1>2. ch.stock \in Partial(Products, 0..MaxStock)
  BY <1>1 DEF Changes
<1>3. \A p \in DOMAIN ch.stock : p \in Products /\ ch.stock[p] \in Int
  <2>1. \A p \in DOMAIN ch.stock : p \in Products /\ ch.stock[p] \in 0..MaxStock
    BY <1>2, PartialValue
  <2> QED  BY <2>1, BoundsAssumption
<1>4. ASSUME ch.order # <<>>, NEW p \in DOMAIN ch.order[1].lines
      PROVE  p \in Products /\ ch.order[1].lines[p].qty \in Nat \ {0}
  <2>1. ch.order[1] \in Order
    BY <1>1, <1>4 DEF Changes
  <2>2. ch.order[1].lines \in Partial(Products, Line)
    BY <2>1 DEF Order
  <2>3. p \in Products /\ ch.order[1].lines[p] \in Line
    BY <2>2, <1>4, PartialValue
  <2>4. ch.order[1].lines[p].qty \in 1..MaxQty
    BY <2>3 DEF Line
  <2> QED  BY <2>3, <2>4, BoundsAssumption
<1> QED  BY <1>3, <1>4

\* A handler prepares changes that cover the ledger.
LEMMA LoadCovered ==
    ASSUME StockInputs = {}, TypeOK, NoUnitVanishes, NEW r \in Requests,
           Handle(r), ~ UNCHANGED vars
    PROVE  \E step \in {"reading", "saving"} : \E ch :
              /\ Load(r, step, ch)
              /\ Covered(ch)
              /\ SoldIsTracked(ch)
<1>1. ASSUME NEW c \in Customers, NEW p \in Products, AddItem(r, c, p)
      PROVE  /\ Load(r, "reading", AddChanges(c, p))
             /\ Covered(AddChanges(c, p)) /\ SoldIsTracked(AddChanges(c, p))
  BY <1>1 DEF AddItem, AddChanges, NoChanges, Covered, SoldIsTracked
<1>2. ASSUME NEW c \in Customers, NEW p \in Products, NEW q \in 0..MaxQty,
             SetQuantity(r, c, p, q)
      PROVE  /\ Load(r, "saving", QuantityChanges(c, p, q))
             /\ Covered(QuantityChanges(c, p, q))
             /\ SoldIsTracked(QuantityChanges(c, p, q))
  BY <1>2 DEF SetQuantity, QuantityChanges, NoChanges, Covered, SoldIsTracked
<1>3. ASSUME NEW c \in Customers, CreateOrder(r, c)
      PROVE  /\ Load(r, "saving", CheckoutChanges(c))
             /\ Covered(CheckoutChanges(c))
             /\ SoldIsTracked(CheckoutChanges(c))
  <2>1. CheckoutChanges(c).order = <<OrderFrom(c)>>
    BY DEF CheckoutChanges
  <2>2. CheckoutChanges(c).order # <<>> /\ CheckoutChanges(c).order[1] = OrderFrom(c)
    BY <2>1
  <2>3. /\ DOMAIN CheckoutChanges(c).stock = InCart(c)
        /\ \A p \in InCart(c) :
              CheckoutChanges(c).stock[p] = stock[p] - cart[<<c, p>>]
    BY DEF CheckoutChanges
  <2>4. /\ DOMAIN OrderFrom(c).lines = InCart(c)
        /\ \A p \in InCart(c) : OrderFrom(c).lines[p].qty = cart[<<c, p>>]
    BY OrderFromType
  <2>5. ASSUME NEW p \in InCart(c)
        PROVE  stock[p] - cart[<<c, p>>] + cart[<<c, p>>] >= ledger[p]
    <3>1. p \in Products /\ <<c, p>> \in Rows
      BY DEF InCart, Rows
    <3>2. stock[p] \in 0..MaxStock /\ cart[<<c, p>>] \in 0..MaxQty /\ ledger[p] \in Int
      BY <3>1 DEF TypeOK
    <3>3. stock[p] >= ledger[p]
      BY <3>1 DEF NoUnitVanishes
    <3> QED  BY <3>2, <3>3, BoundsAssumption
  <2>6. Covered(CheckoutChanges(c))
    BY <2>2, <2>3, <2>4, <2>5 DEF Covered
  <2>7. SoldIsTracked(CheckoutChanges(c))
    BY <2>2, <2>3, <2>4 DEF SoldIsTracked
  <2> QED  BY <1>3, <2>6, <2>7 DEF CreateOrder
<1>4. ASSUME NEW p \in Products
      PROVE  ~ UpdateProduct(r, p)
  BY DEF UpdateProduct
<1>5. CASE \E c \in Customers, p \in Products : AddItem(r, c, p)
  BY <1>1, <1>5
<1>6. CASE \E c \in Customers, p \in Products, q \in 0..MaxQty : SetQuantity(r, c, p, q)
  BY <1>2, <1>6
<1>7. CASE \E c \in Customers : CreateOrder(r, c)
  BY <1>3, <1>7
<1>8. CASE \E c \in Customers, p \in Products :
              \/ Increase(r, c, p) \/ Decrease(r, c, p)
              \/ UpdateQuantity(r, c, p) \/ RemoveItem(r, c, p)
  BY <1>6, <1>8, QuantityHandlers
<1> QED  BY <1>4, <1>5, <1>7, <1>8 DEF Handle, Rejected

\* Committing keeps the ledger covered, for the request and for the others.
LEMMA SaveCovered ==
    ASSUME CoverInv, NEW r \in Requests, SaveChanges(r), TypeInv'
    PROVE  CoverInv'
<1> DEFINE ch == tracked[r]
<1>1. Covered(ch) /\ SoldIsTracked(ch) /\ TypeOK /\ TypeOK'
  BY DEF CoverInv, SaveChanges, TypeInv
<1>2. \A p \in Products : stock[p] \in Int /\ ledger[p] \in Int /\ stock[p] >= ledger[p]
  BY <1>1, BoundsAssumption DEF CoverInv, TypeOK, NoUnitVanishes
<1>3. \A p \in Products : stock'[p] = IF p \in DOMAIN ch.stock
                                      THEN ch.stock[p] ELSE stock[p]
  BY <1>1 DEF SaveChanges, Overwrite, TypeOK
<1>4. \A p \in Products :
         ledger'[p] = IF p \in DOMAIN ch.stock
                      THEN ledger[p] - ch.order[1].lines[p].qty ELSE ledger[p]
  BY <1>1 DEF SaveChanges, RecordHistory, Covered, SoldIsTracked
<1>5. \A p \in DOMAIN ch.stock :
         /\ p \in Products /\ ch.stock[p] \in Int
         /\ ch.order[1].lines[p].qty \in Nat \ {0}
  BY <1>1, TrackedNumbers DEF Covered
<1>6. NoUnitVanishes'
  <2>1. ASSUME NEW p \in Products
        PROVE  stock'[p] >= ledger'[p]
    <3>1. CASE p \in DOMAIN ch.stock
      <4>1. ch.stock[p] + ch.order[1].lines[p].qty >= ledger[p]
        BY <1>1, <3>1 DEF Covered
      <4> QED  BY <1>2, <1>3, <1>4, <1>5, <3>1, <4>1
    <3>2. CASE p \notin DOMAIN ch.stock
      BY <1>2, <1>3, <1>4, <3>2
    <3> QED  BY <3>1, <3>2
  <2> QED  BY <2>1 DEF NoUnitVanishes
<1>7. \A p \in Products : ledger'[p] \in Int /\ ledger'[p] <= ledger[p]
  BY <1>2, <1>4, <1>5
<1>8. ASSUME NEW q \in Requests, pc'[q] \in {"reading", "saving"}
      PROVE  Covered(tracked[q])' /\ SoldIsTracked(tracked[q])'
  <2>1. pc[q] \in {"reading", "saving"} /\ tracked'[q] = tracked[q]
    BY <1>1, <1>8 DEF SaveChanges, Release, TypeOK
  <2>2. Covered(tracked[q]) /\ SoldIsTracked(tracked[q])
    BY <2>1 DEF CoverInv
  <2>3. \A p \in DOMAIN tracked[q].stock :
           /\ p \in Products /\ tracked[q].stock[p] \in Int
           /\ tracked[q].order[1].lines[p].qty \in Nat \ {0}
    BY <1>1, <2>2, TrackedNumbers DEF Covered
  <2>4. \A p \in DOMAIN tracked[q].stock :
           tracked[q].stock[p] + tracked[q].order[1].lines[p].qty >= ledger'[p]
    BY <1>2, <1>7, <2>2, <2>3 DEF Covered
  <2> QED  BY <2>1, <2>2, <2>4 DEF Covered, SoldIsTracked
<1> QED  BY <1>6, <1>8 DEF CoverInv

LEMMA CoverStep ==
    ASSUME StockInputs = {}
    PROVE  CoverInv /\ [Next]_vars => CoverInv'
<1> SUFFICES ASSUME CoverInv, [Next]_vars PROVE CoverInv'
  OBVIOUS
<1>1. TypeInv /\ TypeOK /\ NoUnitVanishes /\ TypeInv'
  BY TypeStep DEF CoverInv, TypeInv
<1>2. ASSUME UNCHANGED <<stock, ledger>>,
             \A q \in Requests : pc'[q] \in {"reading", "saving"} =>
                pc[q] \in {"reading", "saving"} /\ tracked'[q] = tracked[q]
      PROVE  CoverInv'
  BY <1>1, <1>2 DEF CoverInv, NoUnitVanishes, Covered, SoldIsTracked
<1>3. CASE UNCHANGED vars
  BY <1>2, <1>3 DEF vars, db, request, history
<1>4. ASSUME NEW r \in Requests, Handle(r), ~ UNCHANGED vars
      PROVE  CoverInv'
  <2>0. PICK step \in {"reading", "saving"} :
           \E ch : Load(r, step, ch) /\ Covered(ch) /\ SoldIsTracked(ch)
    BY <1>1, <1>4, LoadCovered
  <2>1. PICK ch : Load(r, step, ch) /\ Covered(ch) /\ SoldIsTracked(ch)
    BY <2>0
  <2>2. UNCHANGED <<stock, ledger>>
    BY <2>1 DEF Load, db, history
  <2>3. ASSUME NEW q \in Requests, pc'[q] \in {"reading", "saving"}
        PROVE  Covered(tracked'[q]) /\ SoldIsTracked(tracked'[q])
    <3>1. CASE q = r
      BY <1>1, <2>1, <3>1 DEF Load, TypeOK
    <3>2. CASE q # r
      <4>1. pc[q] \in {"reading", "saving"} /\ tracked'[q] = tracked[q]
        BY <1>1, <2>1, <2>3, <3>2 DEF Load, TypeOK
      <4> QED  BY <4>1 DEF CoverInv
    <3> QED  BY <3>1, <3>2
  <2> QED  BY <1>1, <2>2, <2>3 DEF CoverInv, NoUnitVanishes, Covered, SoldIsTracked
<1>5. ASSUME NEW r \in Requests, Release(r), UNCHANGED <<stock, ledger>>
      PROVE  CoverInv'
  BY <1>1, <1>2, <1>5 DEF Release, TypeOK
<1>6. ASSUME NEW r \in Requests, ReadProduct(r)
      PROVE  CoverInv'
  <2>1. /\ pc[r] = "reading" /\ UNCHANGED <<stock, ledger>>
        /\ \/ pc' = [pc EXCEPT ![r] = "saving"] /\ UNCHANGED tracked
           \/ /\ pc' = [pc EXCEPT ![r] = "idle"]
              /\ tracked' = [tracked EXCEPT ![r] = NoChanges]
    BY <1>6 DEF ReadProduct, db, history
  <2> QED  BY <1>1, <1>2, <2>1 DEF TypeOK
<1>7. ASSUME NEW r \in Requests, PublishOrderCreated(r) \/ PublishLowStock(r)
      PROVE  CoverInv'
  <2>1. UNCHANGED <<stock, ledger>>
    BY <1>7 DEF PublishOrderCreated, PublishLowStock, db, history
  <2>2. CASE Release(r)
    BY <1>5, <2>1, <2>2
  <2>3. CASE ~ Release(r)
    <3>1. UNCHANGED tracked /\ (pc' = pc \/ pc' = [pc EXCEPT ![r] = "reporting"])
      BY <1>7, <2>3 DEF PublishOrderCreated, PublishLowStock
    <3> QED  BY <1>1, <1>2, <2>1, <3>1 DEF TypeOK
  <2> QED  BY <2>2, <2>3
<1>8. ASSUME NEW r \in Requests, Conflict(r) \/ Abort(r)
      PROVE  CoverInv'
  BY <1>5, <1>8 DEF Conflict, Abort, db, history
<1> QED
  BY <1>1, <1>3, <1>4, <1>6, <1>7, <1>8, SaveCovered DEF Next, Continue

\* However checkouts overwrite each other's stock, the stock never falls below
\* what is left after all orders: the error is always on the side of selling
\* too much, so long as nobody edits the stock (CreateOrderHandler.cs 47-52).
THEOREM NothingVanishes ==
    ASSUME StockInputs = {}
    PROVE  Spec => []NoUnitVanishes
<1>1. Init => CoverInv
  <2> SUFFICES ASSUME Init PROVE CoverInv
    OBVIOUS
  <2>1. TypeInv
    BY TypeInit
  <2>2. \A p \in Products : stock[p] = ledger[p] /\ ledger[p] \in Int
    BY <2>1, BoundsAssumption DEF Init, TypeInv, TypeOK
  <2>3. NoUnitVanishes
    BY <2>2 DEF NoUnitVanishes
  <2> QED  BY <2>1, <2>3 DEF Init, CoverInv
<1>2. CoverInv => NoUnitVanishes
  BY DEF CoverInv
<1> QED  BY <1>1, <1>2, CoverStep, PTL DEF Spec

=============================================================================
