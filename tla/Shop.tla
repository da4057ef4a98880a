-------------------------------- MODULE Shop --------------------------------
(***************************************************************************)
(* What the shop promises its customers: carts change one product at a     *)
(* time, and an order is placed in a single step that takes the whole cart *)
(* at the current prices and takes the ordered quantities from the stock,  *)
(* which must cover them.                                                  *)
(***************************************************************************)
EXTENDS Integers, Sequences

CONSTANTS
    Customers,      \* customers; each owns exactly one cart
    Products,       \* products in the catalogue
    MaxQty,         \* the largest quantity of a product in a cart
    MaxStock,       \* the largest stock level
    Prices,         \* the prices a product may have
    InitialStock,   \* [Products -> 0..MaxStock]
    InitialPrice    \* [Products -> Prices]

VARIABLES
    stock,          \* units of each product on hand
    price,          \* the price of each product
    cart,           \* the quantity of each product in each cart
    orders          \* the orders placed

vars == <<stock, price, cart, orders>>

Init ==
    /\ stock = InitialStock
    /\ price = InitialPrice
    /\ cart = [row \in Customers \X Products |-> 0]
    /\ orders = <<>>

\* A product goes into a cart only while there is some in stock.
Put(c, p) ==
    /\ cart[<<c, p>>] = 0
    /\ stock[p] > 0
    /\ cart' = [cart EXCEPT ![<<c, p>>] = 1]
    /\ UNCHANGED <<stock, price, orders>>

\* The quantity of a product in a cart changes, at will, up to the maximum.
SetQuantity(c, p) ==
    /\ cart[<<c, p>>] > 0
    /\ \E q \in 1..MaxQty : cart' = [cart EXCEPT ![<<c, p>>] = q]
    /\ UNCHANGED <<stock, price, orders>>

\* A product is taken out of a cart.
TakeOut(c, p) ==
    /\ cart[<<c, p>>] > 0
    /\ cart' = [cart EXCEPT ![<<c, p>>] = 0]
    /\ UNCHANGED <<stock, price, orders>>

\* A customer buys the cart.
PlaceOrder(c) ==
    LET bought == {p \in Products : cart[<<c, p>>] > 0} IN
    /\ bought # {}
    /\ \A p \in bought : cart[<<c, p>>] <= stock[p]
    /\ orders' = Append(orders,
          [customer |-> c,
           lines    |-> [p \in bought |-> [qty   |-> cart[<<c, p>>],
                                            price |-> price[p]]]])
    /\ stock' = [p \in Products |-> IF p \in bought
                                    THEN stock[p] - cart[<<c, p>>] ELSE stock[p]]
    /\ cart' = [row \in Customers \X Products |-> IF row[1] = c THEN 0 ELSE cart[row]]
    /\ UNCHANGED price

\* An administrator sets the price and the stock of a product.
Edit(p) ==
    /\ \E q \in 0..MaxStock : stock' = [stock EXCEPT ![p] = q]
    /\ \E m \in Prices : price' = [price EXCEPT ![p] = m]
    /\ UNCHANGED <<cart, orders>>

Next ==
    \/ \E c \in Customers, p \in Products :
          Put(c, p) \/ SetQuantity(c, p) \/ TakeOut(c, p)
    \/ \E c \in Customers : PlaceOrder(c)
    \/ \E p \in Products : Edit(p)

Spec == Init /\ [][Next]_vars

=============================================================================
