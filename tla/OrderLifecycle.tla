--------------------------- MODULE OrderLifecycle ---------------------------
(***************************************************************************)
(* The life of an order as the shop promises it: a failed or refunded      *)
(* order stays what it is, a successful one can only be refunded.          *)
(***************************************************************************)
CONSTANT Orders     \* the orders placed

VARIABLE status     \* the status of each order

Statuses == {"Pending", "Success", "Failed", "Refunded"}

Init == status = [o \in Orders |-> "Pending"]

\* A pending order is settled.
Settle(o) ==
    /\ status[o] = "Pending"
    /\ \E new \in {"Success", "Failed", "Refunded"} :
          status' = [status EXCEPT ![o] = new]

\* A successful order is refunded.
Refund(o) ==
    /\ status[o] = "Success"
    /\ status' = [status EXCEPT ![o] = "Refunded"]

Next == \E o \in Orders : Settle(o) \/ Refund(o)

Spec == Init /\ [][Next]_status

=============================================================================
