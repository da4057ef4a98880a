----------------------------- MODULE OrderStatus -----------------------------
(***************************************************************************)
(* Administrators change the status of orders.  UpdateOrderStatus reads    *)
(* the order, lets the domain model judge the transition from the status   *)
(* it has read, saves the new status and then publishes a message.  Two    *)
(* administrators may work on one order at the same time.                  *)
(***************************************************************************)
EXTENDS Naturals, Sequences

CONSTANTS
    Orders,         \* the orders placed
    Requests,       \* status requests that may be in progress at one time
    MaxNotices      \* bound: no request starts once so many were published

VARIABLES
    status,         \* orders.order_status
    pc,             \* where each request's handler is
    task,           \* the order, its status as read and the status asked for
    notices,        \* the OrderStatusChanged messages published
    unnoticed       \* history: orders whose last change went unpublished

vars == <<status, pc, task, notices, unnoticed>>

Statuses == {"Pending", "Success", "Failed", "Refunded"}

\* The tasks and messages there can be: none leaves a final status.
Task == {t \in [order : Orders, old : Statuses, new : Statuses] :
            t.old \in {"Failed", "Refunded"} => t.new = t.old}

\* The task of a request that is idle.
NoTask == [order |-> CHOOSE o \in Orders : TRUE, old |-> "Pending", new |-> "Pending"]

Init ==
    /\ status = [o \in Orders |-> "Pending"]
    /\ pc = [r \in Requests |-> "idle"]
    /\ task = [r \in Requests |-> NoTask]
    /\ notices = <<>>
    /\ unnoticed = {}

-----------------------------------------------------------------------------

\* Variant of MayChange with a bug: a refund is not final.
MayChangeRefunded(old, new) ==
    /\ old = "Failed"  => new = "Failed"
    /\ old = "Success" => new \in {"Success", "Refunded"}

\* The transitions Order.ChangeStatus accepts, among them the one to the same
\* status.
MayChange(old, new) ==
    /\ old = "Failed"   => new = "Failed"
    /\ old = "Success"  => new \in {"Success", "Refunded"}
    /\ old = "Refunded" => new = "Refunded"

\* UpdateOrderStatus up to SaveChangesAsync; a transition that is not accepted
\* ends the request.
Load(r) ==
    /\ pc[r] = "idle"
    /\ Len(notices) < MaxNotices
    /\ \E o \in Orders, new \in Statuses :
          /\ MayChange(status[o], new)
          /\ task' = [task EXCEPT ![r] = [order |-> o, old |-> status[o], new |-> new]]
    /\ pc' = [pc EXCEPT ![r] = "saving"]
    /\ UNCHANGED <<status, notices, unnoticed>>

\* A request for an order that does not exist, or one the domain model refuses.
Refused(r) ==
    /\ pc[r] = "idle"
    /\ UNCHANGED vars

\* SaveChangesAsync: the column is written if the new status differs from the
\* one that was read, whatever the status is by now.
Save(r) ==
    LET t == task[r] IN
    /\ pc[r] = "saving"
    /\ status' = IF t.new = t.old THEN status ELSE [status EXCEPT ![t.order] = t.new]
    /\ unnoticed' = unnoticed \cup {t.order}
    /\ pc' = [pc EXCEPT ![r] = "publishing"]
    /\ UNCHANGED <<task, notices>>

\* Variant of Publish with a bug: the two statuses are exchanged.
PublishSwapped(r) ==
    /\ pc[r] = "publishing"
    /\ notices' = Append(notices, [task[r] EXCEPT !.old = task[r].new, !.new = task[r].old])
    /\ unnoticed' = unnoticed \ {task[r].order}
    /\ pc' = [pc EXCEPT ![r] = "idle"]
    /\ task' = [task EXCEPT ![r] = NoTask]
    /\ UNCHANGED status

\* The OrderStatusChanged message.
Publish(r) ==
    /\ pc[r] = "publishing"
    /\ notices' = Append(notices, task[r])
    /\ unnoticed' = unnoticed \ {task[r].order}
    /\ pc' = [pc EXCEPT ![r] = "idle"]
    /\ task' = [task EXCEPT ![r] = NoTask]
    /\ UNCHANGED status

\* The request dies; what it has saved stays.
Abort(r) ==
    /\ pc[r] # "idle"
    /\ pc' = [pc EXCEPT ![r] = "idle"]
    /\ task' = [task EXCEPT ![r] = NoTask]
    /\ UNCHANGED <<status, notices, unnoticed>>

Next == \E r \in Requests : Load(r) \/ Refused(r) \/ Save(r) \/ Publish(r) \/ Abort(r)

Spec == Init /\ [][Next]_vars

-----------------------------------------------------------------------------

\* Every variable holds a value of its kind, and no request that has read an
\* order as failed or refunded is ever on its way to another status for it; what
\* the order has become by the time of the save is not looked at (Order.cs 63-73).
TypeOK ==
    /\ status \in [Orders -> Statuses]
    /\ pc \in [Requests -> {"idle", "saving", "publishing"}]
    /\ task \in [Requests -> Task]
    /\ notices \in Seq(Task)
    /\ unnoticed \subseteq Orders

\* With one administrator at a time, orders live as OrderLifecycle says.
Lifecycle == INSTANCE OrderLifecycle
ImplementsLifecycle == Lifecycle!Spec

\* "A successful order cannot be changed to Rejected", nor back to Pending
\* (Order.cs 66-70).
SuccessNotReversed ==
    [][\A o \in Orders :
          status[o] = "Success" => status'[o] \in {"Success", "Refunded"}]_vars

\* The indices of the messages about an order.
NoticesOf(o) == {i \in DOMAIN notices : notices[i].order = o}

\* With one administrator at a time, what a customer was last told is how the
\* order stands, unless a request died after its save: the last message about
\* an order carries its status, and an order without a message is pending.
NoticesCurrent ==
    \A o \in Orders \ unnoticed :
        IF NoticesOf(o) = {} THEN status[o] = "Pending"
        ELSE \E i \in NoticesOf(o) :
                /\ \A j \in NoticesOf(o) : j <= i
                /\ notices[i].new = status[o]

=============================================================================
