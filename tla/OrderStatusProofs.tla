-------------------------- MODULE OrderStatusProofs --------------------------
(***************************************************************************)
(* With one administrator at a time, orders live as OrderLifecycle says    *)
(* and their messages tell how they stand (OrderStatus); and through       *)
(* crashes, lost connections and redeliveries the customers are told that  *)
(* life, and in the end the status the order has (StatusNotices).  What    *)
(* the bus contributes is taken from EventBusProofs, by INSTANCE.          *)
(***************************************************************************)
EXTENDS StatusNotices, SequenceTheorems, TLAPS

\* What a request is about to save follows from the status as it is now.
FreshInv ==
    /\ TypeOK
    /\ \A r \in Requests : pc[r] = "saving" =>
          /\ task[r].old = status[task[r].order]
          /\ MayChange(task[r].old, task[r].new)

\* There is an order to take as the null one.
LEMMA NoTaskType ==
    ASSUME Orders # {}
    PROVE  NoTask \in Task
BY DEF NoTask, Task, Statuses

\* The types hold in every reachable state, with any number of administrators.
LEMMA TypeStep ==
    ASSUME Orders # {}, TypeOK, [Next]_vars
    PROVE  TypeOK'
<1>1. CASE UNCHANGED vars
  BY <1>1 DEF TypeOK, vars
<1>2. ASSUME NEW r \in Requests, Load(r)
      PROVE  TypeOK'
  <2>1. PICK o \in Orders, new \in Statuses :
           /\ MayChange(status[o], new)
           /\ task' = [task EXCEPT ![r] = [order |-> o, old |-> status[o], new |-> new]]
    BY <1>2 DEF Load
  <2>2. [order |-> o, old |-> status[o], new |-> new] \in Task
    BY <2>1 DEF TypeOK, Task, MayChange
  <2>3. task' \in [Requests -> Task]
    BY <2>1, <2>2 DEF TypeOK
  <2> QED  BY <1>2, <2>3 DEF Load, TypeOK
<1>3. ASSUME NEW r \in Requests, Save(r)
      PROVE  TypeOK'
  <2>1. task[r] \in Task
    BY DEF TypeOK
  <2>2. task[r].order \in Orders /\ task[r].new \in Statuses
    BY <2>1 DEF Task
  <2> QED  BY <1>3, <2>2 DEF Save, TypeOK
<1>4. ASSUME NEW r \in Requests, Publish(r)
      PROVE  TypeOK'
  <2>1. task[r] \in Task /\ notices \in Seq(Task)
    BY DEF TypeOK
  <2>2. notices' \in Seq(Task)
    BY <1>4, <2>1, AppendProperties DEF Publish
  <2> QED  BY <1>4, <2>2, NoTaskType DEF Publish, TypeOK
<1>5. ASSUME NEW r \in Requests, Abort(r)
      PROVE  TypeOK'
  BY <1>5, NoTaskType DEF Abort, TypeOK
<1> QED  BY <1>1, <1>2, <1>3, <1>4, <1>5 DEF Next, Refused

\* TypeOK holds in every reachable state, with any number of administrators: a
\* request that has read a failed or refunded order goes on with no other status
\* for it, and no message names such a change.  That the status was still the
\* one read when the request saved is not said, and not true (Order.cs 61-75).
THEOREM TypeCorrect ==
    ASSUME Orders # {}
    PROVE  Spec => []TypeOK
<1>1. Init => TypeOK
  BY NoTaskType DEF Init, TypeOK, Statuses
<1>2. TypeOK /\ [Next]_vars => TypeOK'
  BY TypeStep
<1> QED  BY <1>1, <1>2, PTL DEF Spec

\* With one request at a time, the status read is still the status when the
\* new one is saved.
LEMMA FreshStep ==
    ASSUME Orders # {}, \A r, s \in Requests : r = s, FreshInv, [Next]_vars
    PROVE  FreshInv'
<1>1. TypeOK /\ TypeOK'
  BY TypeStep DEF FreshInv
<1>2. ASSUME NEW r \in Requests, pc'[r] # "saving"
      PROVE  FreshInv'
  BY <1>1, <1>2 DEF FreshInv
<1>3. CASE UNCHANGED vars
  BY <1>1, <1>3 DEF FreshInv, vars, MayChange
<1>4. ASSUME NEW r \in Requests, Load(r)
      PROVE  FreshInv'
  <2>1. PICK o \in Orders, new \in Statuses :
           /\ MayChange(status[o], new)
           /\ task' = [task EXCEPT ![r] = [order |-> o, old |-> status[o], new |-> new]]
    BY <1>4 DEF Load
  <2>2. task'[r] = [order |-> o, old |-> status[o], new |-> new] /\ status' = status
    BY <1>1, <1>4, <2>1 DEF Load, TypeOK
  <2>3. \A s \in Requests : s = r
    OBVIOUS
  <2> QED  BY <1>1, <2>1, <2>2, <2>3 DEF FreshInv, MayChange
<1>5. ASSUME NEW r \in Requests, Save(r) \/ Publish(r) \/ Abort(r)
      PROVE  pc'[r] # "saving"
  BY <1>1, <1>5 DEF Save, Publish, Abort, TypeOK
<1> QED  BY <1>2, <1>3, <1>4, <1>5 DEF Next, Refused

\* With one request at a time, a status changes as OrderLifecycle says.
LEMMA LifecycleStep ==
    ASSUME Orders # {}, \A r, s \in Requests : r = s, FreshInv, [Next]_vars
    PROVE  [Lifecycle!Next]_status
<1> SUFFICES ASSUME status' # status
             PROVE  Lifecycle!Next
  OBVIOUS
<1>1. PICK r \in Requests : Save(r)
  BY DEF Next, Load, Refused, Publish, Abort, vars
<1> DEFINE o   == task[r].order
           new == task[r].new
<1>2. /\ o \in Orders /\ new \in Statuses /\ status \in [Orders -> Statuses]
      /\ MayChange(status[o], new)
      /\ status' = [status EXCEPT ![o] = new]
  <2>1. task[r] \in Task /\ pc[r] = "saving"
    BY <1>1 DEF FreshInv, TypeOK, Save
  <2> QED  BY <1>1, <2>1 DEF FreshInv, TypeOK, Save, Task
<1>3. new # status[o]
  BY <1>2
<1>4. CASE status[o] = "Pending"
  <2>1. Lifecycle!Settle(o)
    BY <1>2, <1>3, <1>4 DEF Lifecycle!Settle, Statuses
  <2> QED  BY <1>2, <2>1 DEF Lifecycle!Next
<1>5. CASE status[o] = "Success"
  <2>1. Lifecycle!Refund(o)
    BY <1>2, <1>3, <1>5 DEF Lifecycle!Refund, MayChange
  <2> QED  BY <1>2, <2>1 DEF Lifecycle!Next
<1>6. status[o] \notin {"Failed", "Refunded"}
  BY <1>2, <1>3 DEF MayChange
<1> QED  BY <1>2, <1>4, <1>5, <1>6 DEF Statuses

\* One administrator at a time cannot bring an order back from Failed or
\* Refunded, nor take a success back (Order.cs 61-76,
\* UpdateOrderStatusHandler.cs 22-43), whatever fails in between.
THEOREM SerialImplementsLifecycle ==
    ASSUME Orders # {}, \A r, s \in Requests : r = s
    PROVE  Spec => ImplementsLifecycle
<1>1. Init => FreshInv /\ Lifecycle!Init
  BY NoTaskType DEF Init, FreshInv, TypeOK, Statuses, Lifecycle!Init
<1>2. FreshInv /\ [Next]_vars => FreshInv'
  BY FreshStep
<1>3. FreshInv /\ [Next]_vars => [Lifecycle!Next]_status
  BY LifecycleStep
<1> QED
  BY <1>1, <1>2, <1>3, PTL DEF Spec, ImplementsLifecycle, Lifecycle!Spec

-----------------------------------------------------------------------------
(* What the customers were last told.                                       *)

\* An order whose change is not published yet is known as such, and the request
\* that will publish it names the status the order has.
SavedInv ==
    \A r \in Requests : pc[r] = "publishing" =>
        task[r].order \in unnoticed /\ task[r].new = status[task[r].order]

CurrentInv == FreshInv /\ SavedInv /\ NoticesCurrent

\* The messages about an order after one more was published.
LEMMA NoticesAppended ==
    ASSUME notices \in Seq(Task), NEW t \in Task, notices' = Append(notices, t), NEW o
    PROVE  /\ DOMAIN notices = 1..Len(notices) /\ Len(notices) \in Nat
           /\ \A i \in DOMAIN notices : notices'[i] = notices[i]
           /\ notices'[Len(notices) + 1] = t
           /\ t.order = o => NoticesOf(o)' = NoticesOf(o) \cup {Len(notices) + 1}
           /\ t.order # o => NoticesOf(o)' = NoticesOf(o)
<1>1. DOMAIN notices = 1..Len(notices) /\ Len(notices) \in Nat
  OBVIOUS
<1>2. /\ DOMAIN notices' = 1..(Len(notices) + 1)
      /\ \A i \in DOMAIN notices : notices'[i] = notices[i]
      /\ notices'[Len(notices) + 1] = t
  BY AppendProperties
<1>3. DOMAIN notices' = DOMAIN notices \cup {Len(notices) + 1}
  BY <1>1, <1>2
<1>4. Len(notices) + 1 \notin DOMAIN notices
  BY <1>1
<1> QED  BY <1>1, <1>2, <1>3, <1>4 DEF NoticesOf

\* With one request at a time, each message tells the status as it then is.
LEMMA CurrentStep ==
    ASSUME Orders # {}, \A r, s \in Requests : r = s, CurrentInv, [Next]_vars
    PROVE  CurrentInv'
<1>1. FreshInv /\ FreshInv' /\ TypeOK /\ TypeOK'
  BY FreshStep DEF CurrentInv, FreshInv
<1>2. CASE UNCHANGED <<notices, unnoticed, status>> /\ \A r \in Requests : pc'[r] # "publishing"
  BY <1>1, <1>2 DEF CurrentInv, SavedInv, NoticesCurrent, NoticesOf
<1>3. CASE UNCHANGED vars
  BY <1>1, <1>3 DEF CurrentInv, SavedInv, NoticesCurrent, NoticesOf, vars
<1>4. ASSUME NEW r \in Requests, Load(r) \/ Abort(r)
      PROVE  /\ UNCHANGED <<notices, unnoticed, status>>
             /\ \A s \in Requests : pc'[s] # "publishing"
  <2>1. pc'[r] # "publishing"
    BY <1>1, <1>4 DEF Load, Abort, TypeOK
  <2>2. \A s \in Requests : s = r
    OBVIOUS
  <2> QED  BY <1>4, <2>1, <2>2 DEF Load, Abort
<1>5. ASSUME NEW r \in Requests, Save(r)
      PROVE  CurrentInv'
  <2>1. PICK t : t = task[r]
    OBVIOUS
  <2>2. /\ t \in Task /\ t.order \in Orders /\ t.old = status[t.order]
        /\ status' = IF t.new = t.old THEN status ELSE [status EXCEPT ![t.order] = t.new]
        /\ unnoticed' = unnoticed \cup {t.order}
        /\ task' = task /\ notices' = notices
    BY <1>1, <1>5, <2>1 DEF Save, FreshInv, TypeOK, Task
  <2>3. status'[t.order] = t.new /\ \A o \in Orders \ {t.order} : status'[o] = status[o]
    BY <1>1, <2>2 DEF TypeOK
  <2>4. \A s \in Requests : s = r
    OBVIOUS
  <2>5. SavedInv'
    BY <2>1, <2>2, <2>3, <2>4 DEF SavedInv
  <2>6. NoticesCurrent'
    BY <2>2, <2>3 DEF CurrentInv, NoticesCurrent, NoticesOf
  <2> QED  BY <1>1, <2>5, <2>6 DEF CurrentInv
<1>6. ASSUME NEW r \in Requests, Publish(r)
      PROVE  CurrentInv'
  <2>1. PICK t : t = task[r]
    OBVIOUS
  <2>2. /\ t \in Task /\ t.order \in Orders /\ t.new = status[t.order]
        /\ notices \in Seq(Task) /\ notices' = Append(notices, t)
        /\ unnoticed' = unnoticed \ {t.order} /\ status' = status
        /\ pc'[r] = "idle"
    BY <1>1, <1>6, <2>1 DEF Publish, CurrentInv, SavedInv, TypeOK, Task
  <2>3. \A s \in Requests : s = r
    OBVIOUS
  <2>4. SavedInv'
    BY <2>2, <2>3 DEF SavedInv
  <2>5. ASSUME NEW o \in Orders \ unnoticed'
        PROVE  (IF NoticesOf(o) = {} THEN status[o] = "Pending"
                ELSE \E i \in NoticesOf(o) :
                        /\ \A j \in NoticesOf(o) : j <= i
                        /\ notices[i].new = status[o])'
    <3>1. CASE o = t.order
      <4>1. NoticesOf(o)' = NoticesOf(o) \cup {Len(notices) + 1}
        BY <2>2, <3>1, NoticesAppended
      <4>2. notices'[Len(notices) + 1] = t
        BY <2>2, NoticesAppended
      <4>3. \A j \in NoticesOf(o)' : j <= Len(notices) + 1
        <5>1. NoticesOf(o) \subseteq 1..Len(notices) /\ Len(notices) \in Nat
          BY <2>2, NoticesAppended DEF NoticesOf
        <5> QED  BY <4>1, <5>1
      <4> QED  BY <2>2, <3>1, <4>1, <4>2, <4>3
    <3>2. CASE o # t.order
      <4>1. NoticesOf(o)' = NoticesOf(o) /\ o \in Orders \ unnoticed
        BY <2>2, <3>2, NoticesAppended
      <4>2. \A i \in NoticesOf(o) : notices'[i] = notices[i]
        BY <2>2, NoticesAppended DEF NoticesOf
      <4> QED  BY <2>2, <4>1, <4>2 DEF CurrentInv, NoticesCurrent
    <3> QED  BY <3>1, <3>2
  <2>6. NoticesCurrent'
    BY <2>5 DEF NoticesCurrent
  <2> QED  BY <1>1, <2>4, <2>6 DEF CurrentInv
<1> QED  BY <1>2, <1>3, <1>4, <1>5, <1>6 DEF Next, Refused

\* With one administrator at a time, the last message about an order carries its
\* status, and an order without one is pending, unless a request died after its
\* save (UpdateOrderStatusHandler.cs 22-43).
THEOREM SerialNoticesCurrent ==
    ASSUME Orders # {}, \A r, s \in Requests : r = s
    PROVE  Spec => []NoticesCurrent
<1>1. Init => CurrentInv
  <2> SUFFICES ASSUME Init PROVE CurrentInv
    OBVIOUS
  <2>1. FreshInv /\ SavedInv
    BY NoTaskType DEF Init, FreshInv, SavedInv, TypeOK, Statuses
  <2>2. \A o \in Orders : NoticesOf(o) = {}
    <3>1. DOMAIN notices = {}
      BY DEF Init
    <3> QED  BY <3>1 DEF NoticesOf
  <2>3. NoticesCurrent
    BY <2>2 DEF Init, NoticesCurrent
  <2> QED  BY <2>1, <2>3 DEF CurrentInv
<1>2. CurrentInv /\ [Next]_vars => CurrentInv'
  BY CurrentStep
<1>3. CurrentInv => NoticesCurrent
  BY DEF CurrentInv
<1> QED  BY <1>1, <1>2, <1>3, PTL DEF Spec

-----------------------------------------------------------------------------
(* The bus that carries the messages: what EventBusProofs shows of it.      *)

\* The facts about the bus alone, for the messages published here.
BusFacts == INSTANCE EventBusProofs WITH
               Keys <- {Key},
               MaxMessages <- MaxNotices + Cardinality(Requests),
               published <- [i \in DOMAIN notices |-> Key]

\* The messages that wait no longer.
Settled == lost \cup acked \cup dropped

\* The bus of StatusNotices and that of BusFacts are in the same state.
LEMMA SameState ==
    /\ Bus!TypeOK <=> BusFacts!TypeOK
    /\ Bus!Init <=> BusFacts!Init
<1>1. Bus!TypeOK <=> BusFacts!TypeOK
  BY DEF Bus!TypeOK, BusFacts!TypeOK, Bus!Messages, BusFacts!Messages, Bus!Delivery,
         BusFacts!Delivery
<1>2. Bus!Init <=> BusFacts!Init
  BY DEF Bus!Init, BusFacts!Init
<1> QED  BY <1>1, <1>2

\* They take the same steps.
LEMMA SameSteps ==
    ASSUME NEW d
    PROVE  /\ Bus!Publish(Key) <=> BusFacts!Publish(Key)
           /\ Bus!PublishLost(Key) <=> BusFacts!PublishLost(Key)
           /\ Bus!Subscribe(Key) <=> BusFacts!Subscribe(Key)
           /\ Bus!Deliver(Key) <=> BusFacts!Deliver(Key)
           /\ Bus!HandlerCompletes(d) <=> BusFacts!HandlerCompletes(d)
           /\ Bus!HandlerThrows(d) <=> BusFacts!HandlerThrows(d)
           /\ Bus!Ack(d) <=> BusFacts!Ack(d)
           /\ Bus!Nack(d) <=> BusFacts!Nack(d)
           /\ Bus!ConnectionLost <=> BusFacts!ConnectionLost
           /\ Bus!Crash <=> BusFacts!Crash
<1>1. \A k : Bus!Live(k) = BusFacts!Live(k)
  BY DEF Bus!Live, BusFacts!Live
<1>2. Bus!Publish(Key) <=> BusFacts!Publish(Key)
  BY DEF Bus!Publish, BusFacts!Publish
<1>3. Bus!PublishLost(Key) <=> BusFacts!PublishLost(Key)
  BY DEF Bus!PublishLost, BusFacts!PublishLost
<1>4. Bus!Subscribe(Key) <=> BusFacts!Subscribe(Key)
  BY DEF Bus!Subscribe, BusFacts!Subscribe
<1>5. Bus!Deliver(Key) <=> BusFacts!Deliver(Key)
  BY <1>1 DEF Bus!Deliver, BusFacts!Deliver
<1>6. Bus!HandlerCompletes(d) <=> BusFacts!HandlerCompletes(d)
  BY DEF Bus!HandlerCompletes, BusFacts!HandlerCompletes, Bus!Proceed, BusFacts!Proceed
<1>7. Bus!HandlerThrows(d) <=> BusFacts!HandlerThrows(d)
  BY DEF Bus!HandlerThrows, BusFacts!HandlerThrows, Bus!Proceed, BusFacts!Proceed
<1>8. Bus!Ack(d) <=> BusFacts!Ack(d)
  BY <1>1 DEF Bus!Ack, BusFacts!Ack
<1>9. Bus!Nack(d) <=> BusFacts!Nack(d)
  BY <1>1 DEF Bus!Nack, BusFacts!Nack
<1>10. \A k : Bus!Returned(k) = BusFacts!Returned(k)
  <2>1. \A k : Bus!Unanswered(k) = BusFacts!Unanswered(k)
    BY <1>1 DEF Bus!Unanswered, BusFacts!Unanswered
  <2>2. \A S : Bus!SetToSeq(S) = BusFacts!SetToSeq(S)
    <3>1. \A f : Bus!IsInjective(f) <=> BusFacts!IsInjective(f)
      BY DEF Bus!IsInjective, BusFacts!IsInjective
    <3>2. \A S : Bus!Cardinality(S) = BusFacts!Cardinality(S)
      BY DEF Bus!Cardinality, BusFacts!Cardinality
    <3> QED  BY <3>1, <3>2 DEF Bus!SetToSeq, BusFacts!SetToSeq
  <2> QED  BY <2>1, <2>2 DEF Bus!Returned, BusFacts!Returned
<1>11. Bus!ConnectionLost <=> BusFacts!ConnectionLost
  BY <1>10 DEF Bus!ConnectionLost, BusFacts!ConnectionLost
<1>12. Bus!Crash <=> BusFacts!Crash
  BY <1>10 DEF Bus!Crash, BusFacts!Crash
<1> QED
  BY <1>2, <1>3, <1>4, <1>5, <1>6, <1>7, <1>8, <1>9, <1>11, <1>12

\* A step that leaves the broker and the messages alone is none of the bus.
LEMMA BusUnchanged ==
    ASSUME UNCHANGED <<broker, notices>>
    PROVE  UNCHANGED BusFacts!vars
BY DEF broker, BusFacts!vars

\* Every step of the whole is a step of the bus or leaves it alone.
LEMMA BusStep ==
    ASSUME BusFacts!TypeOK, [NoticesNext]_allVars
    PROVE  [BusFacts!Next]_(BusFacts!vars)
<1>1. CASE UNCHANGED allVars
  BY <1>1, BusUnchanged DEF allVars, requests
<1>2. ASSUME NEW r \in Requests, Request(r)
      PROVE  UNCHANGED BusFacts!vars
  BY <1>2, BusUnchanged DEF Request, Load, Refused, Save, Abort, vars
<1>3. ASSUME NEW r \in Requests, Announce(r)
      PROVE  BusFacts!Next
  BY <1>3, SameSteps DEF Announce, BusFacts!Next
<1>4. \A d \in deliveries : d.key = Key
  BY DEF BusFacts!TypeOK, BusFacts!Delivery
<1>5. ASSUME NEW d \in deliveries, Tell(d)
      PROVE  BusFacts!Next
  <2>1. BusFacts!HandlerCompletes(d)
    BY <1>5, SameSteps DEF Tell
  <2> QED  BY <1>4, <2>1 DEF BusFacts!Next, BusFacts!Consume, BusFacts!Process
<1>6. CASE Consume
  <2>1. CASE Bus!Subscribe(Key) \/ Bus!Deliver(Key)
    BY <2>1, SameSteps DEF BusFacts!Next, BusFacts!Consume
  <2>2. ASSUME NEW d \in deliveries, Bus!HandlerThrows(d) \/ Bus!Ack(d) \/ Bus!Nack(d)
        PROVE  BusFacts!Next
    <3>1. BusFacts!Process(d)
      BY <2>2, SameSteps DEF BusFacts!Process
    <3> QED  BY <1>4, <3>1 DEF BusFacts!Next, BusFacts!Consume
  <2> QED  BY <1>6, <2>1, <2>2 DEF Consume
<1>7. CASE ConnectionLost \/ Crash
  BY <1>7, SameSteps DEF ConnectionLost, Crash, BusFacts!Next
<1> QED  BY <1>1, <1>2, <1>3, <1>5, <1>6, <1>7 DEF NoticesNext

\* What the bus does, it does to what the requests publish.
LEMMA BusInvariant ==
    /\ NoticesInit => BusFacts!IInv
    /\ BusFacts!IInv /\ [NoticesNext]_allVars => BusFacts!IInv'
<1>1. NoticesInit => BusFacts!IInv
  BY SameState, BusFacts!InvariantInit DEF NoticesInit
<1>2. ASSUME BusFacts!IInv, [NoticesNext]_allVars
      PROVE  BusFacts!IInv'
  <2>1. BusFacts!TypeOK
    BY <1>2 DEF BusFacts!IInv
  <2>2. [BusFacts!Next]_(BusFacts!vars)
    BY <1>2, <2>1, BusStep
  <2> QED  BY <1>2, <2>2, BusFacts!InvariantStep
<1> QED  BY <1>1, <1>2

-----------------------------------------------------------------------------
(* What the requests publish.                                              *)

\* The messages about an order tell a life it may have, up to its status.
LawfulInv ==
    \A o \in Orders : \A i \in NoticesOf(o) :
        /\ MayChange(notices[i].new, status[o])
        /\ \A j \in NoticesOf(o) : i <= j => MayChange(notices[i].new, notices[j].new)

\* With one request at a time, what the messages say of each order.
RequestsInv == CurrentInv /\ LawfulInv

\* A message about an order tells the status it has, and later ones follow lawfully.
LEMMA LawfulStep ==
    ASSUME Orders # {}, \A r, s \in Requests : r = s, RequestsInv, [Next]_vars
    PROVE  LawfulInv'
<1>1. TypeOK /\ notices \in Seq(Task) /\ LawfulInv /\ CurrentInv /\ FreshInv /\ SavedInv
  BY DEF RequestsInv, CurrentInv, FreshInv, TypeOK
<1>2. CASE UNCHANGED <<notices, status>>
  BY <1>1, <1>2 DEF LawfulInv, NoticesOf, MayChange
<1>3. ASSUME NEW r \in Requests, Save(r)
      PROVE  LawfulInv'
  <2>1. PICK t : t = task[r]
    OBVIOUS
  <2>2. /\ t.order \in Orders /\ t.old = status[t.order] /\ MayChange(t.old, t.new)
        /\ status' = IF t.new = t.old THEN status ELSE [status EXCEPT ![t.order] = t.new]
        /\ notices' = notices /\ status \in [Orders -> Statuses]
    BY <1>1, <1>3, <2>1 DEF Save, FreshInv, TypeOK, Task
  <2>3. \A o \in Orders : MayChange(status[o], status'[o])
    BY <2>2 DEF MayChange
  <2>4. \A o \in Orders : NoticesOf(o)' = NoticesOf(o)
    BY <2>2 DEF NoticesOf
  <2>5. ASSUME NEW o \in Orders, NEW i \in NoticesOf(o)
        PROVE  MayChange(notices[i].new, status'[o])
    <3>1. MayChange(notices[i].new, status[o]) /\ MayChange(status[o], status'[o])
      BY <1>1, <2>3 DEF LawfulInv
    <3> QED  BY <3>1 DEF MayChange
  <2> QED  BY <1>1, <2>2, <2>4, <2>5 DEF LawfulInv, MayChange
<1>4. ASSUME NEW r \in Requests, Publish(r)
      PROVE  LawfulInv'
  <2>1. PICK t : t = task[r]
    OBVIOUS
  <2>2. PICK n \in Nat : n = Len(notices) + 1
    BY <1>1
  <2>3. /\ t \in Task /\ t.new = status[t.order]
        /\ notices' = Append(notices, t) /\ status' = status
    BY <1>1, <1>4, <2>1 DEF Publish, SavedInv, TypeOK
  <2>4. /\ DOMAIN notices = 1..(n - 1) /\ notices'[n] = t
        /\ \A i \in DOMAIN notices : notices'[i] = notices[i]
        /\ \A o : t.order = o => NoticesOf(o)' = NoticesOf(o) \cup {n}
        /\ \A o : t.order # o => NoticesOf(o)' = NoticesOf(o)
    BY <1>1, <2>2, <2>3, NoticesAppended
  <2>5. ASSUME NEW o \in Orders, NEW i \in NoticesOf(o)'
        PROVE  /\ MayChange(notices'[i].new, status[o])
               /\ \A j \in NoticesOf(o)' : i <= j => MayChange(notices'[i].new, notices'[j].new)
    <3>1. NoticesOf(o) \subseteq 1..(n - 1)
      BY <2>4 DEF NoticesOf
    <3>2. CASE i \in NoticesOf(o)
      <4>1. /\ MayChange(notices'[i].new, status[o])
            /\ \A j \in NoticesOf(o) : i <= j => MayChange(notices'[i].new, notices'[j].new)
        <5>1. \A j \in NoticesOf(o) : notices'[j] = notices[j]
          BY <2>4 DEF NoticesOf
        <5>2. /\ MayChange(notices[i].new, status[o])
              /\ \A j \in NoticesOf(o) : i <= j => MayChange(notices[i].new, notices[j].new)
          BY <1>1, <3>2 DEF LawfulInv
        <5> QED  BY <3>2, <5>1, <5>2
      <4>2. t.order = o => MayChange(notices'[i].new, notices'[n].new)
        BY <2>3, <2>4, <4>1
      <4>3. \A j \in NoticesOf(o)' : j \in NoticesOf(o) \/ (t.order = o /\ j = n)
        BY <2>4
      <4> QED  BY <4>1, <4>2, <4>3
    <3>3. CASE i \notin NoticesOf(o)
      <4>1. i = n /\ t.order = o
        BY <2>4, <3>3
      <4>2. \A j \in NoticesOf(o)' : i <= j => j = n
        BY <2>2, <2>4, <3>1, <4>1
      <4> QED  BY <2>3, <2>4, <4>1, <4>2 DEF MayChange
    <3> QED  BY <3>2, <3>3
  <2> QED  BY <2>3, <2>5 DEF LawfulInv
<1> QED
  BY <1>2, <1>3, <1>4 DEF Next, Load, Refused, Abort, vars

\* The requests take their own steps, or all die at once.
LEMMA RequestsStep ==
    ASSUME [NoticesNext]_allVars
    PROVE  [Next]_vars \/ Crash
<1>1. CASE UNCHANGED allVars
  BY <1>1 DEF allVars, requests, vars
<1>2. ASSUME NEW r \in Requests, Request(r) \/ Announce(r)
      PROVE  Next
  BY <1>2 DEF Request, Announce, Next
<1>3. CASE (\E d \in deliveries : Tell(d)) \/ Consume \/ ConnectionLost
  BY <1>3 DEF Tell, Consume, ConnectionLost, requests, vars
<1> QED  BY <1>1, <1>2, <1>3 DEF NoticesNext

\* The requests keep to their types, also when they all die.
LEMMA RequestsTypeStep ==
    ASSUME Orders # {}, TypeOK, [NoticesNext]_allVars
    PROVE  TypeOK'
<1>1. CASE Crash
  BY <1>1, NoTaskType DEF Crash, TypeOK
<1> QED  BY <1>1, RequestsStep, TypeStep

\* With one request at a time the messages stay current and lawful.
LEMMA RequestsInvStep ==
    ASSUME Orders # {}, \A r, s \in Requests : r = s, RequestsInv, [NoticesNext]_allVars
    PROVE  RequestsInv'
<1>1. CASE Crash
  <2>1. TypeOK'
    BY RequestsTypeStep DEF RequestsInv, CurrentInv, FreshInv
  <2>2. UNCHANGED <<status, notices, unnoticed>> /\ \A r \in Requests : pc'[r] = "idle"
    BY <1>1 DEF Crash
  <2>3. FreshInv' /\ SavedInv'
    BY <2>1, <2>2 DEF FreshInv, SavedInv
  <2>4. NoticesCurrent' /\ LawfulInv'
    BY <2>2 DEF RequestsInv, CurrentInv, NoticesCurrent, LawfulInv, NoticesOf, MayChange
  <2> QED  BY <2>3, <2>4 DEF RequestsInv, CurrentInv
<1>2. CASE [Next]_vars
  BY <1>2, CurrentStep, LawfulStep DEF RequestsInv
<1> QED  BY <1>1, <1>2, RequestsStep

-----------------------------------------------------------------------------
(* What the customers hear.                                                *)

\* The types of the requests, of the bus and of what the customers heard.
NoticesTypeOK ==
    /\ Bus!TypeOK
    /\ told \in [Orders -> Statuses]
    /\ late \subseteq Orders

NoticesTypeInv == TypeOK /\ NoticesTypeOK

\* The message that a handler has in hand is one of those published.
LEMMA InHandType ==
    ASSUME NoticesTypeInv, NEW d \in deliveries
    PROVE  /\ d.key = Key /\ d.msg \in DOMAIN notices /\ d.channel \in Nat
           /\ notices[d.msg] \in Task
           /\ notices[d.msg].order \in Orders /\ notices[d.msg].new \in Statuses
           /\ d.msg \in NoticesOf(notices[d.msg].order)
<1>1. deliveries \subseteq BusFacts!Delivery
  BY SameState DEF NoticesTypeInv, NoticesTypeOK, BusFacts!TypeOK
<1>2. d.key = Key /\ d.msg \in DOMAIN notices /\ d.channel \in Nat
  BY <1>1 DEF BusFacts!Delivery, BusFacts!Messages
<1>3. notices[d.msg] \in Task
  BY <1>2 DEF NoticesTypeInv, TypeOK
<1> QED  BY <1>2, <1>3 DEF Task, NoticesOf

\* Requests, bus and customers keep to their types.
LEMMA NoticesTypeStep ==
    ASSUME Orders # {}, NoticesTypeInv, [NoticesNext]_allVars
    PROVE  NoticesTypeInv'
<1>1. TypeOK'
  BY RequestsTypeStep DEF NoticesTypeInv
<1>2. BusFacts!TypeOK /\ BusFacts!TypeOK'
  BY SameState, BusStep, BusFacts!TypeStep DEF NoticesTypeInv, NoticesTypeOK
<1>3. (Bus!TypeOK)' <=> BusFacts!TypeOK'
  BY DEF Bus!TypeOK, BusFacts!TypeOK, Bus!Messages, BusFacts!Messages, Bus!Delivery,
         BusFacts!Delivery
<1>4. told' \in [Orders -> Statuses] /\ late' \subseteq Orders
  <2>1. told \in [Orders -> Statuses] /\ late \subseteq Orders
    BY DEF NoticesTypeInv, NoticesTypeOK
  <2>2. ASSUME NEW d \in deliveries, Tell(d)
        PROVE  told' \in [Orders -> Statuses] /\ late' \subseteq Orders
    <3>1. notices[d.msg].order \in Orders /\ notices[d.msg].new \in Statuses
      BY InHandType
    <3> QED  BY <2>1, <2>2, <3>1 DEF Tell
  <2>3. CASE UNCHANGED news
    BY <2>1, <2>3 DEF news
  <2> QED
    BY <2>2, <2>3 DEF NoticesNext, allVars, Request, Announce, Consume, ConnectionLost, Crash
<1> QED  BY <1>1, <1>2, <1>3, <1>4 DEF NoticesTypeInv, NoticesTypeOK

\* What is settled stays so.
LEMMA SettledStays ==
    ASSUME [BusFacts!Next]_(BusFacts!vars)
    PROVE  Settled \subseteq Settled'
BY DEF BusFacts!Next, BusFacts!vars, BusFacts!Publish, BusFacts!PublishLost,
       BusFacts!Consume, BusFacts!Subscribe, BusFacts!Deliver, BusFacts!Process,
       BusFacts!HandlerCompletes, BusFacts!HandlerThrows, BusFacts!Ack, BusFacts!Nack,
       BusFacts!ConnectionLost, BusFacts!Crash, Settled

\* A message is settled, or it waits in the queue or in the hand of a consumer.
LEMMA SettledOrWaiting ==
    ASSUME BusFacts!EachMessageOnce, NEW m \in DOMAIN notices
    PROVE  m \in Settled <=> m \notin BusFacts!Ready \cup BusFacts!Held
BY BusFacts!FiveDisjoint DEF BusFacts!EachMessageOnce, BusFacts!Messages, Settled

\* When a message is in hand or has been handled, every older one is settled.
TurnInv ==
    /\ \A d \in deliveries, m \in DOMAIN notices : m < d.msg => m \in Settled
    /\ \A n, m \in DOMAIN notices : handled[n] > 0 /\ m < n => m \in Settled

\* The messages after one more was published, to the broker or into the void.
LEMMA Announced ==
    ASSUME NoticesTypeInv, NEW r \in Requests, Announce(r)
    PROVE  \E n \in Nat :
              /\ DOMAIN notices = 1..(n - 1) /\ DOMAIN notices' = 1..n
              /\ notices'[n] = task[r] /\ handled'[n] = 0
              /\ \A i \in DOMAIN notices : notices'[i] = notices[i] /\ handled'[i] = handled[i]
              /\ \A o : task[r].order = o => NoticesOf(o)' = NoticesOf(o) \cup {n}
              /\ \A o : task[r].order # o => NoticesOf(o)' = NoticesOf(o)
              /\ UNCHANGED <<deliveries, told, late>>
<1>1. notices \in Seq(Task) /\ task[r] \in Task
  BY DEF NoticesTypeInv, TypeOK
<1>2. PICK n \in Nat : n = Len(notices) + 1
  BY <1>1
<1>3. notices' = Append(notices, task[r])
  BY DEF Announce, Publish
<1>4. /\ DOMAIN notices = 1..(n - 1) /\ DOMAIN notices' = 1..n
      /\ notices'[n] = task[r]
      /\ \A i \in DOMAIN notices : notices'[i] = notices[i]
      /\ \A o : task[r].order = o => NoticesOf(o)' = NoticesOf(o) \cup {n}
      /\ \A o : task[r].order # o => NoticesOf(o)' = NoticesOf(o)
  <2>1. PICK t \in Task : t = task[r]
    BY <1>1
  <2>2. notices' = Append(notices, t)
    BY <1>3, <2>1
  <2>3. DOMAIN notices = 1..(n - 1) /\ DOMAIN notices' = 1..n
    BY <1>1, <1>2, <2>2
  <2>4. notices'[n] = t /\ \A i \in DOMAIN notices : notices'[i] = notices[i]
    BY <1>1, <1>2, <2>2, AppendProperties
  <2>5. ASSUME NEW o
        PROVE  /\ t.order = o => NoticesOf(o)' = NoticesOf(o) \cup {n}
               /\ t.order # o => NoticesOf(o)' = NoticesOf(o)
    BY <1>1, <1>2, <2>2, NoticesAppended
  <2> QED  BY <2>1, <2>3, <2>4, <2>5
<1>5. handled' = Append(handled, 0) /\ UNCHANGED <<deliveries, told, late>>
  BY DEF Announce, Bus!Publish, Bus!PublishLost, news
<1>6. handled \in Seq(Nat) /\ Len(handled) = n - 1
  <2>1. handled \in [DOMAIN notices -> Nat]
    BY SameState DEF NoticesTypeInv, NoticesTypeOK, BusFacts!TypeOK, BusFacts!Messages
  <2> QED  BY <1>2, <1>4, <2>1
<1>7. handled'[n] = 0 /\ \A i \in DOMAIN notices : handled'[i] = handled[i]
  BY <1>2, <1>4, <1>5, <1>6
<1> QED  BY <1>2, <1>4, <1>5, <1>7

\* Messages get their turn in the order of their publication.
LEMMA TurnStep ==
    ASSUME NoticesTypeInv, BusFacts!IInv, TurnInv, [NoticesNext]_allVars
    PROVE  TurnInv'
<1>1. /\ BusFacts!TypeOK /\ BusFacts!EachMessageOnce
      /\ handled \in [DOMAIN notices -> Nat]
      /\ \A m \in DOMAIN notices : m \in Nat
      /\ \A d \in deliveries : d.msg \in DOMAIN notices
  BY InHandType DEF BusFacts!IInv, BusFacts!TypeOK, BusFacts!Messages, NoticesTypeInv, TypeOK
<1>2. Settled \subseteq Settled'
  BY <1>1, BusStep, SettledStays
<1>3. ASSUME UNCHANGED <<notices, handled>>, deliveries' \subseteq deliveries
      PROVE  TurnInv'
  BY <1>2, <1>3 DEF TurnInv
<1>4. CASE UNCHANGED allVars
  BY <1>3, <1>4 DEF allVars, requests, broker
<1>5. ASSUME NEW r \in Requests, Request(r)
      PROVE  TurnInv'
  BY <1>3, <1>5 DEF Request, Load, Refused, Save, Abort, vars, broker
<1>6. ASSUME NEW r \in Requests, Announce(r)
      PROVE  TurnInv'
  <2>1. PICK n \in Nat :
           /\ DOMAIN notices = 1..(n - 1) /\ DOMAIN notices' = 1..n
           /\ handled'[n] = 0 /\ deliveries' = deliveries
           /\ \A i \in DOMAIN notices : handled'[i] = handled[i]
    BY <1>6, Announced
  <2>2. ASSUME NEW d \in deliveries', NEW m \in DOMAIN notices', m < d.msg
        PROVE  m \in Settled'
    <3>1. m \in DOMAIN notices
      BY <1>1, <2>1, <2>2
    <3> QED  BY <1>2, <2>1, <2>2, <3>1 DEF TurnInv
  <2>3. ASSUME NEW i \in DOMAIN notices', NEW m \in DOMAIN notices', handled'[i] > 0, m < i
        PROVE  m \in Settled'
    <3>1. i \in DOMAIN notices /\ m \in DOMAIN notices
      BY <2>1, <2>3
    <3> QED  BY <1>2, <2>1, <2>3, <3>1 DEF TurnInv
  <2> QED  BY <2>2, <2>3 DEF TurnInv
<1>7. ASSUME NEW d \in deliveries, Bus!HandlerCompletes(d) \/ Bus!HandlerThrows(d),
             notices' = notices
      PROVE  TurnInv'
  <2>1. PICK p : deliveries' = (deliveries \ {d}) \cup {[d EXCEPT !.phase = p]}
    BY <1>7 DEF Bus!HandlerCompletes, Bus!HandlerThrows, Bus!Proceed
  <2>2. [d EXCEPT !.phase = p].msg = d.msg
    BY <1>1 DEF BusFacts!TypeOK, BusFacts!Delivery
  <2>3. \A e \in deliveries' : \E c \in deliveries : e.msg = c.msg
    BY <2>1, <2>2
  <2>4. \A i \in DOMAIN notices : handled'[i] > 0 => handled[i] > 0 \/ i = d.msg
    BY <1>1, <1>7 DEF Bus!HandlerCompletes, Bus!HandlerThrows
  <2>5. \A m \in DOMAIN notices : m < d.msg => m \in Settled
    BY DEF TurnInv
  <2> QED  BY <1>2, <1>7, <2>3, <2>4, <2>5 DEF TurnInv
<1>8. CASE Bus!Deliver(Key) /\ notices' = notices
  <2>1. BusFacts!Deliver(Key)
    BY <1>8, SameSteps
  <2> DEFINE h == Head(queue[Key])
  <2>2. /\ h \in BusFacts!InQueue(Key) /\ \A m \in BusFacts!InQueue(Key) : h <= m
        /\ BusFacts!Ready = BusFacts!InQueue(Key)
    BY <1>1, <2>1, BusFacts!DeliverPlaces DEF BusFacts!Ready
  <2>3. BusFacts!Held = {}
    BY <2>1 DEF BusFacts!Deliver, BusFacts!Held, BusFacts!Unanswered
  <2>4. h \in DOMAIN notices
    BY <1>1, <2>2 DEF BusFacts!EachMessageOnce, BusFacts!Messages
  <2>5. /\ \A e \in deliveries' : e \in deliveries \/ e.msg = h
        /\ handled' = handled
    BY <1>8 DEF Bus!Deliver
  <2> HIDE DEF h
  <2>6. ASSUME NEW m \in DOMAIN notices, m < h
        PROVE  m \in Settled
    <3>1. m \notin BusFacts!Ready
      BY <1>1, <2>2, <2>4, <2>6
    <3> QED  BY <1>1, <2>3, <3>1, SettledOrWaiting
  <2> QED  BY <1>2, <1>8, <2>5, <2>6 DEF TurnInv
<1>9. ASSUME NEW d \in deliveries, Bus!Ack(d) \/ Bus!Nack(d), notices' = notices
      PROVE  TurnInv'
  BY <1>3, <1>9 DEF Bus!Ack, Bus!Nack
<1>10. CASE Bus!Subscribe(Key) /\ notices' = notices
  BY <1>3, <1>10 DEF Bus!Subscribe
<1>11. CASE Consume
  BY <1>7, <1>8, <1>9, <1>10, <1>11 DEF Consume, requests
<1>12. ASSUME NEW d \in deliveries, Tell(d)
       PROVE  TurnInv'
  BY <1>7, <1>12 DEF Tell, requests
<1>13. CASE ConnectionLost \/ Crash
  BY <1>3, <1>13 DEF ConnectionLost, Crash, Bus!ConnectionLost, Bus!Crash, requests
<1> QED
  BY <1>4, <1>5, <1>6, <1>11, <1>12, <1>13 DEF NoticesNext

\* What a customer has heard is the latest message that was handled, unless it
\* came from a handler that had been given up.
Heard(o, m) ==
    /\ handled[m] > 0
    /\ told[o] = notices[m].new
    /\ \A n \in NoticesOf(o) : handled[n] > 0 => n <= m
HeardInv ==
    \A o \in Orders \ late :
        \/ told[o] = "Pending" /\ \A n \in NoticesOf(o) : handled[n] = 0
        \/ \E m \in NoticesOf(o) : Heard(o, m)

\* A message that is told on the channel in use is the latest one handled.
LEMMA TellsLatest ==
    ASSUME NoticesTypeInv, BusFacts!IInv, TurnInv, NEW d \in deliveries,
           d.channel = channel,
           NEW n \in DOMAIN notices, handled[n] > 0
    PROVE  n <= d.msg
<1>1. d.key = Key /\ d.msg \in DOMAIN notices /\ \A m \in DOMAIN notices : m \in Nat
  BY InHandType DEF NoticesTypeInv, TypeOK
<1>2. d.msg \in BusFacts!Held
  BY <1>1 DEF BusFacts!Held, BusFacts!Unanswered, BusFacts!Live
<1>3. d.msg \notin Settled
  BY <1>1, <1>2, SettledOrWaiting DEF BusFacts!IInv
<1>4. ~ (d.msg < n)
  BY <1>1, <1>3 DEF TurnInv
<1> QED  BY <1>1, <1>4

\* A customer hears the latest message handled.
LEMMA HeardStep ==
    ASSUME NoticesTypeInv, BusFacts!IInv, TurnInv, HeardInv, [NoticesNext]_allVars
    PROVE  HeardInv'
<1>1. /\ handled \in [DOMAIN notices -> Nat] /\ told \in [Orders -> Statuses]
      /\ late \subseteq Orders /\ \A m \in DOMAIN notices : m \in Nat
  BY DEF BusFacts!IInv, BusFacts!TypeOK, BusFacts!Messages, NoticesTypeInv, NoticesTypeOK, TypeOK
<1>2. CASE UNCHANGED <<notices, handled, told, late>>
  BY <1>2 DEF HeardInv, Heard, NoticesOf
<1>3. ASSUME NEW r \in Requests, Request(r)
      PROVE  UNCHANGED <<notices, handled, told, late>>
  BY <1>3 DEF Request, Load, Refused, Save, Abort, vars, broker, news
<1>4. CASE Consume \/ ConnectionLost \/ Crash
  BY <1>2, <1>4 DEF Consume, ConnectionLost, Crash, requests, news, Bus!Subscribe,
      Bus!Deliver, Bus!HandlerThrows, Bus!Ack, Bus!Nack, Bus!ConnectionLost, Bus!Crash
<1>5. ASSUME NEW r \in Requests, Announce(r)
      PROVE  HeardInv'
  <2>1. PICK n \in Nat :
           /\ DOMAIN notices = 1..(n - 1) /\ handled'[n] = 0
           /\ \A i \in DOMAIN notices : notices'[i] = notices[i] /\ handled'[i] = handled[i]
           /\ \A o : NoticesOf(o)' \in {NoticesOf(o), NoticesOf(o) \cup {n}}
           /\ UNCHANGED <<told, late>>
    BY <1>5, Announced
  <2>2. \A o : NoticesOf(o) \subseteq DOMAIN notices
    BY DEF NoticesOf
  <2>3. ASSUME NEW o \in Orders \ late,
               told[o] = "Pending" /\ \A i \in NoticesOf(o) : handled[i] = 0
        PROVE  told'[o] = "Pending" /\ \A i \in NoticesOf(o)' : handled'[i] = 0
    BY <2>1, <2>2, <2>3
  <2>4. ASSUME NEW o \in Orders \ late, NEW m \in NoticesOf(o), Heard(o, m)
        PROVE  m \in NoticesOf(o)' /\ Heard(o, m)'
    <3>1. m \in DOMAIN notices /\ m \in NoticesOf(o)'
      BY <2>1, <2>2
    <3>2. handled'[m] > 0 /\ told'[o] = notices'[m].new
      BY <2>1, <2>4, <3>1 DEF Heard
    <3>3. ASSUME NEW i \in NoticesOf(o)', handled'[i] > 0
          PROVE  i <= m
      <4>1. i \in NoticesOf(o) /\ handled[i] > 0
        BY <2>1, <2>2, <3>3
      <4> QED  BY <2>4, <4>1 DEF Heard
    <3> QED  BY <3>1, <3>2, <3>3 DEF Heard
  <2> QED  BY <2>1, <2>3, <2>4 DEF HeardInv
<1>6. ASSUME NEW d \in deliveries, Tell(d)
      PROVE  HeardInv'
  <2>1. PICK g : g = notices[d.msg]
    OBVIOUS
  <2>2. /\ g.order \in Orders /\ g.new \in Statuses /\ d.msg \in DOMAIN notices
        /\ d.msg \in NoticesOf(g.order)
    BY <2>1, InHandType
  <2>3. /\ notices' = notices /\ told' = [told EXCEPT ![g.order] = g.new]
        /\ late' = IF d.channel = channel THEN late \ {g.order} ELSE late \cup {g.order}
        /\ handled' = [handled EXCEPT ![d.msg] = @ + 1]
    BY <1>6, <2>1 DEF Tell, requests, Bus!HandlerCompletes
  <2>4. \A o : NoticesOf(o)' = NoticesOf(o)
    BY <2>3 DEF NoticesOf
  <2>5. ASSUME NEW o \in Orders \ late', o # g.order
        PROVE  \/ told'[o] = "Pending" /\ \A n \in NoticesOf(o)' : handled'[n] = 0
               \/ \E m \in NoticesOf(o)' : Heard(o, m)'
    <3>1. o \in Orders \ late /\ told'[o] = told[o]
      BY <1>1, <2>3, <2>5
    <3>2. \A n \in NoticesOf(o) : handled'[n] = handled[n]
      <4>1. d.msg \notin NoticesOf(o)
        BY <2>1, <2>5 DEF NoticesOf
      <4> QED  BY <1>1, <2>3, <4>1 DEF NoticesOf
    <3> QED  BY <2>3, <2>4, <3>1, <3>2 DEF HeardInv, Heard
  <2>6. ASSUME g.order \notin late'
        PROVE  Heard(g.order, d.msg)'
    <3>1. d.channel = channel
      BY <2>3, <2>6
    <3>2. handled'[d.msg] > 0
      BY <1>1, <2>2, <2>3
    <3>3. told'[g.order] = notices'[d.msg].new
      BY <1>1, <2>1, <2>2, <2>3
    <3>4. ASSUME NEW n \in NoticesOf(g.order), handled'[n] > 0
          PROVE  n <= d.msg
      <4>1. n \in DOMAIN notices
        BY DEF NoticesOf
      <4>2. n = d.msg \/ handled[n] > 0
        BY <1>1, <2>2, <2>3, <3>4, <4>1
      <4>3. CASE handled[n] > 0
        BY <3>1, <4>1, <4>3, TellsLatest
      <4> QED  BY <1>1, <4>1, <4>2, <4>3
    <3> QED  BY <2>4, <3>2, <3>3, <3>4 DEF Heard
  <2> QED  BY <2>2, <2>4, <2>5, <2>6 DEF HeardInv
<1>7. CASE UNCHANGED allVars
  BY <1>2, <1>7 DEF allVars, requests, broker, news
<1> QED
  BY <1>2, <1>3, <1>4, <1>5, <1>6, <1>7 DEF NoticesNext

-----------------------------------------------------------------------------
(* The theorems.                                                           *)

\* The types hold at the start.
LEMMA NoticesTypeInit ==
    ASSUME Orders # {}
    PROVE  NoticesInit => NoticesTypeInv
<1> SUFFICES ASSUME NoticesInit PROVE NoticesTypeInv
  OBVIOUS
<1>1. TypeOK
  BY NoTaskType DEF NoticesInit, Init, TypeOK, Statuses
<1>2. Bus!TypeOK
  BY SameState, BusInvariant DEF BusFacts!IInv
<1> QED  BY <1>1, <1>2 DEF NoticesInit, NoticesTypeInv, NoticesTypeOK, Statuses

\* The messages about orders go through the bus as any others do, so that what
\* is proved of EventBus holds of them: each that arrives is settled once and in
\* order (RabbitMqConsumerService.cs 47-91).
THEOREM NoticesSettledOnce ==
    ASSUME Orders # {}
    PROVE  NoticesSpec => BusFacts!ImplementsLog /\ []BusFacts!EachMessageOnce
<1>1. NoticesInit => BusFacts!Init
  BY SameState DEF NoticesInit
<1>2. NoticesTypeInv /\ [NoticesNext]_allVars => [BusFacts!Next]_(BusFacts!vars)
  BY SameState, BusStep DEF NoticesTypeInv, NoticesTypeOK
<1>3. NoticesInit => NoticesTypeInv
  BY NoticesTypeInit
<1>4. NoticesTypeInv /\ [NoticesNext]_allVars => NoticesTypeInv'
  BY NoticesTypeStep
<1>5. NoticesSpec => BusFacts!Spec
  BY <1>1, <1>2, <1>3, <1>4, PTL DEF NoticesSpec, BusFacts!Spec
<1> QED  BY <1>5, BusFacts!BusImplementsLog, BusFacts!MessagesOnce, PTL

\* The inductive invariant of the whole, with one administrator at a time.
NoticesInv ==
    /\ RequestsInv
    /\ NoticesTypeInv
    /\ BusFacts!IInv
    /\ TurnInv
    /\ HeardInv

\* NoticesInv holds at the start and is kept by every step.
LEMMA NoticesInvariant ==
    ASSUME Orders # {}, \A r, s \in Requests : r = s
    PROVE  /\ NoticesInit => NoticesInv
           /\ NoticesInv /\ [NoticesNext]_allVars => NoticesInv'
<1>1. ASSUME NoticesInit
      PROVE  NoticesInv
  <2>1. NoticesTypeInv /\ BusFacts!IInv
    BY <1>1, NoticesTypeInit, BusInvariant
  <2>2. DOMAIN notices = {} /\ deliveries = {} /\ \A o : NoticesOf(o) = {}
    <3>1. DOMAIN notices = {}
      BY <1>1 DEF NoticesInit, Init
    <3> QED  BY <1>1, <3>1 DEF NoticesInit, Bus!Init, NoticesOf
  <2>3. RequestsInv
    BY <1>1, <2>1, <2>2 DEF NoticesInit, Init, RequestsInv, CurrentInv, FreshInv, SavedInv,
        NoticesCurrent, LawfulInv, NoticesTypeInv
  <2>4. TurnInv /\ HeardInv
    BY <1>1, <2>2 DEF NoticesInit, TurnInv, HeardInv
  <2> QED  BY <2>1, <2>3, <2>4 DEF NoticesInv
<1>2. ASSUME NoticesInv, [NoticesNext]_allVars
      PROVE  NoticesInv'
  BY <1>2, RequestsInvStep, NoticesTypeStep, BusInvariant, TurnStep, HeardStep DEF NoticesInv
<1> QED  BY <1>1, <1>2

\* A crash in the middle of a request breaks no rule of OrderLifecycle either
\* (UpdateOrderStatusHandler.cs 22-43).
THEOREM NoticesImplementLifecycle ==
    ASSUME Orders # {}, \A r, s \in Requests : r = s
    PROVE  NoticesSpec => ImplementsLifecycle
<1>1. NoticesInit => Lifecycle!Init
  BY DEF NoticesInit, Init, Lifecycle!Init
<1>2. ASSUME NoticesInv, [NoticesNext]_allVars
      PROVE  [Lifecycle!Next]_status
  <2>1. CASE [Next]_vars
    BY <1>2, <2>1, LifecycleStep DEF NoticesInv, RequestsInv, CurrentInv
  <2>2. CASE Crash
    BY <2>2 DEF Crash
  <2> QED  BY <1>2, <2>1, <2>2, RequestsStep
<1> QED
  BY <1>1, <1>2, NoticesInvariant, PTL DEF NoticesSpec, ImplementsLifecycle, Lifecycle!Spec

\* Crashes that end requests in the middle do not change what SerialNoticesCurrent
\* says (UpdateOrderStatusHandler.cs 22-43).
THEOREM NoticesStayCurrent ==
    ASSUME Orders # {}, \A r, s \in Requests : r = s
    PROVE  NoticesSpec => []NoticesCurrent
<1>1. NoticesInv => NoticesCurrent
  BY DEF NoticesInv, RequestsInv, CurrentInv
<1> QED  BY <1>1, NoticesInvariant, PTL DEF NoticesSpec

\* With one administrator at a time, a customer whose last message has been
\* acknowledged knows the status of the order, unless a request died after its
\* save or a handler that had been given up came in last, however often the
\* process and the connection failed (UpdateOrderStatusHandler.cs 34-37,
\* RabbitMqConsumerService.cs 78-91).
THEOREM CustomersUpToDate ==
    ASSUME Orders # {}, \A r, s \in Requests : r = s
    PROVE  NoticesSpec => []CustomerUpToDate
<1>1. ASSUME NoticesInv
      PROVE  CustomerUpToDate
  <2> SUFFICES ASSUME NEW o \in Orders \ (unnoticed \cup late),
                      NEW i \in NoticesOf(o) \cap acked,
                      \A j \in NoticesOf(o) : j <= i
               PROVE  told[o] = status[o]
    BY DEF CustomerUpToDate
  <2>1. \A j \in NoticesOf(o) : j \in Nat
    BY <1>1 DEF NoticesOf, NoticesInv, NoticesTypeInv, TypeOK
  <2>2. handled[i] > 0
    BY <1>1 DEF NoticesInv, BusFacts!IInv, BusFacts!AckedInv
  <2>3. PICK m \in NoticesOf(o) : Heard(o, m)
    BY <1>1, <2>2 DEF NoticesInv, HeardInv
  <2>4. i <= m
    BY <2>2, <2>3 DEF Heard
  <2>5. PICK l \in NoticesOf(o) : (\A j \in NoticesOf(o) : j <= l) /\ notices[l].new = status[o]
    BY <1>1 DEF NoticesInv, RequestsInv, CurrentInv, NoticesCurrent
  <2>6. m = i /\ l = i
    BY <2>1, <2>4, <2>5
  <2> QED  BY <2>3, <2>5, <2>6 DEF Heard
<1> QED  BY <1>1, NoticesInvariant, PTL DEF NoticesSpec

\* With one administrator at a time, the news a customer hears in turn are a life
\* the order may have, whatever is lost, dropped or delivered twice, unless a
\* handler that had been given up tells them (Order.cs 61-76,
\* RabbitMqConsumerService.cs 78-91).
THEOREM CustomersToldLawfully ==
    ASSUME Orders # {}, \A r, s \in Requests : r = s
    PROVE  NoticesSpec => ToldLawfully
<1>1. ASSUME NoticesInv, [NoticesNext]_allVars
      PROVE  [\A o \in Orders \ (late \cup late') : MayChange(told[o], told'[o])]_allVars
  <2> SUFFICES ASSUME NEW o \in Orders \ (late \cup late')
               PROVE  MayChange(told[o], told'[o])
    OBVIOUS
  <2>1. CASE told' = told
    BY <2>1 DEF MayChange
  <2>2. ASSUME NEW d \in deliveries, Tell(d)
        PROVE  MayChange(told[o], told'[o])
    <3>1. PICK g : g = notices[d.msg]
      OBVIOUS
    <3>2. /\ g.order \in Orders /\ d.msg \in DOMAIN notices /\ d.msg \in NoticesOf(g.order)
          /\ told \in [Orders -> Statuses]
      BY <1>1, <3>1, InHandType DEF NoticesInv, NoticesTypeInv, NoticesTypeOK
    <3>3. /\ told' = [told EXCEPT ![g.order] = g.new]
          /\ late' = IF d.channel = channel THEN late \ {g.order} ELSE late \cup {g.order}
      BY <2>2, <3>1 DEF Tell
    <3>4. CASE o # g.order
      BY <3>2, <3>3, <3>4 DEF MayChange
    <3>5. CASE o = g.order
      <4>1. d.channel = channel /\ told'[o] = g.new
        BY <3>2, <3>3, <3>5
      <4>2. CASE told[o] = "Pending"
        BY <4>2 DEF MayChange
      <4>3. ASSUME NEW m \in NoticesOf(o), Heard(o, m)
            PROVE  MayChange(told[o], g.new)
        <5>1. m \in DOMAIN notices /\ handled[m] > 0 /\ told[o] = notices[m].new
          BY <4>3 DEF NoticesOf, Heard
        <5>2. m <= d.msg
          BY <1>1, <4>1, <5>1, TellsLatest DEF NoticesInv
        <5> QED
          BY <1>1, <3>1, <3>2, <3>5, <5>1, <5>2 DEF NoticesInv, RequestsInv, LawfulInv
      <4> QED  BY <1>1, <4>1, <4>2, <4>3 DEF NoticesInv, HeardInv
    <3> QED  BY <3>4, <3>5
  <2> QED
    BY <1>1, <2>1, <2>2 DEF NoticesNext, allVars, Request, Announce, Consume, ConnectionLost,
        Crash, news
<1> QED  BY <1>1, NoticesInvariant, PTL DEF NoticesSpec, ToldLawfully

=============================================================================
