--------------------------- MODULE EventBusProofs ---------------------------
(***************************************************************************)
(* The safety properties of EventBus, for every set of keys and any number *)
(* of messages and failures: each message is in one place, it is           *)
(* acknowledged after it was handled, first handlings are in order, and    *)
(* the bus implements MessageLog.                                          *)
(***************************************************************************)
EXTENDS EventBus, SequenceTheorems, FiniteSetTheorems, TLAPS

\* What a consumer has in hand: a message of its queue, delivered on a channel
\* that was opened, and every older message of the type had its turn before.
DeliveryInv ==
    \A d \in deliveries :
        /\ d.channel <= channel
        /\ published[d.msg] = d.key
        /\ d.phase = "acking" => handled[d.msg] > 0
        /\ \A m \in Messages : m < d.msg /\ published[m] = d.key
              => handled[m] > 0 \/ m \in dropped \cup lost

AckedInv == \A m \in acked : handled[m] > 0

\* The handlers of a message that have completed, those that are running and
\* the one that will run for it: each failure may add one.
Handling(m) == {d \in deliveries : d.msg = m /\ d.phase = "handling"}
Runs(m) == handled[m] + Cardinality(Handling(m)) + (IF m \in Ready THEN 1 ELSE 0)
RunsInv ==
    /\ IsFiniteSet(deliveries)
    /\ \A m \in Messages : Runs(m) <= 1 + failures

IInv ==
    /\ TypeOK
    /\ EachMessageOnce
    /\ DeliveryInv
    /\ AckedInv
    /\ FirstHandledInOrder
    /\ RunsInv

-----------------------------------------------------------------------------
(* Sequences and sets.                                                     *)

LEMMA SetToSeqEmpty == SetToSeq({}) = <<>>
<1>1. Cardinality({}) = 0
  BY FS_EmptySet
<1>2. 1..0 = {}
  OBVIOUS
<1>3. \A f \in [1..0 -> {}] : f = <<>>
  BY <1>2
<1>4. <<>> \in [1..0 -> {}] /\ IsInjective(<<>>)
  BY <1>2 DEF IsInjective
<1> QED  BY <1>1, <1>3, <1>4 DEF SetToSeq

LEMMA SetToSeqSingleton ==
    ASSUME NEW x
    PROVE  SetToSeq({x}) = <<x>>
<1>1. Cardinality({x}) = 1
  BY FS_Singleton
<1>2. 1..1 = {1}
  OBVIOUS
<1>3. \A f \in [1..1 -> {x}] : f = <<x>>
  BY <1>2
<1>4. <<x>> \in [1..1 -> {x}] /\ IsInjective(<<x>>)
  BY <1>2 DEF IsInjective
<1> QED  BY <1>1, <1>3, <1>4 DEF SetToSeq

\* Messages are numbered from 1.
LEMMA MessageNumbers ==
    ASSUME TypeOK
    PROVE  Messages = 1..Len(published) /\ Len(published) \in Nat
BY DEF TypeOK, Messages

\* A channel has no message of a queue in hand, or one.
LEMMA InHand ==
    ASSUME TypeOK, NEW k \in Keys
    PROVE  \/ /\ Unanswered(k) = {} /\ Live(k) = {}
              /\ Returned(k) = queue[k]
           \/ \E d \in Live(k) :
                 /\ Live(k) = {d} /\ Unanswered(k) = {d.msg}
                 /\ Returned(k) = <<d.msg>> \o queue[k]
<1>1. queue[k] \in Seq(Messages)
  BY DEF TypeOK
<1>2. CASE Live(k) = {}
  <2>1. Unanswered(k) = {}
    BY <1>2 DEF Unanswered
  <2>2. Returned(k) = <<>> \o queue[k]
    BY <2>1, SetToSeqEmpty DEF Returned
  <2> QED  BY <1>1, <1>2, <2>1, <2>2, ConcatEmptySeq
<1>3. ASSUME NEW d \in Live(k)
      PROVE  /\ Live(k) = {d} /\ Unanswered(k) = {d.msg}
             /\ Returned(k) = <<d.msg>> \o queue[k]
  <2>1. Live(k) = {d}
    BY <1>3 DEF Live, TypeOK
  <2>2. Unanswered(k) = {d.msg}
    BY <2>1 DEF Unanswered
  <2>3. SetToSeq(Unanswered(k)) = <<d.msg>>
    BY <2>2, SetToSeqSingleton
  <2> QED  BY <2>1, <2>2, <2>3 DEF Returned
<1> QED  BY <1>2, <1>3

\* What is returned is what was in hand and what was ready.
LEMMA ReturnedElements ==
    ASSUME TypeOK, NEW k \in Keys
    PROVE  /\ Returned(k) \in Seq(Messages)
           /\ {Returned(k)[i] : i \in DOMAIN Returned(k)} =
                 Unanswered(k) \cup InQueue(k)
<1>1. queue[k] \in Seq(Messages)
  BY DEF TypeOK
<1>2. CASE Unanswered(k) = {} /\ Returned(k) = queue[k]
  BY <1>1, <1>2 DEF InQueue
<1>3. ASSUME NEW d \in Live(k), Unanswered(k) = {d.msg},
             Returned(k) = <<d.msg>> \o queue[k]
      PROVE  /\ Returned(k) \in Seq(Messages)
             /\ {Returned(k)[i] : i \in DOMAIN Returned(k)} =
                   Unanswered(k) \cup InQueue(k)
  <2>1. d.msg \in Messages
    BY DEF Live, TypeOK, Delivery
  <2>2. /\ Returned(k) \in Seq(Messages)
        /\ Len(Returned(k)) = Len(queue[k]) + 1
        /\ Returned(k)[1] = d.msg
        /\ \A i \in 2..(Len(queue[k]) + 1) : Returned(k)[i] = queue[k][i - 1]
    BY <1>1, <1>3, <2>1
  <2>3. \A i \in 1..Len(queue[k]) : i + 1 \in 2..(Len(queue[k]) + 1) /\ (i + 1) - 1 = i
    BY <1>1
  <2>4. DOMAIN Returned(k) = 1..(Len(queue[k]) + 1) /\ DOMAIN queue[k] = 1..Len(queue[k])
    BY <1>1, <2>2
  <2>5. ASSUME NEW i \in DOMAIN queue[k]
        PROVE  queue[k][i] \in {Returned(k)[j] : j \in DOMAIN Returned(k)}
    <3>1. i + 1 \in DOMAIN Returned(k) /\ Returned(k)[i + 1] = queue[k][i]
      BY <1>1, <2>2, <2>3, <2>4
    <3> QED  BY <3>1
  <2>6. ASSUME NEW i \in DOMAIN Returned(k), i # 1
        PROVE  Returned(k)[i] \in {queue[k][j] : j \in DOMAIN queue[k]}
    <3>1. i - 1 \in DOMAIN queue[k] /\ Returned(k)[i] = queue[k][i - 1]
      BY <1>1, <2>2, <2>4, <2>6
    <3> QED  BY <3>1
  <2>7. 1 \in DOMAIN Returned(k)
    BY <1>1, <2>4
  <2>8. ASSUME NEW m
        PROVE  m \in {Returned(k)[i] : i \in DOMAIN Returned(k)} <=>
                  m \in {d.msg} \cup InQueue(k)
    BY <2>2, <2>5, <2>6, <2>7 DEF InQueue
  <2> QED  BY <1>3, <2>2, <2>8 DEF InQueue
<1> QED  BY <1>2, <1>3, InHand

-----------------------------------------------------------------------------
(* Types.                                                                  *)

LEMMA HandledSequence ==
    ASSUME TypeOK
    PROVE  handled \in Seq(Nat) /\ Len(handled) = Len(published)
<1>1. handled \in [1..Len(published) -> Nat] /\ Len(published) \in Nat
  BY MessageNumbers DEF TypeOK
<1> QED  BY <1>1

\* A new message joins those there are.
LEMMA NewMessage ==
    ASSUME TypeOK, NEW k \in Keys,
           published' = Append(published, k), handled' = Append(handled, 0)
    PROVE  /\ published' \in Seq(Keys) /\ handled' \in [Messages' -> Nat]
           /\ Messages' = Messages \cup {Len(published) + 1}
           /\ Len(published) + 1 \notin Messages
           /\ published'[Len(published) + 1] = k /\ handled'[Len(published) + 1] = 0
           /\ \A m \in Messages : published'[m] = published[m] /\ handled'[m] = handled[m]
<1>1. published \in Seq(Keys) /\ handled \in Seq(Nat) /\ Len(handled) = Len(published)
  BY HandledSequence DEF TypeOK
<1>2. published' \in Seq(Keys) /\ Len(published') = Len(published) + 1
  BY <1>1
<1>3. handled' \in Seq(Nat) /\ Len(handled') = Len(published) + 1
  BY <1>1
<1>4. Messages = 1..Len(published) /\ Messages' = 1..(Len(published) + 1)
  BY <1>1, <1>2 DEF Messages
<1>5. handled' \in [Messages' -> Nat]
  BY <1>3, <1>4, LenProperties
<1>6. \A m \in Messages : published'[m] = published[m] /\ handled'[m] = handled[m]
  BY <1>1, <1>4
<1> QED  BY <1>1, <1>2, <1>4, <1>5, <1>6

LEMMA TypeStep ==
    ASSUME TypeOK, [Next]_vars
    PROVE  TypeOK'
<1>1. ASSUME published' = published, handled' \in [Messages -> Nat],
             subscribed' \subseteq Keys, channel' \in Nat, failures' \in Nat,
             queue' \in [Keys -> Seq(Messages)], deliveries' \subseteq Delivery,
             \A d, e \in deliveries' : d.key = e.key /\ d.channel = e.channel => d = e,
             acked' \subseteq Messages, dropped' \subseteq Messages, lost' \subseteq Messages
      PROVE  TypeOK'
  BY <1>1 DEF TypeOK, Messages, Delivery
<1>2. CASE UNCHANGED vars
  BY <1>1, <1>2 DEF TypeOK, vars
<1>3. ASSUME NEW k \in Keys, Subscribe(k)
      PROVE  TypeOK'
  BY <1>1, <1>3 DEF TypeOK, Subscribe
<1>4. ASSUME NEW k \in Keys, Publish(k) \/ PublishLost(k)
      PROVE  TypeOK'
  <2>1. published' = Append(published, k) /\ handled' = Append(handled, 0)
    BY <1>4 DEF Publish, PublishLost
  <2>2. /\ published' \in Seq(Keys) /\ handled' \in [Messages' -> Nat]
        /\ Messages' = Messages \cup {Len(published) + 1}
    BY <2>1, NewMessage
  <2>3. Delivery \subseteq Delivery'
    BY <2>2 DEF Delivery
  <2>4. queue' \in [Keys -> Seq(Messages')]
    <3>1. \A j \in Keys : queue[j] \in Seq(Messages')
      BY <2>2 DEF TypeOK
    <3>2. Append(queue[k], Len(published) + 1) \in Seq(Messages')
      BY <2>2, <3>1
    <3> QED  BY <1>4, <3>1, <3>2 DEF Publish, PublishLost, TypeOK
  <2>5. lost' \subseteq Messages'
    BY <1>4, <2>2 DEF Publish, PublishLost, TypeOK
  <2>6. /\ UNCHANGED <<subscribed, channel, deliveries, acked, dropped>>
        /\ failures' \in Nat
    BY <1>4 DEF Publish, PublishLost, TypeOK
  <2> QED  BY <2>2, <2>3, <2>4, <2>5, <2>6 DEF TypeOK
<1>5. ASSUME NEW k \in Keys, Deliver(k)
      PROVE  TypeOK'
  <2>1. queue[k] \in Seq(Messages) /\ queue[k] # <<>>
    BY <1>5 DEF TypeOK, Deliver
  <2>2. Head(queue[k]) \in Messages /\ Tail(queue[k]) \in Seq(Messages)
    BY <2>1
  <2> DEFINE new == [key |-> k, channel |-> channel, msg |-> Head(queue[k]),
                     phase |-> "handling"]
  <2>3. new \in Delivery
    BY <2>2 DEF Delivery, TypeOK
  <2>4. \A d \in deliveries : ~ (d.key = k /\ d.channel = channel)
    BY <1>5 DEF Deliver, Live
  <2>5. deliveries' = deliveries \cup {new} /\ queue' = [queue EXCEPT ![k] = Tail(@)]
    BY <1>5 DEF Deliver
  <2>6. \A d, e \in deliveries' : d.key = e.key /\ d.channel = e.channel => d = e
    BY <2>4, <2>5 DEF TypeOK
  <2>7. queue' \in [Keys -> Seq(Messages)]
    BY <2>2, <2>5 DEF TypeOK
  <2> HIDE DEF new
  <2> QED  BY <1>1, <1>5, <2>3, <2>5, <2>6, <2>7 DEF Deliver, TypeOK
<1>6. ASSUME NEW d \in deliveries, HandlerCompletes(d) \/ HandlerThrows(d)
      PROVE  TypeOK'
  <2>1. d \in Delivery
    BY DEF TypeOK
  <2>2. PICK p \in {"acking", "nacking"} : Proceed(d, p)
    BY <1>6 DEF HandlerCompletes, HandlerThrows
  <2> DEFINE e == [d EXCEPT !.phase = p]
  <2>3. e \in Delivery /\ e.key = d.key /\ e.channel = d.channel
    BY <2>1 DEF Delivery
  <2>4. deliveries' = (deliveries \ {d}) \cup {e}
    BY <2>2 DEF Proceed
  <2> HIDE DEF e
  <2>5. \A x, y \in deliveries' : x.key = y.key /\ x.channel = y.channel => x = y
    BY <2>3, <2>4 DEF TypeOK
  <2>6. deliveries' \subseteq Delivery
    BY <2>3, <2>4 DEF TypeOK
  <2>7. handled' \in [Messages -> Nat]
    <3>1. handled \in [Messages -> Nat] /\ d.msg \in Messages
      BY <2>1 DEF TypeOK, Delivery
    <3>2. handled' = handled \/ handled' = [handled EXCEPT ![d.msg] = @ + 1]
      BY <1>6 DEF HandlerCompletes, HandlerThrows
    <3> QED  BY <3>1, <3>2
  <2> QED  BY <1>1, <1>6, <2>5, <2>6, <2>7 DEF HandlerCompletes, HandlerThrows, TypeOK
<1>7. ASSUME NEW d \in deliveries, Ack(d) \/ Nack(d)
      PROVE  TypeOK'
  <2>1. d.msg \in Messages
    BY DEF TypeOK, Delivery
  <2> QED  BY <1>1, <1>7, <2>1 DEF Ack, Nack, TypeOK
<1>8. CASE ConnectionLost \/ Crash
  <2>1. queue' \in [Keys -> Seq(Messages)]
    BY <1>8, ReturnedElements DEF ConnectionLost, Crash
  <2> QED  BY <1>1, <1>8, <2>1 DEF ConnectionLost, Crash, TypeOK
<1> QED
  BY <1>2, <1>3, <1>4, <1>5, <1>6, <1>7, <1>8 DEF Next, Consume, Process

-----------------------------------------------------------------------------
(* The places of messages.                                                 *)

LEMMA FiveDisjoint ==
    ASSUME NEW A, NEW B, NEW C, NEW D, NEW E
    PROVE  Disjoint(<<A, B, C, D, E>>) <=>
              /\ A \cap B = {} /\ A \cap C = {} /\ A \cap D = {} /\ A \cap E = {}
              /\ B \cap C = {} /\ B \cap D = {} /\ B \cap E = {}
              /\ C \cap D = {} /\ C \cap E = {} /\ D \cap E = {}
<1> DEFINE s == <<A, B, C, D, E>>
<1>1. DOMAIN s = 1..5 /\ s[1] = A /\ s[2] = B /\ s[3] = C /\ s[4] = D /\ s[5] = E
  OBVIOUS
<1>2. 1..5 = {1, 2, 3, 4, 5}
  OBVIOUS
<1> HIDE DEF s
<1>3. (\A i, j \in 1..5 : i # j => s[i] \cap s[j] = {}) <=>
         /\ A \cap B = {} /\ A \cap C = {} /\ A \cap D = {} /\ A \cap E = {}
         /\ B \cap C = {} /\ B \cap D = {} /\ B \cap E = {}
         /\ C \cap D = {} /\ C \cap E = {} /\ D \cap E = {}
  BY <1>1, <1>2
<1> QED  BY <1>1, <1>3 DEF Disjoint, s

\* Steps that move no message.
LEMMA NothingMoves ==
    ASSUME EachMessageOnce, UNCHANGED <<published, queue, lost, acked, dropped>>,
           \A k \in Keys : Unanswered(k)' = Unanswered(k)
    PROVE  EachMessageOnce'
<1>1. Messages' = Messages /\ Ready' = Ready /\ Held' = Held
  BY DEF Messages, Ready, InQueue, Held
<1>2. \A k \in Keys : InOrder(k)'
  BY DEF EachMessageOnce, InOrder, InQueue
<1> QED  BY <1>1, <1>2 DEF EachMessageOnce, Disjoint

\* Where a message waits is where its type is handled.
LEMMA OwnQueue ==
    ASSUME EachMessageOnce, NEW k \in Keys
    PROVE  /\ \A m : m \in InQueue(k) <=> m \in Ready /\ published[m] = k
           /\ \A m : m \in Unanswered(k) <=> m \in Held /\ published[m] = k
BY DEF EachMessageOnce, InOrder, Ready, Held

LEMMA PublishPlaces ==
    ASSUME TypeOK, EachMessageOnce, NEW k \in Keys, Publish(k) \/ PublishLost(k)
    PROVE  EachMessageOnce'
<1> DEFINE n == Len(published) + 1
<1>1. published' = Append(published, k) /\ handled' = Append(handled, 0)
  BY DEF Publish, PublishLost
<1>2. /\ Messages' = Messages \cup {n} /\ n \notin Messages /\ published'[n] = k
      /\ \A m \in Messages : published'[m] = published[m]
  BY <1>1, NewMessage
<1>3. \A m \in Messages : m \in Nat /\ m < n
  BY MessageNumbers
<1>4. \A j \in Keys : Unanswered(j)' = Unanswered(j)
  BY DEF Publish, PublishLost, Unanswered, Live
<1>5. \A j \in Keys : queue[j] \in Seq(Messages)
  BY DEF TypeOK
<1>6. lost \cup Ready \cup Held \cup acked \cup dropped = Messages
  BY DEF EachMessageOnce
<1>7. Held' = Held
  BY <1>4 DEF Held
<1>8. CASE PublishLost(k)
  <2>1. Ready' = Ready /\ lost' = lost \cup {n} /\ acked' = acked /\ dropped' = dropped
    BY <1>8 DEF PublishLost, Ready, InQueue
  <2>2. Disjoint(<<lost, Ready, Held, acked, dropped>>)'
    BY <1>2, <1>6, <1>7, <2>1, FiveDisjoint DEF EachMessageOnce
  <2>3. ASSUME NEW j \in Keys
        PROVE  InOrder(j)'
    <3>1. InOrder(j) /\ queue' = queue /\ InQueue(j)' = InQueue(j)
      BY <1>8 DEF EachMessageOnce, PublishLost, InQueue
    <3>2. InQueue(j) \cup Unanswered(j) \subseteq Messages
      BY <1>6 DEF Ready, Held
    <3> QED  BY <1>2, <1>4, <3>1, <3>2 DEF InOrder
  <2> QED  BY <1>2, <1>6, <1>7, <2>1, <2>2, <2>3 DEF EachMessageOnce
<1>9. CASE Publish(k)
  <2>1. queue' = [queue EXCEPT ![k] = Append(@, n)] /\ UNCHANGED <<lost, acked, dropped>>
    BY <1>9 DEF Publish
  <2>2. queue'[k] = Append(queue[k], n) /\ \A j \in Keys \ {k} : queue'[j] = queue[j]
    BY <2>1 DEF TypeOK
  <2>3. /\ DOMAIN queue'[k] = 1..(Len(queue[k]) + 1) /\ DOMAIN queue[k] = 1..Len(queue[k])
        /\ queue'[k][Len(queue[k]) + 1] = n
        /\ \A i \in DOMAIN queue[k] : queue'[k][i] = queue[k][i]
        /\ Len(queue[k]) \in Nat
    BY <1>5, <2>2
  <2>4. InQueue(k)' = InQueue(k) \cup {n}
    BY <2>3 DEF InQueue
  <2>5. \A j \in Keys \ {k} : InQueue(j)' = InQueue(j)
    BY <2>2 DEF InQueue
  <2>6. Ready' = Ready \cup {n}
    BY <2>4, <2>5 DEF Ready
  <2>7. Disjoint(<<lost, Ready, Held, acked, dropped>>)'
    BY <1>2, <1>6, <1>7, <2>1, <2>6, FiveDisjoint DEF EachMessageOnce
  <2>8. ASSUME NEW j \in Keys
        PROVE  InOrder(j)'
    <3>1. InOrder(j)
      BY DEF EachMessageOnce
    <3>2. InQueue(j) \cup Unanswered(j) \subseteq Messages
      BY <1>6 DEF Ready, Held
    <3>3. CASE j # k
      BY <1>2, <1>4, <2>2, <2>5, <3>1, <3>2, <3>3 DEF InOrder
    <3>4. CASE j = k
      <4>1. \A a, b \in DOMAIN queue'[k] : a < b => queue'[k][a] < queue'[k][b]
        <5>1. \A a \in DOMAIN queue[k] : queue[k][a] < n
          BY <1>3, <3>2, <3>4 DEF InQueue
        <5> QED  BY <2>3, <3>1, <3>4, <5>1 DEF InOrder
      <4> QED  BY <1>2, <1>3, <1>4, <2>4, <3>1, <3>2, <3>4, <4>1 DEF InOrder
    <3> QED  BY <3>3, <3>4
  <2> QED  BY <1>2, <1>6, <1>7, <2>1, <2>6, <2>7, <2>8 DEF EachMessageOnce
<1> QED  BY <1>8, <1>9

\* The oldest ready message goes into the hand of the consumer.
LEMMA DeliverPlaces ==
    ASSUME TypeOK, EachMessageOnce, NEW k \in Keys, Deliver(k)
    PROVE  /\ EachMessageOnce'
           /\ Head(queue[k]) \in InQueue(k)
           /\ Ready' = Ready \ {Head(queue[k])}
           /\ \A m \in InQueue(k) : Head(queue[k]) <= m
<1> DEFINE h   == Head(queue[k])
           new == [key |-> k, channel |-> channel, msg |-> h, phase |-> "handling"]
<1>1. /\ queue[k] \in Seq(Messages) /\ queue[k] # <<>> /\ Live(k) = {}
      /\ queue' = [queue EXCEPT ![k] = Tail(@)]
      /\ deliveries' = deliveries \cup {new}
      /\ UNCHANGED <<channel, published, lost, acked, dropped>>
  BY DEF TypeOK, Deliver
<1>2. queue'[k] = Tail(queue[k]) /\ \A j \in Keys \ {k} : queue'[j] = queue[j]
  BY <1>1 DEF TypeOK
<1>3. /\ Len(queue[k]) \in Nat /\ Len(queue[k]) > 0 /\ h = queue[k][1]
      /\ DOMAIN queue[k] = 1..Len(queue[k]) /\ DOMAIN queue'[k] = 1..(Len(queue[k]) - 1)
      /\ \A i \in 1..(Len(queue[k]) - 1) : queue'[k][i] = queue[k][i + 1]
  <2> HIDE DEF new
  <2>1. Len(queue[k]) \in Nat \ {0} /\ DOMAIN queue[k] = 1..Len(queue[k])
    BY <1>1, EmptySeq, LenProperties
  <2>2. /\ Tail(queue[k]) \in Seq(Messages) /\ Len(Tail(queue[k])) = Len(queue[k]) - 1
        /\ \A i \in 1..Len(Tail(queue[k])) : Tail(queue[k])[i] = queue[k][i + 1]
    BY <1>1, HeadTailProperties
  <2>3. DOMAIN queue'[k] = 1..(Len(queue[k]) - 1)
    BY <1>2, <2>2, LenProperties
  <2> QED  BY <1>1, <1>2, <2>1, <2>2, <2>3
<1>4. /\ \A i, j \in DOMAIN queue[k] : i < j => queue[k][i] < queue[k][j]
      /\ InQueue(k) \subseteq Messages /\ \A m \in Messages : m \in Nat
  BY MessageNumbers DEF EachMessageOnce, InOrder, Ready
<1>5. 1 \in DOMAIN queue[k] /\ h \in InQueue(k)
  BY <1>3 DEF InQueue
<1>6. ASSUME NEW m \in InQueue(k), m # h
      PROVE  h < m
  <2>1. PICK i \in DOMAIN queue[k] : m = queue[k][i]
    BY <1>6 DEF InQueue
  <2>2. i # 1 /\ i \in 1..Len(queue[k])
    BY <1>3, <1>6, <2>1
  <2>3. 1 < i
    BY <1>3, <2>2
  <2> QED  BY <1>3, <1>4, <1>5, <2>1, <2>3
<1>7. InQueue(k)' = InQueue(k) \ {h}
  <2>1. ASSUME NEW i \in DOMAIN queue'[k]
        PROVE  queue'[k][i] \in InQueue(k) \ {h}
    <3>1. i + 1 \in DOMAIN queue[k] /\ queue'[k][i] = queue[k][i + 1] /\ 1 < i + 1
      BY <1>3
    <3>2. queue[k][i + 1] \in InQueue(k)
      BY <3>1 DEF InQueue
    <3>3. h \in Nat /\ queue[k][i + 1] \in Nat /\ h < queue[k][i + 1]
      BY <1>3, <1>4, <1>5, <3>1, <3>2
    <3> QED  BY <3>1, <3>2, <3>3
  <2>2. ASSUME NEW i \in DOMAIN queue[k], queue[k][i] # h
        PROVE  queue[k][i] \in InQueue(k)'
    <3>1. i - 1 \in DOMAIN queue'[k] /\ queue'[k][i - 1] = queue[k][i]
      BY <1>3, <2>2
    <3> QED  BY <3>1 DEF InQueue
  <2> QED  BY <2>1, <2>2 DEF InQueue
<1>8. \A j \in Keys \ {k} : InQueue(j)' = InQueue(j) /\ h \notin InQueue(j)
  <2>1. \A j \in Keys \ {k} : h \notin InQueue(j)
    BY <1>5, OwnQueue
  <2> QED  BY <1>2, <2>1 DEF InQueue
<1>9. Ready' = Ready \ {h}
  BY <1>7, <1>8 DEF Ready
<1>10. Unanswered(k) = {} /\ Unanswered(k)' = {h}
  <2>1. new.key = k /\ new.channel = channel /\ new.msg = h
    OBVIOUS
  <2> HIDE DEF h, new
  <2>2. Live(k)' = {new}
    BY <1>1, <2>1 DEF Live
  <2> QED  BY <1>1, <2>1, <2>2 DEF Unanswered
<1>11. \A j \in Keys \ {k} : Unanswered(j)' = Unanswered(j)
  BY <1>1 DEF Unanswered, Live
<1>12. Held' = Held \cup {h}
  BY <1>10, <1>11 DEF Held
<1>13. Messages' = Messages
  BY <1>1 DEF Messages
<1>14. h \in Ready
  BY <1>5 DEF Ready
<1> HIDE DEF h, new
<1>15. Disjoint(<<lost, Ready, Held, acked, dropped>>)'
  BY <1>1, <1>9, <1>12, <1>14, FiveDisjoint DEF EachMessageOnce
<1>16. ASSUME NEW j \in Keys
       PROVE  InOrder(j)'
  <2>1. InOrder(j)
    BY DEF EachMessageOnce
  <2>2. CASE j # k
    BY <1>1, <1>2, <1>8, <1>11, <2>1, <2>2 DEF InOrder
  <2>3. CASE j = k
    <3>1. \A a, b \in DOMAIN queue'[k] : a < b => queue'[k][a] < queue'[k][b]
      <4>1. ASSUME NEW a \in DOMAIN queue'[k], NEW b \in DOMAIN queue'[k], a < b
            PROVE  queue'[k][a] < queue'[k][b]
        <5>1. /\ a + 1 \in DOMAIN queue[k] /\ b + 1 \in DOMAIN queue[k] /\ a + 1 < b + 1
              /\ queue'[k][a] = queue[k][a + 1] /\ queue'[k][b] = queue[k][b + 1]
          <6>1. \A i \in DOMAIN queue'[k] :
                   i \in Nat /\ i + 1 \in DOMAIN queue[k] /\ queue'[k][i] = queue[k][i + 1]
            BY <1>3
          <6> QED  BY <4>1, <6>1
        <5> QED  BY <1>4, <5>1
      <4> QED  BY <4>1
    <3>2. published[h] = k
      BY <1>5, <2>1, <2>3 DEF InOrder
    <3> QED  BY <1>1, <1>6, <1>7, <1>10, <2>1, <2>3, <3>1, <3>2 DEF InOrder
  <2> QED  BY <2>2, <2>3
<1>17. Messages' = lost' \cup Ready' \cup Held' \cup acked' \cup dropped'
  BY <1>1, <1>9, <1>12, <1>13, <1>14 DEF EachMessageOnce
<1>18. EachMessageOnce'
  BY <1>15, <1>16, <1>17 DEF EachMessageOnce
<1>19. \A m \in InQueue(k) : h <= m
  BY <1>4, <1>5, <1>6
<1> QED  BY <1>5, <1>9, <1>18, <1>19 DEF h

\* A handler that comes to its end moves nothing.
LEMMA ProceedPlaces ==
    ASSUME TypeOK, EachMessageOnce, NEW d \in deliveries, HandlerCompletes(d) \/ HandlerThrows(d)
    PROVE  EachMessageOnce'
<1>1. PICK p \in {"acking", "nacking"} : Proceed(d, p)
  BY DEF HandlerCompletes, HandlerThrows
<1>2. UNCHANGED <<channel, published, queue, lost, acked, dropped>>
  BY DEF HandlerCompletes, HandlerThrows
<1> DEFINE e == [d EXCEPT !.phase = p]
<1>3. e.key = d.key /\ e.channel = d.channel /\ e.msg = d.msg
  BY DEF TypeOK, Delivery
<1>4. deliveries' = (deliveries \ {d}) \cup {e}
  BY <1>1 DEF Proceed
<1> HIDE DEF e
<1>5. \A k \in Keys : Unanswered(k)' = Unanswered(k)
  BY <1>2, <1>3, <1>4 DEF Unanswered, Live
<1> QED  BY <1>2, <1>5, NothingMoves

\* An answer that counts settles the message; the others do nothing.
LEMMA AnswerPlaces ==
    ASSUME TypeOK, EachMessageOnce, NEW d \in deliveries, Ack(d) \/ Nack(d)
    PROVE  /\ EachMessageOnce'
           /\ d \in Live(d.key) => d.msg \in Held /\ d.msg \in Unanswered(d.key)
<1>1. /\ deliveries' = deliveries \ {d}
      /\ UNCHANGED <<channel, published, queue, lost>>
      /\ d.key \in Keys /\ d.msg \in Messages
  BY DEF Ack, Nack, TypeOK, Delivery
<1>2. CASE d \notin Live(d.key)
  <2>1. UNCHANGED <<acked, dropped>>
    BY <1>2 DEF Ack, Nack
  <2>2. \A k \in Keys : Unanswered(k)' = Unanswered(k)
    BY <1>1, <1>2 DEF Unanswered, Live
  <2> QED  BY <1>1, <1>2, <2>1, <2>2, NothingMoves
<1>3. CASE d \in Live(d.key)
  <2>1. Unanswered(d.key) = {d.msg}
    <3>1. \A e \in Live(d.key) : e = d
      BY <1>3 DEF Live, TypeOK
    <3> QED  BY <1>3, <3>1 DEF Unanswered
  <2>2. Unanswered(d.key)' = {}
    BY <1>1, <1>3 DEF Unanswered, Live, TypeOK
  <2>3. \A k \in Keys \ {d.key} : Unanswered(k)' = Unanswered(k) /\ d.msg \notin Unanswered(k)
    <3>1. \A k \in Keys \ {d.key} : Unanswered(k)' = Unanswered(k)
      BY <1>1 DEF Unanswered, Live
    <3>2. \A k \in Keys \ {d.key} : d.msg \notin Unanswered(k)
      BY <1>1, <2>1, OwnQueue
    <3> QED  BY <3>1, <3>2
  <2>4. Held' = Held \ {d.msg} /\ d.msg \in Held
    BY <1>1, <2>1, <2>2, <2>3 DEF Held
  <2>5. Ready' = Ready /\ Messages' = Messages /\ \A k \in Keys : InQueue(k)' = InQueue(k)
    BY <1>1 DEF Ready, InQueue, Messages
  <2>6. \/ acked' = acked \cup {d.msg} /\ dropped' = dropped
        \/ acked' = acked /\ dropped' = dropped \cup {d.msg}
    BY <1>3 DEF Ack, Nack
  <2>7. Disjoint(<<lost, Ready, Held, acked, dropped>>)'
    BY <1>1, <2>4, <2>5, <2>6, FiveDisjoint DEF EachMessageOnce
  <2>8. \A k \in Keys : InOrder(k)'
    BY <1>1, <2>1, <2>2, <2>3, <2>5 DEF EachMessageOnce, InOrder
  <2>9. Messages' = lost' \cup Ready' \cup Held' \cup acked' \cup dropped'
    BY <1>1, <2>4, <2>5, <2>6 DEF EachMessageOnce
  <2> QED  BY <2>1, <2>4, <2>7, <2>8, <2>9 DEF EachMessageOnce
<1> QED  BY <1>2, <1>3

\* What was in hand goes back to the front of its queue.
LEMMA FailurePlaces ==
    ASSUME TypeOK, EachMessageOnce, DeliveryInv, ConnectionLost \/ Crash
    PROVE  EachMessageOnce' /\ Ready' = Ready \cup Held
<1>1. /\ queue' = [k \in Keys |-> Returned(k)]
      /\ UNCHANGED <<published, lost, acked, dropped>>
  BY DEF ConnectionLost, Crash
<1>2. \A k \in Keys : Unanswered(k)' = {}
  <2>1. CASE Crash
    BY <2>1 DEF Crash, Unanswered, Live
  <2>2. CASE ConnectionLost
    <3>1. channel' = channel + 1 /\ deliveries' = deliveries /\ channel \in Nat
      BY <2>2 DEF ConnectionLost, TypeOK
    <3>2. \A d \in deliveries : d.channel \in Nat /\ d.channel <= channel
      BY DEF TypeOK, Delivery, DeliveryInv
    <3>3. \A d \in deliveries' : d.channel # channel'
      BY <3>1, <3>2
    <3> QED  BY <3>3 DEF Unanswered, Live
  <2> QED  BY <2>1, <2>2
<1>3. Held' = {}
  BY <1>2 DEF Held
<1>4. \A k \in Keys : InQueue(k)' = Unanswered(k) \cup InQueue(k)
  <2> TAKE k \in Keys
  <2>1. queue'[k] = Returned(k)
    BY <1>1
  <2>2. {Returned(k)[i] : i \in DOMAIN Returned(k)} = Unanswered(k) \cup InQueue(k)
    BY ReturnedElements
  <2>3. InQueue(k)' = {Returned(k)[i] : i \in DOMAIN Returned(k)}
    BY <2>1 DEF InQueue
  <2> QED  BY <2>2, <2>3
<1>5. Ready' = Ready \cup Held
  BY <1>4 DEF Ready, Held
<1>6. Messages' = Messages
  BY <1>1 DEF Messages
<1>7. Disjoint(<<lost, Ready, Held, acked, dropped>>)'
  BY <1>1, <1>3, <1>5, FiveDisjoint DEF EachMessageOnce
<1>8. ASSUME NEW k \in Keys
      PROVE  InOrder(k)'
  <2>1. InOrder(k) /\ queue[k] \in Seq(Messages) /\ queue'[k] = Returned(k)
    BY <1>1 DEF EachMessageOnce, TypeOK
  <2>2. \A a, b \in DOMAIN queue'[k] : a < b => queue'[k][a] < queue'[k][b]
    <3>1. CASE Returned(k) = queue[k]
      BY <2>1, <3>1 DEF InOrder
    <3>2. ASSUME NEW d \in Live(k), Unanswered(k) = {d.msg}, Returned(k) = <<d.msg>> \o queue[k]
          PROVE  \A a, b \in DOMAIN queue'[k] : a < b => queue'[k][a] < queue'[k][b]
      <4>1. d.msg \in Messages
        BY DEF Live, TypeOK, Delivery
      <4>2. /\ DOMAIN Returned(k) = 1..(Len(queue[k]) + 1) /\ DOMAIN queue[k] = 1..Len(queue[k])
            /\ Returned(k)[1] = d.msg
            /\ \A i \in 2..(Len(queue[k]) + 1) : Returned(k)[i] = queue[k][i - 1]
            /\ Len(queue[k]) \in Nat
        BY <2>1, <3>2, <4>1
      <4>3. \A i \in DOMAIN queue[k] : d.msg < queue[k][i]
        BY <2>1, <3>2 DEF InOrder, InQueue
      <4>4. ASSUME NEW a \in DOMAIN queue'[k], NEW b \in DOMAIN queue'[k], a < b
            PROVE  queue'[k][a] < queue'[k][b]
        <5>1. b - 1 \in DOMAIN queue[k] /\ queue'[k][b] = queue[k][b - 1]
          BY <2>1, <4>2, <4>4
        <5>2. CASE a = 1
          BY <2>1, <4>2, <4>3, <5>1, <5>2
        <5>3. CASE a # 1
          <6>1. a - 1 \in DOMAIN queue[k] /\ queue'[k][a] = queue[k][a - 1] /\ a - 1 < b - 1
            BY <2>1, <4>2, <4>4, <5>3
          <6> QED  BY <2>1, <5>1, <6>1 DEF InOrder
        <5> QED  BY <5>2, <5>3
      <4> QED  BY <4>4
    <3> QED  BY <3>1, <3>2, InHand
  <2> QED  BY <1>1, <1>2, <1>4, <2>1, <2>2 DEF InOrder
<1>9. Messages' = lost' \cup Ready' \cup Held' \cup acked' \cup dropped'
  BY <1>1, <1>3, <1>5, <1>6 DEF EachMessageOnce
<1> QED  BY <1>5, <1>7, <1>8, <1>9 DEF EachMessageOnce

LEMMA PlacesStep ==
    ASSUME TypeOK, EachMessageOnce, DeliveryInv, [Next]_vars
    PROVE  EachMessageOnce'
<1>1. ASSUME UNCHANGED <<published, queue, lost, acked, dropped, deliveries, channel>>
      PROVE  EachMessageOnce'
  BY <1>1, NothingMoves DEF Unanswered, Live
<1>2. CASE UNCHANGED vars
  BY <1>1, <1>2 DEF vars
<1>3. ASSUME NEW k \in Keys, Subscribe(k)
      PROVE  EachMessageOnce'
  BY <1>1, <1>3 DEF Subscribe
<1> QED
  BY <1>2, <1>3, PublishPlaces, DeliverPlaces, ProceedPlaces, AnswerPlaces, FailurePlaces
  DEF Next, Consume, Process

-----------------------------------------------------------------------------
(* Handlers and their order.                                               *)

\* A new delivery: every older message of the type had its turn.
LEMMA DeliverOrder ==
    ASSUME TypeOK, EachMessageOnce, AckedInv, NEW k \in Keys, Deliver(k),
           NEW m \in Messages, m < Head(queue[k]), published[m] = k
    PROVE  handled[m] > 0 \/ m \in dropped \cup lost
<1>1. m \notin Ready
  <2>1. Head(queue[k]) \in InQueue(k) /\ \A n \in InQueue(k) : Head(queue[k]) <= n
    BY DeliverPlaces
  <2>2. InQueue(k) \subseteq Messages /\ \A n \in Messages : n \in Nat
    BY MessageNumbers DEF EachMessageOnce, Ready
  <2>3. m \notin InQueue(k)
    BY <2>1, <2>2
  <2> QED  BY <2>3, OwnQueue
<1>2. m \notin Held
  <2>1. Unanswered(k) = {}
    BY DEF Deliver, Unanswered
  <2> QED  BY <2>1, OwnQueue
<1> QED  BY <1>1, <1>2 DEF EachMessageOnce, AckedInv

LEMMA HandlerStep ==
    ASSUME TypeOK, TypeOK', EachMessageOnce, DeliveryInv, AckedInv, FirstHandledInOrder,
           [Next]_vars
    PROVE  DeliveryInv' /\ AckedInv' /\ FirstHandledInOrder'
<1>1. /\ handled \in [Messages -> Nat] /\ channel \in Nat
      /\ \A d \in deliveries : d \in Delivery /\ d.msg \in Messages /\ d.key \in Keys
                               /\ d.channel \in Nat
      /\ acked \subseteq Messages /\ \A m \in Messages : m \in Nat
  <2>1. /\ handled \in [Messages -> Nat] /\ channel \in Nat
        /\ deliveries \subseteq Delivery /\ acked \subseteq Messages
    BY DEF TypeOK
  <2>2. ASSUME NEW d \in deliveries
        PROVE  d.msg \in Messages /\ d.key \in Keys /\ d.channel \in Nat
    BY <2>1, <2>2 DEF Delivery
  <2>3. \A m \in Messages : m \in Nat
    BY MessageNumbers
  <2> QED  BY <2>1, <2>2, <2>3
<1>2. ASSUME UNCHANGED <<published, handled, acked, lost>>, dropped \subseteq dropped',
             deliveries' \subseteq deliveries, channel' \in {channel, channel + 1}
      PROVE  DeliveryInv' /\ AckedInv' /\ FirstHandledInOrder'
  <2>1. \A d \in deliveries' : d.channel <= channel'
    BY <1>1, <1>2 DEF DeliveryInv
  <2> QED  BY <1>2, <2>1 DEF DeliveryInv, AckedInv, FirstHandledInOrder, Messages
<1>3. CASE UNCHANGED vars
  BY <1>2, <1>3 DEF vars
<1>4. ASSUME NEW k \in Keys, Subscribe(k)
      PROVE  DeliveryInv' /\ AckedInv' /\ FirstHandledInOrder'
  BY <1>2, <1>4 DEF Subscribe
<1>5. ASSUME NEW k \in Keys, Publish(k) \/ PublishLost(k)
      PROVE  DeliveryInv' /\ AckedInv' /\ FirstHandledInOrder'
  <2> DEFINE n == Len(published) + 1
  <2>1. published' = Append(published, k) /\ handled' = Append(handled, 0)
    BY <1>5 DEF Publish, PublishLost
  <2>2. /\ Messages' = Messages \cup {n} /\ n \notin Messages /\ handled'[n] = 0
        /\ \A m \in Messages : published'[m] = published[m] /\ handled'[m] = handled[m]
    BY <2>1, NewMessage
  <2>3. \A m \in Messages : m < n
    BY MessageNumbers
  <2>4. UNCHANGED <<deliveries, channel, acked, dropped>> /\ lost \subseteq lost'
    BY <1>5 DEF Publish, PublishLost
  <2> HIDE DEF n
  <2>5. DeliveryInv'
    <3> SUFFICES ASSUME NEW d \in deliveries
                 PROVE  /\ d.channel <= channel'
                        /\ published'[d.msg] = d.key
                        /\ d.phase = "acking" => handled'[d.msg] > 0
                        /\ \A m \in Messages' : m < d.msg /\ published'[m] = d.key
                              => handled'[m] > 0 \/ m \in dropped' \cup lost'
      BY <2>4 DEF DeliveryInv
    <3>1. d.msg \in Messages /\ d.msg \in Nat
      BY <1>1
    <3>2. ~ (n < d.msg)
      BY <1>1, <2>3, <3>1, MessageNumbers DEF n
    <3> QED  BY <2>2, <2>4, <3>1, <3>2 DEF DeliveryInv
  <2>6. AckedInv'
    BY <1>1, <2>2, <2>4 DEF AckedInv
  <2>7. FirstHandledInOrder'
    <3> SUFFICES ASSUME NEW a \in Messages', NEW b \in Messages', a < b,
                        published'[a] = published'[b], handled'[b] > 0
                 PROVE  handled'[a] > 0 \/ a \in dropped' \cup lost'
      BY DEF FirstHandledInOrder
    <3>1. b \in Messages
      BY <2>2
    <3>2. a \in Messages
      BY <1>1, <2>2, <2>3, <3>1, MessageNumbers DEF n
    <3> QED  BY <2>2, <2>4, <3>1, <3>2 DEF FirstHandledInOrder
  <2> QED  BY <2>5, <2>6, <2>7
<1>6. ASSUME NEW k \in Keys, Deliver(k)
      PROVE  DeliveryInv' /\ AckedInv' /\ FirstHandledInOrder'
  <2> DEFINE new == [key |-> k, channel |-> channel, msg |-> Head(queue[k]),
                     phase |-> "handling"]
  <2>1. /\ deliveries' = deliveries \cup {new}
        /\ UNCHANGED <<published, handled, acked, lost, dropped, channel>>
    BY <1>6 DEF Deliver
  <2>2. published[Head(queue[k])] = k
    BY <1>6, DeliverPlaces, OwnQueue
  <2>3. /\ new.channel <= channel /\ published[new.msg] = new.key /\ new.phase # "acking"
        /\ \A m \in Messages : m < new.msg /\ published[m] = new.key
              => handled[m] > 0 \/ m \in dropped \cup lost
    BY <1>1, <1>6, <2>2, DeliverOrder
  <2> HIDE DEF new
  <2>4. DeliveryInv'
    BY <2>1, <2>3 DEF DeliveryInv, Messages
  <2> QED  BY <2>1, <2>4 DEF AckedInv, FirstHandledInOrder, Messages
<1>7. ASSUME NEW d \in deliveries, HandlerCompletes(d) \/ HandlerThrows(d)
      PROVE  DeliveryInv' /\ AckedInv' /\ FirstHandledInOrder'
  <2>1. UNCHANGED <<published, channel, acked, dropped, lost>> /\ Messages' = Messages
    BY <1>7 DEF HandlerCompletes, HandlerThrows, Messages
  <2>2. /\ \A m \in Messages : handled'[m] \in Nat /\ handled'[m] >= handled[m]
        /\ \A m \in Messages : handled'[m] > handled[m] => m = d.msg
    <3>1. handled' = handled \/ handled' = [handled EXCEPT ![d.msg] = @ + 1]
      BY <1>7 DEF HandlerCompletes, HandlerThrows
    <3> QED  BY <1>1, <3>1
  <2>3. PICK p \in {"acking", "nacking"} :
           Proceed(d, p) /\ (p = "acking" => handled' = [handled EXCEPT ![d.msg] = @ + 1])
    BY <1>7 DEF HandlerCompletes, HandlerThrows
  <2>4. p = "acking" => handled'[d.msg] > 0
    BY <1>1, <2>3
  <2> DEFINE e == [d EXCEPT !.phase = p]
  <2>5. e.key = d.key /\ e.channel = d.channel /\ e.msg = d.msg /\ e.phase = p
    BY <1>1 DEF Delivery
  <2>6. deliveries' = (deliveries \ {d}) \cup {e}
    BY <2>3 DEF Proceed
  <2> HIDE DEF e
  <2>7. DeliveryInv'
    <3> SUFFICES ASSUME NEW x \in deliveries'
                 PROVE  /\ x.channel <= channel
                        /\ published[x.msg] = x.key
                        /\ x.phase = "acking" => handled'[x.msg] > 0
                        /\ \A m \in Messages : m < x.msg /\ published[m] = x.key
                              => handled'[m] > 0 \/ m \in dropped \cup lost
      BY <2>1 DEF DeliveryInv
    <3>1. CASE x \in deliveries
      BY <1>1, <2>2, <3>1 DEF DeliveryInv
    <3>2. CASE x = e
      BY <1>1, <2>2, <2>4, <2>5, <3>2 DEF DeliveryInv
    <3> QED  BY <2>6, <3>1, <3>2
  <2>8. AckedInv'
    BY <1>1, <2>1, <2>2 DEF AckedInv
  <2>9. FirstHandledInOrder'
    <3> SUFFICES ASSUME NEW a \in Messages, NEW b \in Messages, a < b,
                        published[a] = published[b], handled'[b] > 0
                 PROVE  handled'[a] > 0 \/ a \in dropped \cup lost
      BY <2>1 DEF FirstHandledInOrder
    <3>1. CASE handled[b] > 0
      BY <1>1, <2>2, <3>1 DEF FirstHandledInOrder
    <3>2. CASE ~ (handled[b] > 0)
      <4>1. b = d.msg
        BY <1>1, <2>2, <3>2
      <4> QED  BY <1>1, <2>2, <4>1 DEF DeliveryInv
    <3> QED  BY <3>1, <3>2
  <2> QED  BY <2>7, <2>8, <2>9
<1>8. ASSUME NEW d \in deliveries, Ack(d)
      PROVE  DeliveryInv' /\ AckedInv' /\ FirstHandledInOrder'
  <2>1. /\ UNCHANGED <<published, handled, channel, dropped, lost>>
        /\ deliveries' \subseteq deliveries /\ acked' \subseteq acked \cup {d.msg}
        /\ handled[d.msg] > 0
    BY <1>8 DEF Ack, DeliveryInv
  <2> QED  BY <2>1 DEF DeliveryInv, AckedInv, FirstHandledInOrder, Messages
<1>9. ASSUME NEW d \in deliveries, Nack(d)
      PROVE  DeliveryInv' /\ AckedInv' /\ FirstHandledInOrder'
  BY <1>2, <1>9 DEF Nack
<1>10. CASE ConnectionLost \/ Crash
  BY <1>2, <1>10 DEF ConnectionLost, Crash
<1> QED
  BY <1>3, <1>4, <1>5, <1>6, <1>7, <1>8, <1>9, <1>10 DEF Next, Consume, Process

-----------------------------------------------------------------------------
(* How often a handler runs.                                               *)

\* Counting the running handlers of a message.
LEMMA HandlingCount ==
    ASSUME IsFiniteSet(deliveries), NEW m
    PROVE  IsFiniteSet(Handling(m)) /\ Cardinality(Handling(m)) \in Nat
<1>1. Handling(m) \subseteq deliveries
  BY DEF Handling
<1>2. IsFiniteSet(Handling(m))
  BY <1>1, FS_Subset
<1> QED  BY <1>2, FS_CardinalityType

\* Fewer handlers running, and no more completed or to come.
LEMMA FewerRuns ==
    ASSUME TypeOK, TypeOK', RunsInv, UNCHANGED <<published, handled>>,
           IsFiniteSet(deliveries'), failures <= failures',
           \A m \in Messages : Handling(m)' \subseteq Handling(m),
           \A m \in Messages : m \in Ready' => m \in Ready \/ failures' = failures + 1
    PROVE  RunsInv'
<1>1. Messages' = Messages /\ failures \in Nat /\ failures' \in Nat
      /\ handled \in [Messages -> Nat]
  BY DEF TypeOK, Messages
<1>2. ASSUME NEW m \in Messages
      PROVE  Runs(m)' <= 1 + failures'
  <2> DEFINE c == Cardinality(Handling(m))
             r == IF m \in Ready THEN 1 ELSE 0
             cn == Cardinality(Handling(m)')
             rn == IF m \in Ready' THEN 1 ELSE 0
  <2>1. IsFiniteSet(Handling(m)) /\ c \in Nat
    BY HandlingCount DEF RunsInv
  <2>2. Handling(m)' \subseteq Handling(m)
    OBVIOUS
  <2>3. cn <= c /\ cn \in Nat
    BY <2>1, <2>2, FS_Subset, FS_CardinalityType
  <2>4. r \in Nat /\ rn \in Nat /\ (rn <= r \/ (rn <= r + 1 /\ failures' = failures + 1))
    OBVIOUS
  <2>5. handled[m] + c + r <= 1 + failures /\ handled[m] \in Nat
    BY <1>1 DEF RunsInv, Runs
  <2>6. Runs(m)' = handled[m] + cn + rn
    BY DEF Runs
  <2> HIDE DEF c, r, cn, rn
  <2> QED  BY <1>1, <2>1, <2>3, <2>4, <2>5, <2>6
<1> QED  BY <1>1, <1>2 DEF RunsInv

LEMMA RunsStep ==
    ASSUME TypeOK, TypeOK', EachMessageOnce, DeliveryInv, RunsInv, [Next]_vars
    PROVE  RunsInv'
<1>1. /\ handled \in [Messages -> Nat] /\ failures \in Nat /\ IsFiniteSet(deliveries)
      /\ deliveries \subseteq Delivery
  BY DEF TypeOK, RunsInv
<1>2. CASE UNCHANGED vars
  BY <1>1, <1>2, FewerRuns DEF vars, Handling, Ready, InQueue
<1>3. ASSUME NEW k \in Keys, Subscribe(k)
      PROVE  RunsInv'
  BY <1>1, <1>3, FewerRuns DEF Subscribe, Handling, Ready, InQueue
<1>4. ASSUME NEW k \in Keys, Publish(k) \/ PublishLost(k)
      PROVE  RunsInv'
  <2>0. PICK n \in Nat : n = Len(published) + 1
    BY MessageNumbers
  <2>1. published' = Append(published, k) /\ handled' = Append(handled, 0)
    BY <1>4 DEF Publish, PublishLost
  <2>2. /\ Messages' = Messages \cup {n} /\ n \notin Messages /\ handled'[n] = 0
        /\ \A m \in Messages : handled'[m] = handled[m]
    BY <2>0, <2>1, NewMessage
  <2>3. deliveries' = deliveries /\ failures' \in Nat /\ failures <= failures'
    BY <1>1, <1>4 DEF Publish, PublishLost
  <2>4. \A m : Handling(m)' = Handling(m)
    BY <2>3 DEF Handling
  <2>5. \A m \in Messages : m \in Ready' => m \in Ready
    <3>1. \A j \in Keys : queue[j] \in Seq(Messages)
      BY DEF TypeOK
    <3>2. \A j \in Keys : \A m \in InQueue(j)' : m \in InQueue(j) \/ m = n
      <4> SUFFICES ASSUME NEW j \in Keys, NEW i \in DOMAIN queue'[j]
                   PROVE  queue'[j][i] \in InQueue(j) \/ queue'[j][i] = n
        BY DEF InQueue
      <4>1. CASE queue'[j] = queue[j]
        BY <4>1 DEF InQueue
      <4>2. CASE queue'[j] = Append(queue[j], n)
        <5>1. \/ i = Len(queue[j]) + 1 /\ queue'[j][i] = n
              \/ i \in DOMAIN queue[j] /\ queue'[j][i] = queue[j][i]
          BY <3>1, <4>2
        <5> QED  BY <5>1 DEF InQueue
      <4> QED  BY <1>4, <2>0, <4>1, <4>2 DEF Publish, PublishLost, TypeOK
    <3> QED  BY <2>2, <3>2 DEF Ready
  <2>6. Handling(n) = {}
    BY <1>1, <2>2 DEF Handling, Delivery
  <2>7. Runs(n)' <= 1 + failures'
    <3>1. Cardinality(Handling(n)') = 0
      BY <2>4, <2>6, FS_EmptySet
    <3>2. Runs(n)' = handled'[n] + Cardinality(Handling(n)') + (IF n \in Ready' THEN 1 ELSE 0)
      BY DEF Runs
    <3>3. Runs(n)' = 0 \/ Runs(n)' = 1
      <4>1. CASE n \in Ready'
        BY <2>2, <3>1, <3>2, <4>1
      <4>2. CASE n \notin Ready'
        BY <2>2, <3>1, <3>2, <4>2
      <4> QED  BY <4>1, <4>2
    <3> QED  BY <2>3, <3>3
  <2>8. ASSUME NEW m \in Messages
        PROVE  Runs(m)' <= 1 + failures'
    <3>1. Cardinality(Handling(m)) \in Nat /\ handled[m] \in Nat
      BY <1>1, HandlingCount
    <3>2. Runs(m)' <= Runs(m) /\ Runs(m) \in Nat /\ Runs(m)' \in Nat
      BY <2>2, <2>4, <2>5, <3>1 DEF Runs
    <3>3. Runs(m) <= 1 + failures
      BY DEF RunsInv
    <3> QED  BY <1>1, <2>3, <3>2, <3>3
  <2> QED  BY <1>1, <2>2, <2>3, <2>7, <2>8 DEF RunsInv
<1>5. ASSUME NEW k \in Keys, Deliver(k)
      PROVE  RunsInv'
  <2> DEFINE h   == Head(queue[k])
             new == [key |-> k, channel |-> channel, msg |-> h, phase |-> "handling"]
  <2>1. /\ deliveries' = deliveries \cup {new} /\ new.msg = h
        /\ UNCHANGED <<published, handled, failures>>
    BY <1>5 DEF Deliver
  <2>2. Ready' = Ready \ {h} /\ h \in Ready
    BY <1>5, DeliverPlaces DEF Ready
  <2> HIDE DEF h, new
  <2>3. IsFiniteSet(deliveries')
    BY <1>1, <2>1, FS_AddElement
  <2>4. ASSUME NEW m \in Messages
        PROVE  Runs(m)' <= 1 + failures
    <3>1. /\ IsFiniteSet(Handling(m)) /\ Cardinality(Handling(m)) \in Nat
          /\ handled[m] \in Nat /\ Runs(m) <= 1 + failures
      BY <1>1, HandlingCount DEF RunsInv
    <3>2. CASE m # h
      <4>1. Handling(m)' = Handling(m)
        BY <2>1, <3>2 DEF Handling
      <4> QED  BY <2>1, <2>2, <3>1, <3>2, <4>1 DEF Runs
    <3>3. CASE m = h
      <4>1. Handling(m)' \subseteq Handling(m) \cup {new}
        BY <2>1 DEF Handling
      <4>2. IsFiniteSet(Handling(m) \cup {new})
            /\ Cardinality(Handling(m) \cup {new}) <= Cardinality(Handling(m)) + 1
            /\ Cardinality(Handling(m) \cup {new}) \in Nat
        <5>1. \/ Cardinality(Handling(m) \cup {new}) = Cardinality(Handling(m))
              \/ Cardinality(Handling(m) \cup {new}) = Cardinality(Handling(m)) + 1
          BY <3>1, FS_AddElement
        <5>2. IsFiniteSet(Handling(m) \cup {new})
          BY <3>1, FS_AddElement
        <5> QED  BY <3>1, <5>1, <5>2
      <4>3. /\ Cardinality(Handling(m)') \in Nat
            /\ Cardinality(Handling(m)') <= Cardinality(Handling(m) \cup {new})
        BY <4>1, <4>2, FS_Subset, FS_CardinalityType
      <4>4. Cardinality(Handling(m)') <= Cardinality(Handling(m)) + 1
        BY <3>1, <4>2, <4>3
      <4> QED  BY <1>1, <2>1, <2>2, <3>1, <3>3, <4>3, <4>4 DEF Runs
    <3> QED  BY <3>2, <3>3
  <2> QED  BY <2>1, <2>3, <2>4 DEF RunsInv, Messages
<1>6. ASSUME NEW d \in deliveries, HandlerCompletes(d) \/ HandlerThrows(d)
      PROVE  RunsInv'
  <2>1. PICK p \in {"acking", "nacking"} : Proceed(d, p)
    BY <1>6 DEF HandlerCompletes, HandlerThrows
  <2> DEFINE e == [d EXCEPT !.phase = p]
  <2>2. deliveries' = (deliveries \ {d}) \cup {e} /\ e.phase = p /\ d.msg \in Messages
    BY <1>1, <2>1 DEF Proceed, Delivery
  <2>3. UNCHANGED <<published, queue, failures>> /\ d.phase = "handling"
    BY <1>6 DEF HandlerCompletes, HandlerThrows
  <2>4. Ready' = Ready /\ Messages' = Messages
    BY <2>3 DEF Ready, InQueue, Messages
  <2> HIDE DEF e
  <2>5. IsFiniteSet(deliveries')
    BY <1>1, <2>2, FS_AddElement, FS_RemoveElement
  <2>6. /\ \A m \in Messages : m # d.msg => handled'[m] = handled[m]
        /\ handled'[d.msg] \in {handled[d.msg], handled[d.msg] + 1}
    BY <1>1, <1>6, <2>2 DEF HandlerCompletes, HandlerThrows
  <2>7. ASSUME NEW m \in Messages
        PROVE  Runs(m)' <= 1 + failures
    <3>1. /\ IsFiniteSet(Handling(m)) /\ Cardinality(Handling(m)) \in Nat
          /\ handled[m] \in Nat /\ Runs(m) <= 1 + failures
      BY <1>1, HandlingCount DEF RunsInv
    <3>2. Handling(m)' = Handling(m) \ {d}
      BY <2>2 DEF Handling
    <3>3. CASE m # d.msg
      <4>1. Handling(m)' = Handling(m)
        BY <3>2, <3>3 DEF Handling
      <4> QED  BY <2>4, <2>6, <3>1, <3>3, <4>1 DEF Runs
    <3>4. CASE m = d.msg
      <4>1. d \in Handling(m)
        BY <2>3, <3>4 DEF Handling
      <4>2. Cardinality(Handling(m)') = Cardinality(Handling(m)) - 1
        BY <3>1, <3>2, <4>1, FS_RemoveElement
      <4>3. handled'[m] \in {handled[m], handled[m] + 1}
        BY <2>6, <3>4
      <4> QED  BY <1>1, <2>4, <3>1, <4>2, <4>3 DEF Runs
    <3> QED  BY <3>3, <3>4
  <2> QED  BY <2>3, <2>4, <2>5, <2>7 DEF RunsInv
<1>7. ASSUME NEW d \in deliveries, Ack(d) \/ Nack(d)
      PROVE  RunsInv'
  <2>1. /\ deliveries' = deliveries \ {d}
        /\ UNCHANGED <<published, handled, queue, failures>>
    BY <1>7 DEF Ack, Nack
  <2>2. IsFiniteSet(deliveries')
    BY <1>1, <2>1, FS_RemoveElement
  <2>3. \A m \in Messages : Handling(m)' \subseteq Handling(m)
    BY <2>1 DEF Handling
  <2>4. Ready' = Ready
    BY <2>1 DEF Ready, InQueue
  <2> QED  BY <1>1, <2>1, <2>2, <2>3, <2>4, FewerRuns
<1>8. CASE ConnectionLost \/ Crash
  <2>1. /\ deliveries' \subseteq deliveries /\ failures' = failures + 1
        /\ UNCHANGED <<published, handled>>
    BY <1>8 DEF ConnectionLost, Crash
  <2>2. IsFiniteSet(deliveries')
    BY <1>1, <2>1, FS_Subset
  <2>3. \A m \in Messages : Handling(m)' \subseteq Handling(m)
    BY <2>1 DEF Handling
  <2> QED  BY <1>1, <2>1, <2>2, <2>3, FewerRuns
<1> QED
  BY <1>2, <1>3, <1>4, <1>5, <1>6, <1>7, <1>8 DEF Next, Consume, Process

LEMMA InvariantInit == Init => IInv
<1> SUFFICES ASSUME Init
             PROVE  IInv
  OBVIOUS
<1>1. TypeOK /\ EachMessageOnce /\ DeliveryInv /\ AckedInv /\ FirstHandledInOrder
  BY DEF Init, TypeOK, EachMessageOnce, DeliveryInv, AckedInv, FirstHandledInOrder,
         Messages, Ready, Held, InQueue, Unanswered, Live, InOrder, Disjoint, Delivery
<1>2. RunsInv
  BY FS_EmptySet DEF Init, RunsInv, Messages
<1> QED  BY <1>1, <1>2 DEF IInv

LEMMA InvariantStep == IInv /\ [Next]_vars => IInv'
<1> SUFFICES ASSUME IInv, [Next]_vars
             PROVE  IInv'
  OBVIOUS
<1>1. TypeOK'
  BY TypeStep DEF IInv
<1>2. EachMessageOnce'
  BY PlacesStep DEF IInv
<1>3. DeliveryInv' /\ AckedInv' /\ FirstHandledInOrder'
  BY <1>1, HandlerStep DEF IInv
<1>4. RunsInv'
  BY <1>1, RunsStep DEF IInv
<1> QED  BY <1>1, <1>2, <1>3, <1>4 DEF IInv

LEMMA Invariant == Spec => []IInv
BY InvariantInit, InvariantStep, PTL DEF Spec

\* The types hold in every reachable state: in particular a channel never has
\* two messages of a queue in hand (RabbitMqConsumerService.cs, line 47).
THEOREM TypeCorrect == Spec => []TypeOK
<1>1. IInv => TypeOK
  BY DEF IInv
<1> QED  BY <1>1, Invariant, PTL

\* However often the connection fails and the process dies, every message is
\* in one place (RabbitMqConsumerService.cs 37-62, 81, 89).
THEOREM MessagesOnce == Spec => []EachMessageOnce
<1>1. IInv => EachMessageOnce
  BY DEF IInv
<1> QED  BY <1>1, Invariant, PTL

\* Messages of a type are first handled in the order of their publication.
THEOREM InOrderHandled == Spec => []FirstHandledInOrder
<1>1. IInv => FirstHandledInOrder
  BY DEF IInv
<1> QED  BY <1>1, Invariant, PTL

\* A message is acknowledged after its handler completed, and handled once more
\* for each failure at most (RabbitMqConsumerService.cs 78-81).
THEOREM AckedAfterHandled == Spec => []HandledBeforeAck
<1>1. ASSUME IInv
      PROVE  HandledBeforeAck
  <2>1. /\ handled \in [Messages -> Nat] /\ acked \subseteq Messages /\ failures \in Nat
        /\ AckedInv /\ RunsInv
    BY <1>1 DEF IInv, TypeOK
  <2>2. \A m \in acked : handled[m] >= 1
    BY <2>1 DEF AckedInv
  <2>3. ASSUME NEW m \in Messages
        PROVE  handled[m] <= 1 + failures
    <3>1. Cardinality(Handling(m)) \in Nat /\ Runs(m) <= 1 + failures /\ handled[m] \in Nat
      BY <2>1, HandlingCount DEF RunsInv
    <3> QED  BY <2>1, <3>1 DEF Runs
  <2> QED  BY <2>2, <2>3 DEF HandledBeforeAck
<1> QED  BY <1>1, Invariant, PTL

-----------------------------------------------------------------------------
(* The bus implements the log.                                             *)

\* The fate of a message follows from where it is.
LEMMA FateOfPlace ==
    ASSUME EachMessageOnce, NEW m \in Messages
    PROVE  Fate(m) = "waiting" <=> m \in Ready \cup Held
BY FiveDisjoint DEF EachMessageOnce, Fate

\* An answer that counts settles a message that waits, the oldest of its type.
LEMMA AnswerSettles ==
    ASSUME TypeOK, EachMessageOnce, NEW d \in deliveries, Ack(d) \/ Nack(d),
           d \in Live(d.key)
    PROVE  Log!Settle(d.msg) /\ d.msg \in Messages
<1>1. /\ d.key \in Keys /\ d.msg \in Messages /\ UNCHANGED <<published, lost>>
      /\ published[d.msg] = d.key /\ d.msg \in Held
      /\ Unanswered(d.key) = {d.msg}
  <2>1. d.key \in Keys /\ d.msg \in Messages /\ UNCHANGED <<published, lost>>
    BY DEF Ack, Nack, TypeOK, Delivery
  <2>2. d.msg \in Held /\ d.msg \in Unanswered(d.key)
    BY AnswerPlaces
  <2>3. published[d.msg] = d.key
    BY <2>1, <2>2, OwnQueue
  <2>4. Unanswered(d.key) = {d.msg}
    BY DEF Unanswered, Live, TypeOK
  <2> QED  BY <2>1, <2>2, <2>3, <2>4
<1>2. Fate(d.msg) = "waiting"
  BY <1>1, FateOfPlace
<1>3. d.msg \notin lost \cup acked \cup dropped
  BY <1>1, FiveDisjoint DEF EachMessageOnce
<1>4. ASSUME NEW n \in 1..(d.msg - 1), published[n] = published[d.msg]
      PROVE  n \in Messages /\ Fate(n) # "waiting"
  <2>1. n \in Messages /\ n < d.msg /\ d.msg \in Nat
    BY <1>1, MessageNumbers
  <2>2. n \notin InQueue(d.key)
    <3>1. InQueue(d.key) \subseteq Messages /\ \A m \in InQueue(d.key) : d.msg < m
      BY <1>1 DEF EachMessageOnce, InOrder, Ready
    <3> QED  BY <2>1, <3>1
  <2>3. n \notin Unanswered(d.key)
    BY <1>1, <2>1
  <2> QED  BY <1>1, <1>4, <2>1, <2>2, <2>3, OwnQueue, FateOfPlace
<1>5. PICK f \in {"done", "dropped"} :
         \A m \in Messages : Fate(m)' = IF m = d.msg THEN f ELSE Fate(m)
  <2>1. CASE Ack(d)
    <3>1. acked' = acked \cup {d.msg} /\ dropped' = dropped
      BY <2>1 DEF Ack
    <3>2. \A m \in Messages : Fate(m)' = IF m = d.msg THEN "done" ELSE Fate(m)
      BY <1>1, <1>3, <3>1 DEF Fate
    <3> QED  BY <3>2
  <2>2. CASE Nack(d)
    <3>1. dropped' = dropped \cup {d.msg} /\ acked' = acked
      BY <2>2 DEF Nack
    <3>2. \A m \in Messages : Fate(m)' = IF m = d.msg THEN "dropped" ELSE Fate(m)
      BY <1>1, <1>3, <3>1 DEF Fate
    <3> QED  BY <3>2
  <2> QED  BY <2>1, <2>2
<1>6. [m \in Messages |-> Fate(m)]' = [[m \in Messages |-> Fate(m)] EXCEPT ![d.msg] = f]
  BY <1>1, <1>5 DEF Messages
<1>7. \A n \in 1..(d.msg - 1) : published[n] = published[d.msg]
         => [m \in Messages |-> Fate(m)][n] # "waiting"
  BY <1>4
<1> QED  BY <1>1, <1>2, <1>6, <1>7 DEF Log!Settle

\* A message is posted when it is published.
LEMMA PublishPosts ==
    ASSUME TypeOK, EachMessageOnce, NEW k \in Keys, Publish(k) \/ PublishLost(k)
    PROVE  Log!Post(k)
<1>0. PICK n \in Nat : n = Len(published) + 1
  BY MessageNumbers
<1> DEFINE F == [m \in Messages |-> Fate(m)]
<1>1. /\ published' = Append(published, k) /\ handled' = Append(handled, 0)
      /\ UNCHANGED <<acked, dropped>>
      /\ lost' = lost \/ lost' = lost \cup {n}
  BY <1>0 DEF Publish, PublishLost
<1>2. Messages' = Messages \cup {n} /\ n \notin Messages
  BY <1>0, <1>1, NewMessage
<1>3. n \notin lost \cup acked \cup dropped
  BY <1>2 DEF TypeOK
<1>4. PICK f \in {"waiting", "lost"} : Fate(n)' = f
  BY <1>1, <1>3 DEF Fate
<1>5. \A m \in Messages : Fate(m)' = Fate(m)
  BY <1>1, <1>2 DEF Fate
<1>6. [m \in Messages |-> Fate(m)]' = Append(F, f)
  <2>1. Messages = 1..Len(published) /\ Len(published) \in Nat
    BY MessageNumbers
  <2>2. Messages' = 1..n
    BY <1>0, <1>2, <2>1
  <2>3. F \in Seq({"lost", "done", "dropped", "waiting"}) /\ Len(F) = Len(published)
    <3>1. F \in [1..Len(published) -> {"lost", "done", "dropped", "waiting"}]
      BY <2>1 DEF Fate
    <3> QED  BY <2>1, <3>1
  <2>4. Append(F, f) = [i \in 1..n |-> IF i = n THEN f ELSE F[i]]
    BY <1>0, <2>1, <2>3
  <2>5. [m \in Messages |-> Fate(m)]' = [m \in 1..n |-> Fate(m)']
    BY <2>2
  <2>6. \A m \in 1..n : Fate(m)' = IF m = n THEN f ELSE F[m]
    BY <1>2, <1>4, <1>5, <2>1, <2>2
  <2> HIDE DEF F
  <2> QED  BY <2>4, <2>5, <2>6
<1> QED  BY <1>1, <1>4, <1>6 DEF Log!Post

LEMMA LogStep ==
    ASSUME TypeOK, EachMessageOnce, [Next]_vars
    PROVE  [Log!Next]_(Log!vars)
<1>1. ASSUME UNCHANGED <<published, lost, acked, dropped>>
      PROVE  UNCHANGED Log!vars
  BY <1>1 DEF Log!vars, Messages, Fate
<1>2. ASSUME NEW k \in Keys, Publish(k) \/ PublishLost(k)
      PROVE  Log!Next
  BY <1>2, PublishPosts DEF Log!Next
<1>3. ASSUME NEW d \in deliveries, Ack(d) \/ Nack(d), d \in Live(d.key)
      PROVE  Log!Next
  BY <1>3, AnswerSettles DEF Log!Next, Messages
<1>4. ASSUME NEW d \in deliveries, Ack(d) \/ Nack(d), d \notin Live(d.key)
      PROVE  UNCHANGED Log!vars
  BY <1>1, <1>4 DEF Ack, Nack
<1>5. CASE \/ UNCHANGED vars
           \/ \E k \in Keys : Subscribe(k) \/ Deliver(k)
           \/ \E d \in deliveries : HandlerCompletes(d) \/ HandlerThrows(d)
           \/ ConnectionLost \/ Crash
  BY <1>1, <1>5 DEF vars, Subscribe, Deliver, HandlerCompletes, HandlerThrows,
                    ConnectionLost, Crash
<1> QED  BY <1>2, <1>3, <1>4, <1>5 DEF Next, Consume, Process

\* The bus implements MessageLog: for any number of messages and failures, each
\* message that arrives is settled once, in the order of its type.
THEOREM BusImplementsLog == Spec => ImplementsLog
<1>1. Init => Log!Init
  BY DEF Init, Log!Init, Messages
<1>2. IInv /\ [Next]_vars => [Log!Next]_(Log!vars)
  BY LogStep DEF IInv
<1> QED  BY <1>1, <1>2, Invariant, PTL DEF Spec, ImplementsLog, Log!Spec

=============================================================================
