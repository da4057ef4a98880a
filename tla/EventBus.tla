------------------------------ MODULE EventBus ------------------------------
(***************************************************************************)
(* The event bus: handlers publish through one channel of the web process  *)
(* to the exchange shop.events; RabbitMQ routes each message by its type   *)
(* to a durable queue; and RabbitMqConsumerService, a background service   *)
(* of the same process, takes the messages of each queue one at a time,    *)
(* runs their handler and acknowledges them.                               *)
(*                                                                         *)
(* The broker is external: its queues are modelled from how the code       *)
(* declares and uses them (durable queues, persistent messages, prefetch   *)
(* 1, manual acknowledgement, no publisher confirms).                      *)
(***************************************************************************)
EXTENDS Naturals, Sequences, FiniteSets, SequencesExt

CONSTANTS
    Keys,           \* the routing keys, one queue each
    MaxMessages,    \* bound: messages published
    MaxFailures     \* bound: crashes and lost connections

VARIABLES
    subscribed,     \* keys whose queue is bound and consumed by this process
    channel,        \* number of the channels in use; recovery opens new ones
    queue,          \* the ready messages of each queue, oldest first
    deliveries,     \* the messages the consumers have in hand
    published,      \* the routing key of each message published, by number
    handled,        \* how often the handler of each message has completed
    acked,          \* messages acknowledged
    dropped,        \* messages rejected without requeue
    lost,           \* messages that never reached the broker
    failures        \* crashes and lost connections so far

vars == <<subscribed, channel, queue, deliveries, published, handled, acked,
          dropped, lost, failures>>

Messages == DOMAIN published

Delivery == [key : Keys, channel : Nat, msg : Messages,
             phase : {"handling", "acking", "nacking"}]

\* The deliveries of a queue on the channel that is in use.  Those of an older
\* channel are still being handled, but their answers no longer count.
Live(k) == {d \in deliveries : d.key = k /\ d.channel = channel}

\* What the broker has delivered from a queue and waits to hear of.
Unanswered(k) == {d.msg : d \in Live(k)}

\* Variant of Returned with a bug: the message in hand goes to the end.
ReturnedLast(k) == queue[k] \o SetToSeq(Unanswered(k))

\* The message in hand goes back to the place it had in the queue.
Returned(k) == SetToSeq(Unanswered(k)) \o queue[k]

Init ==
    /\ subscribed = {}
    /\ channel = 0
    /\ queue = [k \in Keys |-> <<>>]
    /\ deliveries = {}
    /\ published = <<>>
    /\ handled = <<>>
    /\ acked = {}
    /\ dropped = {}
    /\ lost = {}
    /\ failures = 0

-----------------------------------------------------------------------------

\* One round of ExecuteAsync's loop: the queue is declared, bound and consumed.
\* The loop ends before the web server accepts a request.
Subscribe(k) ==
    /\ k \notin subscribed
    /\ subscribed' = subscribed \cup {k}
    /\ UNCHANGED <<channel, queue, deliveries, published, handled, acked, dropped,
                   lost, failures>>

\* PublishAsync reaches the broker, which routes the message to its queue.
Publish(k) ==
    /\ subscribed = Keys
    /\ Len(published) < MaxMessages
    /\ published' = Append(published, k)
    /\ handled' = Append(handled, 0)
    /\ queue' = [queue EXCEPT ![k] = Append(@, Len(published) + 1)]
    /\ UNCHANGED <<subscribed, channel, deliveries, acked, dropped, lost, failures>>

\* PublishAsync returns, but the connection fails before the message arrives;
\* without publisher confirms nobody learns of it.
PublishLost(k) ==
    /\ subscribed = Keys
    /\ Len(published) < MaxMessages
    /\ failures < MaxFailures
    /\ published' = Append(published, k)
    /\ handled' = Append(handled, 0)
    /\ lost' = lost \cup {Len(published) + 1}
    /\ failures' = failures + 1
    /\ UNCHANGED <<subscribed, channel, queue, deliveries, acked, dropped>>

\* Variants of Deliver with a bug: no prefetch limit, with handlers running
\* concurrently; autoAck, the message counts as acknowledged when it is delivered.
DeliverUnlimited(k) ==
    /\ k \in subscribed
    /\ queue[k] # <<>>
    /\ deliveries' = deliveries \cup
          {[key |-> k, channel |-> channel, msg |-> Head(queue[k]), phase |-> "handling"]}
    /\ queue' = [queue EXCEPT ![k] = Tail(@)]
    /\ UNCHANGED <<subscribed, channel, published, handled, acked, dropped, lost,
                   failures>>
DeliverAutoAck(k) ==
    /\ k \in subscribed
    /\ Live(k) = {}
    /\ queue[k] # <<>>
    /\ deliveries' = deliveries \cup
          {[key |-> k, channel |-> channel, msg |-> Head(queue[k]), phase |-> "handling"]}
    /\ acked' = acked \cup {Head(queue[k])}
    /\ queue' = [queue EXCEPT ![k] = Tail(@)]
    /\ UNCHANGED <<subscribed, channel, published, handled, dropped, lost, failures>>

\* The broker delivers the next message; with prefetch 1, not before the last
\* one of this channel has been answered.
Deliver(k) ==
    /\ k \in subscribed
    /\ Live(k) = {}
    /\ queue[k] # <<>>
    /\ deliveries' = deliveries \cup
          {[key |-> k, channel |-> channel, msg |-> Head(queue[k]), phase |-> "handling"]}
    /\ queue' = [queue EXCEPT ![k] = Tail(@)]
    /\ UNCHANGED <<subscribed, channel, published, handled, acked, dropped, lost,
                   failures>>

\* A delivery enters its next phase.
Proceed(d, phase) == deliveries' = (deliveries \ {d}) \cup {[d EXCEPT !.phase = phase]}

\* ProcessMessage: the handler completes.
HandlerCompletes(d) ==
    /\ d.phase = "handling"
    /\ handled' = [handled EXCEPT ![d.msg] = @ + 1]
    /\ Proceed(d, "acking")
    /\ UNCHANGED <<subscribed, channel, queue, published, acked, dropped, lost,
                   failures>>

\* ProcessMessage: deserialization, the scope or the handler throws.
HandlerThrows(d) ==
    /\ d.phase = "handling"
    /\ Proceed(d, "nacking")
    /\ UNCHANGED <<subscribed, channel, queue, published, handled, acked, dropped,
                   lost, failures>>

\* BasicAck.  On a channel that has been replaced it has no effect.
Ack(d) ==
    /\ d.phase = "acking"
    /\ acked' = IF d \in Live(d.key) THEN acked \cup {d.msg} ELSE acked
    /\ deliveries' = deliveries \ {d}
    /\ UNCHANGED <<subscribed, channel, queue, published, handled, dropped, lost,
                   failures>>

\* Variant of Nack with a bug: the catch block only logs.
NackForgotten(d) ==
    /\ d.phase = "nacking"
    /\ UNCHANGED vars

\* BasicNack with requeue: false; the queue has no dead-letter exchange.
Nack(d) ==
    /\ d.phase = "nacking"
    /\ dropped' = IF d \in Live(d.key) THEN dropped \cup {d.msg} ELSE dropped
    /\ deliveries' = deliveries \ {d}
    /\ UNCHANGED <<subscribed, channel, queue, published, handled, acked, lost,
                   failures>>

\* The connection breaks and the client library opens new channels: the broker
\* takes back what was not acknowledged, while the handlers in progress go on,
\* even next to a second delivery of their message.
ConnectionLost ==
    /\ failures < MaxFailures
    /\ failures' = failures + 1
    /\ channel' = channel + 1
    /\ queue' = [k \in Keys |-> Returned(k)]
    /\ UNCHANGED <<subscribed, deliveries, published, handled, acked, dropped, lost>>

\* Variant of Crash with a bug: the queues are declared with autoDelete, and go
\* with their last consumer.
CrashAutoDelete ==
    /\ failures < MaxFailures
    /\ failures' = failures + 1
    /\ subscribed' = {}
    /\ queue' = [k \in Keys |-> <<>>]
    /\ deliveries' = {}
    /\ UNCHANGED <<channel, published, handled, acked, dropped, lost>>

\* The web process stops, and its consumers with it.
Crash ==
    /\ failures < MaxFailures
    /\ failures' = failures + 1
    /\ subscribed' = {}
    /\ queue' = [k \in Keys |-> Returned(k)]
    /\ deliveries' = {}
    /\ UNCHANGED <<channel, published, handled, acked, dropped, lost>>

\* ProcessMessage and the answer, for one delivery.
Process(d) ==
    \/ HandlerCompletes(d)
    \/ HandlerThrows(d)
    \/ Ack(d)
    \/ Nack(d)

\* The steps of the consumer of one queue.
Consume(k) ==
    \/ Subscribe(k)
    \/ Deliver(k)
    \/ \E d \in deliveries : d.key = k /\ Process(d)

Next ==
    \/ \E k \in Keys : Publish(k) \/ PublishLost(k) \/ Consume(k)
    \/ ConnectionLost
    \/ Crash

Spec == Init /\ [][Next]_vars

\* The process is restarted when it has stopped, the broker delivers what it
\* can, and a handler, which only logs and notifies, returns or throws.
FairSpec == Spec /\ \A k \in Keys : WF_vars(Consume(k))

-----------------------------------------------------------------------------

\* Every variable holds a value of its kind, and a channel has at most one
\* message in hand (BasicQos in RabbitMqConsumerService.cs, line 47).
TypeOK ==
    /\ subscribed \subseteq Keys
    /\ published \in Seq(Keys)
    /\ queue \in [Keys -> Seq(Messages)]
    /\ channel \in Nat
    /\ deliveries \subseteq Delivery
    /\ \A d, e \in deliveries : d.key = e.key /\ d.channel = e.channel => d = e
    /\ handled \in [Messages -> Nat]
    /\ acked \subseteq Messages /\ dropped \subseteq Messages /\ lost \subseteq Messages
    /\ failures \in Nat

\* The messages ready in the queues, and those a live consumer has in hand.
InQueue(k) == {queue[k][i] : i \in DOMAIN queue[k]}
Ready == UNION {InQueue(k) : k \in Keys}
Held  == UNION {Unanswered(k) : k \in Keys}

\* No two of these sets have an element in common.
Disjoint(sets) ==
    \A i, j \in DOMAIN sets : i # j => sets[i] \cap sets[j] = {}

\* The messages that wait for one consumer are of its type, the one it has in
\* hand first, in the order of their publication.
InOrder(k) ==
    /\ \A m \in InQueue(k) \cup Unanswered(k) : published[m] = k
    /\ \A i, j \in DOMAIN queue[k] : i < j => queue[k][i] < queue[k][j]
    /\ \A m \in Unanswered(k), n \in InQueue(k) : m < n

\* Every message is in exactly one place, and once: lost on the way, ready in
\* the queue of its type, held by a consumer of it, acknowledged or dropped.
\* Crashes, lost connections and late answers on a replaced channel neither
\* lose nor duplicate one, and those that wait stay in order.
EachMessageOnce ==
    /\ Messages = lost \cup Ready \cup Held \cup acked \cup dropped
    /\ Disjoint(<<lost, Ready, Held, acked, dropped>>)
    /\ \A k \in Keys : InOrder(k)

\* A message is acknowledged only after its handler has completed, and handled
\* again only because a failure came between the handler and the answer.
HandledBeforeAck ==
    /\ \A m \in acked : handled[m] >= 1
    /\ \A m \in Messages : handled[m] <= 1 + failures

\* Messages of one type are first handled in the order they were published:
\* when one has been handled, every older one of its type has been handled or
\* will never be.
FirstHandledInOrder ==
    \A m, n \in Messages :
        m < n /\ published[m] = published[n] /\ handled[n] > 0
            => handled[m] > 0 \/ m \in dropped \cup lost

\* What has become of a message.
Fate(m) ==
    IF m \in lost THEN "lost" ELSE IF m \in acked THEN "done"
    ELSE IF m \in dropped THEN "dropped" ELSE "waiting"

\* The bus implements MessageLog: through crashes, redeliveries and answers that
\* come too late, each message that arrives is settled once, after the older
\* ones of its type, and then for good.
Log == INSTANCE MessageLog WITH log <- published, fate <- [m \in Messages |-> Fate(m)]
ImplementsLog == Log!Spec

\* A message that reached the broker is in the end acknowledged or dropped.
EveryMessageAnswered ==
    \A m \in 1..MaxMessages : (m \in Ready) ~> (m \in acked \cup dropped)

=============================================================================
