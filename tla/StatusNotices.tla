---------------------------- MODULE StatusNotices ----------------------------
(***************************************************************************)
(* From the status of an order to what its customer hears of it: the       *)
(* requests of OrderStatus publish through the bus of EventBus, in the web *)
(* process that also runs the handler of their messages.  A crash ends     *)
(* both; a lost connection leaves a handler running that the broker has    *)
(* given up, next to the one that gets its message again.                  *)
(***************************************************************************)
EXTENDS OrderStatus, FiniteSets

CONSTANT MaxFailures    \* bound: crashes and lost connections

VARIABLES
    subscribed, channel, queue, deliveries, handled, acked, dropped, lost,
    failures,       \* as in EventBus
    told,           \* the status that the handler named last, for each order
    late            \* history: orders whose last news came from a handler that
                    \* the broker had given up

requests == <<status, pc, task, notices, unnoticed>>
broker   == <<subscribed, channel, queue, deliveries, handled, acked, dropped, lost, failures>>
news     == <<told, late>>
allVars  == <<requests, broker, news>>

Key == "OrderStatusChanged"

\* The messages published are the notices, in their order.
Bus == INSTANCE EventBus WITH
          Keys <- {Key},
          MaxMessages <- MaxNotices + Cardinality(Requests),
          published <- [i \in DOMAIN notices |-> Key]

NoticesInit ==
    /\ Init
    /\ Bus!Init
    /\ told = [o \in Orders |-> "Pending"]
    /\ late = {}

-----------------------------------------------------------------------------

\* A step of a request that does not touch the bus.  The web server accepts
\* requests when the consumer service has started.
Request(r) ==
    /\ subscribed = {Key}
    /\ Load(r) \/ Refused(r) \/ Save(r) \/ Abort(r)
    /\ UNCHANGED <<broker, news>>

\* The request publishes its message, which reaches the broker or does not.
Announce(r) ==
    /\ Publish(r)
    /\ Bus!Publish(Key) \/ Bus!PublishLost(Key)
    /\ UNCHANGED news

\* OrderStatusChangedEventHandler: the customer is told the new status.
Tell(d) ==
    LET notice == notices[d.msg] IN
    /\ UNCHANGED requests
    /\ Bus!HandlerCompletes(d)
    /\ told' = [told EXCEPT ![notice.order] = notice.new]
    /\ late' = IF d.channel = channel THEN late \ {notice.order} ELSE late \cup {notice.order}

\* The other steps of the consumer.
Consume ==
    /\ UNCHANGED <<requests, news>>
    /\ \/ Bus!Subscribe(Key)
       \/ Bus!Deliver(Key)
       \/ \E d \in deliveries : Bus!HandlerThrows(d) \/ Bus!Ack(d) \/ Bus!Nack(d)

ConnectionLost == UNCHANGED <<requests, news>> /\ Bus!ConnectionLost

\* The process stops with its requests and its consumers.
Crash ==
    /\ pc' = [r \in Requests |-> "idle"]
    /\ task' = [r \in Requests |-> NoTask]
    /\ UNCHANGED <<status, notices, unnoticed, news>>
    /\ Bus!Crash

NoticesNext ==
    \/ \E r \in Requests : Request(r) \/ Announce(r)
    \/ \E d \in deliveries : Tell(d)
    \/ Consume
    \/ ConnectionLost
    \/ Crash

NoticesSpec == NoticesInit /\ [][NoticesNext]_allVars

-----------------------------------------------------------------------------

\* With one administrator at a time: once the last message about an order is
\* acknowledged, the customer has heard the status the order has, unless a
\* request died after its save (UpdateOrderStatusHandler.cs 34-37), or a handler
\* that the broker had given up came in last (RabbitMqConsumerService.cs 79-81).
\* Crashes, redeliveries and messages that got lost before do no harm.
CustomerUpToDate ==
    \A o \in Orders \ (unnoticed \cup late) : \A i \in NoticesOf(o) \cap acked :
        (\A j \in NoticesOf(o) : j <= i) => told[o] = status[o]

\* What a customer hears is a life an order may have, though messages are lost,
\* dropped and delivered twice: he is never told that a success has failed, or
\* that a refund is pending, unless by a handler that had been given up.
ToldLawfully ==
    [][\A o \in Orders \ (late \cup late') : MayChange(told[o], told'[o])]_allVars

=============================================================================
