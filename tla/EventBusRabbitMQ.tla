-------------------------- MODULE EventBusRabbitMQ --------------------------
(***************************************************************************)
(* One service's event bus: the thread that subscribes and unsubscribes,   *)
(* the consumers that process messages, and the broker between them.       *)
(*                                                                         *)
(* The bus keeps one consumer channel.  The broker numbers the deliveries  *)
(* of a channel (delivery tags); the client library puts them in a work    *)
(* pool of that channel and runs Consumer_Received on them one after the   *)
(* other.  When an exception escapes Consumer_Received, the channel is     *)
(* disposed and created anew: the new channel numbers its deliveries from  *)
(* one and has a pool of its own, while the old pool goes on with what it  *)
(* was given.  Both acknowledge on whatever channel the field holds.       *)
(*                                                                         *)
(* Abstracted: every consumer of a channel feeds the same pool, so that a  *)
(* channel consumes or does not; the queue hands out messages in any order *)
(* (a requeued message may come back anywhere); the three calls of the     *)
(* CallbackException handler are one step.  The API is called by one       *)
(* thread at a time, as Startup does, while consumers run on theirs.       *)
(***************************************************************************)
EXTENDS SubscriptionsManager, FiniteSets

CONSTANTS
    Message,     \* messages other services publish
    EventOf,     \* the routing key of a message
    Resolvable,  \* handler types the container can resolve
    Faults,      \* what fails in this configuration
    MaxCalls,    \* bound: calls of the API
    MaxGen,      \* bound: consumer channels
    MaxDrops     \* bound: channels closed by the broker or by Dispose

(* handler: a handler throws.  broker: an unbinding is refused or does not *)
(* arrive.  channel: the broker closes the consumer channel.               *)
ASSUME BusAssumption ==
    /\ EventOf \in [Message -> EventName]
    /\ Resolvable \subseteq HandlerType
    /\ Faults \subseteq {"handler", "broker", "channel"}
    /\ MaxCalls \in Nat /\ MaxGen \in Nat \ {0} /\ MaxDrops \in Nat

Gen == 1 .. MaxGen

VARIABLES
    api,        \* the call in progress: where it stands, and its arguments
    calls,      \* calls made
    queueName,  \* _queueName is still the configured one
    bindings,   \* names bound to the service's queue
    queue,      \* messages ready in it
    channel,    \* _consumerChannel
    unacked,    \* deliveries of the channel the broker waits for
    pools,      \* deliveries in the work pool of each channel
    consumer,   \* what Consumer_Received does with the first of each pool
    drops,      \* channels the broker or Dispose closed
    published,  \* messages published
    outcome,    \* outcome[m]: how the latest ProcessEvent of m ended
    acked       \* messages the broker has forgotten

apiVars == <<api, calls, queueName>>
brokerVars == <<bindings, queue, unacked, published, acked>>
vars == <<handlers, eventTypes, api, calls, queueName, bindings, queue, channel,
          unacked, pools, consumer, drops, published, outcome, acked>>

NoSub == [handler |-> "none", isDynamic |-> FALSE]
Resting == [at |-> "idle", rest |-> <<>>, modified |-> FALSE]
NoCall == [at |-> "idle"]
Disposed == [at |-> "disposed"]

Outcome == {"none", "ended", "failed", "skipped", "unhandled"}

Current(g) == Head(pools[g])
NameOfCurrent(g) == EventOf[Current(g).msg]

(* The broker closes a channel: what it has not acknowledged is ready again*)
Requeue ==
    /\ queue' = queue \cup {d.msg : d \in unacked}
    /\ unacked' = {}

(* An enumerator over a list that was changed throws when it moves on.     *)
NoteModified(n) ==
    consumer' = [g \in Gen |->
        IF consumer[g].at \in {"next", "handle"} /\ NameOfCurrent(g) = n
        THEN [consumer[g] EXCEPT !.modified = TRUE]
        ELSE consumer[g]]

----------------------------------------------------------------------------
Init ==
    /\ ManagerInit
    /\ api = NoCall
    /\ calls = 0
    /\ queueName = TRUE
    /\ bindings = {}
    /\ queue = {}
    /\ channel = [gen |-> 1, open |-> TRUE, main |-> TRUE, consuming |-> FALSE, tag |-> 0]
    /\ unacked = {}
    /\ pools = [g \in Gen |-> <<>>]
    /\ consumer = [g \in Gen |-> Resting]
    /\ drops = 0
    /\ published = {}
    /\ outcome = [m \in Message |-> "none"]
    /\ acked = {}

(* Some service publishes; a direct exchange drops what nobody has bound.  *)
Publish(m) ==
    /\ m \notin published
    /\ published' = published \cup {m}
    /\ queue' = IF EventOf[m] \in bindings THEN queue \cup {m} ELSE queue
    /\ UNCHANGED <<managerVars, apiVars, bindings, channel, unacked, pools,
                   consumer, drops, outcome, acked>>

----------------------------------------------------------------------------
(* Subscribe and SubscribeDynamic: bind, register, consume.                *)

Call(c) ==
    /\ api = NoCall
    /\ calls < MaxCalls
    /\ calls' = calls + 1
    /\ api' = c

(* The steps of Subscribe in another order.                                *)
RegisterFirst(n) == "add"

(* DoInternalSubscription binds a name only for its first handler.         *)
FirstStep(n) == IF HasSubscriptionsForEvent(n) THEN "add" ELSE "bind"

Subscribe(t, h) ==
    /\ Call([at |-> FirstStep(NameOf[t]), name |-> NameOf[t], type |-> t, handler |-> h,
             isDynamic |-> FALSE])
    /\ UNCHANGED <<managerVars, queueName, brokerVars, channel, pools, consumer, drops, outcome>>

SubscribeDynamic(n, h) ==
    /\ Call([at |-> FirstStep(n), name |-> n, handler |-> h, isDynamic |-> TRUE])
    /\ UNCHANGED <<managerVars, queueName, brokerVars, channel, pools, consumer, drops, outcome>>

(* On a channel that has declared no queue the empty name means nothing:   *)
(* the broker refuses, and Subscribe throws.                               *)
QueueBind ==
    /\ api.at = "bind"
    /\ IF queueName
       THEN /\ bindings' = bindings \cup {api.name}
            /\ api' = [api EXCEPT !.at = "add"]
       ELSE /\ api' = NoCall
            /\ UNCHANGED bindings
    /\ UNCHANGED <<managerVars, calls, queueName, queue, unacked, published, acked,
                   channel, pools, consumer, drops, outcome>>

(* The handler first, where consumers find it at once ...                  *)
Register ==
    /\ api.at = "add"
    /\ \/ /\ IF api.isDynamic
             THEN AddDynamicSubscription(api.name, api.handler)
             ELSE AddSubscription(api.name, api.handler)
          /\ NoteModified(api.name)
          /\ api' = [api EXCEPT !.at = IF api.isDynamic THEN "consume" ELSE "type"]
       \/ /\ IsSubscribed(api.name, api.handler)
          /\ api' = NoCall
          /\ UNCHANGED <<managerVars, consumer>>
    /\ UNCHANGED <<calls, queueName, brokerVars, channel, pools, drops, outcome>>

(* ... and then the type that a typed handler needs.                       *)
RegisterType ==
    /\ api.at = "type"
    /\ AddEventType(api.type)
    /\ api' = [api EXCEPT !.at = "consume"]
    /\ UNCHANGED <<calls, queueName, brokerVars, channel, pools, consumer, drops, outcome>>

(* BasicConsume throws on a closed channel.                                *)
StartBasicConsume ==
    /\ api.at = "consume"
    /\ channel' = [channel EXCEPT !.consuming = channel.open \/ @]
    /\ api' = NoCall
    /\ UNCHANGED <<managerVars, calls, queueName, brokerVars, pools, consumer, drops, outcome>>

(* Unsubscribe and UnsubscribeDynamic; the last handler of a name raises   *)
(* OnEventRemoved.                                                         *)
Unsubscribe(n, h) ==
    /\ DoRemoveHandler(n, h)
    /\ NoteModified(n)
    /\ api = NoCall
    /\ calls < MaxCalls
    /\ calls' = calls + 1
    /\ api' = IF handlers'[n] = <<>> THEN [at |-> "unbind", name |-> n] ELSE NoCall
    /\ UNCHANGED <<queueName, brokerVars, channel, pools, drops, outcome>>

(* As if the queue kept its name.                                          *)
CloseWithoutForgetting ==
    /\ UNCHANGED queueName
    /\ channel' = [channel EXCEPT !.open = FALSE]
    /\ Requeue

(* The bus is empty: it forgets the queue's name and closes the channel.   *)
CloseWhenEmpty ==
    /\ queueName' = FALSE
    /\ channel' = [channel EXCEPT !.open = FALSE]
    /\ Requeue

SubsManager_OnEventRemoved ==
    /\ api.at = "unbind"
    /\ bindings' = bindings \ {api.name}
    /\ IF IsEmpty
       THEN CloseWhenEmpty
       ELSE UNCHANGED <<queueName, channel, queue, unacked>>
    /\ api' = NoCall
    /\ UNCHANGED <<managerVars, calls, published, acked, pools, consumer, drops, outcome>>

(* The exception leaves a binding without handlers and an empty bus open.  *)
UnbindFails ==
    /\ "broker" \in Faults
    /\ api.at = "unbind"
    /\ api' = NoCall
    /\ UNCHANGED <<managerVars, calls, queueName, brokerVars, channel, pools, consumer,
                   drops, outcome>>

(* The container disposes the bus at last: the channel goes first, while   *)
(* deliveries may be in work, then the handlers.                           *)
Dispose ==
    /\ Call([at |-> "clear"])
    /\ drops < MaxDrops
    /\ drops' = drops + 1
    /\ channel' = [channel EXCEPT !.open = FALSE]
    /\ Requeue
    /\ UNCHANGED <<managerVars, queueName, bindings, published, acked, pools,
                   consumer, outcome>>

ClearAfterDispose ==
    /\ api.at = "clear"
    /\ Clear
    /\ api' = Disposed
    /\ UNCHANGED <<calls, queueName, brokerVars, channel, pools, consumer, drops, outcome>>

----------------------------------------------------------------------------
(* Delivery and Consumer_Received.                                         *)

Deliver(m) ==
    /\ m \in queue
    /\ channel.open /\ channel.consuming /\ channel.main
    /\ LET d == [tag |-> channel.tag + 1, msg |-> m]
       IN  /\ pools' = [pools EXCEPT ![channel.gen] = Append(@, d)]
           /\ unacked' = unacked \cup {d}
           /\ channel' = [channel EXCEPT !.tag = d.tag]
    /\ queue' = queue \ {m}
    /\ UNCHANGED <<managerVars, apiVars, bindings, published, acked, consumer, drops, outcome>>

Ends(g, how) ==
    /\ consumer' = [consumer EXCEPT ![g] = [Resting EXCEPT !.at = "ack"]]
    /\ outcome' = [outcome EXCEPT ![Current(g).msg] = how]

(* As if messages were acknowledged automatically.                         *)
AckOnArrival(g) ==
    /\ pools[g] # <<>>
    /\ consumer[g].at = "idle"
    /\ consumer' = [consumer EXCEPT ![g] = [Resting EXCEPT !.at = "ack"]]
    /\ UNCHANGED <<managerVars, apiVars, brokerVars, channel, pools, drops, outcome>>

(* ProcessEvent looks the handlers up, under the name as the key; a        *)
(* message may ask for an exception before.                                *)
Consumer_Received(g) ==
    /\ pools[g] # <<>>
    /\ consumer[g].at = "idle"
    /\ \/ /\ HasSubscriptionsForEvent(NameOfCurrent(g))
          /\ consumer' = [consumer EXCEPT ![g] =
                  [at |-> "next", rest |-> handlers[NameOfCurrent(g)], modified |-> FALSE]]
          /\ UNCHANGED outcome
       \/ /\ ~HasSubscriptionsForEvent(NameOfCurrent(g))
          /\ Ends(g, "unhandled")
       \/ /\ "handler" \in Faults
          /\ Ends(g, "failed")
    /\ UNCHANGED <<managerVars, apiVars, brokerVars, channel, pools, drops>>

(* The foreach moves on: it throws when the list was changed meanwhile, it *)
(* ends, it passes over a handler the container does not know, or it has   *)
(* one to run.                                                             *)
MoveNext(g) ==
    /\ consumer[g].at = "next"
    /\ \/ /\ consumer[g].modified
          /\ Ends(g, "skipped")
       \/ /\ ~consumer[g].modified /\ consumer[g].rest = <<>>
          /\ Ends(g, "ended")
       \/ /\ ~consumer[g].modified /\ consumer[g].rest # <<>>
          /\ consumer' = IF Head(consumer[g].rest).handler \in Resolvable
                         THEN [consumer EXCEPT ![g].at = "handle"]
                         ELSE [consumer EXCEPT ![g].rest = Tail(@)]
          /\ UNCHANGED outcome
    /\ UNCHANGED <<managerVars, apiVars, brokerVars, channel, pools, drops>>

(* A typed handler needs the event's type, which an Unsubscribe may just   *)
(* have removed and a Subscribe may not have added yet: then MakeGenericType*)
(* throws.  Handle itself may throw.  Consumer_Received catches both.      *)
Handle(g) ==
    /\ consumer[g].at = "handle"
    /\ LET typeless == ~Head(consumer[g].rest).isDynamic /\ ~IsKnownEvent(NameOfCurrent(g))
       IN  \/ /\ ~typeless
              /\ consumer' = [consumer EXCEPT ![g].at = "next", ![g].rest = Tail(@)]
              /\ UNCHANGED outcome
           \/ /\ typeless
              /\ Ends(g, "skipped")
           \/ /\ "handler" \in Faults /\ ~typeless
              /\ Ends(g, "failed")
    /\ UNCHANGED <<managerVars, apiVars, brokerVars, channel, pools, drops>>

Done(g) ==
    /\ consumer' = [consumer EXCEPT ![g] = Resting]
    /\ pools' = [pools EXCEPT ![g] = Tail(@)]

(* BasicAck on the channel the field holds, with the tag of the channel    *)
(* that delivered.  The broker closes a channel that acknowledges a tag it *)
(* does not wait for.                                                      *)
BasicAck(g) ==
    /\ consumer[g].at = "ack"
    /\ channel.open
    /\ LET known == {d \in unacked : d.tag = Current(g).tag}
       IN  IF known # {}
           THEN /\ acked' = acked \cup {d.msg : d \in known}
                /\ unacked' = unacked \ known
                /\ UNCHANGED <<queue, channel>>
           ELSE /\ Requeue
                /\ channel' = [channel EXCEPT !.open = FALSE]
                /\ UNCHANGED acked
    /\ Done(g)
    /\ UNCHANGED <<managerVars, apiVars, bindings, published, drops, outcome>>

(* As if the new channel were left without a consumer.                     *)
RecreateWithoutConsumer(g) ==
    /\ consumer[g].at = "ack"
    /\ ~channel.open
    /\ channel.gen < MaxGen
    /\ channel' = [gen |-> channel.gen + 1, open |-> TRUE, main |-> queueName,
                   consuming |-> FALSE, tag |-> 0]
    /\ Done(g)
    /\ UNCHANGED <<managerVars, apiVars, brokerVars, drops, outcome>>

(* BasicAck throws on a closed channel, and the CallbackException handler  *)
(* disposes it, creates the next one and consumes.  Without a queue name   *)
(* the broker makes one up: a queue nothing is bound to.                   *)
RecreateConsumerChannel(g) ==
    /\ consumer[g].at = "ack"
    /\ ~channel.open
    /\ channel.gen < MaxGen
    /\ channel' = [gen |-> channel.gen + 1, open |-> TRUE, main |-> queueName,
                   consuming |-> TRUE, tag |-> 0]
    /\ Done(g)
    /\ UNCHANGED <<managerVars, apiVars, brokerVars, drops, outcome>>

(* The broker closes the channel.                                          *)
ChannelDrops ==
    /\ "channel" \in Faults
    /\ channel.open
    /\ drops < MaxDrops
    /\ drops' = drops + 1
    /\ channel' = [channel EXCEPT !.open = FALSE]
    /\ Requeue
    /\ UNCHANGED <<managerVars, apiVars, bindings, published, acked, pools, consumer, outcome>>

----------------------------------------------------------------------------
CallGoesOn ==
    \/ QueueBind \/ Register \/ RegisterType \/ StartBasicConsume
    \/ SubsManager_OnEventRemoved \/ UnbindFails \/ ClearAfterDispose

Consume(g) ==
    Consumer_Received(g) \/ MoveNext(g) \/ Handle(g) \/ BasicAck(g) \/ RecreateConsumerChannel(g)

(* Nothing to do until the next message or call.                           *)
Waits ==
    /\ api \in {NoCall, Disposed}
    /\ \A g \in Gen : pools[g] = <<>>
    /\ UNCHANGED vars

Next ==
    \/ \E m \in Message : Publish(m) \/ Deliver(m)
    \/ \E t \in EventType, h \in TypedHandler : Subscribe(t, h)
    \/ \E n \in EventName, h \in DynamicHandler : SubscribeDynamic(n, h)
    \/ \E n \in EventName, h \in HandlerType : Unsubscribe(n, h)
    \/ CallGoesOn
    \/ Dispose
    \/ \E g \in Gen : Consume(g)
    \/ ChannelDrops
    \/ Waits

Spec == Init /\ [][Next]_vars

(* A call that has begun goes on, every pool's loop runs, and the broker   *)
(* hands out what is ready while somebody consumes.                        *)
Fairness ==
    /\ WF_vars(CallGoesOn)
    /\ \A g \in Gen : WF_vars(Consume(g))
    /\ \A m \in Message : WF_vars(Deliver(m))

FairSpec == Spec /\ Fairness

----------------------------------------------------------------------------
Delivery == [tag : Nat, msg : Message]

TypeOK ==
    /\ handlers \in [EventName -> Seq(SubscriptionInfo)]
    /\ \A n \in EventName : \A i, j \in DOMAIN handlers[n] :
          handlers[n][i].handler = handlers[n][j].handler => i = j
    /\ eventTypes \subseteq EventType
    /\ api.at \in {"idle", "bind", "add", "type", "consume", "unbind",
                   "clear", "disposed"}
    /\ calls \in 0 .. MaxCalls
    /\ queueName \in BOOLEAN
    /\ bindings \subseteq EventName
    /\ queue \subseteq Message
    /\ channel \in [gen : Gen, open : BOOLEAN, main : BOOLEAN, consuming : BOOLEAN, tag : Nat]
    /\ unacked \subseteq Delivery
    /\ pools \in [Gen -> Seq(Delivery)]
    /\ consumer \in [Gen -> [at : {"idle", "next", "handle", "ack"},
                            rest : Seq(SubscriptionInfo), modified : BOOLEAN]]
    /\ drops \in 0 .. MaxDrops
    /\ published \subseteq Message
    /\ outcome \in [Message -> Outcome]
    /\ acked \subseteq published

(* A name somebody is subscribed to is bound to the queue: also while      *)
(* other names come and go, and when an unbinding has failed.              *)
SubscribedIsBound ==
    \A n \in EventName : HasSubscriptionsForEvent(n) => n \in bindings

(* Subscribe has added a handler under n and not yet its type.             *)
Registering(n) == api.at = "type" /\ api.name = n

(* ProcessEvent leaves handlers of a message out for two reasons only: the *)
(* list of the message's name changed while it was read, or a Subscribe of *)
(* that name was between adding its handler and adding its type.  Whatever *)
(* dynamic handlers shared a name, and in whatever order any were removed, *)
(* a typed handler that stays is never left without its type.              *)
SkippedOnlyMeanwhile ==
    [][\A g \in Gen :
          /\ consumer[g].at \in {"next", "handle"} /\ consumer'[g].at = "ack"
          /\ outcome'[Current(g).msg] = "skipped"
          => consumer[g].modified \/ Registering(NameOfCurrent(g))]_vars

(* Unless the broker has closed a channel, a bus with a subscription and   *)
(* no call in progress consumes its queue: emptying the bus closes the     *)
(* channel for good, and then nobody can subscribe any more.               *)
SubscribedIsConsumed ==
    api = NoCall /\ drops = 0 /\ ~IsEmpty
        => channel.open /\ channel.consuming /\ channel.main

(* On the first channel no message is forgotten by the broker before its   *)
(* processing has ended, one way or another.                               *)
AckedAfterProcessing ==
    channel.gen = 1 => \A m \in acked : outcome[m] # "none"

(* The two ways in which a bus stops consuming, for good: it was emptied,  *)
(* or its channel closed while no acknowledgement was due.                 *)
Stopped == ~queueName \/ (~channel.open /\ \A g \in Gen : pools[g] = <<>>)

(* A message in the queue is eventually taken off it for good: a channel   *)
(* that closes under a consumer's work is replaced by one that consumes.   *)
MessagesAreTaken ==
    \A m \in Message : m \in queue ~> (m \in acked \/ Stopped)
=============================================================================
