------------------------ MODULE SubscriptionsManager ------------------------
(***************************************************************************)
(* The in-memory dictionary behind the event bus: which handler types are  *)
(* subscribed to which event names, and which event types those names      *)
(* stand for when a message has to be deserialized.                        *)
(*                                                                         *)
(* A key of the dictionary exists exactly while its list is not empty, so  *)
(* an absent key is modelled by the empty sequence.  An event type is      *)
(* known to the dictionary by its simple name only; the names of the event *)
(* classes of one process are assumed to differ.                           *)
(*                                                                         *)
(* Nothing is locked, and consumers read while somebody subscribes.  Each  *)
(* operator is one step; AddSubscription of the code is two, the handler's *)
(* and the type's.                                                         *)
(***************************************************************************)
EXTENDS Naturals, Sequences, SequencesExt

CONSTANTS
    EventName,       \* names of events, the routing keys of the broker
    EventType,       \* classes derived from IntegrationEvent
    TypedHandler,    \* classes that implement IIntegrationEventHandler
    DynamicHandler,  \* classes that implement IDynamicIntegrationEventHandler
    NameOf           \* the simple name of an event type

ASSUME NameAssumption ==
    /\ NameOf \in [EventType -> EventName]
    /\ \A t, u \in EventType : NameOf[t] = NameOf[u] => t = u

HandlerType == TypedHandler \cup DynamicHandler

VARIABLES
    handlers,    \* _handlers: the list of subscriptions under each name
    eventTypes   \* _eventTypes

managerVars == <<handlers, eventTypes>>

SubscriptionInfo == [handler : HandlerType, isDynamic : BOOLEAN]

HasSubscriptionsForEvent(n) == handlers[n] # <<>>

IsEmpty == \A n \in EventName : ~HasSubscriptionsForEvent(n)

IsSubscribed(n, h) == \E s \in ToSet(handlers[n]) : s.handler = h

(* GetEventTypeByName finds a type.                                        *)
IsKnownEvent(n) == \E t \in eventTypes : NameOf[t] = n

----------------------------------------------------------------------------
ManagerInit ==
    /\ handlers = [n \in EventName |-> <<>>]
    /\ eventTypes = {}

DoAddSubscription(n, h, isDynamic) ==
    handlers' = [handlers EXCEPT ![n] = Append(@, [handler |-> h, isDynamic |-> isDynamic])]

(* A list that takes the same handler twice.                               *)
AddDynamicTwice(n, h) ==
    /\ DoAddSubscription(n, h, TRUE)
    /\ UNCHANGED eventTypes

(* Both throw ArgumentException when IsSubscribed, and change nothing.     *)
AddSubscription(n, h) ==
    /\ ~IsSubscribed(n, h)
    /\ DoAddSubscription(n, h, FALSE)
    /\ UNCHANGED eventTypes

(* The rest of AddSubscription: a list that has the type is left alone.    *)
AddEventType(t) ==
    /\ eventTypes' = eventTypes \cup {t}
    /\ UNCHANGED handlers

AddDynamicSubscription(n, h) ==
    /\ ~IsSubscribed(n, h)
    /\ DoAddSubscription(n, h, TRUE)
    /\ UNCHANGED eventTypes

(* A list that forgets the type of its events with any of its handlers.    *)
RemoveHandlerAndType(n, h) ==
    /\ \E i \in DOMAIN handlers[n] :
          /\ handlers[n][i].handler = h
          /\ handlers' = [handlers EXCEPT ![n] = RemoveAt(@, i)]
    /\ eventTypes' = {t \in eventTypes : NameOf[t] # n}

(* RemoveSubscription and RemoveDynamicSubscription find the handler type  *)
(* under the name, whatever its kind; the type of the event goes with the  *)
(* last handler.  Nothing to remove: nothing happens.  One step: a consumer*)
(* that reads in between finds an empty list instead of none.              *)
DoRemoveHandler(n, h) ==
    /\ \E i \in DOMAIN handlers[n] :
          /\ handlers[n][i].handler = h
          /\ handlers' = [handlers EXCEPT ![n] = RemoveAt(@, i)]
    /\ eventTypes' = IF handlers'[n] = <<>>
                     THEN {t \in eventTypes : NameOf[t] # n}
                     ELSE eventTypes

(* The lists go, and those who are reading one keep it; the types stay.    *)
Clear ==
    /\ handlers' = [n \in EventName |-> <<>>]
    /\ UNCHANGED eventTypes
=============================================================================
