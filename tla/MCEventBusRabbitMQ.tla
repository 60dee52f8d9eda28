------------------------- MODULE MCEventBusRabbitMQ -------------------------
(* Small instances of EventBusRabbitMQ.                                    *)
EXTENDS EventBusRabbitMQ

CONSTANTS checkout, paid, CheckoutEvent, first

(* Of the names only the first has a class in this process.                *)
MCNameOf == [t \in EventType |-> checkout]

(* The first message is of that event, the others of the other one.        *)
MCEventOf == [m \in Message |-> IF m = first THEN checkout ELSE paid]
=============================================================================
