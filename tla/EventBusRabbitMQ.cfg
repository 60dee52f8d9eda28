\* Four calls, a message of each of two events, every fault.
SPECIFICATION FairSpec
CONSTANTS
    EventName = {checkout, paid}
    EventType = {CheckoutEvent}
    TypedHandler = {h1}
    DynamicHandler = {h2}
    checkout = checkout
    paid = paid
    CheckoutEvent = CheckoutEvent
    first = m1
    Message = {m1, m3}
    Resolvable = {h1, h2}
    Faults = {"handler", "broker", "channel"}
    MaxCalls = 4
    MaxGen = 4
    MaxDrops = 1
    NameOf <- MCNameOf
    EventOf <- MCEventOf
INVARIANTS
    TypeOK
    SubscribedIsBound
    SubscribedIsConsumed
    AckedAfterProcessing
PROPERTIES
    
    MessagesAreTaken
