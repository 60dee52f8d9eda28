--------------------------- MODULE OrderAggregate ---------------------------
(***************************************************************************)
(* One order, from its construction to its last status.  The session that  *)
(* creates it adds the items and saves it.  From then on the order is a    *)
(* row, and sessions (scopes with an OrderingContext each) load copies of  *)
(* it, call the status methods of the aggregate and save.  EF writes the   *)
(* status when it differs from the one that was read; there is no          *)
(* concurrency token, so the last writer wins.                             *)
(*                                                                         *)
(* A session is a command in the transaction of TransactionBehaviour.  Its *)
(* handler ends with SaveEntitiesAsync, which dispatches domain events, or *)
(* with an exception, which IdentifiedCommandHandler swallows: then the    *)
(* commit saves what there is, and dispatches nothing.                     *)
(*                                                                         *)
(* Of the status methods only SetCancelledStatus has a caller in this      *)
(* repository.  The others are the public interface of the aggregate for   *)
(* the handlers to come, and are called here in any order.                 *)
(***************************************************************************)
EXTENDS OrderItems, FiniteSets

CONSTANTS
    Session,
    MaxItems,  \* bound: items offered to a new order
    MaxLoads   \* bound: copies loaded

ASSUME OrderAssumption == MaxItems \in Nat /\ MaxLoads \in Nat

(* The ids of OrderStatus.                                                 *)
Submitted == 1
AwaitingValidation == 2
StockConfirmed == 3
Paid == 4
Shipped == 5
Cancelled == 6
Status == Submitted .. Cancelled

(* An event is named by the status it announces; Submitted stands for      *)
(* OrderStartedDomainEvent.                                                *)
Event == Status

VARIABLES
    phase,       \* building, refused (an item threw), or saved
    lines,       \* _orderItems, until the order is saved
    offered,     \* the items accepted so far, in order
    stored,      \* OrderStatusId of the row
    copies,      \* copies[s]: the entity the session tracks
    loads,       \* copies loaded so far
    dispatched,  \* domain events handed to the mediator
    lost         \* domain events whose change was committed without them

vars == <<phase, lines, offered, stored, copies, loads, dispatched, lost>>

(* read: the value EF compares with.  raised: DomainEvents.                *)
Copy == [loaded : BOOLEAN, read : Status, status : Status, raised : SUBSET Event]
NoCopy == [loaded |-> FALSE, read |-> Submitted, status |-> Submitted, raised |-> {}]

----------------------------------------------------------------------------
Init ==
    /\ phase = "building"
    /\ lines = <<>>
    /\ offered = <<>>
    /\ stored = Submitted
    /\ copies = [s \in Session |-> NoCopy]
    /\ loads = 0
    /\ dispatched = {}
    /\ lost = {}

(* One turn of the loop in CreateOrderCommandHandler.                      *)
OfferItem(item) ==
    /\ phase = "building"
    /\ Len(offered) < MaxItems
    /\ IF AddOrderItemThrows(lines, item)
       THEN /\ phase' = "refused"
            /\ lines' = AfterThrow(lines, item)
            /\ UNCHANGED offered
       ELSE /\ lines' = AddOrderItem(lines, item)
            /\ offered' = Append(offered, item)
            /\ UNCHANGED phase
    /\ UNCHANGED <<stored, copies, loads, dispatched, lost>>

(* Add and SaveEntitiesAsync of the new order, Submitted, which has raised *)
(* OrderStartedDomainEvent.  No method changes the lines of a saved order, *)
(* and the model follows them no further.                                  *)
SaveNew ==
    /\ phase = "building"
    /\ phase' = "saved"
    /\ dispatched' = {Submitted}
    /\ lines' = <<>>
    /\ offered' = <<>>
    /\ UNCHANGED <<stored, copies, loads, lost>>

Load(s) ==
    /\ phase = "saved"
    /\ ~copies[s].loaded
    /\ loads < MaxLoads
    /\ loads' = loads + 1
    /\ copies' = [copies EXCEPT ![s] =
            [loaded |-> TRUE, read |-> stored, status |-> stored, raised |-> {}]]
    /\ UNCHANGED <<phase, lines, offered, stored, dispatched, lost>>

----------------------------------------------------------------------------
SetStatus(s, status, events) ==
    /\ copies[s].loaded
    /\ copies' = [copies EXCEPT ![s].status = status, ![s].raised = @ \cup events]
    /\ UNCHANGED <<phase, lines, offered, stored, loads, dispatched, lost>>

SetAwaitingValidationStatus(s) ==
    /\ copies[s].status = Submitted
    /\ SetStatus(s, AwaitingValidation, {AwaitingValidation})

(* A guard that also lets a Submitted order pass.                          *)
ConfirmStockOfSubmitted(s) ==
    /\ copies[s].status \in {Submitted, AwaitingValidation}
    /\ SetStatus(s, StockConfirmed, {StockConfirmed})

SetStockConfirmedStatus(s) ==
    /\ copies[s].status = AwaitingValidation
    /\ SetStatus(s, StockConfirmed, {StockConfirmed})

(* The event forgotten.                                                    *)
PayInSilence(s) ==
    /\ copies[s].status = StockConfirmed
    /\ SetStatus(s, Paid, {})

SetPaidStatus(s) ==
    /\ copies[s].status = StockConfirmed
    /\ SetStatus(s, Paid, {Paid})

(* The next status, whatever the order is in.                              *)
ShipWhatever(s) == SetStatus(s, copies[s].status + 1, {Shipped})

SetShippedStatus(s) ==
    /\ copies[s].status = Paid
    /\ SetStatus(s, Shipped, {Shipped})

SetCancelledStatus(s) ==
    /\ copies[s].status \notin {Paid, Shipped}
    /\ SetStatus(s, Cancelled, {Cancelled})

(* No event.                                                               *)
SetCancelledStatusWhenStockIsRejected(s) ==
    /\ copies[s].status = AwaitingValidation
    /\ SetStatus(s, Cancelled, {})

----------------------------------------------------------------------------
Changed(s) == copies[s].status # copies[s].read

(* What SaveChangesAsync makes of the row.                                 *)
Written(s) == IF Changed(s) THEN copies[s].status ELSE stored

(* DispatchDomainEventsAsync takes the events off the entity first.        *)
Dispatch(s) == dispatched' = dispatched \cup copies[s].raised

SaveEntities(s) ==
    /\ copies[s].loaded
    /\ Dispatch(s)
    /\ stored' = Written(s)
    /\ copies' = [copies EXCEPT ![s] = NoCopy]
    /\ UNCHANGED <<phase, lines, offered, loads, lost>>

(* The statement fails after the dispatch: the entity keeps its status and *)
(* has lost its events.                                                    *)
SaveFails(s) ==
    /\ copies[s].loaded
    /\ Changed(s)
    /\ Dispatch(s)
    /\ copies' = [copies EXCEPT ![s].raised = {}]
    /\ UNCHANGED <<phase, lines, offered, stored, loads, lost>>

(* SetShippedStatus or SetCancelledStatus out of turn.  The command ends   *)
(* with false, and the plain SaveChangesAsync of CommitTransactionAsync    *)
(* stores what was changed before, without its events.                     *)
StatusChangeException(s) ==
    /\ copies[s].loaded
    /\ copies[s].status # Paid \/ copies[s].status \in {Paid, Shipped}
    /\ stored' = Written(s)
    /\ lost' = IF Changed(s) THEN lost \cup copies[s].raised ELSE lost
    /\ copies' = [copies EXCEPT ![s] = NoCopy]
    /\ UNCHANGED <<phase, lines, offered, loads, dispatched>>

(* The transaction is rolled back, or its exception was nobody's to        *)
(* swallow: the scope ends with the changes unsaved.                       *)
Abandon(s) ==
    /\ copies[s].loaded
    /\ copies' = [copies EXCEPT ![s] = NoCopy]
    /\ UNCHANGED <<phase, lines, offered, stored, loads, dispatched, lost>>

Rests ==
    /\ phase # "building"
    /\ \A s \in Session : ~copies[s].loaded
    /\ UNCHANGED vars

Next ==
    \/ \E item \in Item : OfferItem(item)
    \/ SaveNew
    \/ \E s \in Session :
        \/ Load(s)
        \/ SetAwaitingValidationStatus(s) \/ SetStockConfirmedStatus(s)
        \/ SetPaidStatus(s) \/ SetShippedStatus(s)
        \/ SetCancelledStatus(s) \/ SetCancelledStatusWhenStockIsRejected(s)
        \/ StatusChangeException(s)
        \/ SaveEntities(s) \/ SaveFails(s) \/ Abandon(s)
    \/ Rests

Spec == Init /\ [][Next]_vars

----------------------------------------------------------------------------
TypeOK ==
    /\ phase \in {"building", "refused", "saved"}
    /\ lines \in Seq(Line)
    /\ offered \in Seq(Item)
    /\ stored \in Status
    /\ copies \in [Session -> Copy]
    /\ loads \in 0 .. MaxLoads
    /\ dispatched \subseteq Event
    /\ lost \subseteq Event

(* Where the items of product p are among those offered.                   *)
OfferedOf(p) == {i \in DOMAIN offered : offered[i].product = p}

UnitsOffered(p) ==
    Sum([i \in DOMAIN offered |->
            IF offered[i].product = p THEN offered[i].units ELSE 0])

FirstPrice(p) == offered[Min(OfferedOf(p))].price

(* "Adding the same item twice will result in combining total": a product  *)
(* never has two lines, and the total of the order is that of the items    *)
(* accepted so far, every unit at the price of its product's first item,   *)
(* as long as the units of each product fit an int (Order.cs, AddOrderItem *)
(* and GetTotal).                                                          *)
TotalIsCombined ==
    /\ \A i, j \in DOMAIN lines : lines[i].product = lines[j].product => i = j
    /\ (\A p \in Product : UnitsOffered(p) <= IntMax)
         => GetTotal(lines) = Sum([i \in DOMAIN offered |->
                offered[i].units * FirstPrice(offered[i].product)])

(* Until an item is refused, however items are merged, a line carries the  *)
(* highest discount that was accepted for its product, and a positive      *)
(* number of units unless an int is too small for them.                    *)
HighestDiscountWins ==
    phase = "building" => \A l \in ToSet(lines) :
        /\ l.discount = Max({offered[i].discount : i \in OfferedOf(l.product)})
        /\ UnitsOffered(l.product) <= IntMax => l.units > 0

(* Who sees an event of the flow has been sent those of the stages before  *)
(* it, whichever sessions changed the status on stale copies and whatever  *)
(* save failed: only an event that a swallowed exception lost is missing.  *)
EventsFollowTheFlow ==
    \A e \in dispatched \ {Cancelled} : 1 .. e \subseteq dispatched \cup lost

(* The status of the row was announced before it was written, also when    *)
(* the first save failed; only a rejected stock cancels without an event,  *)
(* and only a swallowed exception loses one.                               *)
StatusIsAnnounced ==
    phase = "saved" =>
        \/ stored \in dispatched \cup lost
        \/ stored = Cancelled /\ AwaitingValidation \in dispatched \cup lost

(* OrderItem.cs: "The total of order item is lower than applied discount"  *)
(* is an error, so no accepted line has such a discount.                   *)
DiscountWithinTotal ==
    phase = "building" => \A l \in ToSet(lines) : l.discount <= l.price * l.units

(* Order.cs: "Is not possible to change the order status from" Paid or     *)
(* Shipped to Cancelled.                                                   *)
PaidIsNotCancelled ==
    [][(stored \in {Paid, Shipped}) => (stored' # Cancelled)]_vars
=============================================================================
