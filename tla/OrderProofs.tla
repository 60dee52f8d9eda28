----------------------------- MODULE OrderProofs -----------------------------
(***************************************************************************)
(* What the sessions that work on copies of an order announce and store,   *)
(* for any number of sessions and of copies; and what the lines of a new   *)
(* order add up to, for any items and any number of them.                  *)
(***************************************************************************)
EXTENDS OrderAggregate, TLAPS

(* Who has been told E can follow the order from one status to the next.   *)
Flow(E) == \A e \in E \ {Cancelled} : 1 .. e \subseteq E

(* An order with that status is explained by the events E.                 *)
Explained(status, E) ==
    IF status = Cancelled
    THEN Cancelled \in E \/ AwaitingValidation \in E
    ELSE 1 .. status \subseteq E

(* What was announced, or committed without its announcement.              *)
Known == dispatched \cup lost

(* What s has raised will be dispatched or lost with its change.           *)
Seen(s) == Known \cup copies[s].raised

StatusType ==
    /\ phase \in {"building", "refused", "saved"}
    /\ stored \in Status
    /\ copies \in [Session -> Copy]
    /\ dispatched \subseteq Event
    /\ lost \subseteq Event

SInv ==
    /\ StatusType
    /\ Flow(Known)
    /\ phase = "saved" => Explained(stored, Known)
    /\ phase # "saved" => stored = Submitted /\ Known = {}
    /\ \A s \in Session : copies[s].loaded =>
          /\ phase = "saved"
          /\ Flow(Seen(s))
          /\ Explained(copies[s].status, Seen(s))

(* Nothing is announced before the order is saved.                         *)
LEMMA InitSInv == Init => SInv
  BY DEF Init, SInv, StatusType, Flow, Known, Copy, NoCopy, Status, Submitted, Cancelled, Event

(* The stages of the flow.                                                 *)
LEMMA Stages ==
    /\ Status = {1, 2, 3, 4, 5, 6}
    /\ 1 .. 1 = {1} /\ 1 .. 2 = {1, 2} /\ 1 .. 3 = {1, 2, 3}
    /\ 1 .. 4 = {1, 2, 3, 4} /\ 1 .. 5 = {1, 2, 3, 4, 5}
  BY DEF Status, Submitted, Cancelled

(* Two who can follow can follow together.                                 *)
LEMMA FlowUnion ==
    ASSUME NEW D, NEW E, Flow(D), Flow(E) PROVE Flow(D \cup E)
  BY DEF Flow

(* More events explain no less.                                            *)
LEMMA ExplainedMore ==
    ASSUME NEW D, NEW E, D \subseteq E, NEW status \in Status, Explained(status, D)
    PROVE  Explained(status, E)
  BY DEF Explained

----------------------------------------------------------------------------
(* A status method keeps the invariant when the events it raises explain   *)
(* the status it sets.                                                     *)
LEMMA SetStatusStep ==
    ASSUME SInv, NEW s \in Session, NEW status \in Status, NEW events \in SUBSET Event,
           SetStatus(s, status, events),
           Flow(Seen(s) \cup events), Explained(status, Seen(s) \cup events)
    PROVE  SInv'
  <1>1. copies[s].loaded /\ copies[s] \in Copy
    BY DEF SInv, StatusType, SetStatus
  <1>2. /\ copies' = [copies EXCEPT ![s] =
                [copies[s] EXCEPT !.status = status, !.raised = @ \cup events]]
        /\ UNCHANGED <<phase, stored, dispatched, lost>>
    BY <1>1 DEF SInv, StatusType, SetStatus, Copy
  <1>3. /\ copies'[s].loaded = copies[s].loaded
        /\ copies'[s].status = status
        /\ copies'[s].raised = copies[s].raised \cup events
        /\ copies'[s] \in Copy
    BY <1>1, <1>2 DEF SInv, StatusType, Copy
  <1>4. \A t \in Session \ {s} : copies'[t] = copies[t]
    BY <1>2 DEF SInv, StatusType
  <1>5. StatusType'
    BY <1>2, <1>3, <1>4 DEF SInv, StatusType
  <1>6. Seen(s)' = Seen(s) \cup events
    BY <1>2, <1>3 DEF Seen, Known
  <1>7. \A t \in Session \ {s} : Seen(t)' = Seen(t)
    BY <1>2, <1>4 DEF Seen, Known
  <1>8. ASSUME NEW t \in Session, copies'[t].loaded
        PROVE  /\ phase' = "saved"
               /\ Flow(Seen(t)')
               /\ Explained(copies'[t].status, Seen(t)')
    <2>1. CASE t = s
      BY <1>1, <1>2, <1>3, <1>6, <2>1 DEF SInv
    <2>2. CASE t # s
      BY <1>2, <1>4, <1>7, <1>8, <2>2 DEF SInv
    <2> QED BY <2>1, <2>2
  <1>9. /\ Flow(Known')
        /\ phase' = "saved" => Explained(stored', Known')
        /\ phase' # "saved" => stored' = Submitted /\ Known' = {}
    BY <1>2 DEF SInv, Known
  <1> QED BY <1>5, <1>8, <1>9 DEF SInv, Flow, Explained, Seen

(* What becomes known of one copy, dispatched or lost, leaves nobody's copy*)
(* unexplained.                                                            *)
LEMMA KnownStep ==
    ASSUME SInv, NEW s \in Session, copies[s].loaded, Known' = Seen(s)
    PROVE  /\ Flow(Known')
           /\ Explained(stored, Known')
           /\ Explained(copies[s].status, Known')
           /\ \A t \in Session : copies[t].loaded =>
                 /\ Flow(Known' \cup copies[t].raised)
                 /\ Explained(copies[t].status, Known' \cup copies[t].raised)
  <1>1. Known \subseteq Known'
    BY DEF Seen
  <1>2. copies[s] \in Copy /\ stored \in Status
    BY DEF SInv, StatusType
  <1>3. Flow(Known') /\ Explained(copies[s].status, Known')
    BY DEF SInv
  <1>4. Explained(stored, Known')
    BY <1>1, <1>2, ExplainedMore DEF SInv
  <1>5. ASSUME NEW t \in Session, copies[t].loaded
        PROVE  /\ Flow(Known' \cup copies[t].raised)
               /\ Explained(copies[t].status, Known' \cup copies[t].raised)
    <2>1. copies[t].status \in Status
      BY DEF SInv, StatusType, Copy
    <2>2. Known' \cup copies[t].raised = Known' \cup Seen(t)
      BY <1>1 DEF Seen
    <2>3. Flow(Seen(t)) /\ Explained(copies[t].status, Seen(t))
      BY <1>5 DEF SInv
    <2>4. Flow(Known' \cup Seen(t))
      BY <1>3, <2>3, FlowUnion
    <2>5. Explained(copies[t].status, Known' \cup Seen(t))
      BY <2>1, <2>3, ExplainedMore
    <2> QED BY <2>2, <2>4, <2>5
  <1> QED BY <1>3, <1>4, <1>5

(* A dispatch, and a commit without one.                                   *)
LEMMA DispatchStep ==
    ASSUME SInv, NEW s \in Session,
           \/ Dispatch(s) /\ lost' = lost
           \/ lost' = lost \cup copies[s].raised /\ dispatched' = dispatched
    PROVE  Known' = Seen(s) /\ dispatched' \subseteq Event /\ lost' \subseteq Event
  <1>1. copies[s].raised \subseteq Event
    BY DEF SInv, StatusType, Copy
  <1> QED BY <1>1 DEF Dispatch, Known, Seen, SInv, StatusType

(* A session that ends takes its copy with it.                             *)
LEMMA Forget ==
    ASSUME SInv, NEW s \in Session, copies' = [copies EXCEPT ![s] = NoCopy]
    PROVE  /\ copies' \in [Session -> Copy]
           /\ \A t \in Session : copies'[t].loaded => copies[t].loaded /\ copies'[t] = copies[t]
  <1>1. NoCopy \in Copy /\ ~NoCopy.loaded
    BY DEF NoCopy, Copy, Status, Submitted, Cancelled, Event
  <1> QED BY <1>1 DEF SInv, StatusType

(* One step per action.                                                    *)
LEMMA StepSInv == SInv /\ [Next]_vars => SInv'
  <1> SUFFICES ASSUME SInv, [Next]_vars PROVE SInv'
    OBVIOUS
  <1> USE DEF Submitted, AwaitingValidation, StockConfirmed, Paid, Shipped, Cancelled, Event
  <1>1. ASSUME NEW item \in Item, OfferItem(item) PROVE SInv'
    BY <1>1 DEF OfferItem, SInv, StatusType, Flow, Explained, Seen, Known
  <1>2. CASE SaveNew
    <2>1. /\ phase' = "saved" /\ stored' = 1 /\ dispatched' = {1} /\ lost' = {}
          /\ Known' = {1} /\ copies' = copies
          /\ \A s \in Session : ~copies[s].loaded
      BY <1>2 DEF SaveNew, SInv, Known
    <2>2. Flow({1}) /\ Explained(1, {1}) /\ {1} \subseteq Status
      BY Stages DEF Flow, Explained
    <2> QED BY <2>1, <2>2 DEF SInv, StatusType
  <1>3. ASSUME NEW s \in Session, Load(s) PROVE SInv'
    <2> DEFINE new == [loaded |-> TRUE, read |-> stored, status |-> stored, raised |-> {}]
    <2>1. /\ copies' = [copies EXCEPT ![s] = new]
          /\ phase = "saved"
          /\ UNCHANGED <<phase, stored, dispatched, lost>>
          /\ Known' = Known
      BY <1>3 DEF Load, Known
    <2>2. new \in Copy /\ new.status = stored /\ new.raised = {}
      BY DEF SInv, StatusType, Copy
    <2> HIDE DEF new
    <2>3. copies' \in [Session -> Copy]
      BY <2>1, <2>2 DEF SInv, StatusType
    <2>4. ASSUME NEW t \in Session, copies'[t].loaded
          PROVE  Flow(Seen(t)') /\ Explained(copies'[t].status, Seen(t)')
      <3>1. CASE t = s
        <4>1. Seen(t)' = Known /\ copies'[t].status = stored
          BY <2>1, <2>2, <3>1 DEF Seen, SInv, StatusType
        <4> QED BY <2>1, <4>1 DEF SInv
      <3>2. CASE t # s
        <4>1. Seen(t)' = Seen(t) /\ copies'[t] = copies[t]
          BY <2>1, <3>2 DEF Seen, SInv, StatusType
        <4> QED BY <2>4, <4>1 DEF SInv
      <3> QED BY <3>1, <3>2
    <2> QED BY <2>1, <2>3, <2>4 DEF SInv, StatusType
  <1>4. ASSUME NEW s \in Session, NEW status \in Status,
               status \in 2 .. 5, copies[s].status = status - 1,
               SetStatus(s, status, {status})
        PROVE  SInv'
    <2>1. copies[s].loaded /\ Flow(Seen(s)) /\ Explained(copies[s].status, Seen(s))
      BY <1>4 DEF SetStatus, SInv
    <2>2. 1 .. status = 1 .. (status - 1) \cup {status}
      BY <1>4
    <2>3. 1 .. (status - 1) \subseteq Seen(s)
      BY <1>4, <2>1 DEF Explained
    <2>4. Explained(status, Seen(s) \cup {status})
      BY <1>4, <2>2, <2>3 DEF Explained
    <2>5. Flow(Seen(s) \cup {status})
      BY <2>1, <2>2, <2>3 DEF Flow
    <2> QED BY <1>4, <2>4, <2>5, SetStatusStep
  <1>5. ASSUME NEW s \in Session,
               \/ SetAwaitingValidationStatus(s) \/ SetStockConfirmedStatus(s)
               \/ SetPaidStatus(s) \/ SetShippedStatus(s)
        PROVE  SInv'
    <2>1. PICK status \in 2 .. 5 :
              copies[s].status = status - 1 /\ SetStatus(s, status, {status})
      BY <1>5 DEF SetAwaitingValidationStatus, SetStockConfirmedStatus, SetPaidStatus,
         SetShippedStatus
    <2>2. status \in Status
      BY DEF Status
    <2> QED BY <1>4, <2>1, <2>2
  <1>6. ASSUME NEW s \in Session, SetCancelledStatus(s) PROVE SInv'
    <2>1. copies[s].loaded /\ Flow(Seen(s)) /\ SetStatus(s, 6, {6})
      BY <1>6 DEF SetCancelledStatus, SetStatus, SInv
    <2>2. Flow(Seen(s) \cup {6}) /\ Explained(6, Seen(s) \cup {6})
      BY <2>1 DEF Flow, Explained
    <2> QED BY <2>1, <2>2, SetStatusStep, Stages
  <1>7. ASSUME NEW s \in Session, SetCancelledStatusWhenStockIsRejected(s) PROVE SInv'
    <2>1. copies[s].loaded /\ copies[s].status = 2 /\ SetStatus(s, 6, {})
      BY <1>7 DEF SetCancelledStatusWhenStockIsRejected, SetStatus
    <2>2. Flow(Seen(s)) /\ 2 \in Seen(s)
      BY <2>1 DEF SInv, Explained
    <2>3. Flow(Seen(s) \cup {}) /\ Explained(6, Seen(s) \cup {})
      BY <2>2 DEF Flow, Explained
    <2> QED BY <2>1, <2>3, SetStatusStep, Stages
  <1>8. ASSUME NEW s \in Session, copies' = [copies EXCEPT ![s] = NoCopy],
               UNCHANGED <<phase, stored, dispatched, lost>>
        PROVE  SInv'
    <2>1. /\ copies' \in [Session -> Copy]
          /\ \A t \in Session : copies'[t].loaded => copies[t].loaded /\ copies'[t] = copies[t]
      BY <1>8, Forget
    <2> QED BY <1>8, <2>1 DEF SInv, StatusType, Seen, Known
  <1>9. ASSUME NEW s \in Session, copies[s].loaded,
               copies' = [copies EXCEPT ![s] = NoCopy],
               stored' \in {stored, copies[s].status}, phase' = phase,
               \/ Dispatch(s) /\ lost' = lost
               \/ lost' = lost \cup copies[s].raised /\ dispatched' = dispatched
        PROVE  SInv'
    <2>1. /\ copies' \in [Session -> Copy]
          /\ \A t \in Session : copies'[t].loaded => copies[t].loaded /\ copies'[t] = copies[t]
      BY <1>9, Forget
    <2>2. Known' = Seen(s) /\ dispatched' \subseteq Event /\ lost' \subseteq Event
      BY <1>9, DispatchStep
    <2>3. /\ Flow(Known')
          /\ Explained(stored, Known') /\ Explained(copies[s].status, Known')
          /\ \A t \in Session : copies[t].loaded =>
                /\ Flow(Known' \cup copies[t].raised)
                /\ Explained(copies[t].status, Known' \cup copies[t].raised)
      BY <1>9, <2>2, KnownStep
    <2>4. phase = "saved" /\ stored' \in Status /\ Explained(stored', Known')
      BY <1>9, <2>3 DEF SInv, StatusType, Copy
    <2>5. \A t \in Session : copies'[t].loaded =>
             Flow(Seen(t)') /\ Explained(copies'[t].status, Seen(t)')
      BY <2>1, <2>3 DEF Seen
    <2> QED BY <1>9, <2>1, <2>2, <2>3, <2>4, <2>5 DEF SInv, StatusType
  <1>10. ASSUME NEW s \in Session, SaveEntities(s) PROVE SInv'
    BY <1>9, <1>10 DEF SaveEntities, Written
  <1>11. ASSUME NEW s \in Session, StatusChangeException(s) PROVE SInv'
    <2>1. CASE Changed(s)
      BY <1>9, <1>11, <2>1 DEF StatusChangeException, Written
    <2>2. CASE ~Changed(s)
      BY <1>8, <1>11, <2>2 DEF StatusChangeException, Written
    <2> QED BY <2>1, <2>2
  <1>12. ASSUME NEW s \in Session, Abandon(s) PROVE SInv'
    BY <1>8, <1>12 DEF Abandon
  <1>13. ASSUME NEW s \in Session, SaveFails(s) PROVE SInv'
    <2>1. /\ copies[s].loaded /\ Dispatch(s)
          /\ copies' = [copies EXCEPT ![s].raised = {}]
          /\ UNCHANGED <<phase, stored, lost>>
      BY <1>13 DEF SaveFails
    <2>2. /\ copies'[s] \in Copy
          /\ copies'[s].raised = {} /\ copies'[s].status = copies[s].status
          /\ \A t \in Session \ {s} : copies'[t] = copies[t]
          /\ copies' \in [Session -> Copy]
      BY <2>1 DEF SInv, StatusType, Copy
    <2>3. Known' = Seen(s) /\ dispatched' \subseteq Event /\ lost' \subseteq Event
      BY <2>1, DispatchStep
    <2>4. /\ Flow(Known')
          /\ Explained(stored, Known') /\ Explained(copies[s].status, Known')
          /\ \A t \in Session : copies[t].loaded =>
                /\ Flow(Known' \cup copies[t].raised)
                /\ Explained(copies[t].status, Known' \cup copies[t].raised)
      BY <2>1, <2>3, KnownStep
    <2>5. phase = "saved"
      BY <2>1 DEF SInv
    <2>6. ASSUME NEW t \in Session, copies'[t].loaded
          PROVE  Flow(Seen(t)') /\ Explained(copies'[t].status, Seen(t)')
      <3>1. CASE t = s
        <4>1. Seen(t)' = Known'
          BY <2>2, <3>1 DEF Seen
        <4> QED BY <2>2, <2>4, <3>1, <4>1
      <3>2. CASE t # s
        BY <2>2, <2>4, <2>6, <3>2 DEF Seen
      <3> QED BY <3>1, <3>2
    <2> QED BY <2>1, <2>2, <2>3, <2>4, <2>5, <2>6 DEF SInv, StatusType
  <1>14. CASE Rests \/ UNCHANGED vars
    BY <1>14 DEF Rests, vars, SInv, StatusType, Seen, Known
  <1> QED
    BY <1>1, <1>2, <1>3, <1>5, <1>6, <1>7, <1>10, <1>11, <1>12, <1>13, <1>14 DEF Next

(* The inductive invariant of the statuses and their events.               *)
THEOREM Invariance == Spec => []SInv
  BY InitSInv, StepSInv, PTL DEF Spec

(* Whoever sees an event of the flow has been sent those before it, but for*)
(* those that a swallowed exception lost.                                  *)
THEOREM EventsFollowTheFlowHolds == Spec => []EventsFollowTheFlow
  <1>1. SInv => EventsFollowTheFlow
    BY DEF SInv, Flow, Known, EventsFollowTheFlow
  <1> QED BY <1>1, Invariance, PTL

(* No session stores a status whose event was not dispatched, but for the  *)
(* cancellation that a rejected stock brings and for what a swallowed      *)
(* exception left to the commit.                                           *)
THEOREM StatusIsAnnouncedHolds == Spec => []StatusIsAnnounced
  <1>1. SInv => StatusIsAnnounced
    <2> SUFFICES ASSUME SInv, phase = "saved"
                 PROVE  \/ stored \in Known
                        \/ stored = Cancelled /\ AwaitingValidation \in Known
      BY DEF StatusIsAnnounced, Known
    <2>1. Explained(stored, Known) /\ stored \in Status
      BY DEF SInv, StatusType
    <2>2. stored \in 1 .. stored
      BY <2>1, Stages
    <2> QED BY <2>1, <2>2 DEF Explained
  <1> QED BY <1>1, Invariance, PTL

----------------------------------------------------------------------------
(* An int stays an int.                                                    *)
LEMMA WrapType == ASSUME NEW n \in Int PROVE Wrap(n) \in -IntMax - 1 .. IntMax
  <1> DEFINE m == 2 * IntMax + 2
  <1>1. m \in Nat \ {0} /\ IntMax \in Nat
    BY ItemAssumption
  <1> HIDE DEF m
  <1>2. \A k \in Int : k % m \in 0 .. m - 1
    BY <1>1
  <1>3. (n + IntMax + 1) % m \in 0 .. m - 1
    BY <1>1, <1>2
  <1> QED BY <1>1, <1>3 DEF Wrap, m

(* AddOrderItem and a merge that throws half-way keep lines lines.         *)
LEMMA LinesType ==
    ASSUME NEW ls \in Seq(Line), NEW item \in Item
    PROVE  AddOrderItem(ls, item) \in Seq(Line) /\ AfterThrow(ls, item) \in Seq(Line)
  <1>1. item \in Line /\ item.discount \in Discount /\ item.units \in Int
    <2>1. item.units \in -IntMax .. IntMax /\ IntMax \in Nat
      BY ItemAssumption DEF Item
    <2>2. item.units \in Int /\ item.units \in -IntMax - 1 .. IntMax
      BY <2>1
    <2> QED BY <2>2 DEF Item, Line
  <1>2. ASSUME NEW l \in Line
        PROVE  /\ Merged(l, item) \in Line
               /\ [l EXCEPT !.discount = HigherDiscount(l, item)] \in Line
    <2>1. HigherDiscount(l, item) \in Discount
      BY <1>1 DEF HigherDiscount, Line
    <2>2. l.units + item.units \in Int
      BY <1>1, ItemAssumption DEF Line
    <2>3. MergedUnits(l, item) \in -IntMax - 1 .. IntMax
      BY <2>2, WrapType DEF MergedUnits
    <2> QED BY <2>1, <2>3 DEF Merged, Line
  <1>3. \A i \in DOMAIN ls : ls[i] \in Line
    OBVIOUS
  <1>4. Append(ls, item) \in Seq(Line)
    BY <1>1
  <1>5. [i \in DOMAIN ls |->
            IF ls[i].product = item.product THEN Merged(ls[i], item) ELSE ls[i]] \in Seq(Line)
    <2>1. \A i \in DOMAIN ls :
             (IF ls[i].product = item.product THEN Merged(ls[i], item) ELSE ls[i]) \in Line
      BY <1>2, <1>3
    <2> DEFINE after(i) == IF ls[i].product = item.product THEN Merged(ls[i], item) ELSE ls[i]
    <2>2. \A i \in DOMAIN ls : after(i) \in Line
      BY <2>1
    <2> HIDE DEF after
    <2>3. [i \in DOMAIN ls |-> after(i)] \in Seq(Line)
      BY <2>2
    <2> QED BY <2>3 DEF after
  <1>6. AfterThrow(ls, item) \in Seq(Line)
    BY <1>2, <1>3 DEF AfterThrow
  <1> QED BY <1>4, <1>5, <1>6 DEF AddOrderItem

(* Every reachable state is well typed: in particular units that overflow  *)
(* are still an int.                                                       *)
THEOREM TypeCorrect == Spec => []TypeOK
  <1>1. Init => TypeOK
    BY OrderAssumption DEF Init, TypeOK, Copy, NoCopy, Status, Submitted, Cancelled, Event
  <1>2. ASSUME TypeOK, SInv, SInv', [Next]_vars PROVE TypeOK'
    <2>1. StatusType'
      BY <1>2 DEF SInv
    <2>2. lines' \in Seq(Line) /\ offered' \in Seq(Item) /\ loads' \in 0 .. MaxLoads
      <3>1. ASSUME NEW item \in Item, OfferItem(item)
            PROVE  lines' \in Seq(Line) /\ offered' \in Seq(Item) /\ loads' = loads
        <4>1. AddOrderItem(lines, item) \in Seq(Line) /\ AfterThrow(lines, item) \in Seq(Line)
          BY <1>2, LinesType DEF TypeOK
        <4>2. offered' \in {offered, Append(offered, item)}
          BY <3>1 DEF OfferItem
        <4>3. offered' \in Seq(Item)
          BY <1>2, <4>2 DEF TypeOK
        <4>4. lines' \in {AddOrderItem(lines, item), AfterThrow(lines, item)} /\ loads' = loads
          BY <3>1 DEF OfferItem
        <4> QED BY <4>1, <4>3, <4>4
      <3>2. CASE SaveNew
        BY <1>2, <3>2 DEF SaveNew, TypeOK
      <3>3. ASSUME NEW s \in Session, Load(s)
            PROVE  UNCHANGED <<lines, offered>> /\ loads' \in 0 .. MaxLoads
        BY <1>2, <3>3, OrderAssumption DEF Load, TypeOK
      <3>4. CASE UNCHANGED <<lines, offered, loads>>
        BY <1>2, <3>4 DEF TypeOK
      <3>5. ASSUME NEW s \in Session,
                   \/ SetAwaitingValidationStatus(s) \/ SetStockConfirmedStatus(s)
                   \/ SetPaidStatus(s) \/ SetShippedStatus(s)
                   \/ SetCancelledStatus(s) \/ SetCancelledStatusWhenStockIsRejected(s)
                   \/ StatusChangeException(s)
                   \/ SaveEntities(s) \/ SaveFails(s) \/ Abandon(s)
            PROVE  UNCHANGED <<lines, offered, loads>>
        BY <3>5 DEF SetAwaitingValidationStatus, SetStockConfirmedStatus, SetPaidStatus,
           SetShippedStatus, SetCancelledStatus, SetCancelledStatusWhenStockIsRejected,
           SetStatus, StatusChangeException, SaveEntities, SaveFails, Abandon
      <3> QED BY <1>2, <3>1, <3>2, <3>3, <3>4, <3>5 DEF Next, Rests, vars, TypeOK
    <2> QED BY <2>1, <2>2 DEF StatusType, TypeOK
  <1> QED BY <1>1, <1>2, Invariance, PTL DEF Spec

----------------------------------------------------------------------------
(* Sums.                                                                   *)
Plus(n, e) == n + e

Loop == INSTANCE LeftFold WITH Step <- Plus

(* Sum is the loop of LeftFold.                                            *)
LEMMA SumIsLoop == ASSUME NEW s PROVE Sum(s) = Loop!Fold(0, s)
  BY DEF Sum, Plus, FoldLeft, MapThenFoldSet, Max,
     Loop!Fold, Loop!FoldLeft, Loop!MapThenFoldSet, Loop!Max

(* Nothing is worth nothing.                                               *)
LEMMA SumEmpty == Sum(<<>>) = 0
  BY SumIsLoop, Loop!FoldEmpty

(* One summand more.                                                       *)
LEMMA SumAppend ==
    ASSUME NEW s \in Seq(Int), NEW e \in Int
    PROVE  Sum(Append(s, e)) = Sum(s) + e
  <1>1. Loop!Fold(0, Append(s, e)) = Plus(Loop!Fold(0, s), e)
    BY Loop!FoldAppend
  <1> QED BY <1>1, SumIsLoop DEF Plus

(* One summand changed.                                                    *)
LEMMA SumChanged ==
    ASSUME NEW s \in Seq(Int), NEW z \in Seq(Int), Len(z) = Len(s),
           NEW j \in DOMAIN s, \A k \in DOMAIN s : k # j => z[k] = s[k]
    PROVE  Sum(s) \in Int /\ Sum(z) = Sum(s) + (z[j] - s[j])
  <1> DEFINE n == Len(s)
             d == z[j] - s[j]
  <1>1. /\ n \in Nat /\ DOMAIN s = 1 .. n /\ DOMAIN z = 1 .. n /\ j \in 1 .. n
        /\ d \in Int /\ z[j] = s[j] + d
        /\ \A k \in 1 .. n : s[k] \in Int /\ z[k] \in Int
    <2>1. n \in Nat /\ DOMAIN s = 1 .. n /\ DOMAIN z = 1 .. n
      OBVIOUS
    <2> HIDE DEF n, d
    <2>2. \A k \in 1 .. n : s[k] \in Int /\ z[k] \in Int
      BY <2>1
    <2>3. s[j] \in Int /\ z[j] \in Int
      BY <2>1, <2>2
    <2> QED BY <2>1, <2>2, <2>3 DEF d
  <1> HIDE DEF n, d
  <1>2. PICK f : Loop!Values(f, 0, s, n) /\ Loop!Fold(0, s) = f[n]
    BY <1>1, Loop!FoldValues
  <1>3. PICK g : Loop!Values(g, 0, z, n) /\ Loop!Fold(0, z) = g[n]
    BY <1>1, Loop!FoldValues
  <1> DEFINE S == {k \in Nat : k <= n =>
                     f[k] \in Int /\ g[k] = f[k] + (IF j <= k THEN d ELSE 0)}
  <1>4. 0 \in S
    <2>1. f[0] = 0 /\ g[0] = 0
      BY <1>2, <1>3 DEF Loop!Values
    <2>2. ~ (j <= 0)
      BY <1>1
    <2> QED BY <2>1, <2>2
  <1>5. ASSUME NEW k \in Nat, k \in S PROVE k + 1 \in S
    <2>1. SUFFICES ASSUME k + 1 <= n
                   PROVE  /\ f[k + 1] \in Int
                          /\ g[k + 1] = f[k + 1] + (IF j <= k + 1 THEN d ELSE 0)
      OBVIOUS
    <2>2. /\ k + 1 \in 1 .. n /\ (k + 1) - 1 = k
          /\ f[k] \in Int /\ g[k] = f[k] + (IF j <= k THEN d ELSE 0)
      BY <1>1, <1>5, <2>1
    <2>3. f[k + 1] = f[k] + s[k + 1] /\ g[k + 1] = g[k] + z[k + 1]
      BY <1>2, <1>3, <2>2 DEF Loop!Values, Plus
    <2>4. s[k + 1] \in Int /\ z[k + 1] \in Int
      BY <1>1, <2>2
    <2>5. CASE k + 1 = j
      BY <1>1, <2>2, <2>3, <2>4, <2>5
    <2>6. CASE k + 1 # j
      <3>1. z[k + 1] = s[k + 1] /\ (j <= k + 1 <=> j <= k)
        BY <1>1, <2>2, <2>6
      <3> QED BY <1>1, <2>2, <2>3, <2>4, <3>1
    <2> QED BY <2>5, <2>6
  <1> HIDE DEF S
  <1>6. n \in S
    BY <1>1, <1>4, <1>5, Loop!Induction
  <1>7. f[n] \in Int /\ g[n] = f[n] + d
    BY <1>1, <1>6 DEF S
  <1> QED BY <1>2, <1>3, <1>7, SumIsLoop DEF d

(* A sum is a number.                                                      *)
LEMMA SumType == ASSUME NEW s \in Seq(Int) PROVE Sum(s) \in Int
  <1>1. CASE s = <<>>
    BY <1>1, SumEmpty
  <1>2. CASE s # <<>>
    <2>1. 1 \in DOMAIN s
      BY <1>2
    <2> QED BY <2>1, SumChanged
  <1> QED BY <1>1, <1>2

(* What makes a member of a set its least or its greatest.                 *)
LEMMA MinIs ==
    ASSUME NEW S \in SUBSET Int, NEW m \in S, \A k \in S : m <= k PROVE Min(S) = m
  <1>1. \A x \in S : (\A k \in S : x <= k) => x = m
    OBVIOUS
  <1> QED BY <1>1 DEF Min

LEMMA MaxIs ==
    ASSUME NEW S \in SUBSET Int, NEW m \in S, \A k \in S : k <= m PROVE Max(S) = m
  <1>1. \A k \in S : m >= k
    OBVIOUS
  <1>2. \A x \in S : (\A k \in S : x >= k) => x = m
    OBVIOUS
  <1> QED BY <1>1, <1>2 DEF Max

----------------------------------------------------------------------------
(* The lines of a new order and the items that were accepted for it.       *)
Worth ==
    Sum([i \in DOMAIN offered |-> offered[i].units * FirstPrice(offered[i].product)])

DiscountsOffered(p) == {offered[i].discount : i \in OfferedOf(p)}

(* A product has a line exactly if it was offered, in whole units.         *)
ProductInv(p) ==
    /\ OfferedOf(p) = {} => UnitsOffered(p) = 0
    /\ OfferedOf(p) # {} => UnitsOffered(p) >= 1 /\ LinesOf(lines, p) # {}

LineInv(l) ==
    /\ OfferedOf(l.product) # {}
    /\ l.price = FirstPrice(l.product)
    /\ UnitsOffered(l.product) <= IntMax => l.units = UnitsOffered(l.product)

DiscountInv(l) ==
    /\ l.discount \in DiscountsOffered(l.product)
    /\ \A d \in DiscountsOffered(l.product) : d <= l.discount

LInv ==
    /\ TypeOK
    /\ \A p \in Product : ProductInv(p)
    /\ \A i \in DOMAIN lines : LineInv(lines[i])
    /\ phase = "building" => \A i \in DOMAIN lines : DiscountInv(lines[i])
    /\ \A i, j \in DOMAIN lines : lines[i].product = lines[j].product => i = j
    /\ (\A p \in Product : UnitsOffered(p) <= IntMax) => GetTotal(lines) = Worth

(* What TypeOK says of the items and of the lines.                         *)
LEMMA ItemsAndLines ==
    ASSUME TypeOK
    PROVE  /\ \A i \in DOMAIN offered :
                 /\ offered[i] \in Item
                 /\ offered[i].product \in Product
                 /\ offered[i].units \in Int
                 /\ offered[i].price \in Int
                 /\ offered[i].discount \in Int
           /\ \A i \in DOMAIN lines :
                 /\ lines[i] \in Line
                 /\ lines[i].product \in Product
                 /\ lines[i].units \in Int
                 /\ lines[i].price \in Int
                 /\ lines[i].discount \in Int
           /\ DOMAIN offered = 1 .. Len(offered) /\ Len(offered) \in Nat
           /\ DOMAIN lines = 1 .. Len(lines) /\ Len(lines) \in Nat
  <1>1. offered \in Seq(Item) /\ lines \in Seq(Line)
    BY DEF TypeOK
  <1>2. /\ \A i \in DOMAIN offered : offered[i] \in Item
        /\ \A i \in DOMAIN lines : lines[i] \in Line
        /\ DOMAIN offered = 1 .. Len(offered) /\ Len(offered) \in Nat
        /\ DOMAIN lines = 1 .. Len(lines) /\ Len(lines) \in Nat
    BY <1>1
  <1>3. \A item \in Item : /\ item.product \in Product /\ item.units \in Int
                           /\ item.price \in Int /\ item.discount \in Int
    <2>1. Units \subseteq Int /\ Price \subseteq Int /\ Discount \subseteq Int
      BY ItemAssumption
    <2> QED BY <2>1 DEF Item
  <1>4. \A l \in Line : /\ l.product \in Product /\ l.units \in Int
                        /\ l.price \in Int /\ l.discount \in Int
    <2>1. -IntMax - 1 .. IntMax \subseteq Int /\ Price \subseteq Int /\ Discount \subseteq Int
      BY ItemAssumption
    <2> QED BY <2>1 DEF Line
  <1> QED BY <1>2, <1>3, <1>4

(* The least position of a product is one of them.                         *)
LEMMA FirstPosition ==
    ASSUME TypeOK, NEW p, OfferedOf(p) # {}
    PROVE  /\ Min(OfferedOf(p)) \in OfferedOf(p)
           /\ \A i \in OfferedOf(p) : Min(OfferedOf(p)) <= i
           /\ FirstPrice(p) \in Int
  <1>1. OfferedOf(p) \in SUBSET Nat
    BY ItemsAndLines DEF OfferedOf
  <1>2. PICK m \in OfferedOf(p) : \A i \in OfferedOf(p) : m <= i
    BY <1>1, Loop!LeastNumber
  <1>3. Min(OfferedOf(p)) = m
    BY <1>1, <1>2, MinIs
  <1>4. m \in DOMAIN offered
    BY DEF OfferedOf
  <1> QED BY <1>2, <1>3, <1>4, ItemsAndLines DEF FirstPrice

(* The product of two numbers is one.                                      *)
LEMMA TimesType == ASSUME NEW a \in Int, NEW b \in Int PROVE a * b \in Int
  OBVIOUS

(* The summands of UnitsOffered and of Worth.                              *)
LEMMA Summands ==
    ASSUME TypeOK
    PROVE  /\ \A p : [i \in DOMAIN offered |->
                  IF offered[i].product = p THEN offered[i].units ELSE 0] \in Seq(Int)
           /\ [i \in DOMAIN offered |->
                  offered[i].units * FirstPrice(offered[i].product)] \in Seq(Int)
           /\ [i \in DOMAIN lines |-> lines[i].units * lines[i].price] \in Seq(Int)
  <1>1. \A i \in DOMAIN offered : offered[i].units * FirstPrice(offered[i].product) \in Int
    <2> TAKE i \in DOMAIN offered
    <2>1. i \in OfferedOf(offered[i].product)
      BY DEF OfferedOf
    <2>2. FirstPrice(offered[i].product) \in Int
      BY <2>1, FirstPosition
    <2> QED BY <2>2, ItemsAndLines, TimesType
  <1>2. \A i \in DOMAIN lines : lines[i].units * lines[i].price \in Int
    BY ItemsAndLines, TimesType
  <1>3. ASSUME NEW p
        PROVE  [i \in DOMAIN offered |->
                  IF offered[i].product = p THEN offered[i].units ELSE 0] \in Seq(Int)
    BY ItemsAndLines
  <1> DEFINE u(i) == offered[i].units * FirstPrice(offered[i].product)
             w(i) == lines[i].units * lines[i].price
  <1>4. \A i \in DOMAIN offered : u(i) \in Int
    BY <1>1
  <1>5. \A i \in DOMAIN lines : w(i) \in Int
    BY <1>2
  <1> HIDE DEF u, w
  <1>6. [i \in DOMAIN offered |-> u(i)] \in Seq(Int)
    BY <1>4, ItemsAndLines
  <1>7. [i \in DOMAIN lines |-> w(i)] \in Seq(Int)
    BY <1>5, ItemsAndLines
  <1> QED BY <1>3, <1>6, <1>7 DEF u, w

(* One more item is accepted.                                              *)
LEMMA OneMoreItem ==
    ASSUME TypeOK, NEW item \in Item, offered' = Append(offered, item),
           NEW first \in Int,
           first = IF OfferedOf(item.product) = {} THEN item.price
                                                   ELSE FirstPrice(item.product)
    PROVE  /\ \A p : p # item.product =>
                 /\ OfferedOf(p)' = OfferedOf(p)
                 /\ UnitsOffered(p)' = UnitsOffered(p)
                 /\ DiscountsOffered(p)' = DiscountsOffered(p)
                 /\ OfferedOf(p) # {} => FirstPrice(p)' = FirstPrice(p)
           /\ OfferedOf(item.product)' # {}
           /\ UnitsOffered(item.product)' = UnitsOffered(item.product) + item.units
           /\ DiscountsOffered(item.product)'
                 = DiscountsOffered(item.product) \cup {item.discount}
           /\ FirstPrice(item.product)' = first
           /\ Worth' = Worth + item.units * first
  <1> DEFINE n == Len(offered)
             q == item.product
  <1>1. /\ n \in Nat /\ DOMAIN offered = 1 .. n /\ DOMAIN offered' = 1 .. n + 1
        /\ \A i \in 1 .. n : offered'[i] = offered[i]
        /\ offered'[n + 1] = item
    BY DEF TypeOK
  <1>2. item.units \in Int /\ item.price \in Int /\ \A i \in 1 .. n : offered[i].units \in Int
    <2>1. Units \subseteq Int /\ Price \subseteq Int
      BY ItemAssumption
    <2> QED BY <1>1, <2>1, ItemsAndLines DEF Item
  <1> HIDE DEF n
  <1>3. ASSUME NEW p
        PROVE  /\ OfferedOf(p)' = OfferedOf(p) \cup {i \in {n + 1} : p = q}
               /\ UnitsOffered(p)' = UnitsOffered(p) + IF p = q THEN item.units ELSE 0
               /\ OfferedOf(p) # {} => FirstPrice(p)' = FirstPrice(p)
               /\ OfferedOf(p) = {} /\ p = q => FirstPrice(p)' = item.price
    <2>1. OfferedOf(p)' = OfferedOf(p) \cup {i \in {n + 1} : p = q}
      BY <1>1 DEF OfferedOf
    <2>2. UnitsOffered(p)' = UnitsOffered(p) + IF p = q THEN item.units ELSE 0
      <3> DEFINE s == [i \in DOMAIN offered |->
                         IF offered[i].product = p THEN offered[i].units ELSE 0]
                 z == [i \in DOMAIN offered' |->
                         IF offered'[i].product = p THEN offered'[i].units ELSE 0]
                 e == IF p = q THEN item.units ELSE 0
      <3>1. s \in Seq(Int) /\ e \in Int /\ Len(s) = n /\ DOMAIN s = 1 .. n
        BY <1>1, <1>2, Summands
      <3>2. \A i \in 1 .. n : z[i] = s[i]
        BY <1>1
      <3>3. z[n + 1] = e /\ DOMAIN z = 1 .. n + 1
        BY <1>1
      <3>4. z \in Seq(Int)
        <4>1. \A i \in 1 .. n + 1 : z[i] \in Int
          BY <3>1, <3>2, <3>3
        <4> HIDE DEF e, s
        <4>2. z = [i \in 1 .. n + 1 |-> z[i]]
          BY <3>3
        <4> HIDE DEF z
        <4> QED BY <1>1, <4>1, <4>2
      <3> HIDE DEF s, z, e
      <3>5. z = Append(s, e)
        BY <3>1, <3>2, <3>3, <3>4
      <3>6. Sum(z) = Sum(s) + e
        BY <3>1, <3>5, SumAppend
      <3> QED BY <3>6 DEF UnitsOffered, s, z, e
    <2>3. ASSUME OfferedOf(p) # {} PROVE FirstPrice(p)' = FirstPrice(p)
      <3> DEFINE m == Min(OfferedOf(p))
      <3>1. m \in OfferedOf(p) /\ \A i \in OfferedOf(p) : m <= i
        BY <2>3, FirstPosition
      <3>2. m \in 1 .. n /\ OfferedOf(p) \subseteq 1 .. n
        BY <1>1, <3>1 DEF OfferedOf
      <3> HIDE DEF m
      <3>3. Min(OfferedOf(p)') = m
        <4> DEFINE S == OfferedOf(p)'
        <4>1. S \in SUBSET Int /\ m \in S /\ \A i \in S : m <= i
          BY <1>1, <2>1, <3>1, <3>2
        <4> HIDE DEF S
        <4>2. Min(S) = m
          BY <4>1, MinIs
        <4> QED BY <4>2 DEF S
      <3> QED BY <1>1, <3>2, <3>3 DEF FirstPrice, m
    <2>4. ASSUME OfferedOf(p) = {}, p = q PROVE FirstPrice(p)' = item.price
      <3>1. OfferedOf(p)' = {n + 1} /\ n + 1 \in Int
        BY <1>1, <2>1, <2>4
      <3>2. Min({n + 1}) = n + 1
        <4>1. {n + 1} \in SUBSET Int /\ n + 1 \in {n + 1} /\ \A k \in {n + 1} : n + 1 <= k
          BY <1>1
        <4> QED BY <4>1, MinIs
      <3> QED BY <1>1, <3>1, <3>2 DEF FirstPrice
    <2> QED BY <2>1, <2>2, <2>3, <2>4
  <1>4. \A p : UnitsOffered(p) \in Int
    BY Summands, SumType DEF UnitsOffered
  <1>5. ASSUME NEW p
        PROVE  /\ p # q => DiscountsOffered(p)' = DiscountsOffered(p)
               /\ DiscountsOffered(q)' = DiscountsOffered(q) \cup {item.discount}
    <2>1. \A i \in OfferedOf(p) : i \in 1 .. n /\ offered'[i] = offered[i]
      BY <1>1 DEF OfferedOf
    <2>2. \A i \in OfferedOf(q) : i \in 1 .. n /\ offered'[i] = offered[i]
      BY <1>1 DEF OfferedOf
    <2>3. p # q => OfferedOf(p)' = OfferedOf(p)
      BY <1>3
    <2>4. OfferedOf(q)' = OfferedOf(q) \cup {n + 1}
      BY <1>3
    <2>5. p # q => DiscountsOffered(p)' = DiscountsOffered(p)
      BY <2>1, <2>3 DEF DiscountsOffered
    <2>6. DiscountsOffered(q)' = DiscountsOffered(q) \cup {item.discount}
      BY <1>1, <2>2, <2>4 DEF DiscountsOffered
    <2> QED BY <2>5, <2>6
  <1>6. Worth' = Worth + item.units * first
    <2> DEFINE s == [i \in DOMAIN offered |-> offered[i].units * FirstPrice(offered[i].product)]
               z == [i \in DOMAIN offered |-> offered[i].units * FirstPrice(offered[i].product)]'
               e == item.units * first
    <2>1. s \in Seq(Int) /\ DOMAIN s = 1 .. n /\ Len(s) = n /\ e \in Int
      BY <1>1, <1>2, Summands, TimesType
    <2>2. DOMAIN z = 1 .. n + 1 /\ z = [i \in DOMAIN z |-> z[i]]
      BY <1>1
    <2>3. ASSUME NEW i \in 1 .. n PROVE z[i] = s[i]
      <3>1. offered'[i] = offered[i] /\ i \in DOMAIN offered /\ i \in DOMAIN offered'
        BY <1>1
      <3> DEFINE p == offered[i].product
      <3>2. i \in OfferedOf(p)
        BY <3>1 DEF OfferedOf
      <3>3. FirstPrice(p)' = FirstPrice(p)
        BY <1>3, <3>1, <3>2
      <3>4. z[i] = offered'[i].units * FirstPrice(p)'
        BY <3>1
      <3>5. s[i] = offered[i].units * FirstPrice(p)
        BY <3>1
      <3> QED BY <3>1, <3>3, <3>4, <3>5
    <2>4. z[n + 1] = e
      <3>1. FirstPrice(q)' = first
        BY <1>3
      <3>2. n + 1 \in DOMAIN offered' /\ offered'[n + 1] = item
        BY <1>1
      <3>3. z[n + 1] = offered'[n + 1].units * FirstPrice(q)'
        BY <3>2
      <3> QED BY <3>1, <3>2, <3>3
    <2>5. Worth = Sum(s) /\ Worth' = Sum(z)
      BY DEF Worth
    <2> HIDE DEF s, z, e
    <2>6. z \in Seq(Int)
      <3>1. \A i \in 1 .. n + 1 : z[i] \in Int
        BY <2>1, <2>3, <2>4
      <3> QED BY <1>1, <2>2, <3>1
    <2>7. z = Append(s, e)
      BY <2>1, <2>2, <2>3, <2>4, <2>6
    <2>8. Sum(z) = Sum(s) + e
      BY <2>1, <2>7, SumAppend
    <2> QED BY <2>5, <2>8 DEF e
  <1>7. ASSUME NEW p, p # q
        PROVE  OfferedOf(p)' = OfferedOf(p) /\ UnitsOffered(p)' = UnitsOffered(p)
    <2>1. OfferedOf(p)' = OfferedOf(p) \cup {}
      BY <1>3, <1>7
    <2>2. UnitsOffered(p)' = UnitsOffered(p) + 0
      BY <1>3, <1>7
    <2>3. UnitsOffered(p) \in Int
      BY <1>4
    <2> QED BY <2>1, <2>2, <2>3
  <1>8. OfferedOf(q)' # {} /\ UnitsOffered(q)' = UnitsOffered(q) + item.units
    BY <1>3
  <1>9. FirstPrice(q)' = first
    BY <1>3
  <1> QED BY <1>3, <1>5, <1>6, <1>7, <1>8, <1>9

(* What the lines are worth when one of them changes, or one is added.     *)
LEMMA TotalOfLines ==
    ASSUME TypeOK, TypeOK'
    PROVE  /\ Len(lines') = Len(lines)
              /\ (\A i \in DOMAIN lines :
                    lines'[i].units = lines[i].units /\ lines'[i].price = lines[i].price)
                => GetTotal(lines)' = GetTotal(lines)
           /\ \A j \in DOMAIN lines :
                 /\ Len(lines') = Len(lines)
                 /\ lines'[j].price = lines[j].price
                 /\ \A i \in DOMAIN lines : i # j => lines'[i] = lines[i]
                 => GetTotal(lines)' = GetTotal(lines)
                       + (lines'[j].units * lines[j].price - lines[j].units * lines[j].price)
           /\ \A l \in Line : lines' = Append(lines, l) =>
                 GetTotal(lines)' = GetTotal(lines) + l.units * l.price
  <1> DEFINE s == [i \in DOMAIN lines |-> lines[i].units * lines[i].price]
             z == [i \in DOMAIN lines |-> lines[i].units * lines[i].price]'
  <1>1. /\ s \in Seq(Int) /\ DOMAIN s = DOMAIN lines /\ Len(s) = Len(lines)
        /\ \A i \in DOMAIN lines : s[i] = lines[i].units * lines[i].price
        /\ s = [i \in DOMAIN s |-> s[i]]
    BY Summands, ItemsAndLines
  <1>2. /\ \A i \in DOMAIN lines' : lines'[i].units \in Int /\ lines'[i].price \in Int
        /\ DOMAIN lines' = 1 .. Len(lines') /\ Len(lines') \in Nat
    <2>1. lines' \in Seq(Line)
      BY DEF TypeOK
    <2>2. \A l \in Line : l.units \in Int /\ l.price \in Int
      <3>1. -IntMax - 1 .. IntMax \subseteq Int /\ Price \subseteq Int
        BY ItemAssumption
      <3> QED BY <3>1 DEF Line
    <2> QED BY <2>1, <2>2
  <1>3. /\ DOMAIN z = 1 .. Len(lines') /\ z = [i \in DOMAIN z |-> z[i]]
        /\ \A i \in 1 .. Len(lines') : z[i] = lines'[i].units * lines'[i].price
    BY <1>2
  <1>4. GetTotal(lines) = Sum(s) /\ GetTotal(lines)' = Sum(z)
    BY DEF GetTotal
  <1> HIDE DEF s, z
  <1>5. z \in Seq(Int) /\ Len(z) = Len(lines')
    <2>1. \A i \in 1 .. Len(lines') : z[i] \in Int
      BY <1>2, <1>3, TimesType
    <2> QED BY <1>2, <1>3, <2>1
  <1>6. ASSUME Len(lines') = Len(lines),
               \A i \in DOMAIN lines :
                  lines'[i].units = lines[i].units /\ lines'[i].price = lines[i].price
        PROVE  GetTotal(lines)' = GetTotal(lines)
    <2>1. DOMAIN lines = 1 .. Len(lines')
      BY <1>6, ItemsAndLines
    <2>2. DOMAIN z = DOMAIN s /\ \A i \in DOMAIN s : z[i] = s[i]
      BY <1>1, <1>3, <1>6, <2>1
    <2>3. z = s
      BY <1>1, <1>3, <2>2
    <2> QED BY <1>4, <2>3
  <1>7. ASSUME NEW j \in DOMAIN lines, Len(lines') = Len(lines),
               lines'[j].price = lines[j].price,
               \A i \in DOMAIN lines : i # j => lines'[i] = lines[i]
        PROVE  GetTotal(lines)' = GetTotal(lines)
                  + (lines'[j].units * lines[j].price - lines[j].units * lines[j].price)
    <2>1. DOMAIN lines = 1 .. Len(lines')
      BY <1>7, ItemsAndLines
    <2>2. \A i \in DOMAIN s : i # j => z[i] = s[i]
      BY <1>1, <1>3, <1>7, <2>1
    <2>3. j \in DOMAIN s /\ Len(z) = Len(s)
      BY <1>1, <1>5, <1>7
    <2>4. Sum(z) = Sum(s) + (z[j] - s[j])
      BY <1>1, <1>5, <2>2, <2>3, SumChanged
    <2>5. z[j] = lines'[j].units * lines[j].price /\ s[j] = lines[j].units * lines[j].price
      BY <1>1, <1>3, <1>7, <2>1
    <2> QED BY <1>4, <2>4, <2>5
  <1>8. ASSUME NEW l \in Line, lines' = Append(lines, l)
        PROVE  GetTotal(lines)' = GetTotal(lines) + l.units * l.price
    <2> DEFINE e == l.units * l.price
    <2>1. /\ Len(lines') = Len(lines) + 1
          /\ lines'[Len(lines) + 1] = l
          /\ \A i \in 1 .. Len(lines) : lines'[i] = lines[i]
          /\ DOMAIN lines = 1 .. Len(lines) /\ Len(lines) \in Nat
      BY <1>8 DEF TypeOK
    <2>2. z[Len(lines) + 1] = e /\ e \in Int
      <3>1. Len(lines) + 1 \in 1 .. Len(lines')
        BY <2>1
      <3>2. z[Len(lines) + 1] = e
        BY <1>3, <2>1, <3>1
      <3>3. z[Len(lines) + 1] \in Int
        BY <1>3, <1>5, <3>1
      <3> QED BY <3>2, <3>3
    <2> HIDE DEF e
    <2>3. \A i \in 1 .. Len(lines) : z[i] = s[i]
      BY <1>1, <1>3, <2>1
    <2>4. z = Append(s, e)
      BY <1>1, <1>5, <2>1, <2>2, <2>3
    <2>5. Sum(z) = Sum(s) + e
      BY <1>1, <2>2, <2>4, SumAppend
    <2> QED BY <1>4, <2>5 DEF e
  <1> QED BY <1>6, <1>7, <1>8

(* What OfferItem finds out about the product of the item.                 *)
LEMMA UnitsNotNegative ==
    ASSUME LInv, NEW p \in Product PROVE UnitsOffered(p) \in Nat
  <1>1. UnitsOffered(p) \in Int
    BY Summands, SumType DEF UnitsOffered, LInv
  <1>2. ProductInv(p)
    BY DEF LInv
  <1> QED BY <1>1, <1>2 DEF ProductInv

(* Numbers an int is large enough for do not wrap.                         *)
LEMMA WrapFits == ASSUME NEW n \in 0 .. IntMax PROVE Wrap(n) = n
  <1> DEFINE m == 2 * IntMax + 2
             k == n + IntMax + 1
  <1>1. IntMax \in Nat /\ m \in Nat \ {0} /\ k \in 0 .. m - 1
    BY ItemAssumption
  <1>2. k % m = k
    <2> HIDE DEF m, k
    <2> QED BY <1>1
  <1> QED BY <1>1, <1>2 DEF Wrap

(* The first item of a product becomes a line.                             *)
LEMMA NewLineStep ==
    ASSUME LInv, NEW item \in Item, TypeOK', phase' = phase, phase = "building",
           offered' = Append(offered, item), lines' = Append(lines, item),
           LinesOf(lines, item.product) = {}, ~ InvalidLine(item)
    PROVE  LInv'
  <1> DEFINE q == item.product
             n == Len(lines)
  <1>1. TypeOK /\ q \in Product /\ item.units \in Int /\ item.price \in Int
        /\ item.discount \in Int /\ item.units >= 1 /\ item \in Line
    <2>1. Units \subseteq Int /\ Price \subseteq Int /\ Discount \subseteq Int
          /\ Units \subseteq -IntMax - 1 .. IntMax
      BY ItemAssumption
    <2>2. TypeOK /\ q \in Product /\ item.units \in Int /\ item.price \in Int
          /\ item.discount \in Int /\ item \in Line
      BY <2>1 DEF LInv, Item, Line
    <2>3. ~ (item.units <= 0)
      BY DEF InvalidLine
    <2> QED BY <2>2, <2>3
  <1>2. OfferedOf(q) = {} /\ UnitsOffered(q) = 0
    BY <1>1 DEF LInv, ProductInv
  <1>3. /\ \A p : p # q =>
              /\ OfferedOf(p)' = OfferedOf(p)
              /\ UnitsOffered(p)' = UnitsOffered(p)
              /\ DiscountsOffered(p)' = DiscountsOffered(p)
              /\ OfferedOf(p) # {} => FirstPrice(p)' = FirstPrice(p)
        /\ OfferedOf(q)' # {}
        /\ UnitsOffered(q)' = UnitsOffered(q) + item.units
        /\ DiscountsOffered(q)' = DiscountsOffered(q) \cup {item.discount}
        /\ FirstPrice(q)' = item.price
        /\ Worth' = Worth + item.units * item.price
    BY <1>1, <1>2, OneMoreItem
  <1>4. /\ n \in Nat /\ DOMAIN lines = 1 .. n /\ DOMAIN lines' = 1 .. n + 1
        /\ \A i \in 1 .. n : lines'[i] = lines[i] /\ lines[i].product # q
                             /\ lines[i].product \in Product
        /\ lines'[n + 1] = item
    BY <1>1, ItemsAndLines DEF LinesOf
  <1>5. DiscountsOffered(q) = {} /\ UnitsOffered(q)' = item.units
    BY <1>1, <1>2, <1>3 DEF DiscountsOffered
  <1> HIDE DEF n
  <1>6. ASSUME NEW p \in Product PROVE ProductInv(p)'
    <2>1. CASE p = q
      <3>1. n + 1 \in LinesOf(lines, q)'
        BY <1>4 DEF LinesOf
      <3> QED BY <1>1, <1>3, <1>5, <2>1, <3>1 DEF ProductInv
    <2>2. CASE p # q
      <3>1. LinesOf(lines, p) # {} => LinesOf(lines, p)' # {}
        BY <1>4 DEF LinesOf
      <3>2. ProductInv(p)
        BY DEF LInv
      <3> QED BY <1>3, <2>2, <3>1, <3>2 DEF ProductInv
    <2> QED BY <2>1, <2>2
  <1>7. ASSUME NEW i \in DOMAIN lines' PROVE LineInv(lines[i])' /\ DiscountInv(lines[i])'
    <2>1. CASE i = n + 1
      <3>1. lines'[i] = item
        BY <1>4, <2>1
      <3>2. LineInv(lines[i])'
        BY <1>3, <1>5, <3>1 DEF LineInv
      <3>3. DiscountsOffered(q)' = {item.discount}
        BY <1>3, <1>5
      <3>4. DiscountInv(lines[i])'
        BY <1>1, <3>1, <3>3 DEF DiscountInv
      <3> QED BY <3>2, <3>4
    <2>2. CASE i \in 1 .. n
      <3>1. lines'[i] = lines[i] /\ lines[i].product # q
        BY <1>4, <2>2
      <3>2. LineInv(lines[i]) /\ DiscountInv(lines[i])
        BY <1>4, <2>2 DEF LInv
      <3>3. LineInv(lines[i])'
        BY <1>3, <3>1, <3>2 DEF LineInv
      <3>4. DiscountInv(lines[i])'
        BY <1>3, <3>1, <3>2 DEF DiscountInv
      <3> QED BY <3>3, <3>4
    <2> QED BY <1>4, <2>1, <2>2
  <1>8. ASSUME NEW i \in DOMAIN lines', NEW j \in DOMAIN lines',
               lines'[i].product = lines'[j].product
        PROVE  i = j
    <2>1. CASE i \in 1 .. n /\ j \in 1 .. n
      BY <1>4, <1>8, <2>1 DEF LInv
    <2> QED BY <1>4, <1>8, <2>1
  <1>9. ASSUME \A p \in Product : UnitsOffered(p)' <= IntMax PROVE GetTotal(lines)' = Worth'
    <2>1. \A p \in Product : UnitsOffered(p) <= IntMax
      <3> TAKE p \in Product
      <3>1. IntMax \in Nat /\ UnitsOffered(p)' <= IntMax
        BY <1>9, ItemAssumption
      <3> QED BY <1>2, <1>3, <3>1
    <2>2. GetTotal(lines) = Worth
      BY <2>1 DEF LInv
    <2>3. GetTotal(lines)' = GetTotal(lines) + item.units * item.price
      BY <1>1, TotalOfLines
    <2> QED BY <1>3, <2>2, <2>3
  <1> QED BY <1>6, <1>7, <1>8, <1>9 DEF LInv

(* A later item of a product is merged into its line.                      *)
LEMMA MergeStep ==
    ASSUME LInv, NEW item \in Item, TypeOK', phase' = phase, phase = "building",
           offered' = Append(offered, item),
           lines' = [i \in DOMAIN lines |-> IF lines[i].product = item.product
                                            THEN Merged(lines[i], item) ELSE lines[i]],
           NEW j \in LinesOf(lines, item.product), ~ InvalidMerge(lines[j], item)
    PROVE  LInv'
  <1> DEFINE q == item.product
             old == lines[j]
  <1>1. TypeOK /\ q \in Product /\ item.units \in Nat /\ item.price \in Int
        /\ item.discount \in Int
    <2>1. Units \subseteq Int /\ Price \subseteq Int /\ Discount \subseteq Int
      BY ItemAssumption
    <2>2. item.units \in Int /\ ~ (item.units < 0)
      BY <2>1 DEF Item, InvalidMerge
    <2>3. item.units \in Nat
      BY <2>2
    <2> QED BY <2>1, <2>3 DEF LInv, Item
  <1>2. /\ j \in DOMAIN lines /\ old.product = q /\ old \in Line
        /\ old.units \in Int /\ old.price \in Int /\ old.discount \in Int
        /\ LineInv(old) /\ DiscountInv(old)
    BY <1>1, ItemsAndLines DEF LinesOf, LInv
  <1>3. /\ OfferedOf(q) # {} /\ FirstPrice(q) = old.price /\ UnitsOffered(q) \in Nat
        /\ UnitsOffered(q) >= 1
    BY <1>1, <1>2, UnitsNotNegative DEF LineInv, LInv, ProductInv
  <1>4. /\ \A p : p # q =>
              /\ OfferedOf(p)' = OfferedOf(p)
              /\ UnitsOffered(p)' = UnitsOffered(p)
              /\ DiscountsOffered(p)' = DiscountsOffered(p)
              /\ OfferedOf(p) # {} => FirstPrice(p)' = FirstPrice(p)
        /\ OfferedOf(q)' # {}
        /\ UnitsOffered(q)' = UnitsOffered(q) + item.units
        /\ DiscountsOffered(q)' = DiscountsOffered(q) \cup {item.discount}
        /\ FirstPrice(q)' = old.price
        /\ Worth' = Worth + item.units * old.price
    BY <1>1, <1>2, <1>3, OneMoreItem
  <1>5. /\ DOMAIN lines' = DOMAIN lines /\ Len(lines') = Len(lines)
        /\ \A i \in DOMAIN lines : lines[i].product = q => i = j
        /\ \A i \in DOMAIN lines : i # j => lines'[i] = lines[i]
        /\ lines'[j] = Merged(old, item)
    <2>1. \A i \in DOMAIN lines : lines[i].product = q => i = j
      BY <1>2 DEF LInv
    <2>2. DOMAIN lines' = DOMAIN lines /\ lines' \in Seq(Line) /\ lines \in Seq(Line)
      BY <1>1 DEF TypeOK
    <2> QED BY <1>2, <2>1, <2>2
  <1>6. /\ lines'[j].product = q
        /\ lines'[j].price = old.price
        /\ lines'[j].units = Wrap(old.units + item.units)
        /\ lines'[j].discount = HigherDiscount(old, item)
    BY <1>2, <1>5 DEF Merged, MergedUnits, Line
  <1>7. UnitsOffered(q)' <= IntMax =>
           /\ lines'[j].units = UnitsOffered(q)'
           /\ old.units = UnitsOffered(q)
    <2> SUFFICES ASSUME UnitsOffered(q)' <= IntMax
                 PROVE  lines'[j].units = UnitsOffered(q)' /\ old.units = UnitsOffered(q)
      OBVIOUS
    <2>1. IntMax \in Nat /\ UnitsOffered(q) <= IntMax
      BY <1>1, <1>3, <1>4, ItemAssumption
    <2>2. old.units = UnitsOffered(q)
      BY <1>2, <2>1 DEF LineInv
    <2>3. old.units + item.units = UnitsOffered(q)' /\ UnitsOffered(q)' \in 0 .. IntMax
      BY <1>1, <1>3, <1>4, <2>1, <2>2
    <2> QED BY <1>6, <2>2, <2>3, WrapFits
  <1>8. ASSUME NEW p \in Product PROVE ProductInv(p)'
    <2>1. LinesOf(lines, p) # {} => LinesOf(lines, p)' # {}
      <3>1. \A i \in DOMAIN lines : lines'[i].product = lines[i].product
        BY <1>2, <1>5, <1>6
      <3> QED BY <1>5, <3>1 DEF LinesOf
    <2>2. ProductInv(p)
      BY DEF LInv
    <2>3. CASE p = q
      <3>1. UnitsOffered(q)' >= 1
        BY <1>1, <1>3, <1>4
      <3>2. j \in LinesOf(lines, q)
        OBVIOUS
      <3> QED BY <1>4, <2>1, <2>3, <3>1, <3>2 DEF ProductInv
    <2>4. CASE p # q
      BY <1>4, <2>1, <2>2, <2>4 DEF ProductInv
    <2> QED BY <2>3, <2>4
  <1>9. ASSUME NEW i \in DOMAIN lines' PROVE LineInv(lines[i])' /\ DiscountInv(lines[i])'
    <2>1. CASE i = j
      <3>1. LineInv(lines[j])'
        BY <1>4, <1>6, <1>7 DEF LineInv
      <3>2. DiscountInv(lines[j])'
        <4> DEFINE new == HigherDiscount(old, item)
        <4>1. new \in {old.discount, item.discount} /\ new >= old.discount /\ new >= item.discount
          BY <1>1, <1>2 DEF HigherDiscount
        <4>2. new \in DiscountsOffered(q)'
          BY <1>2, <1>4, <4>1 DEF DiscountInv
        <4>3. ASSUME NEW d \in DiscountsOffered(q)' PROVE d <= new
          <5>1. CASE d = item.discount
            BY <4>1, <5>1
          <5>2. CASE d \in DiscountsOffered(q)
            <6>1. d <= old.discount /\ d \in Int
              <7>1. d <= old.discount
                BY <1>2, <5>2 DEF DiscountInv
              <7>2. d \in Int
                BY <1>1, <5>2, ItemsAndLines DEF DiscountsOffered, OfferedOf
              <7> QED BY <7>1, <7>2
            <6>2. new \in Int
              BY <1>1, <1>2, <4>1
            <6> QED BY <1>2, <4>1, <6>1, <6>2
          <5> QED BY <1>4, <5>1, <5>2
        <4> HIDE DEF new
        <4>4. lines'[j].discount = new
          BY <1>6 DEF new
        <4> QED BY <1>6, <4>2, <4>3, <4>4 DEF DiscountInv
      <3> QED BY <2>1, <3>1, <3>2
    <2>2. CASE i # j
      <3>1. lines'[i] = lines[i] /\ lines[i].product # q /\ i \in DOMAIN lines
        BY <1>5, <2>2
      <3>2. LineInv(lines[i]) /\ DiscountInv(lines[i])
        BY <3>1 DEF LInv
      <3>3. LineInv(lines[i])'
        BY <1>4, <3>1, <3>2 DEF LineInv
      <3>4. DiscountInv(lines[i])'
        BY <1>4, <3>1, <3>2 DEF DiscountInv
      <3> QED BY <3>3, <3>4
    <2> QED BY <2>1, <2>2
  <1>10. ASSUME NEW i \in DOMAIN lines', NEW k \in DOMAIN lines',
                lines'[i].product = lines'[k].product
         PROVE  i = k
    <2>1. \A m \in DOMAIN lines : lines'[m].product = lines[m].product
      BY <1>2, <1>5, <1>6
    <2> QED BY <1>5, <1>10, <2>1 DEF LInv
  <1>11. ASSUME \A p \in Product : UnitsOffered(p)' <= IntMax PROVE GetTotal(lines)' = Worth'
    <2>1. \A p \in Product : UnitsOffered(p) <= IntMax
      <3> TAKE p \in Product
      <3>1. IntMax \in Nat /\ UnitsOffered(p)' <= IntMax
        BY <1>11, ItemAssumption
      <3> QED BY <1>1, <1>3, <1>4, <3>1
    <2>2. GetTotal(lines) = Worth
      BY <2>1 DEF LInv
    <2>3. GetTotal(lines)' = GetTotal(lines)
             + (lines'[j].units * old.price - old.units * old.price)
      BY <1>1, <1>2, <1>5, <1>6, TotalOfLines
    <2>4. lines'[j].units = old.units + item.units
      BY <1>1, <1>4, <1>7, <1>11
    <2>5. lines'[j].units * old.price = old.units * old.price + item.units * old.price
      <3> DEFINE a == old.units
                 b == item.units
                 c == old.price
      <3>1. a \in Int /\ b \in Int /\ c \in Int
        BY <1>1, <1>2
      <3> HIDE DEF a, b, c
      <3>2. (a + b) * c = a * c + b * c
        BY <3>1
      <3> QED BY <2>4, <3>2 DEF a, b, c
    <2>6. Worth \in Int /\ old.units * old.price \in Int /\ item.units * old.price \in Int
      BY <1>1, <1>2, Summands, SumType, TimesType DEF Worth
    <2> QED BY <1>4, <2>2, <2>3, <2>5, <2>6
  <1> QED BY <1>8, <1>9, <1>10, <1>11 DEF LInv

(* A merge that throws has changed a discount at most.                     *)
LEMMA ThrowStep ==
    ASSUME LInv, NEW item \in Item, TypeOK', phase' = "refused",
           offered' = offered, lines' = AfterThrow(lines, item)
    PROVE  LInv'
  <1>1. /\ \A p : OfferedOf(p)' = OfferedOf(p)
        /\ \A p : UnitsOffered(p)' = UnitsOffered(p)
        /\ \A p : FirstPrice(p)' = FirstPrice(p)
    BY DEF OfferedOf, UnitsOffered, FirstPrice
  <1>2. Worth' = Worth
    BY DEF Worth, FirstPrice, OfferedOf
  <1>3. /\ lines \in Seq(Line) /\ lines' \in Seq(Line)
        /\ DOMAIN lines' = DOMAIN lines /\ Len(lines') = Len(lines)
    BY DEF LInv, TypeOK, AfterThrow
  <1>4. \A i \in DOMAIN lines : /\ lines'[i].product = lines[i].product
                                /\ lines'[i].units = lines[i].units
                                /\ lines'[i].price = lines[i].price
    <2>1. \A i \in DOMAIN lines : lines[i] \in Line
      BY <1>3
    <2> QED BY <2>1 DEF AfterThrow, Line
  <1>5. GetTotal(lines)' = GetTotal(lines)
    BY <1>3, <1>4, TotalOfLines DEF LInv
  <1>6. \A p \in Product : ProductInv(p)'
    <2>1. \A p : LinesOf(lines, p)' = LinesOf(lines, p)
      BY <1>3, <1>4 DEF LinesOf
    <2> QED BY <1>1, <2>1 DEF LInv, ProductInv
  <1>7. \A i \in DOMAIN lines' : LineInv(lines[i])'
    BY <1>1, <1>3, <1>4 DEF LInv, LineInv
  <1>8. \A i, j \in DOMAIN lines' : lines'[i].product = lines'[j].product => i = j
    BY <1>3, <1>4 DEF LInv
  <1>9. (\A p \in Product : UnitsOffered(p)' <= IntMax) => GetTotal(lines)' = Worth'
    BY <1>1, <1>2, <1>5 DEF LInv
  <1> QED BY <1>6, <1>7, <1>8, <1>9 DEF LInv

(* No lines and no items yet, or no longer.                                *)
Empty == lines = <<>> /\ offered = <<>>

LEMMA NoItems == TypeOK /\ Empty => LInv
  <1> SUFFICES ASSUME TypeOK, Empty PROVE LInv
    OBVIOUS
  <1> USE DEF Empty
  <1>1. \A p : OfferedOf(p) = {}
    BY DEF OfferedOf
  <1>2. ASSUME NEW p PROVE UnitsOffered(p) = 0
    <2>1. [i \in DOMAIN offered |->
             IF offered[i].product = p THEN offered[i].units ELSE 0] = <<>>
      OBVIOUS
    <2> QED BY <2>1, SumEmpty DEF UnitsOffered
  <1>3. GetTotal(lines) = 0
    <2>1. [i \in DOMAIN lines |-> lines[i].units * lines[i].price] = <<>>
      OBVIOUS
    <2> QED BY <2>1, SumEmpty DEF GetTotal
  <1>4. Worth = 0
    <2>1. [i \in DOMAIN offered |-> offered[i].units * FirstPrice(offered[i].product)] = <<>>
      OBVIOUS
    <2> QED BY <2>1, SumEmpty DEF Worth
  <1>5. DOMAIN lines = {}
    OBVIOUS
  <1> QED BY <1>1, <1>2, <1>3, <1>4, <1>5 DEF LInv, ProductInv

(* One step per outcome of an item, and one for saving.                    *)
LEMMA StepLInv == LInv /\ TypeOK' /\ [Next]_vars => LInv' \/ Empty'
  <1> SUFFICES ASSUME LInv, TypeOK', [Next]_vars PROVE LInv' \/ Empty'
    OBVIOUS
  <1>1. ASSUME NEW item \in Item, OfferItem(item) PROVE LInv'
    <2>1. CASE AddOrderItemThrows(lines, item)
      BY <1>1, <2>1, ThrowStep DEF OfferItem
    <2>2. CASE ~ AddOrderItemThrows(lines, item)
      <3>1. /\ phase' = phase /\ phase = "building" /\ offered' = Append(offered, item)
            /\ lines' = AddOrderItem(lines, item)
        BY <1>1, <2>2 DEF OfferItem
      <3>2. CASE LinesOf(lines, item.product) = {}
        BY <2>2, <3>1, <3>2, NewLineStep DEF AddOrderItem, AddOrderItemThrows
      <3>3. CASE LinesOf(lines, item.product) # {}
        <4>1. PICK j \in LinesOf(lines, item.product) : ~ InvalidMerge(lines[j], item)
          BY <2>2, <3>3 DEF AddOrderItemThrows
        <4> QED BY <3>1, <3>3, <4>1, MergeStep DEF AddOrderItem
      <3> QED BY <3>2, <3>3
    <2> QED BY <2>1, <2>2
  <1>2. CASE SaveNew
    BY <1>2 DEF SaveNew, Empty
  <1>3. ASSUME UNCHANGED <<phase, lines, offered>> PROVE LInv'
    <2>1. lines' = lines /\ offered' = offered /\ phase' = phase
      BY <1>3
    <2>2. /\ \A p : OfferedOf(p)' = OfferedOf(p)
          /\ \A p : UnitsOffered(p)' = UnitsOffered(p)
          /\ \A p : FirstPrice(p)' = FirstPrice(p)
      BY <2>1 DEF OfferedOf, UnitsOffered, FirstPrice
    <2>3. Worth' = Worth /\ GetTotal(lines)' = GetTotal(lines)
      BY <2>1 DEF Worth, FirstPrice, OfferedOf, GetTotal
    <2>4. /\ \A p : DiscountsOffered(p)' = DiscountsOffered(p)
          /\ \A p : LinesOf(lines, p)' = LinesOf(lines, p)
      BY <2>1 DEF DiscountsOffered, OfferedOf, LinesOf
    <2>5. \A p \in Product : ProductInv(p)'
      BY <2>2, <2>4 DEF LInv, ProductInv
    <2>6. \A i \in DOMAIN lines' : LineInv(lines[i])'
      BY <2>1, <2>2 DEF LInv, LineInv
    <2>7. phase' = "building" => \A i \in DOMAIN lines' : DiscountInv(lines[i])'
      BY <2>1, <2>4 DEF LInv, DiscountInv
    <2>8. (\A p \in Product : UnitsOffered(p)' <= IntMax) => GetTotal(lines)' = Worth'
      BY <2>2, <2>3 DEF LInv
    <2> QED BY <2>1, <2>5, <2>6, <2>7, <2>8 DEF LInv
  <1>4. ASSUME NEW s \in Session,
               \/ Load(s)
               \/ SetAwaitingValidationStatus(s) \/ SetStockConfirmedStatus(s)
               \/ SetPaidStatus(s) \/ SetShippedStatus(s)
               \/ SetCancelledStatus(s) \/ SetCancelledStatusWhenStockIsRejected(s)
               \/ StatusChangeException(s)
               \/ SaveEntities(s) \/ SaveFails(s) \/ Abandon(s)
        PROVE  UNCHANGED <<phase, lines, offered>>
    BY <1>4 DEF Load, SetAwaitingValidationStatus, SetStockConfirmedStatus, SetPaidStatus,
       SetShippedStatus, SetCancelledStatus, SetCancelledStatusWhenStockIsRejected,
       SetStatus, StatusChangeException, SaveEntities, SaveFails, Abandon
  <1> QED BY <1>1, <1>2, <1>3, <1>4 DEF Next, Rests, vars

(* The lines of a new order account for the items accepted so far.         *)
THEOREM LinesInvariance == Spec => []LInv
  <1>1. Init => Empty
    BY DEF Init, Empty
  <1> QED BY <1>1, NoItems, StepLInv, TypeCorrect, PTL DEF Spec

(* However many items are offered in whatever order, a product has one     *)
(* line, and the order is worth its items at the first price of each       *)
(* product, unless an int is too small for the units of one.               *)
THEOREM TotalIsCombinedHolds == Spec => []TotalIsCombined
  <1>1. LInv => TotalIsCombined
    BY DEF LInv, TotalIsCombined, Worth
  <1> QED BY <1>1, LinesInvariance, PTL

(* However items are merged, the highest discount accepted for a product   *)
(* is that of its line.                                                    *)
THEOREM HighestDiscountWinsHolds == Spec => []HighestDiscountWins
  <1>1. ASSUME LInv, phase = "building", NEW l \in ToSet(lines)
        PROVE  /\ l.discount = Max(DiscountsOffered(l.product))
               /\ UnitsOffered(l.product) <= IntMax => l.units > 0
    <2>1. PICK i \in DOMAIN lines : l = lines[i]
      BY DEF ToSet
    <2>2. LineInv(l) /\ DiscountInv(l) /\ l.product \in Product
      BY <1>1, <2>1, ItemsAndLines DEF LInv
    <2>3. DiscountsOffered(l.product) \in SUBSET Int
      BY <1>1, ItemsAndLines DEF LInv, DiscountsOffered, OfferedOf
    <2>4. l.discount = Max(DiscountsOffered(l.product))
      BY <2>2, <2>3, MaxIs DEF DiscountInv
    <2>5. UnitsOffered(l.product) >= 1 /\ UnitsOffered(l.product) \in Nat
      BY <1>1, <2>2, UnitsNotNegative DEF LInv, ProductInv, LineInv
    <2>6. UnitsOffered(l.product) <= IntMax => l.units > 0
      BY <2>2, <2>5 DEF LineInv
    <2> QED BY <2>4, <2>6
  <1>2. LInv => HighestDiscountWins
    BY <1>1 DEF HighestDiscountWins, DiscountsOffered
  <1> QED BY <1>2, LinesInvariance, PTL
=============================================================================
