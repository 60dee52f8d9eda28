------------------------- MODULE IdempotentReceiver -------------------------
(***************************************************************************)
(* What the idempotency folder of Ordering.Infrastructure promises to a    *)
(* sender: a request id is executed in one atomic step, once; its event is *)
(* announced and its sender told "done" only after that step.              *)
(***************************************************************************)
CONSTANT RequestId

VARIABLES
    executed,   \* request ids whose command was executed
    applied,    \* those among them whose command changed an order
    announced,  \* those whose integration event is on the bus
    confirmed   \* those whose sender was told that it is done

vars == <<executed, applied, announced, confirmed>>

Init == executed = {} /\ applied = {} /\ announced = {} /\ confirmed = {}

(* The command runs, and may or may not be accepted by the domain model.   *)
Execute(r) ==
    /\ r \notin executed
    /\ executed' = executed \cup {r}
    /\ applied' \in {applied, applied \cup {r}}
    /\ UNCHANGED <<announced, confirmed>>

Announce(r) ==
    /\ r \in executed
    /\ announced' = announced \cup {r}
    /\ UNCHANGED <<executed, applied, confirmed>>

Confirm(r) ==
    /\ r \in executed
    /\ confirmed' = confirmed \cup {r}
    /\ UNCHANGED <<executed, applied, announced>>

Next == \E r \in RequestId : Execute(r) \/ Announce(r) \/ Confirm(r)

Spec == Init /\ [][Next]_vars
=============================================================================
