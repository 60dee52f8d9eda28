SPECIFICATION Spec
CONSTANTS
    Scope = {s1, s2}
    RequestId = {r3}
    create = r1
    cancel = r2
    refusedCreate = r3
    missingCancel = r4
    invalidCancel = r5
    otherCancel = r6
    order = o1
    OrderNumber = {o1}
    MaxRetryCount = 1
    Faults = {}
    Command <- MCCommand
INVARIANT StartedOrderExists
