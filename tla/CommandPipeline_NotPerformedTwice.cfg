SPECIFICATION Spec
CONSTANTS
    Scope = {s1, s2}
    RequestId = {r1}
    create = r1
    cancel = r2
    refusedCreate = r3
    missingCancel = r4
    invalidCancel = r5
    otherCancel = r6
    order = o1
    OrderNumber = {o1}
    MaxRetryCount = 1
    Faults = {"statement", "commit"}
    Command <- MCCommand
INVARIANT NotPerformedTwice
