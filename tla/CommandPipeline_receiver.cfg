\* Two deliveries of any of six requests; every fault but those of the commit.
SPECIFICATION FairSpec
CONSTANTS
    Scope = {s1, s2}
    RequestId = {r1, r2, r3, r4, r5, r6}
    create = r1
    cancel = r2
    refusedCreate = r3
    missingCancel = r4
    invalidCancel = r5
    otherCancel = r6
    order = o1
    OrderNumber = {o1}
    MaxRetryCount = 2
    Faults = {"begin", "requests", "statement", "publish"}
    Command <- MCCommand
PROPERTIES
    EveryRequestEnds
    ImplementsReceiver
