\* Three deliveries of two requests, every kind of fault, crashes.
SPECIFICATION Spec
CONSTANTS
    Scope = {s1, s2, s3}
    RequestId = {r1, r2}
    create = r1
    cancel = r2
    refusedCreate = r3
    missingCancel = r4
    invalidCancel = r5
    otherCancel = r6
    order = o1
    OrderNumber = {o1}
    MaxRetryCount = 1
    Faults = {"begin", "requests", "statement", "connection", "commit", "publish"}
    Command <- MCCommand
SYMMETRY ScopeSymmetry
INVARIANTS
    TypeOK
    AtMostOnce
    OkIsRecorded
    PublishedIsPersisted
    SettledOutbox
