\* Two threads, four connections in the end; the service may stop for good.
SPECIFICATION FairSpec
CONSTANTS
    Thread = {t1, t2}
    RetryCount = 1
    MaxCalls = 2
    MaxEvents = 3
    MaxFailures = 2
CHECK_DEADLOCK FALSE
INVARIANTS
    TypeOK
    WatchedWhenConnected
PROPERTIES
    LossIsMadeGood
    EveryCallReturns
