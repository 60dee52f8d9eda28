\* Two hosts, the policies of the code, five exceptions or crashes.
SPECIFICATION FairSpec
CONSTANTS
    Host = {h1, h2}
    RetryCount = 3
    MaxFaults = 5
INVARIANTS
    TypeOK
    RunsSeeded
PROPERTIES
    EveryHostRuns
