CONSTANTS
    node = node
    python = python
    n1 = n1
    n2 = n2
    n3 = n3
    n4 = n4
    p1 = p1
    p2 = p2
    p3 = p3
    Jobs <- MCJobs
    Runtimes <- MCRuntimes
    RuntimeOf <- MCRuntimeOf
    HighPriority <- MCHighPriority
    MaxTotal = 3
    MaxPerRuntime = 2

SPECIFICATION FairSpec

INVARIANTS
    TypeOK
    CountersMatchRunning
    NoLostWakeup

PROPERTIES
    StartsInTurn
    ImplementsPool
    HighPriorityServed
    NormalServedWhenHighIsQuiet
