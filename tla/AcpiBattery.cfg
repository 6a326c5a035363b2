SPECIFICATION FairSpec
CONSTANTS
    t1 = t1
    t2 = t2
    NoThread = NoThread
    Threads = {t1, t2}
    Calls <- MCCalls
    Preemptive = TRUE
    Size = 10
    Statuses <- MCStatuses
    Infos <- MCInfos
    NTexts = 2
    MaxWrites = 1
INVARIANTS
    BstSnapshot
    BifWhole
PROPERTIES
    MethodReturns
