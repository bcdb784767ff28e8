SPECIFICATION UringFairSpec
CONSTANTS
    UNone = UNone
    UWake = UWake
    UThreads = {t1, t2}
    UOps = {o1, o2}
    SqEntries = 2
    UQueueSize = 2
    UPolicies = {"default", "spin", "sqpoll"}
    UFlushes = {FALSE}
    USyncs = {TRUE}
    UCalls = {"submit", "cancel", "flush", "stop"}
    UHandlerCalls = {"submit", "cancel", "stop"}
    UNestedStops = FALSE
    UMaxCalls = 3
INVARIANTS
    UringHoldsPending
PROPERTIES
    UringKeepsPromise
    UringStopEnds
CHECK_DEADLOCK FALSE
