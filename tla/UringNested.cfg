SPECIFICATION UringSpec
CONSTANTS
    UNone = UNone
    UWake = UWake
    UThreads = {t1, t2}
    UOps = {o1, o2}
    SqEntries = 2
    UQueueSize = 2
    UPolicies = {"default", "spin", "sqpoll"}
    UFlushes = {FALSE}
    USyncs = {TRUE}
    UCalls = {"submit", "cancel", "flush", "stop"}
    UHandlerCalls = {"submit", "cancel", "stop"}
    UNestedStops = TRUE
    UMaxCalls = 3
INVARIANT UringOneCallback
CHECK_DEADLOCK FALSE
