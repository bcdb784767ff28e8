SPECIFICATION FairSpec
CONSTANTS
    t1 = t1
    t2 = t2
    r0 = r0
    w0 = w0
    r1 = r1
    r2 = r2
    None = None
    Wakeup = Wakeup
    Threads = {t1, t2}
    Ops = {r0, w0, r1, r2}
    MaxFd = 2
    OpFd <- MCOpFd
    Writes = {w0}
    Connects = {w0}
    Pollable = {0, 1}
    Kinds = {"in", "out", "hup"}
    QueueSize = 2
    HandlerCalls = {"submit", "cancel", "stop"}
    Calls = {"submit", "cancel", "stop"}
    MaxCalls = 2
INVARIANTS
    OperationsSafe
    EventsMatched
CHECK_DEADLOCK FALSE
PROPERTIES
    KeepsPromise
    SyncReturns
