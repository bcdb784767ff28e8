SPECIFICATION FairSpec
CONSTANTS
    t1 = t1
    t2 = t2
    f1 = f1
    f2 = f2
    h1 = h1
    h2 = h2
    h3 = h3
    None = None
    Loop = Loop
    Wakeup = Wakeup
    Threads = {t1, t2}
    Fds = {f1}
    Handlers = {h1}
    Masks <- ReadMask
    Kinds = {"in"}
    QueueSize = 2
    MaxEvents = 3
    MaxRuns = 1
    Ops = {"add", "del", "stop"}
    Syncs = {TRUE}
INVARIANTS
    NoLostWakeup
    WakeupCoalesced
PROPERTIES
    LoopServes
CHECK_DEADLOCK FALSE
