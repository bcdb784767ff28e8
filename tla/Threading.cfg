SPECIFICATION FairSpec
CONSTANTS
    Owner = Owner
    NoThread = NoThread
    NullIdx = NullIdx
    Garbage = Garbage
    Parts = {"futex", "arena", "pool", "timer", "segment", "monitor", "thread", "semaphore", "statistics", "range"}
    Lockers = {t1, t2, t3}
    Users = {t1, t2}
    Classes = 2
    Count = 2
    MaxGen = 3
    Workers = {w1, w2}
    MaxJobs = 3
    TimerFns = {"f", "g"}
    NoFn = NoFn
    TornFn = TornFn
    MaxTicks = 2
    MaxArmings = 3
    Attachers = {"a", "b"}
    SegBytes = {2, 3, 4}
    PageSize = 2
    NoSeg = NoSeg
    MaxSegs = 2
    Procs = {"a", "b", "c"}
    NoProc = NoProc
    Handles = {"g", "h"}
    NoInvoker = 0
    MaxInvokers = 3
    SemUsers = {"a", "b", "c"}
    SemInitial = 2
    Recorders = {"a", "b"}
    Durations = {1, 9}
    HalfMagnitude = 1
    BucketCount = 2
    Percents = {50, 99}
    MaxStops = 2
    MaxElements = 9
    MaxCores = 4
    CpuCount = 3
INVARIANTS
    MutualExclusion
    NoLostWaiter
    ArenaSafe
    PoolSafe
    SharedObjectsSound
    HandedOverOnce
PROPERTIES
    SleepersServed
CHECK_DEADLOCK FALSE
