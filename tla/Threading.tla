------------------------------ MODULE Threading ------------------------------
(***************************************************************************)
(* The building blocks that threads and processes share: the futex mutex,  *)
(* the arena, the thread pool, the timer, the shared memory segment, the   *)
(* process-shared mutex and condition, the thread handle, the semaphores   *)
(* and the statistics.  They have no state in common; part says which of   *)
(* them a behaviour exercises; "range" is one call of distribute or one    *)
(* detection of the cores.                                                 *)
(***************************************************************************)
EXTENDS Futex, Arena, ThreadPool, Timing, SharedObjects

CONSTANT Parts    \* bound: the parts examined

VARIABLE part

vars == <<part, futexVars, arenaVars, poolVars, timerVars, segmentVars, monitorVars, threadVars, semVars, statsVars, probeVars>>

Init ==
    /\ part \in Parts
    /\ FutexInit /\ ArenaInit /\ ThreadPoolInit /\ TimerInit /\ SegmentInit
    /\ MonitorInit /\ ThreadInit /\ SemInit /\ StatsInit
    /\ \/ part = "range" /\ DistributionInit
       \/ part # "range" /\ kind = "none" /\ input = <<>> /\ output = <<>>

InFutex(A) ==
    /\ part = "futex" /\ A
    /\ UNCHANGED <<part, arenaVars, poolVars, timerVars, segmentVars, monitorVars, threadVars, semVars, statsVars, probeVars>>
InArena(A) ==
    /\ part = "arena" /\ A
    /\ UNCHANGED <<part, futexVars, poolVars, timerVars, segmentVars, monitorVars, threadVars, semVars, statsVars, probeVars>>
InPool(A) ==
    /\ part = "pool" /\ A
    /\ UNCHANGED <<part, futexVars, arenaVars, timerVars, segmentVars, monitorVars, threadVars, semVars, statsVars, probeVars>>
InTimer(A) ==
    /\ part = "timer" /\ A
    /\ UNCHANGED <<part, futexVars, arenaVars, poolVars, segmentVars, monitorVars, threadVars, semVars, statsVars, probeVars>>
InSegment(A) ==
    /\ part = "segment" /\ A
    /\ UNCHANGED <<part, futexVars, arenaVars, poolVars, timerVars, monitorVars, threadVars, semVars, statsVars, probeVars>>
InMonitor(A) ==
    /\ part = "monitor" /\ A
    /\ UNCHANGED <<part, futexVars, arenaVars, poolVars, timerVars, segmentVars, threadVars, semVars, statsVars, probeVars>>
InThread(A) ==
    /\ part = "thread" /\ A
    /\ UNCHANGED <<part, futexVars, arenaVars, poolVars, timerVars, segmentVars, monitorVars, semVars, statsVars, probeVars>>
InSemaphore(A) ==
    /\ part = "semaphore" /\ A
    /\ UNCHANGED <<part, futexVars, arenaVars, poolVars, timerVars, segmentVars, monitorVars, threadVars, statsVars, probeVars>>
InStatistics(A) ==
    /\ part = "statistics" /\ A
    /\ UNCHANGED <<part, futexVars, arenaVars, poolVars, timerVars, segmentVars, monitorVars, threadVars, semVars, probeVars>>
InRange(A) ==
    /\ part = "range" /\ A
    /\ UNCHANGED <<part, futexVars, arenaVars, poolVars, timerVars, segmentVars, monitorVars, threadVars, semVars, statsVars>>

Next ==
    \/ InFutex(FutexNext) \/ InArena(ArenaNext) \/ InPool(ThreadPoolNext)
    \/ InTimer(TimerNext) \/ InSegment(SegmentNext) \/ InMonitor(MonitorNext)
    \/ InThread(ThreadNext) \/ InSemaphore(SemNext) \/ InStatistics(StatsNext)
    \/ InRange(DistributionNext)

Spec == Init /\ [][Next]_vars

\* Threads are scheduled: one in the middle of lock goes on, one that holds the mutex
\* releases it, workers work, and the destructor goes on.
Fairness ==
    /\ \A t \in Lockers : WF_vars(InFutex(LockStep(t)))
    /\ \A w \in Workers : WF_vars(InPool(Work(w)))
    /\ WF_vars(InPool(Destroy))

FairSpec == Spec /\ Fairness

-----------------------------------------------------------------------------

(* BasicPool::pop and push: a chunk has one owner or is free, never both, and none is lost,
   whatever was taken and given back between a load of the head and its exchange. *)
ArenaSafe == NoDoubleAllocation /\ ChunksConserved

(* ThreadPool: jobs are taken in the order of the pushes, each once; all have run when the
   destructor returns; and it misses one worker at most.                      *)
PoolSafe == JobsInOrder /\ DestructorDrains /\ OneWorkerMissesStop

(* ShmMem, SharedMutex, SharedCondition, Semaphore, between processes that die at any step: what
   is mapped is backed, one process at most owns a mutex and a wait says truly how it ended, and
   permits are neither made nor lost.                                         *)
SharedObjectsSound == MappingsBacked /\ MonitorExclusion /\ WaitTruthful /\ PermitsConserved

(* BasicTimer, Thread, BasicStats, distribute: what one thread leaves for another, a callback,
   an Invoker, a figure or a range, is used as it was left, and once.         *)
HandedOverOnce == TimerCallsExpired /\ ThreadsOwned /\ ReportRecorded /\ EachElementOnce /\ CpusGrouped

\* While threads sleep on the futex, one of them is woken again and again.
SleepersWoken == (\E t \in Lockers : fpc[t] = "asleep") ~> (\E t \in Lockers : fpc[t] = "retry")

(* Futex::unlock and ThreadPool::push: a sleeper on the futex is woken, and every job pushed is
   run in the end.                                                            *)
SleepersServed == SleepersWoken /\ JobsComplete
=============================================================================
