--------------------------- MODULE SharedObjects ----------------------------
(***************************************************************************)
(* What processes share: segments of memory, robust mutexes with their     *)
(* conditions, and semaphores.  A process may die at any step.             *)
(***************************************************************************)
EXTENDS Integers, FiniteSets

-----------------------------------------------------------------------------
(***************************************************************************)
(* ShmMem (core/memory.hpp): several processes create or open one named    *)
(* segment, each with the size it wants, and unlink it; a process may die  *)
(* between any two of its system calls.  LocalMem has the same life but    *)
(* for the name: nobody else can see its pages.                            *)
(***************************************************************************)
CONSTANTS
    Attachers,     \* processes
    SegBytes,      \* sizes asked for, in bytes, all of them above 0
    PageSize,      \* bytes of a page
    NoSeg,         \* no segment
    MaxSegs        \* bound: segments created under the name

ASSUME SharedMemoryAssumption ==
    /\ SegBytes \subseteq Nat \ {0} /\ PageSize \in Nat \ {0}
    /\ MaxSegs \in Nat /\ NoSeg \notin 1..MaxSegs

VARIABLES
    sgName,        \* the segment the name stands for, or NoSeg
    sgSize,        \* size of each segment created, 0 until ftruncate
    sgCount,       \* segments created
    sgProc         \* process: where it is, its _fd, its _size, what it maps, the last offset got

segmentVars == <<sgName, sgSize, sgCount, sgProc>>

Outside == [at |-> "out", fd |-> NoSeg, size |-> 0, ptr |-> NoSeg, off |-> 0]

\* _size: the bytes asked for, rounded up to whole pages.
RoundToPage(size) == ((size + PageSize - 1) \div PageSize) * PageSize

Opening(p, at, fd, size) == sgProc' = [sgProc EXCEPT ![p] = [Outside EXCEPT !.at = at, !.fd = fd, !.size = RoundToPage(size)]]

SegmentInit ==
    /\ sgName = NoSeg /\ sgCount = 0
    /\ sgSize = [s \in 1..MaxSegs |-> 0]
    /\ sgProc = [p \in Attachers |-> Outside]

\* shm_open with O_CREAT | O_EXCL: the process that succeeds is the creator.
ShmCreate(p, size) ==
    /\ sgProc[p].at = "out" /\ sgName = NoSeg /\ sgCount < MaxSegs
    /\ sgCount' = sgCount + 1 /\ sgName' = sgCount + 1
    /\ Opening(p, "created", sgCount + 1, size)
    /\ UNCHANGED sgSize

\* EEXIST: shm_open again, without O_CREAT; the name may be gone by then.
ShmExists(p, size) ==
    /\ sgProc[p].at = "out" /\ sgName # NoSeg
    /\ Opening(p, "exists", NoSeg, size)
    /\ UNCHANGED <<sgName, sgSize, sgCount>>

ShmOpen(p) ==
    /\ sgProc[p].at = "exists"
    /\ sgProc' = [sgProc EXCEPT ![p] = IF sgName = NoSeg THEN [Outside EXCEPT !.at = "failed"]
                                       ELSE [@ EXCEPT !.at = "opened", !.fd = sgName]]
    /\ UNCHANGED <<sgName, sgSize, sgCount>>

\* fstat: the size must be the one asked for.
ShmStat(p) ==
    /\ sgProc[p].at = "opened"
    /\ sgProc' = [sgProc EXCEPT ![p] = IF sgSize[@.fd] # @.size THEN [@ EXCEPT !.at = "mismatch"]
                                       ELSE [@ EXCEPT !.at = "sized"]]
    /\ UNCHANGED <<sgName, sgSize, sgCount>>

\* ftruncate may fail (no memory left): the segment stays, with size 0.
ShmTruncate(p) ==
    /\ sgProc[p].at = "created"
    /\ \/ /\ sgSize' = [sgSize EXCEPT ![sgProc[p].fd] = sgProc[p].size]
          /\ sgProc' = [sgProc EXCEPT ![p].at = "sized"]
       \/ /\ sgProc' = [sgProc EXCEPT ![p] = [Outside EXCEPT !.at = "failed"]]
          /\ UNCHANGED sgSize
    /\ UNCHANGED <<sgName, sgCount>>

ShmMap(p) ==
    /\ sgProc[p].at = "sized"
    /\ \/ sgProc' = [sgProc EXCEPT ![p] = [@ EXCEPT !.at = "mapped", !.ptr = sgProc[p].fd]]
       \/ sgProc' = [sgProc EXCEPT ![p] = [Outside EXCEPT !.at = "failed"]]
    /\ UNCHANGED <<sgName, sgSize, sgCount>>

\* get: the address of an offset below _size; any other offset throws.
ShmGet(p, offset) ==
    /\ sgProc[p].at = "mapped" /\ offset < sgProc[p].size
    /\ sgProc' = [sgProc EXCEPT ![p].off = offset]
    /\ UNCHANGED <<sgName, sgSize, sgCount>>

\* Destruction, the exception's clean-up, or death: the kernel closes and unmaps alike.
ShmCleanup(p) ==
    /\ sgProc[p].at # "out" /\ sgProc' = [sgProc EXCEPT ![p] = Outside]
    /\ UNCHANGED <<sgName, sgSize, sgCount>>

ShmUnlink == sgName # NoSeg /\ sgName' = NoSeg /\ UNCHANGED <<sgSize, sgCount, sgProc>>

SegmentNext ==
    \/ \E p \in Attachers :
        \/ \E size \in SegBytes : ShmCreate(p, size) \/ ShmExists(p, size)
        \/ \E offset \in 0..2 * PageSize : ShmGet(p, offset)
        \/ ShmOpen(p) \/ ShmStat(p) \/ ShmTruncate(p) \/ ShmMap(p) \/ ShmCleanup(p)
    \/ ShmUnlink

(* Every address get returns lies in pages the segment really has: no access faults,  *)
(* however creation, attachment with another size, unlink and death interleave.        *)
MappingsBacked == \A p \in Attachers : sgProc[p].at = "mapped" => sgProc[p].off < sgSize[sgProc[p].ptr]

-----------------------------------------------------------------------------
(***************************************************************************)
(* SharedMutex, ScopedLock and SharedCondition (core/mutex.cpp,            *)
(* core/condition.hpp) between processes that may die: the mutex is        *)
(* robust, so the next owner is told (EOWNERDEAD) and must call            *)
(* pthread_mutex_consistent before it unlocks.  Mutex and Condition are    *)
(* the same code without death.  The predicate of a wait is one flag.      *)
(***************************************************************************)
CONSTANTS
    Procs,        \* processes
    NoProc        \* nobody

ASSUME MonitorAssumption == IsFiniteSet(Procs) /\ NoProc \notin Procs

VARIABLES
    moOwner,      \* the owner of the mutex
    moState,      \* "ok"; "dead": the owner died; "lost": ENOTRECOVERABLE
    moMarked,     \* the present owner has the mutex consistent
    moAt,         \* process: "out", "in", "waits" (asleep), "woken" (in the reacquisition), "gone"
    moWait,       \* process: what it waits with: [pred, timed]
    moExpired,    \* process: its wait has timed out
    moResult,     \* process: the result of its last wait, "none" before
    moFlag,       \* what the predicate tests
    moOrphan      \* a wait, not a lock, has taken the mutex of a dead owner

monitorVars == <<moOwner, moState, moMarked, moAt, moWait, moExpired, moResult, moFlag, moOrphan>>

Plain == [pred |-> FALSE, timed |-> FALSE]

MonitorInit ==
    /\ moOwner = NoProc /\ moState = "ok" /\ moMarked = TRUE /\ moFlag = FALSE /\ moOrphan = FALSE
    /\ moAt = [p \in Procs |-> "out"] /\ moWait = [p \in Procs |-> Plain]
    /\ moExpired = [p \in Procs |-> FALSE] /\ moResult = [p \in Procs |-> "none"]

Enter(p) == moAt' = [moAt EXCEPT ![p] = "in"]
\* pthread_mutex_lock by p: owner, and whether the previous one is dead.
Acquire(p) == moOwner = NoProc /\ moState # "lost" /\ moOwner' = p

\* Mutant: a mutex whose owner died is not made consistent.
SharedLockUnmarked(p) ==
    /\ moAt[p] = "out" /\ Enter(p)
    /\ \/ Acquire(p) /\ moState' = "ok" /\ moMarked' = (moState = "ok")
       \/ moState = "lost" /\ UNCHANGED <<moOwner, moState, moMarked>>
    /\ UNCHANGED <<moWait, moExpired, moResult, moFlag, moOrphan>>

\* lock: EOWNERDEAD makes the mutex consistent.  Any other error, ENOTRECOVERABLE too, is
\* ignored: the caller goes on as if it owned the mutex.
SharedLock(p) ==
    /\ moAt[p] = "out" /\ Enter(p)
    /\ \/ Acquire(p) /\ moState' = "ok" /\ moMarked' = TRUE
       \/ moState = "lost" /\ UNCHANGED <<moOwner, moState, moMarked>>
    /\ UNCHANGED <<moWait, moExpired, moResult, moFlag, moOrphan>>

\* tryLock: false, and nothing else happens, when the mutex is owned or lost.
SharedTryLock(p) ==
    /\ moAt[p] = "out" /\ Enter(p) /\ Acquire(p) /\ moState' = "ok" /\ moMarked' = TRUE
    /\ UNCHANGED <<moWait, moExpired, moResult, moFlag, moOrphan>>

\* pthread_mutex_unlock, by the owner: a mutex never made consistent is lost for good.
Release(p) ==
    IF moOwner = p
    THEN moOwner' = NoProc /\ moState' = (IF moMarked THEN moState ELSE "lost") /\ moMarked' = TRUE
    ELSE UNCHANGED <<moOwner, moState, moMarked>>

\* The caller's locals end with the critical section.
Forget(p) ==
    /\ moWait' = [moWait EXCEPT ![p] = Plain] /\ moExpired' = [moExpired EXCEPT ![p] = FALSE]
    /\ moResult' = [moResult EXCEPT ![p] = "none"]

SharedUnlock(p) ==
    /\ moAt[p] = "in" /\ Release(p) /\ moAt' = [moAt EXCEPT ![p] = "out"]
    /\ Forget(p) /\ UNCHANGED <<moFlag, moOrphan>>

\* What the program does with the mutex held.
SetFlag(p, v) ==
    /\ moAt[p] = "in" /\ moFlag' = v /\ Forget(p)
    /\ UNCHANGED <<moOwner, moState, moMarked, moAt, moOrphan>>

\* wait and timedWait: with a predicate that holds they return at once.
CondWait(p, pred, timed) ==
    /\ moAt[p] = "in" /\ moOwner = p
    /\ moWait' = [moWait EXCEPT ![p] = [pred |-> pred, timed |-> timed]]
    /\ moExpired' = [moExpired EXCEPT ![p] = FALSE]
    /\ IF pred /\ moFlag
       THEN /\ moResult' = [moResult EXCEPT ![p] = "true"]
            /\ UNCHANGED <<moOwner, moState, moMarked, moAt>>
       ELSE Release(p) /\ moAt' = [moAt EXCEPT ![p] = "waits"] /\ UNCHANGED moResult
    /\ UNCHANGED <<moFlag, moOrphan>>

Wakes(p) == moAt[p] = "waits" /\ moAt' = [moAt EXCEPT ![p] = "woken"]

\* signal and broadcast by anybody, and a spurious wakeup, all end a wait.
Signal(p) ==
    /\ Wakes(p)
    /\ UNCHANGED <<moOwner, moState, moMarked, moWait, moExpired, moResult, moFlag, moOrphan>>

WaitExpires(p) ==
    /\ moWait[p].timed /\ Wakes(p) /\ moExpired' = [moExpired EXCEPT ![p] = TRUE]
    /\ UNCHANGED <<moOwner, moState, moMarked, moWait, moResult, moFlag, moOrphan>>

\* pthread_cond_wait and timedwait take the mutex again: EOWNERDEAD is an error like a time-out.
Failed(p) == moExpired[p] \/ moState = "dead"
Returns(p, held) ==
    CASE moWait[p].pred -> IF held THEN "true" ELSE "false"
      [] ~moWait[p].pred /\ moWait[p].timed -> IF Failed(p) THEN "false" ELSE "true"
      [] OTHER -> "none"

TakeBack(p) == Acquire(p) /\ moState' = "ok" /\ moMarked' = (moState = "ok") /\ moOrphan' = (moOrphan \/ moState = "dead")

\* With a predicate the wait goes on until it holds or the wait fails; without one it returns.
WaitReturns(p) ==
    /\ moAt[p] = "woken" /\ TakeBack(p) /\ moAt' = [moAt EXCEPT ![p] = "in"]
    /\ moWait[p].pred => (moFlag \/ (moWait[p].timed /\ Failed(p)))
    /\ moResult' = [moResult EXCEPT ![p] = Returns(p, moFlag)]
    /\ UNCHANGED <<moWait, moExpired, moFlag>>

\* Still false: pthread_cond_wait again, which unlocks, consistent or not.
WaitAgain(p) ==
    /\ moAt[p] = "woken" /\ moWait[p].pred /\ ~moFlag /\ ~(moWait[p].timed /\ Failed(p))
    /\ moOwner = NoProc /\ moState # "lost" /\ moAt' = [moAt EXCEPT ![p] = "waits"]
    /\ moState' = (IF moState = "dead" THEN "lost" ELSE moState) /\ moOrphan' = (moOrphan \/ moState = "dead")
    /\ UNCHANGED <<moOwner, moMarked, moWait, moExpired, moResult, moFlag>>

\* ENOTRECOVERABLE: without a predicate, or with a timeout, the wait returns; the mutex is not held.
WaitLost(p) ==
    /\ moAt[p] = "woken" /\ moState = "lost" /\ Enter(p)
    /\ moWait[p].pred => (moFlag \/ moWait[p].timed)
    /\ moResult' = [moResult EXCEPT ![p] = IF moWait[p].pred THEN Returns(p, moFlag)
                                           ELSE IF moWait[p].timed THEN "false" ELSE "none"]
    /\ UNCHANGED <<moOwner, moState, moMarked, moWait, moExpired, moFlag, moOrphan>>

\* The process dies: the kernel tells the next owner if it held the mutex.
Die(p) ==
    /\ moAt[p] # "gone" /\ moAt' = [moAt EXCEPT ![p] = "gone"]
    /\ IF moOwner = p THEN moOwner' = NoProc /\ moState' = "dead" /\ moMarked' = TRUE
       ELSE UNCHANGED <<moOwner, moState, moMarked>>
    /\ Forget(p) /\ UNCHANGED <<moFlag, moOrphan>>

MonitorNext ==
    \E p \in Procs :
        \/ SharedLock(p) \/ SharedTryLock(p) \/ SharedUnlock(p) \/ \E v \in BOOLEAN : SetFlag(p, v)
        \/ \E pred, timed \in BOOLEAN : CondWait(p, pred, timed)
        \/ Signal(p) \/ WaitExpires(p) \/ WaitReturns(p) \/ WaitAgain(p) \/ WaitLost(p) \/ Die(p)

(* A death with the mutex held costs no exclusion as long as the next owner comes from *)
(* lock or tryLock.  The condition's waits take EOWNERDEAD for an ordinary error and   *)
(* never make the mutex consistent: after that the mutex is lost, and lock, which      *)
(* ignores ENOTRECOVERABLE, lets everybody in.                                         *)
MonitorExclusion == moOrphan \/ Cardinality({p \in Procs : moAt[p] = "in"}) <= 1

(* What timedWait and wait with a predicate return, when the caller looks at it with   *)
(* the mutex held, is the truth of the predicate: time-outs that race a signal, and    *)
(* wakeups without one, included.                                                      *)
WaitTruthful ==
    \A p \in Procs : (moAt[p] = "in" /\ moOwner = p /\ moWait[p].pred /\ moResult[p] # "none")
                        => (moResult[p] = "true" <=> moFlag)

-----------------------------------------------------------------------------
(***************************************************************************)
(* Semaphore and SharedSemaphore (core/semaphore.cpp) over a POSIX         *)
(* semaphore, unnamed or named: the processes that name the same one share *)
(* it, and each opens and closes it for itself.                            *)
(***************************************************************************)
CONSTANTS
    SemUsers,      \* threads or processes
    SemInitial     \* value given to the constructor

ASSUME SemaphoreAssumption == IsFiniteSet(SemUsers) /\ SemInitial \in Nat

VARIABLES
    smValue,       \* the semaphore's value
    smAt,          \* user: "closed", "open", "waits", "holds"
    smPhantom      \* users that hold since a wait that was interrupted

semVars == <<smValue, smAt, smPhantom>>

SemInit == smValue = SemInitial /\ smAt = [u \in SemUsers |-> "closed"] /\ smPhantom = {}

Moves(u, from, to) == smAt[u] = from /\ smAt' = [smAt EXCEPT ![u] = to]

SemOpen(u) == Moves(u, "closed", "open") /\ UNCHANGED <<smValue, smPhantom>>
SemClose(u) == Moves(u, "open", "closed") /\ UNCHANGED <<smValue, smPhantom>>

SemWait(u) == Moves(u, "open", "waits") /\ UNCHANGED <<smValue, smPhantom>>
SemTaken(u) == Moves(u, "waits", "holds") /\ smValue > 0 /\ smValue' = smValue - 1 /\ UNCHANGED smPhantom
\* EINTR: sem_wait fails, and wait, which does not look at its result, returns all the same.
SemInterrupted(u) == Moves(u, "waits", "holds") /\ smPhantom' = smPhantom \cup {u} /\ UNCHANGED smValue

\* tryWait: true only when the value was taken down; the other result changes nothing.
SemTryWait(u) == Moves(u, "open", "holds") /\ smValue > 0 /\ smValue' = smValue - 1 /\ UNCHANGED smPhantom

\* A user gives back what it holds, or believes it holds.
SemPost(u) == Moves(u, "holds", "open") /\ smValue' = smValue + 1 /\ UNCHANGED smPhantom

SemNext ==
    \E u \in SemUsers :
        \/ SemOpen(u) \/ SemClose(u) \/ SemWait(u) \/ SemTaken(u) \/ SemTryWait(u) \/ SemPost(u)
        \/ smPhantom = {} /\ SemInterrupted(u)

(* What is held and what is left make up the initial value, one more for every wait    *)
(* that a signal interrupted and that was taken for a success.                         *)
PermitsConserved ==
    smValue + Cardinality({u \in SemUsers : smAt[u] = "holds"}) = SemInitial + Cardinality(smPhantom)
=============================================================================
