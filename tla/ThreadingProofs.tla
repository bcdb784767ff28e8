--------------------------- MODULE ThreadingProofs ---------------------------
(***************************************************************************)
(* What threads and processes share, for every number of them.             *)
(*                                                                         *)
(* Futex: mutual exclusion and the meaning of the word are inductive       *)
(* together with the types; a sleeper is covered because the only steps    *)
(* that leave the word below 2 while it sleeps are an exchange that found  *)
(* 2, which goes on to wake, and a first lock after it, which needs the    *)
(* word at 0 and leaves the waker or the woken thread where they are.      *)
(*                                                                         *)
(* ThreadPool: PoolInv ties the mutex and the condition's sleepers to the  *)
(* workers' program counters and a taken job to the worker that runs it; a *)
(* worker leaves only with _stop set and the list empty, and after the     *)
(* broadcast only the worker that was between its test and its wait may    *)
(* still sleep.                                                            *)
(*                                                                         *)
(* BasicPool: ArenaInv names the free list of each pool as a sequence and  *)
(* says that each chunk is on it, on its way back or with one owner.  The  *)
(* generation in the head makes the exchanges sound: a call whose loaded   *)
(* head is the present one also holds the present successor of its chunk.  *)
(*                                                                         *)
(* ShmMem, SharedMutex and SharedCondition, Semaphore: SegmentInv,         *)
(* MonitorInv and SemInv below; BasicTimer: TimerInv; Thread: ThreadInv.   *)
(***************************************************************************)
EXTENDS Threading, FiniteSetTheorems, SequenceTheorems, TLAPS

(* A thread that goes on to wait has seen the mutex locked.                   *)
SeenLocked == \A t \in Lockers : fpc[t] = "check" => expected[t] # 0

(* What the proof rests on: types, exclusion and coverage of the sleepers.    *)
FutexInv == FutexTypeOK /\ SeenLocked /\ MutualExclusion /\ NoLostWaiter

(* The invariant holds initially.                                             *)
LEMMA FutexInitInv == FutexInit => FutexInv
  BY DEF FutexInit, FutexInv, FutexTypeOK, FutexPc, SeenLocked, MutualExclusion, NoLostWaiter

(* Every step of lock, tryLock and unlock keeps the invariant.                *)
LEMMA FutexStepInv ==
  ASSUME FutexInv, [FutexNext]_futexVars
  PROVE  FutexInv'
<1>1. CASE UNCHANGED futexVars
  BY <1>1 DEF futexVars, FutexInv, FutexTypeOK, SeenLocked, MutualExclusion, NoLostWaiter
<1>2. ASSUME NEW t \in Lockers, TryLock(t) PROVE FutexInv'
  BY <1>2 DEF TryLock, At, FutexInv, FutexTypeOK, FutexPc, SeenLocked, MutualExclusion, NoLostWaiter
<1>3. ASSUME NEW t \in Lockers, LockContended(t) PROVE FutexInv'
  BY <1>3 DEF LockContended, At, FutexInv, FutexTypeOK, FutexPc, SeenLocked, MutualExclusion, NoLostWaiter
<1>4. ASSUME NEW t \in Lockers, LockCheck(t) PROVE FutexInv'
  BY <1>4 DEF LockCheck, At, FutexInv, FutexTypeOK, FutexPc, SeenLocked, MutualExclusion, NoLostWaiter
<1>5. ASSUME NEW t \in Lockers, FutexWait(t) PROVE FutexInv'
  BY <1>5 DEF FutexWait, At, FutexInv, FutexTypeOK, FutexPc, SeenLocked, MutualExclusion, NoLostWaiter
<1>6. ASSUME NEW t \in Lockers, LockRetry(t) PROVE FutexInv'
  BY <1>6 DEF LockRetry, At, FutexInv, FutexTypeOK, FutexPc, SeenLocked, MutualExclusion, NoLostWaiter
<1>7. ASSUME NEW t \in Lockers, Unlock(t) PROVE FutexInv'
  BY <1>7 DEF Unlock, At, FutexInv, FutexTypeOK, FutexPc, SeenLocked, MutualExclusion, NoLostWaiter
<1>8. ASSUME NEW t \in Lockers, Wake(t) PROVE FutexInv'
  BY <1>8 DEF Wake, FutexInv, FutexTypeOK, FutexPc, SeenLocked, MutualExclusion, NoLostWaiter
<1>9. ASSUME NEW t \in Lockers, Interrupted(t) PROVE FutexInv'
  BY <1>9 DEF Interrupted, At, FutexInv, FutexTypeOK, FutexPc, SeenLocked, MutualExclusion, NoLostWaiter
<1> QED
  BY <1>1, <1>2, <1>3, <1>4, <1>5, <1>6, <1>7, <1>8, <1>9 DEF FutexNext, LockStep

(* A step of the composition is a step of the futex or leaves it alone.       *)
LEMMA FutexPart == ASSUME FutexInv, [Next]_vars PROVE FutexInv'
<1>1. [FutexNext]_futexVars
  BY DEF Next, vars, InFutex, InArena, InPool, InTimer, InSegment, InMonitor, InThread, InSemaphore, InStatistics, InRange
<1> QED BY <1>1, FutexStepInv

(* Futex::lock and tryLock give the mutex to one thread at a time.            *)
THEOREM FutexExcludes == Spec => []MutualExclusion
<1>1. Init => FutexInv
  BY FutexInitInv DEF Init
<1>2. FutexInv /\ [Next]_vars => FutexInv'
  BY FutexPart
<1>3. FutexInv => MutualExclusion
  BY DEF FutexInv
<1> QED
  BY <1>1, <1>2, <1>3, PTL DEF Spec

(* Futex::unlock leaves no thread asleep that nobody will wake.               *)
THEOREM FutexLosesNoWaiter == Spec => []NoLostWaiter
<1>1. Init => FutexInv
  BY FutexInitInv DEF Init
<1>2. FutexInv /\ [Next]_vars => FutexInv'
  BY FutexPart
<1>3. FutexInv => NoLostWaiter
  BY DEF FutexInv
<1> QED
  BY <1>1, <1>2, <1>3, PTL DEF Spec

-----------------------------------------------------------------------------
(***************************************************************************)
(* The thread pool.                                                        *)
(***************************************************************************)
WorkerPc == {"lock", "test", "wait", "asleep", "take", "run", "done"}
WorkerFrames == [pc : WorkerPc, job : Nat]
OwnerPc == {"idle", "broadcast", "join", "gone"}

PoolTypeOK ==
    /\ mutex \in Workers \cup {NoThread} /\ sleepers \in SUBSET Workers /\ stop \in BOOLEAN
    /\ jobs \in Seq(Nat) /\ pushed \in Nat /\ started \in Seq(Nat) /\ finished \in SUBSET Nat
    /\ wpcs \in [Workers -> WorkerFrames] /\ opc \in OwnerPc

(* The mutex is held by the worker that is at the predicate, before the wait or at the job list. *)
MutexHeld == \A w \in Workers : wpcs[w].pc \in {"test", "wait", "take"} <=> mutex = w

SleepersAsleep == \A w \in Workers : w \in sleepers <=> wpcs[w].pc = "asleep"

(* A job that was taken has run or is being run.                              *)
StartedRuns == \A i \in 1..Len(started) :
    started[i] \in finished \/ \E w \in Workers : wpcs[w].pc = "run" /\ wpcs[w].job = started[i]

RunningStarted == \A w \in Workers : wpcs[w].pc = "run" => \E i \in 1..Len(started) : wpcs[w].job = started[i]

(* A worker leaves the wait for a reason that lasts while it holds the mutex, and leaves for good only
   once _stop is set, which is also the end of the owner's pushes.             *)
LeavesForReason ==
    /\ \A w \in Workers : wpcs[w].pc = "take" => stop \/ jobs # <<>>
    /\ \A w \in Workers : wpcs[w].pc = "done" => stop
    /\ stop <=> opc # "idle"
    /\ (\A w \in Workers : wpcs[w].pc = "done") => jobs = <<>>
    /\ opc = "gone" => \A w \in Workers : wpcs[w].pc = "done"

(* After the broadcast the only worker that may still sleep is the one that was before its wait. *)
OneMissing ==
    opc \in {"join", "gone"} =>
        \A v, w \in Workers : wpcs[v].pc \in {"wait", "asleep"} /\ wpcs[w].pc \in {"wait", "asleep"} => v = w

PoolInv ==
    /\ PoolTypeOK /\ MutexHeld /\ SleepersAsleep /\ JobsInOrder /\ StartedRuns /\ RunningStarted
    /\ LeavesForReason /\ OneMissing

(* The invariant is initially true.                                           *)
LEMMA PoolInitInv == ThreadPoolInit => PoolInv
<1> SUFFICES ASSUME ThreadPoolInit PROVE PoolInv
  OBVIOUS
<1>0. \A w \in Workers : wpcs[w].pc = "lock" /\ wpcs[w] \in WorkerFrames
  BY DEF ThreadPoolInit, WorkerPc, WorkerFrames
<1>1. PoolTypeOK
  <2>1. wpcs \in [Workers -> WorkerFrames]
    BY <1>0 DEF ThreadPoolInit
  <2>2. stop \in BOOLEAN
    BY Zenon DEF ThreadPoolInit
  <2>3. /\ mutex \in Workers \cup {NoThread} /\ sleepers \in SUBSET Workers /\ jobs \in Seq(Nat) /\ pushed \in Nat
        /\ started \in Seq(Nat) /\ finished \in SUBSET Nat /\ opc \in OwnerPc
    BY DEF ThreadPoolInit, OwnerPc
  <2> QED BY <2>1, <2>2, <2>3 DEF PoolTypeOK
<1>4. MutexHeld /\ SleepersAsleep
  BY <1>0, ThreadPoolAssumption DEF ThreadPoolInit, MutexHeld, SleepersAsleep
<1>2. JobsInOrder
  <2>1. started = <<>> /\ jobs = <<>> /\ finished = {} /\ pushed = 0
    BY DEF ThreadPoolInit
  <2>2. <<>> \o <<>> = [i \in 1..0 |-> i]
    OBVIOUS
  <2> QED BY <2>1, <2>2 DEF JobsInOrder
<1>3. StartedRuns /\ RunningStarted /\ LeavesForReason /\ OneMissing
  BY <1>0, ThreadPoolAssumption DEF ThreadPoolInit, StartedRuns, RunningStarted, LeavesForReason, OneMissing
<1> QED BY <1>1, <1>2, <1>3, <1>4 DEF PoolInv

(* Taking the first job moves it from one list to the other.                  *)
LEMMA MoveHead ==
  ASSUME NEW s \in Seq(Nat), NEW j \in Seq(Nat), j # <<>>
  PROVE  /\ Append(s, Head(j)) \o Tail(j) = s \o j
         /\ Append(s, Head(j)) \in Seq(Nat) /\ Tail(j) \in Seq(Nat) /\ Head(j) \in Nat
         /\ Len(Append(s, Head(j))) = Len(s) + 1
         /\ \A i \in 1..Len(s) : Append(s, Head(j))[i] = s[i]
         /\ Append(s, Head(j))[Len(s) + 1] = Head(j)
<1>1. Head(j) \in Nat /\ Tail(j) \in Seq(Nat) /\ Len(j) > 0 /\ Len(Tail(j)) = Len(j) - 1
      /\ j[1] = Head(j) /\ \A i \in 1..Len(Tail(j)) : Tail(j)[i] = j[i + 1]
  OBVIOUS
<1> PICK h \in Nat, r \in Seq(Nat) : h = Head(j) /\ r = Tail(j)
  BY <1>1
<1>2. /\ Append(s, h) \in Seq(Nat) /\ Len(Append(s, h)) = Len(s) + 1
      /\ \A i \in 1..Len(s) : Append(s, h)[i] = s[i]
      /\ Append(s, h)[Len(s) + 1] = h
  OBVIOUS
<1>3. Append(s, h) \o r = s \o j
  <2> PICK a \in Seq(Nat) : a = Append(s, h)
    BY <1>2
  <2>1. a \o r \in Seq(Nat) /\ s \o j \in Seq(Nat) /\ Len(a \o r) = Len(s \o j)
    BY <1>1, <1>2, ConcatProperties
  <2>2. ASSUME NEW i \in 1..Len(s \o j) PROVE (a \o r)[i] = (s \o j)[i]
    BY <1>1, <1>2
  <2> QED BY <2>1, <2>2, SeqEqual
<1> QED BY <1>1, <1>2, <1>3

Numbers(n) == [i \in 1..n |-> i]

(* A push adds the next number.                                               *)
LEMMA PushNumber ==
  ASSUME NEW s \in Seq(Nat), NEW j \in Seq(Nat), NEW n \in Nat, s \o j = Numbers(n)
  PROVE  s \o Append(j, n + 1) = Numbers(n + 1)
<1>0. Append(j, n + 1) \in Seq(Nat)
  OBVIOUS
<1> PICK t \in Seq(Nat) : t = Append(j, n + 1)
  BY <1>0, Zenon
<1>1. /\ Len(t) = Len(j) + 1 /\ t[Len(j) + 1] = n + 1 /\ \A i \in 1..Len(j) : t[i] = j[i]
  OBVIOUS
<1>2. /\ Len(s \o j) = Len(s) + Len(j)
      /\ \A i \in 1..Len(s) + Len(j) : (s \o j)[i] = IF i <= Len(s) THEN s[i] ELSE j[i - Len(s)]
  BY ConcatProperties
<1>3. Len(s \o j) = n /\ \A i \in 1..n : (s \o j)[i] = i
  BY DEF Numbers
<1>4. /\ s \o t \in Seq(Nat) /\ Len(s \o t) = Len(s) + Len(t)
      /\ \A i \in 1..Len(s) + Len(t) : (s \o t)[i] = IF i <= Len(s) THEN s[i] ELSE t[i - Len(s)]
  BY ConcatProperties
<1> PICK c \in Seq(Nat) : c = s \o t
  BY <1>4
<1>5. Len(s) \in Nat /\ Len(j) \in Nat
  OBVIOUS
<1>6. Len(c) = n + 1
  BY <1>1, <1>2, <1>3, <1>4, <1>5
<1>7. ASSUME NEW i \in 1..n + 1 PROVE c[i] = i
  <2>1. c[i] = IF i <= Len(s) THEN s[i] ELSE t[i - Len(s)]
    BY <1>1, <1>2, <1>3, <1>4, <1>5
  <2>2. CASE i = n + 1
    <3>0. Len(s) + Len(j) = n
      BY <1>2, <1>3, Zenon
    <3>1. i - Len(s) = Len(j) + 1 /\ ~(i <= Len(s))
      BY <1>5, <2>2, <3>0
    <3> QED BY <1>1, <2>1, <2>2, <3>1
  <2>3. CASE i # n + 1
    <3>1. i \in 1..n /\ i \in 1..Len(s) + Len(j)
      BY <1>2, <1>3, <2>3
    <3>2. i = IF i <= Len(s) THEN s[i] ELSE j[i - Len(s)]
      BY <1>2, <1>3, <3>1
    <3>3. ~(i <= Len(s)) => i - Len(s) \in 1..Len(j)
      BY <1>5, <3>1
    <3> QED BY <1>1, <2>1, <3>2, <3>3
  <2> QED BY <2>2, <2>3
<1> QED
  <2>1. c = Numbers(n + 1)
    <3>1. Numbers(n + 1) \in Seq(Nat) /\ Len(Numbers(n + 1)) = n + 1 /\ \A i \in 1..n + 1 : Numbers(n + 1)[i] = i
      BY DEF Numbers
    <3> QED BY <1>6, <1>7, <3>1, SeqEqual
  <2> QED BY <2>1

(* A worker moves on, the others stay.                                        *)
LEMMA GotoFacts ==
  ASSUME wpcs \in [Workers -> WorkerFrames], NEW w \in Workers, NEW pc \in WorkerPc, Goto(w, pc)
  PROVE  /\ wpcs' \in [Workers -> WorkerFrames] /\ wpcs'[w].pc = pc /\ wpcs'[w].job = wpcs[w].job
         /\ \A v \in Workers : v # w => wpcs'[v] = wpcs[v]
<1>1. wpcs' = [wpcs EXCEPT ![w].pc = pc]
  BY DEF Goto
<1>2. wpcs[w] \in WorkerFrames
  OBVIOUS
<1>3. wpcs' = [wpcs EXCEPT ![w] = [wpcs[w] EXCEPT !.pc = pc]]
  BY <1>1
<1>4. [wpcs[w] EXCEPT !.pc = pc] \in WorkerFrames
  BY <1>2 DEF WorkerFrames
<1>5. [wpcs[w] EXCEPT !.pc = pc].pc = pc /\ [wpcs[w] EXCEPT !.pc = pc].job = wpcs[w].job
  BY <1>2 DEF WorkerFrames
<1> QED BY <1>3, <1>4, <1>5

(* A worker takes the mutex: nobody held it.                                  *)
LEMMA LockInv == ASSUME PoolInv, NEW w \in Workers, Lock(w) PROVE PoolInv'
<1>1. /\ mutex' = w /\ mutex = NoThread /\ wpcs[w].pc = "lock"
      /\ UNCHANGED <<sleepers, stop, jobs, pushed, started, finished, opc>>
  BY DEF Lock
<1>2. /\ wpcs' \in [Workers -> WorkerFrames] /\ wpcs'[w].pc = "test"
      /\ \A v \in Workers : v # w => wpcs'[v] = wpcs[v]
  <2>1. Goto(w, "test") /\ "test" \in WorkerPc
    BY DEF Lock, WorkerPc
  <2> QED BY <2>1, GotoFacts DEF PoolInv, PoolTypeOK
<1>3. PoolTypeOK'
  BY <1>1, <1>2 DEF PoolInv, PoolTypeOK
<1>4. MutexHeld'
  BY <1>1, <1>2, ThreadPoolAssumption DEF PoolInv, MutexHeld
<1>5. SleepersAsleep'
  BY <1>1, <1>2 DEF PoolInv, SleepersAsleep
<1>6. JobsInOrder'
  BY <1>1 DEF PoolInv, JobsInOrder
<1>7. StartedRuns' /\ RunningStarted'
  BY <1>1, <1>2 DEF PoolInv, StartedRuns, RunningStarted
<1>8. LeavesForReason'
  BY <1>1, <1>2 DEF PoolInv, LeavesForReason
<1>9. OneMissing'
  BY <1>1, <1>2 DEF PoolInv, OneMissing
<1> QED BY <1>3, <1>4, <1>5, <1>6, <1>7, <1>8, <1>9 DEF PoolInv

(* The predicate, with the mutex held: a worker that sees _stop or a job goes on to the jobs. *)
LEMMA TestInv == ASSUME PoolInv, NEW w \in Workers, Test(w) PROVE PoolInv'
<1>1. /\ wpcs[w].pc = "test"
      /\ UNCHANGED <<mutex, sleepers, stop, jobs, pushed, started, finished, opc>>
  BY DEF Test
<1>2. /\ wpcs' \in [Workers -> WorkerFrames] /\ wpcs'[w].pc = (IF stop \/ jobs # <<>> THEN "take" ELSE "wait")
      /\ \A v \in Workers : v # w => wpcs'[v] = wpcs[v]
  <2>1. Goto(w, (IF stop \/ jobs # <<>> THEN "take" ELSE "wait")) /\ (IF stop \/ jobs # <<>> THEN "take" ELSE "wait") \in WorkerPc
    BY DEF Test, WorkerPc
  <2> QED BY <2>1, GotoFacts DEF PoolInv, PoolTypeOK
<1>3. PoolTypeOK'
  BY <1>1, <1>2 DEF PoolInv, PoolTypeOK
<1>4. MutexHeld'
  BY <1>1, <1>2 DEF PoolInv, MutexHeld
<1>5. SleepersAsleep'
  BY <1>1, <1>2 DEF PoolInv, SleepersAsleep
<1>6. JobsInOrder'
  BY <1>1, <1>2 DEF PoolInv, JobsInOrder
<1>7. StartedRuns' /\ RunningStarted'
  BY <1>1, <1>2 DEF PoolInv, StartedRuns, RunningStarted
<1>8. LeavesForReason'
  BY <1>1, <1>2 DEF PoolInv, LeavesForReason
<1>9. OneMissing'
  BY <1>1, <1>2 DEF PoolInv, OneMissing, LeavesForReason
<1> QED BY <1>3, <1>4, <1>5, <1>6, <1>7, <1>8, <1>9 DEF PoolInv

(* A worker goes to sleep and gives up the mutex. *)
LEMMA WaitInv == ASSUME PoolInv, NEW w \in Workers, Wait(w) PROVE PoolInv'
<1>1. /\ wpcs[w].pc = "wait" /\ mutex' = NoThread /\ sleepers' = sleepers \cup {w}
      /\ UNCHANGED <<stop, jobs, pushed, started, finished, opc>>
  BY DEF Wait
<1>2. /\ wpcs' \in [Workers -> WorkerFrames] /\ wpcs'[w].pc = "asleep"
      /\ \A v \in Workers : v # w => wpcs'[v] = wpcs[v]
  <2>1. Goto(w, "asleep") /\ "asleep" \in WorkerPc
    BY DEF Wait, WorkerPc
  <2> QED BY <2>1, GotoFacts DEF PoolInv, PoolTypeOK
<1>3. PoolTypeOK'
  BY <1>1, <1>2 DEF PoolInv, PoolTypeOK
<1>4. MutexHeld'
  BY <1>1, <1>2, ThreadPoolAssumption DEF PoolInv, MutexHeld
<1>5. SleepersAsleep'
  BY <1>1, <1>2 DEF PoolInv, SleepersAsleep
<1>6. JobsInOrder'
  BY <1>1, <1>2 DEF PoolInv, JobsInOrder
<1>7. StartedRuns' /\ RunningStarted'
  BY <1>1, <1>2 DEF PoolInv, StartedRuns, RunningStarted
<1>8. LeavesForReason'
  BY <1>1, <1>2 DEF PoolInv, LeavesForReason
<1>9. OneMissing'
  BY <1>1, <1>2 DEF PoolInv, OneMissing
<1> QED BY <1>3, <1>4, <1>5, <1>6, <1>7, <1>8, <1>9 DEF PoolInv

(* A wait ends. *)
LEMMA SpuriousInv == ASSUME PoolInv, NEW w \in Workers, Spurious(w) PROVE PoolInv'
<1>1. /\ w \in sleepers /\ sleepers' = sleepers \ {w}
      /\ UNCHANGED <<mutex, stop, jobs, pushed, started, finished, opc>>
  BY DEF Spurious
<1>2. /\ wpcs' \in [Workers -> WorkerFrames] /\ wpcs'[w].pc = "lock"
      /\ \A v \in Workers : v # w => wpcs'[v] = wpcs[v]
  <2>1. Goto(w, "lock") /\ "lock" \in WorkerPc
    BY DEF Spurious, WorkerPc
  <2> QED BY <2>1, GotoFacts DEF PoolInv, PoolTypeOK
<1>3. PoolTypeOK'
  BY <1>1, <1>2 DEF PoolInv, PoolTypeOK
<1>4. MutexHeld'
  BY <1>1, <1>2 DEF PoolInv, MutexHeld, SleepersAsleep
<1>5. SleepersAsleep'
  BY <1>1, <1>2 DEF PoolInv, SleepersAsleep
<1>6. JobsInOrder'
  BY <1>1, <1>2 DEF PoolInv, JobsInOrder
<1>7. StartedRuns' /\ RunningStarted'
  BY <1>1, <1>2 DEF PoolInv, StartedRuns, RunningStarted, SleepersAsleep
<1>8. LeavesForReason'
  BY <1>1, <1>2 DEF PoolInv, LeavesForReason, SleepersAsleep
<1>9. OneMissing'
  BY <1>1, <1>2 DEF PoolInv, OneMissing, SleepersAsleep
<1> QED BY <1>3, <1>4, <1>5, <1>6, <1>7, <1>8, <1>9 DEF PoolInv

(* A worker that finds no job left leaves; _stop is set, and stays so.         *)
LEMMA LeaveInv == ASSUME PoolInv, NEW w \in Workers, Take(w), jobs = <<>> PROVE PoolInv'
<1>1. /\ wpcs[w].pc = "take" /\ mutex' = NoThread /\ jobs = <<>>
      /\ UNCHANGED <<sleepers, stop, jobs, pushed, started, finished, opc>>
  BY DEF Take
<1>2. /\ wpcs' \in [Workers -> WorkerFrames] /\ wpcs'[w].pc = "done"
      /\ \A v \in Workers : v # w => wpcs'[v] = wpcs[v]
  <2>1. Goto(w, "done") /\ "done" \in WorkerPc
    BY DEF Take, WorkerPc
  <2> QED BY <2>1, GotoFacts DEF PoolInv, PoolTypeOK
<1>3. PoolTypeOK'
  BY <1>1, <1>2 DEF PoolInv, PoolTypeOK
<1>4. MutexHeld'
  BY <1>1, <1>2, ThreadPoolAssumption DEF PoolInv, MutexHeld
<1>5. SleepersAsleep'
  BY <1>1, <1>2 DEF PoolInv, SleepersAsleep
<1>6. JobsInOrder'
  BY <1>1, <1>2 DEF PoolInv, JobsInOrder
<1>7. StartedRuns' /\ RunningStarted'
  BY <1>1, <1>2 DEF PoolInv, StartedRuns, RunningStarted
<1>8. LeavesForReason'
  BY <1>1, <1>2 DEF PoolInv, LeavesForReason
<1>9. OneMissing'
  BY <1>1, <1>2 DEF PoolInv, OneMissing
<1> QED BY <1>3, <1>4, <1>5, <1>6, <1>7, <1>8, <1>9 DEF PoolInv

(* A worker takes the first job: it was the next one.                         *)
LEMMA TakeInv == ASSUME PoolInv, NEW w \in Workers, Take(w), jobs # <<>> PROVE PoolInv'
<1>1. /\ wpcs[w].pc = "take" /\ mutex' = NoThread
      /\ wpcs' = [wpcs EXCEPT ![w] = [pc |-> "run", job |-> Head(jobs)]]
      /\ jobs' = Tail(jobs) /\ started' = Append(started, Head(jobs))
      /\ UNCHANGED <<sleepers, stop, pushed, finished, opc>>
  BY DEF Take
<1>a. /\ started' \o jobs' = started \o jobs
      /\ started' \in Seq(Nat) /\ jobs' \in Seq(Nat) /\ Head(jobs) \in Nat
      /\ Len(started') = Len(started) + 1 /\ Len(started) \in Nat
      /\ \A i \in 1..Len(started) : started'[i] = started[i]
      /\ started'[Len(started) + 1] = Head(jobs)
  <2>1. started \in Seq(Nat) /\ jobs \in Seq(Nat) /\ jobs # <<>>
    BY DEF PoolInv, PoolTypeOK
  <2>2. Len(started) \in Nat
    BY <2>1
  <2>3. /\ Append(started, Head(jobs)) \o Tail(jobs) = started \o jobs
        /\ Append(started, Head(jobs)) \in Seq(Nat) /\ Tail(jobs) \in Seq(Nat) /\ Head(jobs) \in Nat
        /\ Len(Append(started, Head(jobs))) = Len(started) + 1
        /\ \A i \in 1..Len(started) : Append(started, Head(jobs))[i] = started[i]
        /\ Append(started, Head(jobs))[Len(started) + 1] = Head(jobs)
    BY <2>1, MoveHead, Zenon
  <2> QED BY <1>1, <2>2, <2>3, Zenon
<1>b. [pc |-> "run", job |-> Head(jobs)] \in WorkerFrames
  BY <1>a DEF WorkerFrames, WorkerPc
<1>2. /\ wpcs' \in [Workers -> WorkerFrames] /\ wpcs'[w].pc = "run" /\ wpcs'[w].job = Head(jobs)
      /\ \A v \in Workers : v # w => wpcs'[v] = wpcs[v]
  BY <1>1, <1>b DEF PoolInv, PoolTypeOK
<1>3. PoolTypeOK'
  BY <1>1, <1>2, <1>a, ThreadPoolAssumption DEF PoolInv, PoolTypeOK
<1>4. MutexHeld'
  BY <1>1, <1>2, ThreadPoolAssumption DEF PoolInv, MutexHeld
<1>5. SleepersAsleep'
  BY <1>1, <1>2 DEF PoolInv, SleepersAsleep
<1>6. JobsInOrder'
  <2>1. finished \subseteq {started'[i] : i \in 1..Len(started')}
    <3> SUFFICES ASSUME NEW f \in finished PROVE \E i \in 1..Len(started') : started'[i] = f
      OBVIOUS
    <3>1. PICK i \in 1..Len(started) : started[i] = f
      BY DEF PoolInv, JobsInOrder
    <3> QED BY <1>a, <3>1
  <2> QED BY <1>1, <1>a, <2>1 DEF PoolInv, JobsInOrder
<1>7. StartedRuns'
  <2> SUFFICES ASSUME NEW i \in 1..Len(started')
               PROVE  started'[i] \in finished' \/ \E v \in Workers : wpcs'[v].pc = "run" /\ wpcs'[v].job = started'[i]
    BY DEF StartedRuns
  <2>1. CASE i = Len(started) + 1
    BY <1>2, <1>a, <2>1
  <2>2. CASE i # Len(started) + 1
    <3>1. i \in 1..Len(started)
      BY <1>a, <2>2
    <3> QED BY <1>1, <1>2, <1>a, <3>1 DEF PoolInv, StartedRuns
  <2> QED BY <2>1, <2>2
<1>8. RunningStarted'
  <2> SUFFICES ASSUME NEW v \in Workers, wpcs'[v].pc = "run"
               PROVE  \E i \in 1..Len(started') : wpcs'[v].job = started'[i]
    BY DEF RunningStarted
  <2>1. CASE v = w
    <3>1. Len(started) + 1 \in 1..Len(started')
      BY <1>a
    <3> QED BY <1>2, <1>a, <2>1, <3>1
  <2>2. CASE v # w
    <3>1. PICK i \in 1..Len(started) : wpcs[v].job = started[i]
      BY <1>2, <2>2 DEF PoolInv, RunningStarted
    <3>2. i \in 1..Len(started')
      BY <1>a
    <3> QED BY <1>2, <1>a, <2>2, <3>1, <3>2
  <2> QED BY <2>1, <2>2
<1>9. LeavesForReason'
  <2>1. \A v \in Workers : v # w => wpcs[v].pc # "take"
    BY <1>1 DEF PoolInv, MutexHeld
  <2> QED BY <1>1, <1>2, <2>1 DEF PoolInv, LeavesForReason
<1>10. OneMissing'
  BY <1>1, <1>2 DEF PoolInv, OneMissing
<1> QED BY <1>3, <1>4, <1>5, <1>6, <1>7, <1>8, <1>9, <1>10 DEF PoolInv

(* A job has run.                                                             *)
LEMMA RunJobInv == ASSUME PoolInv, NEW w \in Workers, RunJob(w) PROVE PoolInv'
<1>1. /\ wpcs[w].pc = "run" /\ finished' = finished \cup {wpcs[w].job}
      /\ wpcs' = [wpcs EXCEPT ![w] = [pc |-> "lock", job |-> 0]]
      /\ UNCHANGED <<mutex, sleepers, stop, jobs, pushed, started, opc>>
  BY DEF RunJob
<1>b. [pc |-> "lock", job |-> 0] \in WorkerFrames /\ wpcs[w].job \in Nat
  BY DEF WorkerFrames, WorkerPc, PoolInv, PoolTypeOK
<1>2. /\ wpcs' \in [Workers -> WorkerFrames] /\ wpcs'[w].pc = "lock"
      /\ \A v \in Workers : v # w => wpcs'[v] = wpcs[v]
  BY <1>1, <1>b DEF PoolInv, PoolTypeOK
<1>3. PoolTypeOK'
  BY <1>1, <1>2, <1>b DEF PoolInv, PoolTypeOK
<1>4. MutexHeld'
  BY <1>1, <1>2 DEF PoolInv, MutexHeld
<1>5. SleepersAsleep'
  BY <1>1, <1>2 DEF PoolInv, SleepersAsleep
<1>6. JobsInOrder'
  <2>1. wpcs[w].job \in {started[i] : i \in 1..Len(started)}
    BY <1>1 DEF PoolInv, RunningStarted
  <2> QED BY <1>1, <2>1 DEF PoolInv, JobsInOrder
<1>7. StartedRuns' /\ RunningStarted'
  BY <1>1, <1>2 DEF PoolInv, StartedRuns, RunningStarted
<1>8. LeavesForReason'
  BY <1>1, <1>2 DEF PoolInv, LeavesForReason
<1>9. OneMissing'
  BY <1>1, <1>2 DEF PoolInv, OneMissing
<1> QED BY <1>3, <1>4, <1>5, <1>6, <1>7, <1>8, <1>9 DEF PoolInv

(* A push adds the next job and may end a wait.                               *)
LEMMA PushInv == ASSUME PoolInv, NEW t \in Threads, Push(t) PROVE PoolInv'
<1>1. /\ mutex = NoThread /\ pushed' = pushed + 1 /\ jobs' = Append(jobs, pushed + 1)
      /\ (IF t = Owner THEN opc = "idle" ELSE wpcs[t].pc = "run")
      /\ UNCHANGED <<mutex, stop, started, finished, opc>>
  BY DEF Push
<1> DEFINE Woken(v) == \/ wpcs'[v] = wpcs[v] /\ (v \in sleepers' <=> v \in sleepers)
                       \/ wpcs[v].pc = "asleep" /\ wpcs'[v].pc = "lock" /\ v \notin sleepers'
<1>2. wpcs' \in [Workers -> WorkerFrames] /\ sleepers' \in SUBSET Workers /\ \A v \in Workers : Woken(v)
  <2>1. CASE UNCHANGED <<sleepers, wpcs>>
    BY <2>1 DEF PoolInv, PoolTypeOK
  <2>2. ASSUME NEW w \in sleepers, sleepers' = sleepers \ {w}, Goto(w, "lock")
        PROVE  wpcs' \in [Workers -> WorkerFrames] /\ sleepers' \in SUBSET Workers /\ \A v \in Workers : Woken(v)
    <3>1. w \in Workers /\ "lock" \in WorkerPc /\ wpcs[w].pc = "asleep"
      BY DEF WorkerPc, PoolInv, PoolTypeOK, SleepersAsleep
    <3>2. /\ wpcs' \in [Workers -> WorkerFrames] /\ wpcs'[w].pc = "lock"
          /\ \A v \in Workers : v # w => wpcs'[v] = wpcs[v]
      BY <2>2, <3>1, GotoFacts DEF PoolInv, PoolTypeOK
    <3> QED BY <2>2, <3>1, <3>2 DEF PoolInv, PoolTypeOK
  <2> QED BY <2>1, <2>2 DEF Push
<1>a. jobs' \in Seq(Nat) /\ jobs' # <<>> /\ pushed' \in Nat
  BY <1>1 DEF PoolInv, PoolTypeOK
<1>3. PoolTypeOK'
  BY <1>1, <1>2, <1>a DEF PoolInv, PoolTypeOK
<1>4. MutexHeld'
  BY <1>1, <1>2 DEF PoolInv, MutexHeld
<1>5. SleepersAsleep'
  BY <1>1, <1>2 DEF PoolInv, SleepersAsleep
<1>6. JobsInOrder'
  <2>1. started \o jobs' = [i \in 1..pushed + 1 |-> i]
    <3>1. started \in Seq(Nat) /\ jobs \in Seq(Nat) /\ pushed \in Nat /\ started \o jobs = Numbers(pushed)
      BY DEF PoolInv, PoolTypeOK, JobsInOrder, Numbers
    <3>2. started \o Append(jobs, pushed + 1) = Numbers(pushed + 1)
      BY <3>1, PushNumber, Zenon
    <3> QED BY <1>1, <3>2 DEF Numbers
  <2> QED BY <1>1, <2>1 DEF PoolInv, JobsInOrder
<1>7. StartedRuns' /\ RunningStarted'
  BY <1>1, <1>2 DEF PoolInv, StartedRuns, RunningStarted
<1>8. LeavesForReason'
  <2>1. \A v \in Workers : (wpcs'[v].pc = "done" <=> wpcs[v].pc = "done") /\ (wpcs'[v].pc = "take" => wpcs[v].pc = "take")
    BY <1>2
  <2>2. \E v \in Workers : wpcs[v].pc # "done"
    <3>1. CASE t = Owner
      BY <1>1, <3>1, ThreadPoolAssumption DEF PoolInv, LeavesForReason
    <3>2. CASE t # Owner
      BY <1>1, <3>2 DEF Threads
    <3> QED BY <3>1, <3>2
  <2> QED BY <1>1, <1>a, <2>1, <2>2 DEF PoolInv, LeavesForReason
<1>9. OneMissing'
  <2>1. \A v \in Workers : wpcs'[v].pc \in {"wait", "asleep"} => wpcs[v].pc \in {"wait", "asleep"}
    BY <1>2
  <2> QED BY <1>1, <2>1 DEF PoolInv, OneMissing
<1> QED BY <1>3, <1>4, <1>5, <1>6, <1>7, <1>8, <1>9 DEF PoolInv

(* The destructor sets _stop, ends the waits, and waits for the workers.      *)
LEMMA DestroyInv == ASSUME PoolInv, StoreStop \/ Destroy PROVE PoolInv'
<1>1. CASE StoreStop
  <2>1. /\ opc = "idle" /\ stop' = TRUE /\ opc' = "broadcast"
        /\ UNCHANGED <<mutex, sleepers, jobs, pushed, started, finished, wpcs>>
    BY <1>1 DEF StoreStop
  <2>2. stop' \in BOOLEAN /\ (stop' <=> TRUE)
    BY <2>1, Zenon
  <2>3. PoolTypeOK'
    BY <2>1, <2>2 DEF PoolInv, PoolTypeOK, OwnerPc
  <2>4. (MutexHeld /\ SleepersAsleep /\ JobsInOrder /\ StartedRuns /\ RunningStarted)'
    BY <2>1 DEF PoolInv, MutexHeld, SleepersAsleep, JobsInOrder, StartedRuns, RunningStarted
  <2>5. (LeavesForReason /\ OneMissing)'
    BY <2>1, <2>2 DEF PoolInv, LeavesForReason, OneMissing
  <2> QED BY <2>3, <2>4, <2>5 DEF PoolInv
<1>2. CASE Broadcast
  <2>1. /\ opc = "broadcast" /\ opc' = "join" /\ sleepers' = {}
        /\ wpcs' = [w \in Workers |-> IF w \in sleepers THEN [wpcs[w] EXCEPT !.pc = "lock"] ELSE wpcs[w]]
        /\ UNCHANGED <<mutex, stop, jobs, pushed, started, finished>>
    BY <1>2 DEF Broadcast
  <2>2. ASSUME NEW w \in Workers
        PROVE  /\ wpcs'[w] \in WorkerFrames
               /\ \/ wpcs'[w] = wpcs[w] /\ wpcs[w].pc # "asleep"
                  \/ wpcs[w].pc = "asleep" /\ wpcs'[w].pc = "lock"
    <3>1. wpcs[w] \in WorkerFrames /\ "lock" \in WorkerPc
      BY DEF PoolInv, PoolTypeOK, WorkerPc
    <3>2. [wpcs[w] EXCEPT !.pc = "lock"] \in WorkerFrames /\ [wpcs[w] EXCEPT !.pc = "lock"].pc = "lock"
      BY <3>1 DEF WorkerFrames
    <3>3. w \in sleepers <=> wpcs[w].pc = "asleep"
      BY DEF PoolInv, SleepersAsleep
    <3> QED BY <2>1, <3>1, <3>2, <3>3
  <2>3. PoolTypeOK'
    <3>1. wpcs' \in [Workers -> WorkerFrames]
      BY <2>1, <2>2
    <3> QED BY <2>1, <3>1 DEF PoolInv, PoolTypeOK, OwnerPc
  <2>4. MutexHeld'
    BY <2>1, <2>2 DEF PoolInv, MutexHeld
  <2>5. SleepersAsleep'
    BY <2>1, <2>2 DEF PoolInv, SleepersAsleep
  <2>6. JobsInOrder'
    BY <2>1 DEF PoolInv, JobsInOrder
  <2>7. StartedRuns' /\ RunningStarted'
    <3>1. \A v \in Workers : (wpcs[v].pc = "run" \/ wpcs'[v].pc = "run") => wpcs'[v] = wpcs[v]
      BY <2>2
    <3>2. StartedRuns'
      BY <2>1, <3>1 DEF PoolInv, StartedRuns
    <3>3. RunningStarted'
      BY <2>1, <3>1 DEF PoolInv, RunningStarted
    <3> QED BY <3>2, <3>3
  <2>8. LeavesForReason'
    <3>1. \A v \in Workers : (wpcs'[v].pc = "done" <=> wpcs[v].pc = "done") /\ (wpcs'[v].pc = "take" => wpcs[v].pc = "take")
      BY <2>2
    <3> QED BY <2>1, <3>1 DEF PoolInv, LeavesForReason
  <2>9. OneMissing'
    <3>1. \A v \in Workers : wpcs'[v].pc \in {"wait", "asleep"} => mutex = v
      BY <2>2 DEF PoolInv, MutexHeld
    <3> QED BY <3>1 DEF OneMissing
  <2> QED BY <2>3, <2>4, <2>5, <2>6, <2>7, <2>8, <2>9 DEF PoolInv
<1>3. CASE Join
  <2>1. /\ opc = "join" /\ opc' = "gone" /\ \A w \in Workers : wpcs[w].pc = "done"
        /\ UNCHANGED <<mutex, sleepers, stop, jobs, pushed, started, finished, wpcs>>
    BY <1>3 DEF Join
  <2>2. PoolTypeOK'
    BY <2>1 DEF PoolInv, PoolTypeOK, OwnerPc
  <2>3. (MutexHeld /\ SleepersAsleep /\ JobsInOrder /\ StartedRuns /\ RunningStarted)'
    BY <2>1 DEF PoolInv, MutexHeld, SleepersAsleep, JobsInOrder, StartedRuns, RunningStarted
  <2>4. (LeavesForReason /\ OneMissing)'
    BY <2>1 DEF PoolInv, LeavesForReason, OneMissing
  <2> QED BY <2>2, <2>3, <2>4 DEF PoolInv
<1> QED BY <1>1, <1>2, <1>3 DEF Destroy

(* The invariant is inductive.                                                *)
LEMMA PoolStep == ASSUME PoolInv, [ThreadPoolNext]_poolVars PROVE PoolInv'
<1>1. CASE UNCHANGED poolVars
  BY <1>1 DEF poolVars, PoolInv, PoolTypeOK, MutexHeld, SleepersAsleep, JobsInOrder, StartedRuns, RunningStarted,
              LeavesForReason, OneMissing
<1>2. CASE ThreadPoolNext
  BY <1>2, LockInv, TestInv, WaitInv, SpuriousInv, LeaveInv, TakeInv, RunJobInv, PushInv, DestroyInv
  DEF ThreadPoolNext, Work
<1> QED BY <1>1, <1>2

(* When the destructor has returned no job is left, waiting or running.       *)
LEMMA PoolInvSafe == PoolInv => PoolSafe
<1> SUFFICES ASSUME PoolInv PROVE PoolSafe
  OBVIOUS
<1>1. DestructorDrains
  <2> SUFFICES ASSUME opc = "gone" PROVE finished = 1..pushed
    BY DEF DestructorDrains
  <2>1. (\A w \in Workers : wpcs[w].pc = "done") /\ jobs = <<>>
    BY DEF PoolInv, LeavesForReason
  <2>2. started \in Seq(Nat) /\ pushed \in Nat /\ started \o jobs = [i \in 1..pushed |-> i]
    BY DEF PoolInv, PoolTypeOK, JobsInOrder
  <2>3. started = [i \in 1..pushed |-> i]
    BY <2>1, <2>2, ConcatEmptySeq
  <2>4. Len(started) = pushed /\ \A i \in 1..pushed : started[i] = i
    BY <2>2, <2>3
  <2>5. finished \subseteq 1..pushed
    BY <2>4 DEF PoolInv, JobsInOrder
  <2>6. \A i \in 1..pushed : i \in finished
    BY <2>1, <2>4 DEF PoolInv, StartedRuns
  <2> QED BY <2>5, <2>6
<1>2. OneWorkerMissesStop
  BY DEF PoolInv, OneWorkerMissesStop, OneMissing, SleepersAsleep
<1> QED BY <1>1, <1>2 DEF PoolInv, PoolSafe

(* The pool inside Threading: another part's step leaves it alone.             *)
LEMMA PoolPart == ASSUME PoolInv, [Next]_vars PROVE PoolInv'
<1>1. ThreadPoolNext \/ UNCHANGED poolVars
  BY DEF Next, vars, InFutex, InArena, InPool, InTimer, InSegment, InMonitor, InThread, InSemaphore, InStatistics, InRange
<1> QED BY <1>1, PoolStep

(* ThreadPool, for any number of workers and of jobs: jobs are taken in the order of the pushes, each
   once; all have run when the destructor returns; and it misses one worker at most. *)
THEOREM ThreadPoolIsSafe == Spec => []PoolSafe
<1>1. Init => PoolInv
  BY PoolInitInv DEF Init
<1>2. PoolInv /\ [Next]_vars => PoolInv'
  BY PoolPart
<1> QED BY <1>1, <1>2, PoolInvSafe, PTL DEF Spec

-----------------------------------------------------------------------------
(* The arena.                                                                *)

Idx == 0..Count - 1
Links == Idx \cup {NullIdx, Garbage}
Heads == [idx : Links, gen : Nat]
CallPc == {"idle", "pop", "take", "link", "give"}
Calls == [pc : CallPc, pool : Pools, promote : BOOLEAN, chunk : Idx, cur : Heads, nxt : Links]

ArenaTypeOK ==
    /\ next \in [Pools -> [Idx -> Links]] /\ top \in [Pools -> Heads]
    /\ frame \in [Users -> Calls] /\ owned \in [Users -> SUBSET Chunks]

(* Chunk x of pool p is on its way back, or with an owner.                    *)
Back(p, x) == \E t \in Users : frame[t].pc \in {"link", "give"} /\ frame[t].pool = p /\ frame[t].chunk = x
Out(p, x) == \E t \in Users : <<p, x>> \in owned[t]

OnList(n, s, x) == \E i \in 1..n : s[i] = x

(* The free list, and that each chunk is on it, on its way back or with an owner, and once. *)
Holds(p, n, s) ==
    /\ IsFreeList(p, n, s)
    /\ \A x \in Idx : /\ OnList(n, s, x) <=> ~(Back(p, x) \/ Out(p, x))
                      /\ ~(Back(p, x) /\ Out(p, x))

Kept(p) == \E n \in Nat : \E s \in [1..n -> Idx] : Holds(p, n, s)

(* No two threads give the same chunk back.                                   *)
GiversApart ==
    \A t, u \in Users : t # u /\ frame[t].pc \in {"link", "give"} /\ frame[u].pc \in {"link", "give"}
                          /\ frame[t].pool = frame[u].pool => frame[t].chunk # frame[u].chunk

(* What a call knows: the head it loaded is the present one if the generation is, however the list has
   changed in between; then what it read of the first chunk is still so.      *)
CallInv(f) ==
    /\ f.pc # "idle" => f.cur.gen <= top[f.pool].gen /\ (f.cur.gen = top[f.pool].gen => f.cur = top[f.pool])
    /\ f.pc = "take" /\ f.cur = top[f.pool] => f.cur.idx \in Idx /\ f.nxt = next[f.pool][f.cur.idx]
    /\ f.pc = "give" => next[f.pool][f.chunk] = f.cur.idx

ArenaInv ==
    /\ ArenaTypeOK /\ GiversApart /\ NoDoubleAllocation
    /\ \A p \in Pools : Kept(p)
    /\ \A t \in Users : CallInv(frame[t])

(* A call that is over.                                                       *)
LEMMA NoCallFacts == NoCall \in Calls /\ NoCall.pc = "idle"
<1>1. [idx |-> NullIdx, gen |-> 0] \in Heads
  BY DEF Heads, Links
<1>2. 0 \in Idx /\ NullIdx \in Links /\ 1 \in Pools /\ "idle" \in CallPc /\ FALSE \in BOOLEAN
  BY ArenaAssumption DEF Idx, Links, Pools, CallPc
<1> QED BY <1>1, <1>2 DEF NoCall, Calls

(* The fields of a call.                                                      *)
LEMMA CallFacts ==
  ASSUME NEW f \in Calls
  PROVE  /\ f.pc \in CallPc /\ f.pool \in Pools /\ f.chunk \in Idx /\ f.cur \in Heads /\ f.nxt \in Links
         /\ f.cur.idx \in Links /\ f.cur.gen \in Nat /\ f.promote \in BOOLEAN
BY DEF Calls, Heads

(* The head of a pool.                                                        *)
LEMMA TopFacts ==
  ASSUME ArenaTypeOK, NEW p \in Pools
  PROVE  top[p] \in Heads /\ top[p].idx \in Links /\ top[p].gen \in Nat
BY DEF ArenaTypeOK, Heads

(* A pool whose list is not touched, and whose other chunks change hands among the threads, is kept. *)
LEMMA HoldsStill ==
  ASSUME NEW p \in Pools, NEW n \in Nat, NEW s \in [1..n -> Idx], Holds(p, n, s), top'[p] = top[p],
         \A i \in 1..n : next'[p][s[i]] = next[p][s[i]],
         \A x \in Idx : (Back(p, x)' \/ Out(p, x)') <=> (Back(p, x) \/ Out(p, x)),
         \A x \in Idx : ~(Back(p, x)' /\ Out(p, x)')
  PROVE  Kept(p)'
<1>1. IsFreeList(p, n, s)'
  BY DEF Holds, IsFreeList
<1>2. ASSUME NEW x \in Idx PROVE (OnList(n, s, x) <=> ~(Back(p, x)' \/ Out(p, x)')) /\ ~(Back(p, x)' /\ Out(p, x)')
  BY DEF Holds
<1> HIDE DEF Back, Out
<1>3. Holds(p, n, s)'
  BY <1>1, <1>2 DEF Holds, OnList
<1> QED BY <1>3 DEF Kept

(* The chunks at the start.                                                   *)
LEMMA ArenaInitInv == ArenaInit => ArenaInv
<1> SUFFICES ASSUME ArenaInit PROVE ArenaInv
  OBVIOUS
<1>0. /\ next = [p \in Pools |-> [i \in Idx |-> IF i = Count - 1 THEN NullIdx ELSE i + 1]]
      /\ top = [p \in Pools |-> [idx |-> 0, gen |-> 0]]
      /\ frame = [t \in Users |-> NoCall] /\ owned = [t \in Users |-> {}]
  BY DEF ArenaInit, Idx
<1>1. ArenaTypeOK
  <2>1. ASSUME NEW i \in Idx PROVE (IF i = Count - 1 THEN NullIdx ELSE i + 1) \in Links
    BY ArenaAssumption DEF Idx, Links
  <2>2. [idx |-> 0, gen |-> 0] \in Heads
    BY ArenaAssumption DEF Heads, Links, Idx
  <2> QED BY <1>0, <2>1, <2>2, NoCallFacts DEF ArenaTypeOK
<1>2. GiversApart /\ NoDoubleAllocation /\ \A t \in Users : CallInv(frame[t])
  BY <1>0, NoCallFacts DEF GiversApart, NoDoubleAllocation, CallInv
<1>3. ASSUME NEW p \in Pools PROVE Kept(p)
  <2> DEFINE s == [i \in 1..Count |-> i - 1]
  <2>1. Count \in Nat /\ s \in [1..Count -> Idx] /\ Count # 0
    BY ArenaAssumption DEF Idx
  <2>2. IsFreeList(p, Count, s)
    <3>1. \A i, j \in 1..Count : s[i] = s[j] => i = j
      BY <2>1
    <3>2. top[p].idx = s[1]
      BY <1>0, <2>1
    <3>3. ASSUME NEW i \in 1..Count PROVE next[p][s[i]] = IF i = Count THEN NullIdx ELSE s[i + 1]
      <4>1. s[i] = i - 1 /\ i - 1 \in Idx /\ (i - 1 = Count - 1 <=> i = Count) /\ (i # Count => s[i + 1] = i)
        BY <2>1 DEF Idx
      <4>2. next[p][i - 1] = IF i - 1 = Count - 1 THEN NullIdx ELSE (i - 1) + 1
        BY <1>0, <4>1
      <4> QED BY <4>1, <4>2
    <3> QED BY <2>1, <3>1, <3>2, <3>3 DEF IsFreeList
  <2>3. ASSUME NEW x \in Idx PROVE OnList(Count, s, x) /\ ~Back(p, x) /\ ~Out(p, x)
    <3>1. x + 1 \in 1..Count /\ s[x + 1] = x
      BY <2>1 DEF Idx
    <3>2. OnList(Count, s, x)
      BY <3>1 DEF OnList
    <3>3. ~Back(p, x) /\ ~Out(p, x)
      BY <1>0, NoCallFacts DEF Back, Out
    <3> QED BY <3>2, <3>3
  <2> HIDE DEF s
  <2> QED BY <2>1, <2>2, <2>3 DEF Kept, Holds
<1> QED BY <1>1, <1>2, <1>3 DEF ArenaInv

Giving(f) == f.pc \in {"link", "give"}

(* A step that only moves a call on, and gives back no other chunk than before. *)
LEMMA CallStep ==
  ASSUME ArenaInv, NEW t \in Users, NEW g \in Calls, Frame(t, g), UNCHANGED <<next, top, owned>>, CallInv(g),
         Giving(g) <=> Giving(frame[t]), Giving(g) => g.pool = frame[t].pool /\ g.chunk = frame[t].chunk
  PROVE  ArenaInv'
<1>1. /\ frame' \in [Users -> Calls] /\ frame'[t] = g /\ \A u \in Users : u # t => frame'[u] = frame[u]
  BY DEF Frame, ArenaInv, ArenaTypeOK
<1>2. ArenaTypeOK'
  BY <1>1 DEF ArenaInv, ArenaTypeOK
<1>3. \A u \in Users : /\ Giving(frame'[u]) <=> Giving(frame[u])
                       /\ Giving(frame[u]) => frame'[u].pool = frame[u].pool /\ frame'[u].chunk = frame[u].chunk
  BY <1>1
<1>4. (GiversApart /\ NoDoubleAllocation)'
  BY <1>3 DEF ArenaInv, GiversApart, NoDoubleAllocation, Giving
<1>5. ASSUME NEW p \in Pools PROVE Kept(p)'
  <2>1a. PICK n \in Nat : \E s \in [1..n -> Idx] : Holds(p, n, s)
    BY DEF ArenaInv, Kept
  <2>1. PICK s \in [1..n -> Idx] : Holds(p, n, s)
    BY <2>1a
  <2>2. ASSUME NEW x \in Idx PROVE (Back(p, x)' <=> Back(p, x)) /\ (Out(p, x)' <=> Out(p, x))
    BY <1>3 DEF Back, Out, Giving
  <2>3. \A x \in Idx : ~(Back(p, x) /\ Out(p, x))
    BY <2>1 DEF Holds
  <2> QED BY <2>1, <2>2, <2>3, HoldsStill
<1>6. ASSUME NEW u \in Users PROVE CallInv(frame[u])'
  BY <1>1 DEF ArenaInv, CallInv
<1> QED BY <1>2, <1>4, <1>5, <1>6 DEF ArenaInv

(* The head that is loaded is the present one.                                *)
LEMMA AllocateInv ==
  ASSUME ArenaInv, NEW t \in Users, NEW class \in Pools, NEW promote \in BOOLEAN, Allocate(t, class, promote)
  PROVE  ArenaInv'
<1> DEFINE g == [NoCall EXCEPT !.pc = "pop", !.pool = class, !.promote = promote, !.cur = top[class]]
<1>1. /\ top[class] \in Heads /\ top[class].gen \in Nat
  BY TopFacts DEF ArenaInv
<1>2. g \in Calls /\ g.pc = "pop" /\ g.pool = class /\ g.cur = top[class]
  <2>1. "pop" \in CallPc
    BY DEF CallPc
  <2> QED BY <1>1, <2>1, NoCallFacts DEF Calls
<1>3. Frame(t, g) /\ UNCHANGED <<next, top, owned>> /\ frame[t].pc = "idle"
  BY DEF Allocate
<1> HIDE DEF g
<1>4. CallInv(g)
  BY <1>1, <1>2 DEF CallInv
<1> QED BY <1>2, <1>3, <1>4, CallStep DEF Giving

(* The head of a pool, if it is not null, is the first chunk of its list.     *)
LEMMA TopIsFirst ==
  ASSUME NEW p \in Pools, NEW n \in Nat, NEW s \in [1..n -> Idx], Holds(p, n, s)
  PROVE  /\ top[p].idx = NullIdx => n = 0
         /\ top[p].idx # NullIdx => n > 0 /\ s[1] = top[p].idx /\ top[p].idx \in Idx
<1>1. top[p].idx = IF n = 0 THEN NullIdx ELSE s[1]
  BY DEF Holds, IsFreeList
<1>2. n # 0 => s[1] \in Idx
  OBVIOUS
<1>3. NullIdx \notin Idx
  BY ArenaAssumption DEF Idx
<1> QED BY <1>1, <1>2, <1>3

(* What is read of the first chunk is its link if the head is the present one. *)
LEMMA PopReadInv ==
  ASSUME ArenaInv, NEW t \in Users, PopRead(t)
  PROVE  ArenaInv'
<1> PICK f : f = frame[t]
  OBVIOUS
<1>1. /\ f \in Calls /\ f.pool \in Pools /\ f.cur \in Heads /\ f.cur.idx \in Links /\ f.pc = "pop" /\ CallInv(f)
      /\ f.cur.gen \in Nat /\ UNCHANGED <<next, top, owned>>
  <2>1. f \in Calls /\ CallInv(f)
    BY DEF ArenaInv, ArenaTypeOK
  <2> QED BY <2>1, CallFacts DEF PopRead
<1>2. CASE f.cur.idx # NullIdx /\ Frame(t, [f EXCEPT !.pc = "take", !.nxt = NextOf(f.pool, f.cur.idx)])
  <2> DEFINE g == [f EXCEPT !.pc = "take", !.nxt = NextOf(f.pool, f.cur.idx)]
  <2>1. NextOf(f.pool, f.cur.idx) \in Links
    BY <1>1 DEF NextOf, ArenaInv, ArenaTypeOK, Links, Idx
  <2>2. g \in Calls /\ g.pc = "take" /\ g.pool = f.pool /\ g.cur = f.cur /\ g.nxt = NextOf(f.pool, f.cur.idx)
    BY <1>1, <2>1 DEF Calls, CallPc
  <2>3. Frame(t, g)
    BY <1>2
  <2> HIDE DEF g
  <2>4. CallInv(g)
    <3>1. ASSUME f.cur = top[f.pool] PROVE f.cur.idx \in Idx
      <4>1a. PICK n \in Nat : \E s \in [1..n -> Idx] : Holds(f.pool, n, s)
        BY <1>1 DEF ArenaInv, Kept
      <4>1. PICK s \in [1..n -> Idx] : Holds(f.pool, n, s)
        BY <4>1a
      <4> QED BY <1>1, <1>2, <3>1, <4>1, TopIsFirst
    <3>2. f.cur.idx \in Idx => NextOf(f.pool, f.cur.idx) = next[f.pool][f.cur.idx]
      BY DEF NextOf, Idx
    <3> QED BY <1>1, <2>2, <3>1, <3>2 DEF CallInv
  <2> QED BY <1>1, <2>2, <2>3, <2>4, CallStep DEF Giving
<1>3. CASE f.promote /\ f.pool < Classes /\ Frame(t, [f EXCEPT !.pool = @ + 1, !.cur = top[f.pool + 1]])
  <2> DEFINE g == [f EXCEPT !.pool = @ + 1, !.cur = top[f.pool + 1]]
  <2>1. f.pool + 1 \in Pools
    BY <1>1, <1>3, ArenaAssumption DEF Pools
  <2>2. top[f.pool + 1] \in Heads /\ top[f.pool + 1].gen \in Nat
    BY <2>1, TopFacts DEF ArenaInv
  <2>3. g \in Calls /\ g.pc = "pop" /\ g.pool = f.pool + 1 /\ g.cur = top[f.pool + 1]
    BY <1>1, <2>1, <2>2 DEF Calls
  <2>4. Frame(t, g)
    BY <1>3
  <2> HIDE DEF g
  <2>5. CallInv(g)
    BY <2>2, <2>3 DEF CallInv
  <2> QED BY <1>1, <2>3, <2>4, <2>5, CallStep DEF Giving
<1>4. CASE Frame(t, NoCall)
  <2>1. CallInv(NoCall)
    BY NoCallFacts DEF CallInv
  <2> QED BY <1>1, <1>4, <2>1, NoCallFacts, CallStep DEF Giving
<1> QED BY <1>2, <1>3, <1>4 DEF PopRead

(* A compare-exchange that fails loads the present head.                      *)
LEMMA RetryInv ==
  ASSUME ArenaInv, NEW t \in Users, NEW pc \in {"pop", "link"}, frame[t].pc \in {"take", "give"},
         pc = "link" <=> frame[t].pc = "give",
         Frame(t, [frame[t] EXCEPT !.pc = pc, !.cur = top[frame[t].pool]]), UNCHANGED <<next, top, owned>>
  PROVE  ArenaInv'
<1> PICK f : f = frame[t]
  OBVIOUS
<1> DEFINE g == [f EXCEPT !.pc = pc, !.cur = top[f.pool]]
<1>1. f \in Calls /\ f.pool \in Pools
  <2>1. f \in Calls
    BY DEF ArenaInv, ArenaTypeOK
  <2> QED BY <2>1, CallFacts
<1>2. top[f.pool] \in Heads /\ top[f.pool].gen \in Nat
  BY <1>1, TopFacts DEF ArenaInv
<1>3. g \in Calls /\ g.pc = pc /\ g.pool = f.pool /\ g.chunk = f.chunk /\ g.cur = top[f.pool]
  BY <1>1, <1>2 DEF Calls, CallPc
<1>4. Frame(t, g)
  OBVIOUS
<1> HIDE DEF g
<1>5. CallInv(g)
  BY <1>2, <1>3 DEF CallInv
<1> QED BY <1>3, <1>4, <1>5, CallStep DEF Giving

(* What other calls know when the head of pool q moves on by a generation.    *)
LEMMA NewHead ==
  ASSUME ArenaTypeOK, NEW q \in Pools, NEW x \in Links, top' = [top EXCEPT ![q] = [idx |-> x, gen |-> top[q].gen + 1]],
         next' = next, NEW f \in Calls, CallInv(f)
  PROVE  CallInv(f)'
<1>1. f.pool \in Pools /\ f.cur.gen \in Nat /\ f.chunk \in Idx
  BY CallFacts
<1>2. top[q].gen \in Nat
  BY TopFacts
<1>3. CASE f.pool = q
  <2>1. top'[q].gen = top[q].gen + 1
    BY DEF ArenaTypeOK
  <2>2. f.pc # "idle" => f.cur.gen < top'[q].gen
    BY <1>1, <1>2, <1>3, <2>1 DEF CallInv
  <2>3. f.pc # "idle" => f.cur # top'[q] /\ f.cur.gen # top'[q].gen
    BY <1>1, <1>2, <2>1, <2>2
  <2> QED BY <1>1, <1>2, <1>3, <2>1, <2>2, <2>3 DEF CallInv
<1>4. CASE f.pool # q
  <2>1. top'[f.pool] = top[f.pool]
    BY <1>1, <1>4 DEF ArenaTypeOK
  <2> QED BY <2>1 DEF CallInv
<1> QED BY <1>3, <1>4

(* The compare-exchange of pop succeeds: the first chunk leaves the list, and the head is the second. *)
LEMMA PopTakeInv ==
  ASSUME ArenaInv, NEW t \in Users, frame[t].pc = "take", top[frame[t].pool] = frame[t].cur,
         top' = [top EXCEPT ![frame[t].pool] = [idx |-> frame[t].nxt, gen |-> frame[t].cur.gen + 1]],
         owned' = [owned EXCEPT ![t] = @ \cup {<<frame[t].pool, frame[t].cur.idx>>}],
         Frame(t, NoCall), next' = next
  PROVE  ArenaInv'
<1> PICK f : f = frame[t]
  OBVIOUS
<1> PICK q : q = f.pool
  OBVIOUS
<1> PICK y : y = f.cur.idx
  OBVIOUS
<1>1. /\ f \in Calls /\ q \in Pools /\ f.nxt \in Links /\ y \in Idx /\ f.nxt = next[q][y] /\ top[q].idx = y
      /\ top[q].gen \in Nat /\ top[q].gen = f.cur.gen
  <2>1. f \in Calls /\ CallInv(f)
    BY DEF ArenaInv, ArenaTypeOK
  <2>2. f.cur.idx \in Idx /\ f.nxt = next[f.pool][f.cur.idx]
    BY <2>1 DEF CallInv
  <2>3. f.pool \in Pools /\ f.nxt \in Links /\ f.cur.gen \in Nat
    BY <2>1, CallFacts
  <2> QED BY <2>1, <2>2, <2>3
<1>2. /\ top' = [top EXCEPT ![q] = [idx |-> f.nxt, gen |-> top[q].gen + 1]]
      /\ owned' = [owned EXCEPT ![t] = owned[t] \cup {<<q, y>>}]
      /\ frame' = [frame EXCEPT ![t] = NoCall]
  BY <1>1 DEF Frame
<1>3. /\ frame' \in [Users -> Calls] /\ frame'[t] = NoCall /\ \A u \in Users : u # t => frame'[u] = frame[u]
  BY <1>2, NoCallFacts DEF ArenaInv, ArenaTypeOK
<1>4. /\ \A u \in Users : u # t => owned'[u] = owned[u]
      /\ owned'[t] = owned[t] \cup {<<q, y>>}
      /\ owned' \in [Users -> SUBSET Chunks]
  <2>1. <<q, y>> \in Chunks
    BY <1>1 DEF Chunks, Idx
  <2> QED BY <1>2, <2>1 DEF ArenaInv, ArenaTypeOK
<1>5. /\ top'[q].idx = f.nxt /\ \A p \in Pools : p # q => top'[p] = top[p]
      /\ top' \in [Pools -> Heads]
  <2>1. [idx |-> f.nxt, gen |-> top[q].gen + 1] \in Heads
    BY <1>1 DEF Heads
  <2> QED BY <1>1, <1>2, <2>1 DEF ArenaInv, ArenaTypeOK
<1>6. ArenaTypeOK'
  BY <1>3, <1>4, <1>5 DEF ArenaInv, ArenaTypeOK
<1>7a. PICK n \in Nat : \E s \in [1..n -> Idx] : Holds(q, n, s)
  BY <1>1 DEF ArenaInv, Kept
<1>7. PICK s \in [1..n -> Idx] : Holds(q, n, s)
  BY <1>7a
<1>8. n > 0 /\ s[1] = y
  <2>1. y # NullIdx
    BY <1>1, ArenaAssumption DEF Idx
  <2> QED BY <1>1, <1>7, <2>1, TopIsFirst
<1>9. ~Back(q, y) /\ ~Out(q, y)
  <2>1. OnList(n, s, y)
    BY <1>8 DEF OnList
  <2> QED BY <1>1, <1>7, <2>1 DEF Holds
<1>10. GiversApart'
  BY <1>3, NoCallFacts DEF ArenaInv, GiversApart
<1>11. NoDoubleAllocation'
  <2> SUFFICES ASSUME NEW u \in Users, NEW v \in Users, u # v, NEW c \in owned'[u], c \in owned'[v] PROVE FALSE
    BY DEF NoDoubleAllocation
  <2>1. \A w \in Users : w # t => <<q, y>> \notin owned[w]
    BY <1>9 DEF Out
  <2> QED BY <1>4, <2>1 DEF ArenaInv, NoDoubleAllocation
<1>12. ASSUME NEW p \in Pools, NEW x \in Idx
       PROVE  /\ Back(p, x)' <=> Back(p, x)
              /\ Out(p, x)' <=> Out(p, x) \/ (p = q /\ x = y)
  <2>1. Back(p, x)' <=> Back(p, x)
    BY <1>3, NoCallFacts DEF Back
  <2>2. Out(p, x)' <=> Out(p, x) \/ (p = q /\ x = y)
    BY <1>4 DEF Out
  <2> QED BY <2>1, <2>2
<1>13. ASSUME NEW p \in Pools PROVE Kept(p)'
  <2>1. CASE p # q
    <3>1a. PICK m \in Nat : \E r \in [1..m -> Idx] : Holds(p, m, r)
      BY DEF ArenaInv, Kept
    <3>1. PICK r \in [1..m -> Idx] : Holds(p, m, r)
      BY <3>1a
    <3>2. \A x \in Idx : ~(Back(p, x) /\ Out(p, x))
      BY <3>1 DEF Holds
    <3>3. top'[p] = top[p]
      BY <1>5, <2>1
    <3> QED BY <1>12, <2>1, <3>1, <3>2, <3>3, HoldsStill
  <2>2. CASE p = q
    <3> DEFINE m == n - 1
               r == [i \in 1..m |-> s[i + 1]]
    <3>1. m \in Nat /\ r \in [1..m -> Idx] /\ \A i \in 1..m : i + 1 \in 1..n /\ r[i] = s[i + 1]
      BY <1>8
    <3>2. \A i, j \in 1..n : s[i] = s[j] => i = j
      BY <1>7 DEF Holds, IsFreeList
    <3>3. \A i \in 1..n : next[q][s[i]] = IF i = n THEN NullIdx ELSE s[i + 1]
      BY <1>7 DEF Holds, IsFreeList
    <3> HIDE DEF r
    <3>4. \A i, j \in 1..m : r[i] = r[j] => i = j
      <4> SUFFICES ASSUME NEW i \in 1..m, NEW j \in 1..m, r[i] = r[j] PROVE i = j
        OBVIOUS
      <4>1. i + 1 \in 1..n /\ j + 1 \in 1..n /\ s[i + 1] = s[j + 1]
        BY <3>1
      <4>2. i + 1 = j + 1
        BY <3>2, <4>1
      <4> QED BY <4>2
    <3>5. top'[q].idx = IF m = 0 THEN NullIdx ELSE r[1]
      <4>1. 1 \in 1..n /\ (n = 1 <=> m = 0) /\ (m # 0 => 1 \in 1..m /\ 1 + 1 = 2)
        BY <1>8, <3>1
      <4>2. f.nxt = IF 1 = n THEN NullIdx ELSE s[1 + 1]
        BY <1>1, <1>8, <3>3, <4>1
      <4> QED BY <1>5, <3>1, <4>1, <4>2
    <3>6. ASSUME NEW i \in 1..m PROVE next'[q][r[i]] = IF i = m THEN NullIdx ELSE r[i + 1]
      <4>1. i + 1 \in 1..n /\ r[i] = s[i + 1] /\ (i + 1 = n <=> i = m)
        BY <3>1
      <4>2. next[q][s[i + 1]] = IF i + 1 = n THEN NullIdx ELSE s[i + 1 + 1]
        BY <3>3, <4>1
      <4>3. i # m => i + 1 \in 1..m /\ r[i + 1] = s[i + 1 + 1]
        BY <3>1
      <4> QED BY <4>1, <4>2, <4>3
    <3>7. IsFreeList(q, m, r)'
      BY <3>4, <3>5, <3>6 DEF IsFreeList
    <3>8. ASSUME NEW x \in Idx PROVE OnList(m, r, x) <=> OnList(n, s, x) /\ x # y
      <4>1. ASSUME OnList(m, r, x) PROVE OnList(n, s, x) /\ x # y
        <5>1. PICK i \in 1..m : r[i] = x
          BY <4>1 DEF OnList
        <5>2. i + 1 \in 1..n /\ s[i + 1] = x /\ i + 1 # 1 /\ 1 \in 1..n
          BY <1>8, <3>1, <5>1
        <5> QED BY <1>8, <3>2, <5>2 DEF OnList
      <4>2. ASSUME OnList(n, s, x), x # y PROVE OnList(m, r, x)
        <5>1. PICK i \in 1..n : s[i] = x
          BY <4>2 DEF OnList
        <5>2. i # 1
          BY <1>8, <4>2, <5>1
        <5>3. i - 1 \in 1..m /\ (i - 1) + 1 = i
          BY <5>2
        <5>4. r[i - 1] = s[(i - 1) + 1]
          BY <3>1, <5>3
        <5> QED BY <5>1, <5>3, <5>4 DEF OnList
      <4> QED BY <4>1, <4>2
    <3>9. \A x \in Idx : /\ OnList(n, s, x) <=> ~(Back(q, x) \/ Out(q, x))
                         /\ ~(Back(q, x) /\ Out(q, x))
      BY <1>7 DEF Holds
    <3>10. ASSUME NEW x \in Idx PROVE /\ OnList(m, r, x) <=> ~(Back(q, x)' \/ Out(q, x)')
                                      /\ ~(Back(q, x)' /\ Out(q, x)')
      <4>1. (Back(q, x)' <=> Back(q, x)) /\ (Out(q, x)' <=> Out(q, x) \/ x = y)
        BY <1>1, <1>12
      <4> QED BY <1>9, <3>8, <3>9, <4>1
    <3> HIDE DEF m
    <3>11. Holds(q, m, r)'
      BY <3>7, <3>10 DEF Holds, OnList
    <3> QED BY <2>2, <3>1, <3>11 DEF Kept
  <2> QED BY <2>1, <2>2
<1>14. ASSUME NEW u \in Users PROVE CallInv(frame[u])'
  <2>1. CASE u = t
    BY <1>3, <2>1, NoCallFacts DEF CallInv
  <2>2. CASE u # t
    <3> PICK h \in Calls : h = frame[u]
      BY DEF ArenaInv, ArenaTypeOK
    <3>1. CallInv(h)'
      BY <1>1, <1>2, NewHead DEF ArenaInv
    <3> QED BY <1>3, <2>2, <3>1 DEF CallInv
  <2> QED BY <2>1, <2>2
<1> QED BY <1>6, <1>10, <1>11, <1>13, <1>14 DEF ArenaInv

(* The link of chunk y of pool q is now v, and no list and no other call has seen the write. *)
LinkKept(q, y, v) ==
  /\ next' \in [Pools -> [Idx -> Links]] /\ next'[q][y] = v
  /\ \A p \in Pools, n \in Nat : \A s \in [1..n -> Idx] :
       Holds(p, n, s) => \A i \in 1..n : next'[p][s[i]] = next[p][s[i]]
  /\ \A f \in Calls : CallInv(f) /\ (f.pc = "give" => ~(f.pool = q /\ f.chunk = y)) => CallInv(f)'

(* A write to the link of a chunk that is with an owner or on its way back disturbs no list and no call. *)
LEMMA LinkWritten ==
  ASSUME ArenaInv, NEW q \in Pools, NEW y \in Idx, NEW v \in Links, Back(q, y) \/ Out(q, y),
         next' = [next EXCEPT ![q] = [next[q] EXCEPT ![y] = v]], top' = top
  PROVE  LinkKept(q, y, v)
<1>1. next \in [Pools -> [Idx -> Links]]
  BY DEF ArenaInv, ArenaTypeOK
<1>2. /\ next' \in [Pools -> [Idx -> Links]] /\ next'[q][y] = v
      /\ \A p \in Pools, x \in Idx : ~(p = q /\ x = y) => next'[p][x] = next[p][x]
  <2>1. next'[q] = [next[q] EXCEPT ![y] = v] /\ \A p \in Pools : p # q => next'[p] = next[p]
    BY <1>1
  <2>2. next[q] \in [Idx -> Links]
    BY <1>1
  <2>3. next'[q] \in [Idx -> Links] /\ next'[q][y] = v /\ \A x \in Idx : x # y => next'[q][x] = next[q][x]
    BY <2>1, <2>2
  <2>4. next' \in [Pools -> [Idx -> Links]]
    BY <1>1, <2>3
  <2> QED BY <2>1, <2>3, <2>4
<1>3. ASSUME NEW p \in Pools, NEW n \in Nat, NEW s \in [1..n -> Idx], Holds(p, n, s), NEW i \in 1..n
      PROVE  ~(p = q /\ s[i] = y) /\ s[i] \in Idx
  <2>1. OnList(n, s, s[i]) /\ s[i] \in Idx
    BY DEF OnList
  <2>2. ~(Back(p, s[i]) \/ Out(p, s[i]))
    BY <1>3, <2>1 DEF Holds
  <2> QED BY <2>1, <2>2
<1>4. ASSUME NEW f \in Calls, CallInv(f), f.pc = "give" => ~(f.pool = q /\ f.chunk = y) PROVE CallInv(f)'
  <2>1. f.pool \in Pools /\ f.chunk \in Idx
    BY CallFacts
  <2>2. f.pc = "give" => next'[f.pool][f.chunk] = next[f.pool][f.chunk]
    BY <1>2, <1>4, <2>1
  <2>3. ASSUME f.pc = "take", f.cur = top[f.pool] PROVE next'[f.pool][f.cur.idx] = next[f.pool][f.cur.idx]
    <3>1. f.cur.idx \in Idx
      BY <1>4, <2>3 DEF CallInv
    <3>2a. PICK n \in Nat : \E s \in [1..n -> Idx] : Holds(f.pool, n, s)
      BY <2>1 DEF ArenaInv, Kept
    <3>2. PICK s \in [1..n -> Idx] : Holds(f.pool, n, s)
      BY <3>2a
    <3>3. top[f.pool].idx # NullIdx
      BY <2>3, <3>1, ArenaAssumption DEF Idx
    <3>4. n > 0 /\ s[1] = f.cur.idx /\ 1 \in 1..n
      BY <2>1, <2>3, <3>2, <3>3, TopIsFirst
    <3> QED BY <1>2, <1>3, <2>1, <3>1, <3>2, <3>4
  <2> QED BY <1>4, <2>2, <2>3 DEF CallInv
<1> QED BY <1>2, <1>3, <1>4 DEF LinkKept

(* The owner writes its data over the link.                                   *)
LEMMA UseChunkInv ==
  ASSUME ArenaInv, NEW t \in Users, NEW c \in Chunks, UseChunk(t, c)
  PROVE  ArenaInv'
<1> PICK q \in Pools, y \in Idx : c = <<q, y>>
  BY DEF Chunks, Idx
<1>1. /\ next' = [next EXCEPT ![q] = [next[q] EXCEPT ![y] = Garbage]] /\ UNCHANGED <<top, frame, owned>> /\ <<q, y>> \in owned[t]
  BY DEF UseChunk
<1>2. Out(q, y) /\ Garbage \in Links
  BY <1>1 DEF Out, Links
<1>3. /\ next' \in [Pools -> [Idx -> Links]]
      /\ \A p \in Pools, n \in Nat : \A s \in [1..n -> Idx] :
              Holds(p, n, s) => \A i \in 1..n : next'[p][s[i]] = next[p][s[i]]
      /\ \A f \in Calls : CallInv(f) /\ (f.pc = "give" => ~(f.pool = q /\ f.chunk = y)) => CallInv(f)'
  <2>1. LinkKept(q, y, Garbage)
    BY <1>1, <1>2, LinkWritten
  <2> QED BY <2>1 DEF LinkKept
<1>4. ArenaTypeOK' /\ GiversApart' /\ NoDoubleAllocation'
  BY <1>1, <1>3 DEF ArenaInv, ArenaTypeOK, GiversApart, NoDoubleAllocation
<1>5. \A p \in Pools, x \in Idx : (Back(p, x)' <=> Back(p, x)) /\ (Out(p, x)' <=> Out(p, x))
  BY <1>1 DEF Back, Out
<1>6. ASSUME NEW p \in Pools PROVE Kept(p)'
  <2>1a. PICK n \in Nat : \E s \in [1..n -> Idx] : Holds(p, n, s)
    BY DEF ArenaInv, Kept
  <2>1. PICK s \in [1..n -> Idx] : Holds(p, n, s)
    BY <2>1a
  <2>2. \A x \in Idx : ~(Back(p, x) /\ Out(p, x))
    BY <2>1 DEF Holds
  <2>3. \A i \in 1..n : next'[p][s[i]] = next[p][s[i]]
    BY <1>3, <2>1
  <2> QED BY <1>1, <1>5, <2>1, <2>2, <2>3, HoldsStill
<1>7. ASSUME NEW u \in Users PROVE CallInv(frame[u])'
  <2> PICK h \in Calls : h = frame[u]
    BY DEF ArenaInv, ArenaTypeOK
  <2>1. CallInv(h)
    BY DEF ArenaInv
  <2>2. ~Back(q, y)
    <3>1a. PICK n \in Nat : \E s \in [1..n -> Idx] : Holds(q, n, s)
      BY DEF ArenaInv, Kept
    <3>1. PICK s \in [1..n -> Idx] : Holds(q, n, s)
      BY <3>1a
    <3> QED BY <1>2, <3>1 DEF Holds
  <2>3. h.pc = "give" => ~(h.pool = q /\ h.chunk = y)
    BY <2>2 DEF Back
  <2>4. CallInv(h)'
    BY <1>3, <2>1, <2>3
  <2> QED BY <1>1, <2>4 DEF CallInv
<1> QED BY <1>4, <1>6, <1>7 DEF ArenaInv

(* deallocate: a chunk goes from its owner to its way back.                   *)
LEMMA DeallocateInv ==
  ASSUME ArenaInv, NEW t \in Users, NEW c \in Chunks, Deallocate(t, c)
  PROVE  ArenaInv'
<1> PICK q \in Pools, y \in Idx : c = <<q, y>>
  BY DEF Chunks, Idx
<1> DEFINE g == [NoCall EXCEPT !.pc = "link", !.pool = q, !.chunk = y, !.cur = top[q]]
<1>1. /\ frame[t].pc = "idle" /\ <<q, y>> \in owned[t] /\ owned' = [owned EXCEPT ![t] = owned[t] \ {<<q, y>>}]
      /\ frame' = [frame EXCEPT ![t] = g] /\ UNCHANGED <<next, top>>
  BY DEF Deallocate, Frame
<1>2. top[q] \in Heads /\ top[q].gen \in Nat
  BY TopFacts DEF ArenaInv
<1>3. g \in Calls /\ g.pc = "link" /\ g.pool = q /\ g.chunk = y /\ g.cur = top[q]
  <2>1. "link" \in CallPc
    BY DEF CallPc
  <2> QED BY <1>2, <2>1, NoCallFacts DEF Calls
<1> HIDE DEF g
<1>4. /\ frame' \in [Users -> Calls] /\ frame'[t] = g /\ \A u \in Users : u # t => frame'[u] = frame[u]
      /\ owned' \in [Users -> SUBSET Chunks] /\ owned'[t] = owned[t] \ {<<q, y>>} /\ \A u \in Users : u # t => owned'[u] = owned[u]
  BY <1>1, <1>3 DEF ArenaInv, ArenaTypeOK
<1>5. ArenaTypeOK'
  BY <1>1, <1>4 DEF ArenaInv, ArenaTypeOK
<1>6. Out(q, y) /\ ~Back(q, y)
  <2>1a. PICK n \in Nat : \E s \in [1..n -> Idx] : Holds(q, n, s)
    BY DEF ArenaInv, Kept
  <2>1. PICK s \in [1..n -> Idx] : Holds(q, n, s)
    BY <2>1a
  <2>2. Out(q, y)
    BY <1>1 DEF Out
  <2> QED BY <2>1, <2>2 DEF Holds
<1>7. GiversApart'
  <2>1. \A u \in Users : u # t /\ frame[u].pc \in {"link", "give"} /\ frame[u].pool = q => frame[u].chunk # y
    BY <1>6 DEF Back
  <2> QED BY <1>3, <1>4, <2>1 DEF ArenaInv, GiversApart
<1>8. NoDoubleAllocation'
  <2> SUFFICES ASSUME NEW u \in Users, NEW v \in Users, u # v, NEW d \in owned'[u], d \in owned'[v] PROVE FALSE
    BY DEF NoDoubleAllocation
  <2>1. d \in owned[u] /\ d \in owned[v]
    BY <1>4
  <2> QED BY <2>1 DEF ArenaInv, NoDoubleAllocation
<1>9. ASSUME NEW p \in Pools, NEW x \in Idx
      PROVE  /\ Back(p, x)' <=> Back(p, x) \/ (p = q /\ x = y)
             /\ Out(p, x)' <=> Out(p, x) /\ ~(p = q /\ x = y)
  <2>1. Back(p, x)' <=> Back(p, x) \/ (p = q /\ x = y)
    BY <1>1, <1>3, <1>4 DEF Back
  <2>2. \A u \in Users : u # t => <<q, y>> \notin owned[u]
    BY <1>1 DEF ArenaInv, NoDoubleAllocation
  <2>3. Out(p, x)' <=> Out(p, x) /\ ~(p = q /\ x = y)
    BY <1>4, <2>2 DEF Out
  <2> QED BY <2>1, <2>3
<1>10. ASSUME NEW p \in Pools PROVE Kept(p)'
  <2>1a. PICK n \in Nat : \E s \in [1..n -> Idx] : Holds(p, n, s)
    BY DEF ArenaInv, Kept
  <2>1. PICK s \in [1..n -> Idx] : Holds(p, n, s)
    BY <2>1a
  <2>2. \A x \in Idx : ~(Back(p, x) /\ Out(p, x))
    BY <2>1 DEF Holds
  <2>3. ASSUME NEW x \in Idx PROVE /\ (Back(p, x)' \/ Out(p, x)') <=> (Back(p, x) \/ Out(p, x))
                                   /\ ~(Back(p, x)' /\ Out(p, x)')
    BY <1>6, <1>9, <2>2
  <2> QED BY <1>1, <2>1, <2>3, HoldsStill
<1>11. ASSUME NEW u \in Users PROVE CallInv(frame[u])'
  <2>1. CASE u = t
    BY <1>1, <1>2, <1>3, <1>4, <2>1 DEF CallInv
  <2>2. CASE u # t
    BY <1>1, <1>4, <2>2 DEF ArenaInv, CallInv
  <2> QED BY <2>1, <2>2
<1> QED BY <1>5, <1>7, <1>8, <1>10, <1>11 DEF ArenaInv

(* push writes the link of the chunk it gives back.                           *)
LEMMA PushLinkInv ==
  ASSUME ArenaInv, NEW t \in Users, PushLink(t)
  PROVE  ArenaInv'
<1> PICK f \in Calls : f = frame[t]
  BY DEF ArenaInv, ArenaTypeOK
<1> PICK q \in Pools, y \in Idx : q = f.pool /\ y = f.chunk
  BY CallFacts
<1> DEFINE g == [f EXCEPT !.pc = "give"]
<1>1. /\ f.pc = "link" /\ next' = [next EXCEPT ![q] = [next[q] EXCEPT ![y] = f.cur.idx]]
      /\ frame' = [frame EXCEPT ![t] = g] /\ UNCHANGED <<top, owned>>
  BY DEF PushLink, Frame
<1>2. /\ f.cur.idx \in Links /\ CallInv(f)
  BY CallFacts DEF ArenaInv
<1>3. g \in Calls /\ g.pc = "give" /\ g.pool = q /\ g.chunk = y /\ g.cur = f.cur
  BY DEF Calls, CallPc
<1> HIDE DEF g
<1>4. frame' \in [Users -> Calls] /\ frame'[t] = g /\ \A u \in Users : u # t => frame'[u] = frame[u]
  BY <1>1, <1>3 DEF ArenaInv, ArenaTypeOK
<1>5. Back(q, y)
  BY <1>1 DEF Back
<1>6. /\ next' \in [Pools -> [Idx -> Links]] /\ next'[q][y] = f.cur.idx
      /\ \A p \in Pools, n \in Nat : \A s \in [1..n -> Idx] :
              Holds(p, n, s) => \A i \in 1..n : next'[p][s[i]] = next[p][s[i]]
      /\ \A h \in Calls : CallInv(h) /\ (h.pc = "give" => ~(h.pool = q /\ h.chunk = y)) => CallInv(h)'
  <2>1. PICK v \in Links : v = f.cur.idx
    BY <1>2
  <2>2. next' = [next EXCEPT ![q] = [next[q] EXCEPT ![y] = v]] /\ top' = top
    BY <1>1, <2>1
  <2>3. LinkKept(q, y, v)
    BY <1>5, <2>2, LinkWritten
  <2> QED BY <2>1, <2>3 DEF LinkKept
<1>7. ArenaTypeOK'
  BY <1>1, <1>4, <1>6 DEF ArenaInv, ArenaTypeOK
<1>8. \A u \in Users : /\ Giving(frame'[u]) <=> Giving(frame[u])
                       /\ Giving(frame[u]) => frame'[u].pool = frame[u].pool /\ frame'[u].chunk = frame[u].chunk
  BY <1>1, <1>3, <1>4 DEF Giving
<1>9. (GiversApart /\ NoDoubleAllocation)'
  BY <1>1, <1>8 DEF ArenaInv, GiversApart, NoDoubleAllocation, Giving
<1>10. ASSUME NEW p \in Pools PROVE Kept(p)'
  <2>1a. PICK n \in Nat : \E s \in [1..n -> Idx] : Holds(p, n, s)
    BY DEF ArenaInv, Kept
  <2>1. PICK s \in [1..n -> Idx] : Holds(p, n, s)
    BY <2>1a
  <2>2. ASSUME NEW x \in Idx PROVE (Back(p, x)' <=> Back(p, x)) /\ (Out(p, x)' <=> Out(p, x))
    BY <1>1, <1>8 DEF Back, Out, Giving
  <2>3. \A x \in Idx : ~(Back(p, x) /\ Out(p, x))
    BY <2>1 DEF Holds
  <2>4. \A i \in 1..n : next'[p][s[i]] = next[p][s[i]]
    BY <1>6, <2>1
  <2> QED BY <1>1, <2>1, <2>2, <2>3, <2>4, HoldsStill
<1>11. ASSUME NEW u \in Users PROVE CallInv(frame[u])'
  <2>1. CASE u = t
    <3>1. CallInv(f)'
      BY <1>1, <1>2, <1>6
    <3> QED BY <1>1, <1>3, <1>4, <1>6, <2>1, <3>1 DEF CallInv
  <2>2. CASE u # t
    <3> PICK h \in Calls : h = frame[u]
      BY DEF ArenaInv, ArenaTypeOK
    <3>1. h.pc = "give" => ~(h.pool = q /\ h.chunk = y)
      BY <1>1, <2>2 DEF ArenaInv, GiversApart
    <3>2. CallInv(h)'
      BY <1>6, <3>1 DEF ArenaInv
    <3> QED BY <1>4, <2>2, <3>2 DEF CallInv
  <2> QED BY <2>1, <2>2
<1> QED BY <1>7, <1>9, <1>10, <1>11 DEF ArenaInv

(* The compare-exchange of push succeeds: the chunk becomes the first of the list, before the one its link names. *)
LEMMA PushGiveInv ==
  ASSUME ArenaInv, NEW t \in Users, frame[t].pc = "give", top[frame[t].pool] = frame[t].cur,
         top' = [top EXCEPT ![frame[t].pool] = [idx |-> frame[t].chunk, gen |-> frame[t].cur.gen + 1]],
         Frame(t, NoCall), UNCHANGED <<next, owned>>
  PROVE  ArenaInv'
<1> PICK f \in Calls : f = frame[t]
  BY DEF ArenaInv, ArenaTypeOK
<1> PICK q \in Pools, y \in Idx : q = f.pool /\ y = f.chunk
  BY CallFacts
<1>1. /\ next[q][y] = top[q].idx /\ top[q].gen \in Nat /\ y \in Links
      /\ top' = [top EXCEPT ![q] = [idx |-> y, gen |-> top[q].gen + 1]]
      /\ frame' = [frame EXCEPT ![t] = NoCall]
  <2>1. CallInv(f)
    BY DEF ArenaInv
  <2>2. next[q][y] = f.cur.idx
    BY <2>1 DEF CallInv
  <2>3. top[q].gen \in Nat
    BY TopFacts DEF ArenaInv
  <2> QED BY <2>2, <2>3 DEF Frame, Links
<1>2. frame' \in [Users -> Calls] /\ frame'[t] = NoCall /\ \A u \in Users : u # t => frame'[u] = frame[u]
  BY <1>1, NoCallFacts DEF ArenaInv, ArenaTypeOK
<1>3. top' \in [Pools -> Heads] /\ top'[q].idx = y /\ \A p \in Pools : p # q => top'[p] = top[p]
  <2>1. [idx |-> y, gen |-> top[q].gen + 1] \in Heads
    BY <1>1 DEF Heads
  <2> QED BY <1>1, <2>1 DEF ArenaInv, ArenaTypeOK
<1>4. ArenaTypeOK'
  BY <1>2, <1>3 DEF ArenaInv, ArenaTypeOK
<1>5. (GiversApart /\ NoDoubleAllocation)'
  BY <1>2, NoCallFacts DEF ArenaInv, GiversApart, NoDoubleAllocation
<1>6. Back(q, y) /\ \A u \in Users : u # t /\ frame[u].pc \in {"link", "give"} /\ frame[u].pool = q => frame[u].chunk # y
  BY DEF Back, ArenaInv, GiversApart
<1>7. ASSUME NEW p \in Pools, NEW x \in Idx
      PROVE  /\ Back(p, x)' <=> Back(p, x) /\ ~(p = q /\ x = y)
             /\ Out(p, x)' <=> Out(p, x)
  <2>1. Back(p, x)' <=> Back(p, x) /\ ~(p = q /\ x = y)
    BY <1>2, <1>6, NoCallFacts DEF Back
  <2>2. Out(p, x)' <=> Out(p, x)
    BY DEF Out
  <2> QED BY <2>1, <2>2
<1>8. ASSUME NEW p \in Pools PROVE Kept(p)'
  <2>1a. PICK n \in Nat : \E s \in [1..n -> Idx] : Holds(p, n, s)
    BY DEF ArenaInv, Kept
  <2>1. PICK s \in [1..n -> Idx] : Holds(p, n, s)
    BY <2>1a
  <2>2. \A x \in Idx : /\ OnList(n, s, x) <=> ~(Back(p, x) \/ Out(p, x))
                       /\ ~(Back(p, x) /\ Out(p, x))
    BY <2>1 DEF Holds
  <2>3. CASE p # q
    BY <1>3, <1>7, <2>1, <2>2, <2>3, HoldsStill
  <2>4. CASE p = q
    <3> DEFINE m == n + 1
               r == [i \in 1..m |-> IF i = 1 THEN y ELSE s[i - 1]]
    <3>1. /\ m \in Nat /\ r \in [1..m -> Idx] /\ m # 0 /\ r[1] = y
          /\ \A i \in 1..m : i # 1 => i - 1 \in 1..n /\ r[i] = s[i - 1]
      OBVIOUS
    <3>2. /\ \A i, j \in 1..n : s[i] = s[j] => i = j
          /\ top[q].idx = IF n = 0 THEN NullIdx ELSE s[1]
          /\ \A i \in 1..n : next[q][s[i]] = IF i = n THEN NullIdx ELSE s[i + 1]
      BY <2>1, <2>4 DEF Holds, IsFreeList
    <3>3. \A i \in 1..n : s[i] # y
      BY <1>6, <2>2, <2>4 DEF OnList
    <3> HIDE DEF r
    <3>4. ASSUME NEW i \in 1..m, NEW j \in 1..m, r[i] = r[j] PROVE i = j
      <4>1. CASE i = 1 /\ j = 1
        BY <4>1
      <4>2. CASE i = 1 /\ j # 1
        BY <3>1, <3>3, <3>4, <4>2
      <4>3. CASE i # 1 /\ j = 1
        BY <3>1, <3>3, <3>4, <4>3
      <4>4. CASE i # 1 /\ j # 1
        <5>1. i - 1 \in 1..n /\ j - 1 \in 1..n /\ s[i - 1] = s[j - 1]
          BY <3>1, <3>4, <4>4
        <5>2. i - 1 = j - 1
          BY <3>2, <5>1
        <5> QED BY <5>2
      <4> QED BY <4>1, <4>2, <4>3, <4>4
    <3>5. top'[q].idx = IF m = 0 THEN NullIdx ELSE r[1]
      BY <1>3, <3>1
    <3>6. ASSUME NEW i \in 1..m PROVE next'[q][r[i]] = IF i = m THEN NullIdx ELSE r[i + 1]
      <4>1. i # m => i + 1 \in 1..m /\ i + 1 # 1 /\ (i + 1) - 1 = i
        OBVIOUS
      <4>2. i # m => r[i + 1] = s[i]
        BY <3>1, <4>1
      <4>3. CASE i = 1
        <5>1. i = m <=> n = 0
          BY <4>3
        <5> QED BY <1>1, <3>1, <3>2, <4>2, <4>3, <5>1
      <4>4. CASE i # 1
        <5>1. i - 1 \in 1..n /\ r[i] = s[i - 1] /\ (i - 1 = n <=> i = m) /\ (i - 1) + 1 = i
          BY <3>1, <4>4
        <5>2. next[q][s[i - 1]] = IF i - 1 = n THEN NullIdx ELSE s[(i - 1) + 1]
          BY <3>2, <5>1
        <5> QED BY <4>2, <5>1, <5>2
      <4> QED BY <4>3, <4>4
    <3>7. IsFreeList(q, m, r)'
      BY <3>4, <3>5, <3>6 DEF IsFreeList
    <3>8. ASSUME NEW x \in Idx PROVE OnList(m, r, x) <=> OnList(n, s, x) \/ x = y
      <4>1. ASSUME NEW i \in 1..m, r[i] = x PROVE OnList(n, s, x) \/ x = y
        BY <3>1, <4>1 DEF OnList
      <4>2. ASSUME NEW i \in 1..n, s[i] = x PROVE OnList(m, r, x)
        <5>1. i + 1 \in 1..m /\ i + 1 # 1 /\ (i + 1) - 1 = i
          OBVIOUS
        <5> QED BY <3>1, <4>2, <5>1 DEF OnList
      <4>3. OnList(m, r, y)
        <5>1. 1 \in 1..m
          OBVIOUS
        <5> QED BY <3>1, <5>1 DEF OnList
      <4> QED BY <4>1, <4>2, <4>3 DEF OnList
    <3>9. ASSUME NEW x \in Idx PROVE /\ OnList(m, r, x) <=> ~(Back(q, x)' \/ Out(q, x)')
                                     /\ ~(Back(q, x)' /\ Out(q, x)')
      <4>1. (Back(q, x)' <=> Back(q, x) /\ x # y) /\ (Out(q, x)' <=> Out(q, x))
        BY <1>7
      <4> QED BY <1>6, <2>2, <2>4, <3>8, <4>1
    <3> HIDE DEF m
    <3>10. Holds(q, m, r)'
      BY <3>7, <3>9 DEF Holds, OnList
    <3> QED BY <2>4, <3>1, <3>10 DEF Kept
  <2> QED BY <2>3, <2>4
<1>9. ASSUME NEW u \in Users PROVE CallInv(frame[u])'
  <2>1. CASE u = t
    BY <1>2, <2>1, NoCallFacts DEF CallInv
  <2>2. CASE u # t
    <3> PICK h \in Calls : h = frame[u]
      BY DEF ArenaInv, ArenaTypeOK
    <3>1. CallInv(h)'
      BY <1>1, NewHead DEF ArenaInv
    <3> QED BY <1>2, <2>2, <3>1 DEF CallInv
  <2> QED BY <2>1, <2>2
<1> QED BY <1>4, <1>5, <1>8, <1>9 DEF ArenaInv

(* The invariant is inductive.                                                *)
LEMMA ArenaStep == ASSUME ArenaInv, [ArenaNext]_arenaVars PROVE ArenaInv'
<1>1. CASE UNCHANGED arenaVars
  <2>1. UNCHANGED <<next, top, frame, owned>>
    BY <1>1 DEF arenaVars
  <2>2. ASSUME NEW p \in Pools PROVE Kept(p)'
    <3>1. PICK n \in Nat : \E s \in [1..n -> Idx] : Holds(p, n, s)
      BY DEF ArenaInv, Kept
    <3>2. PICK s \in [1..n -> Idx] : Holds(p, n, s)
      BY <3>1
    <3>3. \A x \in Idx : (Back(p, x)' <=> Back(p, x)) /\ (Out(p, x)' <=> Out(p, x))
      BY <2>1 DEF Back, Out
    <3>4. \A x \in Idx : ~(Back(p, x) /\ Out(p, x))
      BY <3>2 DEF Holds
    <3>5. \A x \in Idx : /\ (Back(p, x)' \/ Out(p, x)') <=> (Back(p, x) \/ Out(p, x))
                         /\ ~(Back(p, x)' /\ Out(p, x)')
      BY <3>3, <3>4
    <3>6. top'[p] = top[p] /\ \A i \in 1..n : next'[p][s[i]] = next[p][s[i]]
      BY <2>1
    <3> QED BY <3>2, <3>5, <3>6, HoldsStill
  <2> QED BY <2>1, <2>2 DEF ArenaInv, ArenaTypeOK, GiversApart, NoDoubleAllocation, CallInv
<1>2. ASSUME NEW t \in Users, PopTake(t) PROVE ArenaInv'
  <2>1. CASE Frame(t, [frame[t] EXCEPT !.pc = "pop", !.cur = top[frame[t].pool]]) /\ UNCHANGED <<top, owned>>
    BY <1>2, <2>1, RetryInv DEF PopTake
  <2> QED BY <1>2, <2>1, PopTakeInv DEF PopTake
<1>3. ASSUME NEW t \in Users, PushGive(t) PROVE ArenaInv'
  <2>1. CASE Frame(t, [frame[t] EXCEPT !.pc = "link", !.cur = top[frame[t].pool]]) /\ UNCHANGED top
    BY <1>3, <2>1, RetryInv DEF PushGive
  <2> QED BY <1>3, <2>1, PushGiveInv DEF PushGive
<1>4. CASE ArenaNext
  BY <1>2, <1>3, <1>4, AllocateInv, PopReadInv, DeallocateInv, UseChunkInv, PushLinkInv DEF ArenaNext
<1> QED BY <1>1, <1>4

(* A list without repetition is not longer than the pool.                     *)
LEMMA ListFits ==
  ASSUME NEW n \in Nat, NEW s \in [1..n -> Idx], \A i, j \in 1..n : s[i] = s[j] => i = j
  PROVE  n <= Count
<1> SUFFICES ASSUME n > Count PROVE FALSE
  BY ArenaAssumption
<1>1. IsFiniteSet(1..n) /\ Cardinality(1..n) = n
  BY FS_Interval, ArenaAssumption
<1>2. IsFiniteSet(Idx) /\ Cardinality(Idx) = Count
  BY FS_Interval, ArenaAssumption DEF Idx
<1>3. \E x, y \in 1..n : x # y /\ s[x] = s[y]
  BY <1>1, <1>2, FS_PigeonHole
<1> QED BY <1>3

(* The invariant is what the run checks, and more.                            *)
LEMMA ArenaInvSafe == ArenaInv => ArenaSafe
<1> SUFFICES ASSUME ArenaInv PROVE ArenaSafe
  OBVIOUS
<1>1. ASSUME NEW p \in Pools
      PROVE  \E n \in 0..Count : \E s \in [1..n -> 0..Count - 1] :
                LET free == {s[i] : i \in 1..n} IN
                /\ IsFreeList(p, n, s)
                /\ free \cup Returning(p) \cup Taken(p) = 0..Count - 1
                /\ free \cap (Returning(p) \cup Taken(p)) = {}
                /\ Returning(p) \cap Taken(p) = {}
  <2>1a. PICK n \in Nat : \E s \in [1..n -> Idx] : Holds(p, n, s)
    BY DEF ArenaInv, Kept
  <2>1. PICK s \in [1..n -> Idx] : Holds(p, n, s)
    BY <2>1a
  <2>2. IsFreeList(p, n, s) /\ n <= Count
    <3>1. IsFreeList(p, n, s)
      BY <2>1 DEF Holds
    <3>2. \A i, j \in 1..n : s[i] = s[j] => i = j
      BY <3>1 DEF IsFreeList
    <3> QED BY <3>1, <3>2, ListFits
  <2> DEFINE free == {s[i] : i \in 1..n}
  <2>3. Returning(p) \subseteq Idx /\ \A x \in Idx : x \in Returning(p) <=> Back(p, x)
    <3>1. \A u \in Users : frame[u].chunk \in Idx
      <4> SUFFICES ASSUME NEW u \in Users PROVE frame[u].chunk \in Idx
        OBVIOUS
      <4>1. frame[u] \in Calls
        BY DEF ArenaInv, ArenaTypeOK
      <4> QED BY <4>1, CallFacts
    <3> QED BY <3>1 DEF Returning, Back
  <2>4. Taken(p) \subseteq Idx /\ \A x \in Idx : x \in Taken(p) <=> Out(p, x)
    BY DEF Taken, Out, Idx
  <2>5. free \subseteq Idx /\ \A x \in Idx : x \in free <=> OnList(n, s, x)
    BY DEF OnList
  <2>6. \A x \in Idx : /\ OnList(n, s, x) <=> ~(Back(p, x) \/ Out(p, x))
                       /\ ~(Back(p, x) /\ Out(p, x))
    BY <2>1 DEF Holds
  <2> HIDE DEF free
  <2>7. /\ free \cup Returning(p) \cup Taken(p) = Idx
        /\ free \cap (Returning(p) \cup Taken(p)) = {}
        /\ Returning(p) \cap Taken(p) = {}
    BY <2>3, <2>4, <2>5, <2>6
  <2>8. n \in 0..Count /\ s \in [1..n -> 0..Count - 1]
    BY <2>2, ArenaAssumption DEF Idx
  <2> QED BY <2>2, <2>7, <2>8 DEF free, Idx
<1>2. ChunksConserved
  BY <1>1 DEF ChunksConserved
<1> QED BY <1>2 DEF ArenaSafe, ArenaInv

(* BasicPool::pop and push, for any threads, pools and chunks: a chunk has one owner or is free, never
   both, and none is lost, whatever was taken and given back between a load of the head and its exchange. *)
THEOREM ArenaIsSafe == Spec => []ArenaSafe
<1>1. Init => ArenaInv
  BY ArenaInitInv DEF Init
<1>2. ArenaInv /\ [Next]_vars => ArenaInv'
  <2> SUFFICES ASSUME ArenaInv, [Next]_vars PROVE ArenaInv'
    OBVIOUS
  <2>1. ArenaNext \/ UNCHANGED arenaVars
    BY DEF Next, vars, InFutex, InArena, InPool, InTimer, InSegment, InMonitor, InThread, InSemaphore, InStatistics, InRange
  <2> QED BY <2>1, ArenaStep
<1> QED BY <1>1, <1>2, ArenaInvSafe, PTL DEF Spec

-----------------------------------------------------------------------------
(***************************************************************************)
(* Segments of shared memory.  A segment's size leaves 0 once, by the      *)
(* process that created it, and only a size that the segment has passes    *)
(* the fstat of the others, so no mapping is ever longer than its segment. *)
(***************************************************************************)
SegPc == {"out", "created", "exists", "opened", "mismatch", "sized", "mapped", "failed"}
SegRefs == 1..MaxSegs \cup {NoSeg}
SegProcs == [at : SegPc, fd : SegRefs, size : Nat, ptr : SegRefs, off : Nat]

(* What a process that is at work on a segment relies on.                     *)
SegOK(f) ==
    /\ f.at \in {"created", "exists", "opened", "sized", "mapped"} => f.off < f.size
    /\ f.at \in {"created", "opened", "sized", "mapped"} => f.fd \in 1..sgCount
    /\ f.at = "created" => sgSize[f.fd] = 0
    /\ f.at \in {"sized", "mapped"} => sgSize[f.fd] = f.size
    /\ f.at = "mapped" => f.ptr = f.fd

CreatorsApart ==
    \A p, q \in Attachers : p # q /\ sgProc[p].at = "created" /\ sgProc[q].at = "created" => sgProc[p].fd # sgProc[q].fd

SegmentInv ==
    /\ sgCount \in 0..MaxSegs /\ sgName \in 1..sgCount \cup {NoSeg}
    /\ sgSize \in [1..MaxSegs -> Nat] /\ sgProc \in [Attachers -> SegProcs]
    /\ \A c \in 1..MaxSegs : c > sgCount => sgSize[c] = 0
    /\ \A p \in Attachers : SegOK(sgProc[p])
    /\ CreatorsApart

(* RoundToPage gives at least one page for a size above 0.                    *)
LEMMA RoundPositive == ASSUME NEW size \in SegBytes PROVE RoundToPage(size) \in Nat \ {0}
<1>1. size \in Nat \ {0} /\ PageSize \in Nat \ {0}
  BY SharedMemoryAssumption
<1> DEFINE a == size + PageSize - 1
           q == a \div PageSize
<1>2. a \in Nat /\ a >= PageSize
  BY <1>1
<1> HIDE DEF a
<1>3. q \in Int /\ a % PageSize \in 0..PageSize - 1 /\ a = PageSize * q + (a % PageSize)
  BY <1>1, <1>2
<1> HIDE DEF q
<1>4. q >= 1
  <2> SUFFICES ASSUME q <= 0 PROVE FALSE
    BY <1>3
  <2>1. PageSize * q <= 0
    BY <1>1, <1>3
  <2> QED BY <1>1, <1>2, <1>3, <2>1
<1>5. q * PageSize \in Nat \ {0}
  BY <1>1, <1>3, <1>4
<1> QED BY <1>5 DEF RoundToPage, q, a

(* A step that only moves one process, to a state in which what it relies on holds. *)
LEMMA SegmentMove ==
  ASSUME SegmentInv, NEW p \in Attachers, NEW g \in SegProcs, SegOK(g), g.at # "created",
         sgProc' = [sgProc EXCEPT ![p] = g], UNCHANGED <<sgName, sgSize, sgCount>>
  PROVE  SegmentInv'
<1>1. sgProc' \in [Attachers -> SegProcs] /\ \A q \in Attachers : sgProc'[q] = IF q = p THEN g ELSE sgProc[q]
  BY DEF SegmentInv
<1>2. \A q \in Attachers : SegOK(sgProc[q])'
  BY <1>1 DEF SegmentInv, SegOK
<1>3. CreatorsApart'
  BY <1>1 DEF SegmentInv, CreatorsApart
<1> QED BY <1>1, <1>2, <1>3 DEF SegmentInv

(* A process out of the segment, and one that has failed, rely on nothing.    *)
LEMMA OutsideOK ==
  /\ Outside \in SegProcs /\ Outside.at = "out"
  /\ [Outside EXCEPT !.at = "failed"] \in SegProcs /\ [Outside EXCEPT !.at = "failed"].at = "failed"
BY DEF Outside, SegProcs, SegPc, SegRefs

(* What a record of a process consists of.                                    *)
LEMMA SegProcFacts ==
  ASSUME NEW f \in SegProcs
  PROVE  f.at \in SegPc /\ f.fd \in SegRefs /\ f.size \in Nat /\ f.ptr \in SegRefs /\ f.off \in Nat
BY DEF SegProcs

(* ShmMem: no process has opened the name.                                    *)
LEMMA SegmentInitInv == SegmentInit => SegmentInv
<1> SUFFICES ASSUME SegmentInit PROVE SegmentInv
  OBVIOUS
<1>1. /\ sgCount \in 0..MaxSegs /\ sgName \in 1..sgCount \cup {NoSeg} /\ sgSize \in [1..MaxSegs -> Nat]
      /\ \A c \in 1..MaxSegs : c > sgCount => sgSize[c] = 0
  BY SharedMemoryAssumption DEF SegmentInit
<1>2. sgProc \in [Attachers -> SegProcs] /\ \A p \in Attachers : sgProc[p].at = "out"
  BY OutsideOK DEF SegmentInit
<1> QED BY <1>1, <1>2 DEF SegmentInv, SegOK, CreatorsApart

(* ShmMem, the creator's shm_open.                                            *)
LEMMA ShmCreateInv ==
  ASSUME SegmentInv, NEW p \in Attachers, NEW size \in SegBytes, ShmCreate(p, size) PROVE SegmentInv'
<1> PICK c \in 1..MaxSegs : c = sgCount + 1
  BY SharedMemoryAssumption DEF SegmentInv, ShmCreate
<1> PICK r \in Nat : r = RoundToPage(size) /\ r > 0
  BY RoundPositive
<1> DEFINE g == [Outside EXCEPT !.at = "created", !.fd = c, !.size = r]
<1>1. g \in SegProcs /\ g.at = "created" /\ g.fd = c /\ g.off = 0 /\ g.size > 0
  BY DEF Outside, SegProcs, SegPc, SegRefs
<1>2. sgProc' = [sgProc EXCEPT ![p] = g]
  BY DEF ShmCreate, Opening
<1> HIDE DEF g
<1>3. sgProc' \in [Attachers -> SegProcs] /\ \A q \in Attachers : sgProc'[q] = IF q = p THEN g ELSE sgProc[q]
  BY <1>1, <1>2 DEF SegmentInv
<1>4. sgCount \in Nat /\ sgCount' = c /\ c = sgCount + 1 /\ sgName' = c /\ sgSize' = sgSize
  BY SharedMemoryAssumption DEF SegmentInv, ShmCreate
<1>5. \A q \in Attachers : SegOK(sgProc[q])'
  <2> SUFFICES ASSUME NEW q \in Attachers PROVE SegOK(sgProc[q])'
    OBVIOUS
  <2>1. CASE q = p
    <3>1. sgSize[c] = 0
      BY <1>4 DEF SegmentInv
    <3> QED BY <2>1, <3>1, <1>1, <1>3, <1>4 DEF SegOK
  <2>2. CASE q # p
    BY <2>2, <1>3, <1>4 DEF SegmentInv, SegOK
  <2> QED BY <2>1, <2>2
<1>6. CreatorsApart'
  <2>1. \A q \in Attachers : sgProc[q].at = "created" => sgProc[q].fd # c
    BY <1>4 DEF SegmentInv, SegOK
  <2> QED BY <1>1, <1>3, <2>1 DEF SegmentInv, CreatorsApart
<1>7. /\ sgCount' \in 0..MaxSegs /\ sgName' \in 1..sgCount' \cup {NoSeg} /\ sgSize' \in [1..MaxSegs -> Nat]
      /\ \A d \in 1..MaxSegs : d > sgCount' => sgSize'[d] = 0
  BY <1>4, SharedMemoryAssumption DEF SegmentInv
<1> QED BY <1>3, <1>5, <1>6, <1>7 DEF SegmentInv

(* ShmMem, the creator's ftruncate.                                           *)
LEMMA ShmTruncateInv ==
  ASSUME SegmentInv, NEW p \in Attachers, ShmTruncate(p) PROVE SegmentInv'
<1> PICK f \in SegProcs : f = sgProc[p]
  BY DEF SegmentInv
<1>1. f.at = "created" /\ f.fd \in 1..sgCount /\ sgSize[f.fd] = 0 /\ f.off < f.size /\ f.fd \in 1..MaxSegs
  BY SharedMemoryAssumption DEF SegmentInv, SegOK, ShmTruncate
<1>2. CASE /\ sgSize' = [sgSize EXCEPT ![sgProc[p].fd] = sgProc[p].size]
           /\ sgProc' = [sgProc EXCEPT ![p].at = "sized"]
  <2> DEFINE g == [f EXCEPT !.at = "sized"]
  <2>1. g \in SegProcs /\ g.at = "sized" /\ g.fd = f.fd /\ g.size = f.size /\ g.off = f.off
    BY DEF SegProcs, SegPc
  <2>2. sgProc' = [sgProc EXCEPT ![p] = g] /\ sgSize' = [sgSize EXCEPT ![f.fd] = f.size]
    BY <1>2
  <2> HIDE DEF g
  <2>3. sgProc' \in [Attachers -> SegProcs] /\ \A q \in Attachers : sgProc'[q] = IF q = p THEN g ELSE sgProc[q]
    BY <2>1, <2>2 DEF SegmentInv
  <2>4. sgSize' \in [1..MaxSegs -> Nat] /\ \A c \in 1..MaxSegs : sgSize'[c] = IF c = f.fd THEN f.size ELSE sgSize[c]
    BY <2>2, <1>1, SegProcFacts DEF SegmentInv
  <2>5. UNCHANGED <<sgName, sgCount>>
    BY DEF ShmTruncate
  <2>6. ASSUME NEW q \in Attachers PROVE SegOK(sgProc[q])'
    <3>1. CASE q = p
      BY <3>1, <1>1, <2>1, <2>3, <2>4, <2>5 DEF SegOK
    <3>2. CASE q # p
      <4> PICK h \in SegProcs : h = sgProc[q]
        BY DEF SegmentInv
      <4>1. SegOK(h) /\ sgProc'[q] = h /\ h.size \in Nat /\ h.off \in Nat
        BY <3>2, <2>3, SegProcFacts DEF SegmentInv
      <4>2. h.at = "created" => h.fd # f.fd
        BY <1>1, <3>2 DEF SegmentInv, CreatorsApart
      <4>3. h.at \in {"sized", "mapped"} => h.fd # f.fd
        BY <4>1, <1>1 DEF SegOK
      <4>4. h.fd \in 1..sgCount => h.fd \in 1..MaxSegs
        BY SharedMemoryAssumption DEF SegmentInv
      <4> QED BY <4>1, <4>2, <4>3, <4>4, <2>4, <2>5 DEF SegOK
    <3> QED BY <3>1, <3>2
  <2>7. CreatorsApart'
    BY <2>1, <2>3 DEF SegmentInv, CreatorsApart
  <2>8. \A c \in 1..MaxSegs : c > sgCount' => sgSize'[c] = 0
    BY <2>4, <2>5, <1>1, SharedMemoryAssumption DEF SegmentInv
  <2> QED BY <2>3, <2>4, <2>5, <2>6, <2>7, <2>8 DEF SegmentInv
<1>3. CASE sgProc' = [sgProc EXCEPT ![p] = [Outside EXCEPT !.at = "failed"]] /\ UNCHANGED sgSize
  BY <1>3, OutsideOK, SegmentMove DEF ShmTruncate, SegOK
<1> QED BY <1>2, <1>3 DEF ShmTruncate

(* ShmMem, the second shm_open and the fstat of a process that is not the creator, the mmap, get, and the
   end of an attachment.                                                       *)
LEMMA ShmMoves ==
  ASSUME SegmentInv, NEW p \in Attachers,
         \/ \E size \in SegBytes : ShmExists(p, size)
         \/ \E offset \in 0..2 * PageSize : ShmGet(p, offset)
         \/ ShmOpen(p) \/ ShmStat(p) \/ ShmMap(p) \/ ShmCleanup(p)
  PROVE  SegmentInv'
<1> PICK f \in SegProcs : f = sgProc[p]
  BY DEF SegmentInv
<1>1. SegOK(f) /\ f.at \in SegPc /\ f.fd \in SegRefs /\ f.size \in Nat /\ f.ptr \in SegRefs /\ f.off \in Nat
  BY SegProcFacts DEF SegmentInv
<1>2. sgCount \in Nat /\ MaxSegs \in Nat /\ sgCount <= MaxSegs /\ sgName \in 1..sgCount \cup {NoSeg}
  BY SharedMemoryAssumption DEF SegmentInv
<1>3. ASSUME NEW size \in SegBytes, ShmExists(p, size) PROVE SegmentInv'
  <2> PICK r \in Nat : r = RoundToPage(size) /\ r > 0
    BY RoundPositive
  <2> DEFINE g == [Outside EXCEPT !.at = "exists", !.fd = NoSeg, !.size = r]
  <2>1. g \in SegProcs /\ g.at = "exists" /\ g.off = 0 /\ g.size > 0
    BY DEF Outside, SegProcs, SegPc, SegRefs
  <2>2. sgProc' = [sgProc EXCEPT ![p] = g] /\ UNCHANGED <<sgName, sgSize, sgCount>>
    BY <1>3 DEF ShmExists, Opening
  <2> HIDE DEF g
  <2>3. SegOK(g)
    BY <2>1 DEF SegOK
  <2> QED BY <2>1, <2>2, <2>3, SegmentMove
<1>4. CASE ShmOpen(p)
  <2>1. CASE sgName = NoSeg
    BY <1>4, <2>1, OutsideOK, SegmentMove DEF ShmOpen, SegOK
  <2>2. CASE sgName # NoSeg
    <3> DEFINE g == [f EXCEPT !.at = "opened", !.fd = sgName]
    <3>1. f.at = "exists" /\ sgProc' = [sgProc EXCEPT ![p] = g] /\ UNCHANGED <<sgName, sgSize, sgCount>>
      BY <1>4, <2>2 DEF ShmOpen
    <3>2. sgName \in SegRefs /\ sgName \in 1..sgCount
      BY <1>2, <2>2 DEF SegRefs
    <3>3. g \in SegProcs /\ g.at = "opened" /\ g.fd = sgName /\ g.off = f.off /\ g.size = f.size
      BY <3>2 DEF SegProcs, SegPc
    <3> HIDE DEF g
    <3>4. SegOK(g)
      BY <1>1, <3>1, <3>2, <3>3 DEF SegOK
    <3> QED BY <3>1, <3>3, <3>4, SegmentMove
  <2> QED BY <2>1, <2>2
<1>5. CASE ShmStat(p)
  <2> DEFINE g == [f EXCEPT !.at = IF sgSize[f.fd] # f.size THEN "mismatch" ELSE "sized"]
  <2>1. f.at = "opened" /\ sgProc' = [sgProc EXCEPT ![p] = g] /\ UNCHANGED <<sgName, sgSize, sgCount>>
    BY <1>5 DEF ShmStat
  <2>2. g \in SegProcs /\ g.fd = f.fd /\ g.off = f.off /\ g.size = f.size
        /\ (g.at = "mismatch" \/ (g.at = "sized" /\ sgSize[f.fd] = f.size))
    BY DEF SegProcs, SegPc
  <2> HIDE DEF g
  <2>3. SegOK(g)
    BY <1>1, <2>1, <2>2 DEF SegOK
  <2>4. g.at # "created"
    BY <2>2
  <2> QED BY <2>1, <2>2, <2>3, <2>4, SegmentMove
<1>6. CASE ShmMap(p)
  <2>1. CASE sgProc' = [sgProc EXCEPT ![p] = [@ EXCEPT !.at = "mapped", !.ptr = sgProc[p].fd]]
    <3> DEFINE g == [f EXCEPT !.at = "mapped", !.ptr = f.fd]
    <3>1. f.at = "sized" /\ sgProc' = [sgProc EXCEPT ![p] = g] /\ UNCHANGED <<sgName, sgSize, sgCount>>
      BY <1>6, <2>1 DEF ShmMap
    <3>2. g \in SegProcs /\ g.at = "mapped" /\ g.fd = f.fd /\ g.off = f.off /\ g.size = f.size /\ g.ptr = f.fd
      BY <1>1 DEF SegProcs, SegPc
    <3> HIDE DEF g
    <3>3. SegOK(g)
      BY <1>1, <3>1, <3>2 DEF SegOK
    <3> QED BY <3>1, <3>2, <3>3, SegmentMove
  <2>2. CASE sgProc' = [sgProc EXCEPT ![p] = [Outside EXCEPT !.at = "failed"]]
    BY <1>6, <2>2, OutsideOK, SegmentMove DEF ShmMap, SegOK
  <2> QED BY <1>6, <2>1, <2>2 DEF ShmMap
<1>7. ASSUME NEW offset \in 0..2 * PageSize, ShmGet(p, offset) PROVE SegmentInv'
  <2> DEFINE g == [f EXCEPT !.off = offset]
  <2>1. f.at = "mapped" /\ offset < f.size /\ sgProc' = [sgProc EXCEPT ![p] = g] /\ UNCHANGED <<sgName, sgSize, sgCount>>
    BY <1>7 DEF ShmGet
  <2>2. offset \in Nat
    BY SharedMemoryAssumption
  <2>3. g \in SegProcs /\ g.at = f.at /\ g.fd = f.fd /\ g.off = offset /\ g.size = f.size /\ g.ptr = f.ptr
    BY <2>2 DEF SegProcs
  <2> HIDE DEF g
  <2>4. SegOK(g)
    BY <1>1, <2>1, <2>3 DEF SegOK
  <2> QED BY <2>1, <2>3, <2>4, SegmentMove
<1>8. CASE ShmCleanup(p)
  BY <1>8, OutsideOK, SegmentMove DEF ShmCleanup, SegOK
<1> QED BY <1>3, <1>4, <1>5, <1>6, <1>7, <1>8

(* Every step of the processes, and the unlink of the name, keeps the invariant. *)
LEMMA SegmentStep == ASSUME SegmentInv, [SegmentNext]_segmentVars PROVE SegmentInv'
<1>1. CASE UNCHANGED segmentVars
  BY <1>1 DEF segmentVars, SegmentInv, SegOK, CreatorsApart
<1>2. CASE ShmUnlink
  BY <1>2 DEF ShmUnlink, SegmentInv, SegOK, CreatorsApart
<1>3. CASE SegmentNext
  BY <1>2, <1>3, ShmCreateInv, ShmTruncateInv, ShmMoves DEF SegmentNext
<1> QED BY <1>1, <1>3

(* An address that get returned is below the size of the segment.             *)
LEMMA SegmentInvSafe == SegmentInv => MappingsBacked
BY DEF SegmentInv, SegOK, MappingsBacked

-----------------------------------------------------------------------------
(***************************************************************************)
(* The robust mutex and its conditions.  Whoever is inside without owning  *)
(* the mutex is there because it is lost, and it is lost only after a wait *)
(* has taken it from a dead owner.                                         *)
(***************************************************************************)
MonitorPc == {"out", "in", "waits", "woken", "gone"}
Waits == [pred : BOOLEAN, timed : BOOLEAN]

(* A process that looks at the result of a wait with a predicate sees the truth. *)
ResultTrue(p) ==
    (moAt[p] = "in" /\ moOwner = p /\ moWait[p].pred /\ moResult[p] # "none") => (moResult[p] = "true" <=> moFlag)

MonitorTypeOK ==
    /\ moOwner \in Procs \cup {NoProc} /\ moState \in {"ok", "dead", "lost"}
    /\ moMarked \in BOOLEAN /\ moFlag \in BOOLEAN /\ moOrphan \in BOOLEAN
    /\ moAt \in [Procs -> MonitorPc] /\ moWait \in [Procs -> Waits]
    /\ moExpired \in [Procs -> BOOLEAN] /\ moResult \in [Procs -> {"none", "true", "false"}]

(* The owner is inside; nobody owns a lost mutex; the others inside are there since it was lost. *)
OwnerInside ==
    /\ moState = "lost" => moOwner = NoProc
    /\ \A p \in Procs : moOwner = p => moAt[p] = "in"
    /\ \A p \in Procs : moAt[p] = "in" /\ moOwner # p => moState = "lost"

LostByWait == ~moOrphan => (moMarked /\ moState # "lost")

MonitorInv ==
    /\ MonitorTypeOK /\ OwnerInside /\ LostByWait
    /\ \A p \in Procs : moAt[p] = "out" => moResult[p] = "none"
    /\ \A p \in Procs : ResultTrue(p)

(* SharedMutex: nobody is inside.                                             *)
LEMMA MonitorInitInv == MonitorInit => MonitorInv
<1> SUFFICES ASSUME MonitorInit PROVE MonitorInv
  OBVIOUS
<1>1. MonitorTypeOK
  BY DEF MonitorInit, MonitorTypeOK, MonitorPc, Waits, Plain
<1> QED BY <1>1, MonitorAssumption DEF MonitorInit, MonitorInv, OwnerInside, LostByWait, ResultTrue

(* lock and tryLock: the mutex is taken, or was lost.                         *)
LEMMA SharedLockInv ==
  ASSUME MonitorInv, NEW p \in Procs, SharedLock(p) \/ SharedTryLock(p) PROVE MonitorInv'
<1>1. /\ moAt[p] = "out" /\ moAt' = [moAt EXCEPT ![p] = "in"] /\ UNCHANGED <<moWait, moExpired, moResult, moFlag, moOrphan>>
      /\ \/ moOwner = NoProc /\ moState # "lost" /\ moOwner' = p /\ moState' = "ok" /\ moMarked' = TRUE
         \/ moState = "lost" /\ UNCHANGED <<moOwner, moState, moMarked>>
  BY DEF SharedLock, SharedTryLock, Enter, Acquire
<1>2. MonitorTypeOK'
  BY <1>1 DEF MonitorInv, MonitorTypeOK, MonitorPc
<1>3. \A q \in Procs : moAt'[q] = IF q = p THEN "in" ELSE moAt[q]
  BY <1>1 DEF MonitorInv, MonitorTypeOK
<1>4. OwnerInside'
  BY <1>1, <1>3, MonitorAssumption DEF MonitorInv, OwnerInside, MonitorTypeOK
<1>5. LostByWait'
  BY <1>1 DEF MonitorInv, LostByWait
<1>6. \A q \in Procs : ResultTrue(q)'
  BY <1>1, <1>3, MonitorAssumption DEF MonitorInv, ResultTrue, OwnerInside
<1>7. \A q \in Procs : moAt'[q] = "out" => moResult'[q] = "none"
  BY <1>1, <1>3 DEF MonitorInv
<1> QED BY <1>2, <1>4, <1>5, <1>6, <1>7 DEF MonitorInv

(* What pthread_mutex_unlock leaves, whether the caller owns the mutex or not. *)
LEMMA ReleaseFacts ==
  ASSUME MonitorInv, NEW p \in Procs, Release(p), moAt[p] = "in"
  PROVE  /\ moOwner' = NoProc \/ (moOwner' = moOwner /\ moOwner # p /\ moState = "lost")
         /\ moState' \in {"ok", "dead", "lost"} /\ moMarked' \in BOOLEAN
         /\ moState = "lost" => moState' = "lost"
         /\ ~moOrphan => (moMarked' /\ moState' # "lost")
         /\ moOwner' = NoProc
         /\ \A q \in Procs : moAt[q] = "in" /\ q # p => moState' = "lost"
<1>1. MonitorTypeOK /\ OwnerInside /\ LostByWait
  BY DEF MonitorInv
<1>2. CASE moOwner = p
  <2>1. moOwner' = NoProc /\ moState' = (IF moMarked THEN moState ELSE "lost") /\ moMarked' = TRUE
    BY <1>2 DEF Release
  <2>2. \A q \in Procs : moAt[q] = "in" /\ q # p => moState = "lost"
    BY <1>1, <1>2 DEF OwnerInside
  <2>3. moState # "lost"
    BY <1>1, <1>2, MonitorAssumption DEF OwnerInside
  <2> QED BY <1>1, <2>1, <2>2, <2>3 DEF MonitorTypeOK, LostByWait
<1>3. CASE moOwner # p
  <2>1. UNCHANGED <<moOwner, moState, moMarked>>
    BY <1>3 DEF Release
  <2>2. moState = "lost" /\ moOwner = NoProc
    BY <1>1, <1>3 DEF OwnerInside
  <2> QED BY <1>1, <1>3, <2>1, <2>2 DEF MonitorTypeOK, LostByWait
<1> QED BY <1>2, <1>3

(* unlock.                                                                    *)
LEMMA SharedUnlockInv == ASSUME MonitorInv, NEW p \in Procs, SharedUnlock(p) PROVE MonitorInv'
<1>1. /\ moAt[p] = "in" /\ Release(p) /\ moAt' = [moAt EXCEPT ![p] = "out"] /\ UNCHANGED <<moFlag, moOrphan>>
      /\ moWait' = [moWait EXCEPT ![p] = Plain] /\ moExpired' = [moExpired EXCEPT ![p] = FALSE]
      /\ moResult' = [moResult EXCEPT ![p] = "none"]
  BY DEF SharedUnlock, Forget
<1>2. /\ moState' \in {"ok", "dead", "lost"} /\ moMarked' \in BOOLEAN /\ moOwner' = NoProc
      /\ ~moOrphan => (moMarked' /\ moState' # "lost")
      /\ \A q \in Procs : moAt[q] = "in" /\ q # p => moState' = "lost"
  BY <1>1, ReleaseFacts
<1>3. MonitorTypeOK'
  BY <1>1, <1>2 DEF MonitorInv, MonitorTypeOK, MonitorPc, Waits, Plain
<1>4. \A q \in Procs : moAt'[q] = (IF q = p THEN "out" ELSE moAt[q]) /\ moResult'[q] = (IF q = p THEN "none" ELSE moResult[q])
  BY <1>1 DEF MonitorInv, MonitorTypeOK
<1>5. OwnerInside' /\ LostByWait'
  BY <1>1, <1>2, <1>4, MonitorAssumption DEF MonitorInv, OwnerInside, LostByWait
<1>6. \A q \in Procs : ResultTrue(q)'
  BY <1>2, MonitorAssumption DEF ResultTrue
<1>7. \A q \in Procs : moAt'[q] = "out" => moResult'[q] = "none"
  BY <1>4 DEF MonitorInv
<1> QED BY <1>3, <1>5, <1>6, <1>7 DEF MonitorInv

(* The program's own step with the mutex held: nobody else owns the mutex then. *)
LEMMA SetFlagInv == ASSUME MonitorInv, NEW p \in Procs, NEW v \in BOOLEAN, SetFlag(p, v) PROVE MonitorInv'
<1>1. /\ moAt[p] = "in" /\ moFlag' = v /\ UNCHANGED <<moOwner, moState, moMarked, moAt, moOrphan>>
      /\ moWait' = [moWait EXCEPT ![p] = Plain] /\ moExpired' = [moExpired EXCEPT ![p] = FALSE]
      /\ moResult' = [moResult EXCEPT ![p] = "none"]
  BY DEF SetFlag, Forget
<1>2. MonitorTypeOK'
  BY <1>1 DEF MonitorInv, MonitorTypeOK, Waits, Plain
<1>3. \A q \in Procs : moResult'[q] = IF q = p THEN "none" ELSE moResult[q]
  BY <1>1 DEF MonitorInv, MonitorTypeOK
<1>4. OwnerInside' /\ LostByWait'
  BY <1>1 DEF MonitorInv, OwnerInside, LostByWait
<1>5. \A q \in Procs : moOwner = q => q = p
  BY <1>1, MonitorAssumption DEF MonitorInv, OwnerInside
<1>6. \A q \in Procs : ResultTrue(q)'
  BY <1>1, <1>3, <1>5 DEF ResultTrue
<1>7. \A q \in Procs : moAt'[q] = "out" => moResult'[q] = "none"
  BY <1>1, <1>3 DEF MonitorInv
<1> QED BY <1>2, <1>4, <1>6, <1>7 DEF MonitorInv

(* wait and timedWait up to the sleep.                                        *)
LEMMA CondWaitInv ==
  ASSUME MonitorInv, NEW p \in Procs, NEW pred \in BOOLEAN, NEW timed \in BOOLEAN, CondWait(p, pred, timed)
  PROVE  MonitorInv'
<1>1. /\ moAt[p] = "in" /\ moOwner = p /\ UNCHANGED <<moFlag, moOrphan>>
      /\ moWait' = [moWait EXCEPT ![p] = [pred |-> pred, timed |-> timed]] /\ moExpired' = [moExpired EXCEPT ![p] = FALSE]
  BY DEF CondWait
<1>2. moWait' \in [Procs -> Waits] /\ moExpired' \in [Procs -> BOOLEAN]
      /\ \A q \in Procs : q # p => moWait'[q] = moWait[q]
  BY <1>1 DEF MonitorInv, MonitorTypeOK, Waits
<1>3. CASE pred /\ moFlag
  <2>1. moResult' = [moResult EXCEPT ![p] = "true"] /\ UNCHANGED <<moOwner, moState, moMarked, moAt>>
    BY <1>3 DEF CondWait
  <2>2. MonitorTypeOK'
    BY <1>1, <1>2, <2>1 DEF MonitorInv, MonitorTypeOK
  <2>3. \A q \in Procs : moResult'[q] = IF q = p THEN "true" ELSE moResult[q]
    BY <2>1 DEF MonitorInv, MonitorTypeOK
  <2>4. OwnerInside' /\ LostByWait'
    BY <1>1, <2>1 DEF MonitorInv, OwnerInside, LostByWait
  <2>5. \A q \in Procs : ResultTrue(q)'
    BY <1>1, <1>2, <1>3, <2>1, <2>3 DEF MonitorInv, ResultTrue
  <2>6. \A q \in Procs : moAt'[q] = "out" => moResult'[q] = "none"
    BY <1>1, <2>1, <2>3 DEF MonitorInv
  <2> QED BY <2>2, <2>4, <2>5, <2>6 DEF MonitorInv
<1>4. CASE ~(pred /\ moFlag)
  <2>1. Release(p) /\ moAt' = [moAt EXCEPT ![p] = "waits"] /\ UNCHANGED moResult
    BY <1>4 DEF CondWait
  <2>2. /\ moState' \in {"ok", "dead", "lost"} /\ moMarked' \in BOOLEAN /\ moOwner' = NoProc
        /\ ~moOrphan => (moMarked' /\ moState' # "lost")
        /\ \A q \in Procs : moAt[q] = "in" /\ q # p => moState' = "lost"
    BY <1>1, <2>1, ReleaseFacts
  <2>3. MonitorTypeOK'
    BY <1>1, <1>2, <2>1, <2>2 DEF MonitorInv, MonitorTypeOK, MonitorPc
  <2>4. \A q \in Procs : moAt'[q] = IF q = p THEN "waits" ELSE moAt[q]
    BY <2>1 DEF MonitorInv, MonitorTypeOK
  <2>5. OwnerInside' /\ LostByWait'
    BY <1>1, <2>2, <2>4, MonitorAssumption DEF MonitorInv, OwnerInside, LostByWait
  <2>6. \A q \in Procs : ResultTrue(q)'
    BY <2>2, MonitorAssumption DEF ResultTrue
  <2>7. \A q \in Procs : moAt'[q] = "out" => moResult'[q] = "none"
    BY <2>1, <2>4 DEF MonitorInv
  <2> QED BY <2>3, <2>5, <2>6, <2>7 DEF MonitorInv
<1> QED BY <1>3, <1>4

(* The end of a sleep: a signal, a broadcast, a spurious wakeup or the timeout. *)
LEMMA WakesInv == ASSUME MonitorInv, NEW p \in Procs, Signal(p) \/ WaitExpires(p) PROVE MonitorInv'
<1>1. /\ moAt[p] = "waits" /\ moAt' = [moAt EXCEPT ![p] = "woken"]
      /\ UNCHANGED <<moOwner, moState, moMarked, moWait, moResult, moFlag, moOrphan>>
      /\ UNCHANGED moExpired \/ moExpired' = [moExpired EXCEPT ![p] = TRUE]
  BY DEF Signal, WaitExpires, Wakes
<1>2. MonitorTypeOK'
  BY <1>1 DEF MonitorInv, MonitorTypeOK, MonitorPc
<1>3. \A q \in Procs : moAt'[q] = IF q = p THEN "woken" ELSE moAt[q]
  BY <1>1 DEF MonitorInv, MonitorTypeOK
<1>4. OwnerInside' /\ LostByWait'
  BY <1>1, <1>3 DEF MonitorInv, OwnerInside, LostByWait
<1>5. \A q \in Procs : ResultTrue(q)'
  BY <1>1, <1>3 DEF MonitorInv, ResultTrue
<1>6. \A q \in Procs : moAt'[q] = "out" => moResult'[q] = "none"
  BY <1>1, <1>3 DEF MonitorInv
<1> QED BY <1>2, <1>4, <1>5, <1>6 DEF MonitorInv

(* A wait that returns with the mutex: with a predicate, its result is what the flag says. *)
LEMMA WaitReturnsInv == ASSUME MonitorInv, NEW p \in Procs, WaitReturns(p) PROVE MonitorInv'
<1>1. /\ moAt[p] = "woken" /\ moOwner = NoProc /\ moState # "lost" /\ moOwner' = p /\ moState' = "ok"
      /\ moMarked' = (moState = "ok") /\ moOrphan' = (moOrphan \/ moState = "dead")
      /\ moAt' = [moAt EXCEPT ![p] = "in"] /\ moResult' = [moResult EXCEPT ![p] = Returns(p, moFlag)]
      /\ UNCHANGED <<moWait, moExpired, moFlag>>
  BY DEF WaitReturns, TakeBack, Acquire
<1>2. Returns(p, moFlag) \in {"none", "true", "false"}
  BY DEF Returns
<1>3. moWait[p].pred => (Returns(p, moFlag) = "true" <=> moFlag)
  BY DEF Returns
<1> HIDE DEF Returns
<1>4. \A q \in Procs : /\ moAt'[q] = IF q = p THEN "in" ELSE moAt[q]
                       /\ moResult'[q] = IF q = p THEN Returns(p, moFlag) ELSE moResult[q]
  BY <1>1 DEF MonitorInv, MonitorTypeOK
<1>5. MonitorTypeOK'
  BY <1>1, <1>2 DEF MonitorInv, MonitorTypeOK, MonitorPc
<1>6. OwnerInside'
  BY <1>1, <1>4, MonitorAssumption DEF MonitorInv, OwnerInside
<1>7. LostByWait'
  BY <1>1 DEF MonitorInv, MonitorTypeOK, LostByWait
<1>8. \A q \in Procs : ResultTrue(q)'
  BY <1>1, <1>3, <1>4 DEF ResultTrue
<1>9. \A q \in Procs : moAt'[q] = "out" => moResult'[q] = "none"
  BY <1>1, <1>4 DEF MonitorInv
<1> QED BY <1>5, <1>6, <1>7, <1>8, <1>9 DEF MonitorInv

(* A wait that sleeps again, or that returns from a lost mutex.               *)
LEMMA WaitAgainInv == ASSUME MonitorInv, NEW p \in Procs, WaitAgain(p) \/ WaitLost(p) PROVE MonitorInv'
<1>1. CASE WaitAgain(p)
  <2>1. /\ moAt[p] = "woken" /\ moOwner = NoProc /\ moState # "lost" /\ moAt' = [moAt EXCEPT ![p] = "waits"]
        /\ moState' = (IF moState = "dead" THEN "lost" ELSE moState) /\ moOrphan' = (moOrphan \/ moState = "dead")
        /\ UNCHANGED <<moOwner, moMarked, moWait, moExpired, moResult, moFlag>>
    BY <1>1 DEF WaitAgain
  <2>2. MonitorTypeOK'
    BY <2>1 DEF MonitorInv, MonitorTypeOK, MonitorPc
  <2>3. \A q \in Procs : moAt'[q] = IF q = p THEN "waits" ELSE moAt[q]
    BY <2>1 DEF MonitorInv, MonitorTypeOK
  <2>4. OwnerInside'
    BY <2>1, <2>3, MonitorAssumption DEF MonitorInv, OwnerInside
  <2>5. LostByWait'
    BY <2>1 DEF MonitorInv, MonitorTypeOK, LostByWait
  <2>6. \A q \in Procs : ResultTrue(q)'
    BY <2>1, MonitorAssumption DEF ResultTrue
  <2>7. \A q \in Procs : moAt'[q] = "out" => moResult'[q] = "none"
    BY <2>1, <2>3 DEF MonitorInv
  <2> QED BY <2>2, <2>4, <2>5, <2>6, <2>7 DEF MonitorInv
<1>2. CASE WaitLost(p)
  <2> DEFINE r == IF moWait[p].pred THEN Returns(p, moFlag) ELSE IF moWait[p].timed THEN "false" ELSE "none"
  <2>1. /\ moAt[p] = "woken" /\ moState = "lost" /\ moAt' = [moAt EXCEPT ![p] = "in"] /\ moResult' = [moResult EXCEPT ![p] = r]
        /\ UNCHANGED <<moOwner, moState, moMarked, moWait, moExpired, moFlag, moOrphan>>
    BY <1>2 DEF WaitLost, Enter
  <2>2. r \in {"none", "true", "false"}
    BY DEF Returns
  <2> HIDE DEF r
  <2>3. MonitorTypeOK'
    BY <2>1, <2>2 DEF MonitorInv, MonitorTypeOK, MonitorPc
  <2>4. \A q \in Procs : moAt'[q] = (IF q = p THEN "in" ELSE moAt[q]) /\ moResult'[q] = (IF q = p THEN r ELSE moResult[q])
    BY <2>1 DEF MonitorInv, MonitorTypeOK
  <2>5. OwnerInside' /\ LostByWait'
    BY <2>1, <2>4, MonitorAssumption DEF MonitorInv, OwnerInside, LostByWait
  <2>6. \A q \in Procs : ResultTrue(q)'
    BY <2>1, MonitorAssumption DEF MonitorInv, OwnerInside, ResultTrue
  <2>7. \A q \in Procs : moAt'[q] = "out" => moResult'[q] = "none"
    BY <2>1, <2>4 DEF MonitorInv
  <2> QED BY <2>3, <2>5, <2>6, <2>7 DEF MonitorInv
<1> QED BY <1>1, <1>2

(* The death of a process, with the mutex or without.                         *)
LEMMA DieInv == ASSUME MonitorInv, NEW p \in Procs, Die(p) PROVE MonitorInv'
<1>1. /\ moAt' = [moAt EXCEPT ![p] = "gone"] /\ UNCHANGED <<moFlag, moOrphan>>
      /\ moWait' = [moWait EXCEPT ![p] = Plain] /\ moExpired' = [moExpired EXCEPT ![p] = FALSE]
      /\ moResult' = [moResult EXCEPT ![p] = "none"]
      /\ \/ moOwner = p /\ moOwner' = NoProc /\ moState' = "dead" /\ moMarked' = TRUE
         \/ moOwner # p /\ UNCHANGED <<moOwner, moState, moMarked>>
  BY DEF Die, Forget
<1>2. MonitorTypeOK'
  BY <1>1 DEF MonitorInv, MonitorTypeOK, MonitorPc, Waits, Plain
<1>3. \A q \in Procs : /\ moAt'[q] = (IF q = p THEN "gone" ELSE moAt[q]) /\ moResult'[q] = (IF q = p THEN "none" ELSE moResult[q])
                       /\ q # p => moWait'[q] = moWait[q]
  BY <1>1 DEF MonitorInv, MonitorTypeOK
<1>4. moOwner = p => \A q \in Procs : moAt[q] = "in" => q = p
  BY MonitorAssumption DEF MonitorInv, OwnerInside
<1>5. OwnerInside' /\ LostByWait'
  BY <1>1, <1>3, <1>4, MonitorAssumption DEF MonitorInv, OwnerInside, LostByWait
<1>6. \A q \in Procs : ResultTrue(q)'
  BY <1>1, <1>3, MonitorAssumption DEF MonitorInv, ResultTrue
<1>7. \A q \in Procs : moAt'[q] = "out" => moResult'[q] = "none"
  BY <1>1, <1>3 DEF MonitorInv
<1> QED BY <1>2, <1>5, <1>6, <1>7 DEF MonitorInv

(* Every step of the processes keeps the invariant.                           *)
LEMMA MonitorStep == ASSUME MonitorInv, [MonitorNext]_monitorVars PROVE MonitorInv'
<1>1. CASE UNCHANGED monitorVars
  BY <1>1 DEF monitorVars, MonitorInv, MonitorTypeOK, OwnerInside, LostByWait, ResultTrue
<1>2. CASE MonitorNext
  BY <1>2, SharedLockInv, SharedUnlockInv, SetFlagInv, CondWaitInv, WakesInv, WaitReturnsInv, WaitAgainInv, DieInv
     DEF MonitorNext
<1> QED BY <1>1, <1>2

(* Unless a wait has taken the mutex from a dead owner, one process at most is inside: its owner. *)
LEMMA MonitorInvSafe == MonitorInv => MonitorExclusion /\ WaitTruthful
<1> SUFFICES ASSUME MonitorInv PROVE MonitorExclusion /\ WaitTruthful
  OBVIOUS
<1>1. WaitTruthful
  BY DEF MonitorInv, ResultTrue, WaitTruthful
<1> DEFINE inside == {p \in Procs : moAt[p] = "in"}
<1>2. ASSUME ~moOrphan PROVE Cardinality(inside) <= 1
  <2>1. inside \subseteq {moOwner}
    BY <1>2 DEF MonitorInv, LostByWait, OwnerInside
  <2>2. IsFiniteSet({moOwner}) /\ Cardinality({moOwner}) = 1
    BY FS_Singleton
  <2> HIDE DEF inside
  <2> QED BY <2>1, <2>2, FS_Subset
<1> QED BY <1>1, <1>2 DEF MonitorExclusion, MonitorInv, MonitorTypeOK

-----------------------------------------------------------------------------
(***************************************************************************)
(* Permits of a semaphore.                                                 *)
(***************************************************************************)
Holders == {u \in SemUsers : smAt[u] = "holds"}

SemInv ==
    /\ smValue \in Nat /\ smAt \in [SemUsers -> {"closed", "open", "waits", "holds"}] /\ smPhantom \subseteq SemUsers
    /\ PermitsConserved

(* The number of holders when one comes or goes.                              *)
LEMMA HoldersMove ==
  ASSUME SemInv, NEW u \in SemUsers, NEW from, NEW to \in {"closed", "open", "waits", "holds"}, Moves(u, from, to)
  PROVE  /\ smAt' \in [SemUsers -> {"closed", "open", "waits", "holds"}] /\ Cardinality(Holders) \in Nat
         /\ from # "holds" /\ to = "holds" => Cardinality(Holders') = Cardinality(Holders) + 1
         /\ from # "holds" /\ to # "holds" => Holders' = Holders
         /\ from = "holds" /\ to # "holds" => Cardinality(Holders') = Cardinality(Holders) - 1
<1>1. smAt[u] = from /\ smAt' = [smAt EXCEPT ![u] = to] /\ smAt' \in [SemUsers -> {"closed", "open", "waits", "holds"}]
      /\ \A v \in SemUsers : smAt'[v] = IF v = u THEN to ELSE smAt[v]
  BY DEF Moves, SemInv
<1>2. Holders \subseteq SemUsers
  BY DEF Holders
<1>3. IsFiniteSet(Holders) /\ Cardinality(Holders) \in Nat
  BY <1>2, SemaphoreAssumption, FS_Subset, FS_CardinalityType
<1>4. from # "holds" /\ to = "holds" => Holders' = Holders \cup {u} /\ u \notin Holders
  BY <1>1 DEF Holders
<1>5. from # "holds" /\ to # "holds" => Holders' = Holders
  BY <1>1 DEF Holders
<1>6. from = "holds" /\ to # "holds" => Holders' = Holders \ {u} /\ u \in Holders
  BY <1>1 DEF Holders
<1>7. u \notin Holders => Cardinality(Holders \cup {u}) = Cardinality(Holders) + 1
  BY <1>3, FS_AddElement
<1>8. u \in Holders => Cardinality(Holders \ {u}) = Cardinality(Holders) - 1
  BY <1>3, FS_RemoveElement
<1> QED BY <1>1, <1>3, <1>4, <1>5, <1>6, <1>7, <1>8

(* Semaphore: every operation of a user keeps the count of permits.           *)
LEMMA SemStep == ASSUME SemInv, [SemNext]_semVars PROVE SemInv'
<1>1. CASE UNCHANGED semVars
  BY <1>1 DEF semVars, SemInv, PermitsConserved
<1>2. CASE SemNext
  <2> PICK u \in SemUsers : \/ SemOpen(u) \/ SemClose(u) \/ SemWait(u) \/ SemTaken(u) \/ SemTryWait(u) \/ SemPost(u)
                            \/ smPhantom = {} /\ SemInterrupted(u)
    BY <1>2 DEF SemNext
  <2>1. smValue + Cardinality(Holders) = SemInitial + Cardinality(smPhantom) /\ smValue \in Nat
    BY DEF SemInv, PermitsConserved, Holders
  <2>2. SemInitial \in Nat /\ Cardinality(smPhantom) \in Nat
    <3>1. IsFiniteSet(smPhantom)
      BY SemaphoreAssumption, FS_Subset DEF SemInv
    <3> QED BY <3>1, FS_CardinalityType, SemaphoreAssumption
  <2>3. CASE SemOpen(u) \/ SemClose(u) \/ SemWait(u)
    <3>1. PICK from \in {"open", "closed"}, to \in {"closed", "open", "waits"} : Moves(u, from, to)
      BY <2>3 DEF SemOpen, SemClose, SemWait
    <3>2. Holders' = Holders /\ smAt' \in [SemUsers -> {"closed", "open", "waits", "holds"}]
      BY <3>1, HoldersMove
    <3>3. UNCHANGED <<smValue, smPhantom>>
      BY <2>3 DEF SemOpen, SemClose, SemWait
    <3> QED BY <2>1, <3>2, <3>3 DEF SemInv, PermitsConserved, Holders
  <2>4. CASE SemTaken(u) \/ SemTryWait(u)
    <3>1. PICK from \in {"open", "waits"} : Moves(u, from, "holds")
      BY <2>4 DEF SemTaken, SemTryWait
    <3>2. /\ Cardinality(Holders') = Cardinality(Holders) + 1 /\ smAt' \in [SemUsers -> {"closed", "open", "waits", "holds"}]
          /\ Cardinality(Holders) \in Nat
      BY <3>1, HoldersMove
    <3>3. smValue > 0 /\ smValue' = smValue - 1 /\ UNCHANGED smPhantom
      BY <2>4 DEF SemTaken, SemTryWait
    <3>4. smValue' \in Nat /\ smValue' + Cardinality(Holders') = SemInitial + Cardinality(smPhantom')
      BY <2>1, <2>2, <3>2, <3>3
    <3> QED BY <3>2, <3>3, <3>4 DEF SemInv, PermitsConserved, Holders
  <2>5. CASE SemPost(u)
    <3>1. Moves(u, "holds", "open") /\ smValue' = smValue + 1 /\ UNCHANGED smPhantom
      BY <2>5 DEF SemPost
    <3>2. /\ Cardinality(Holders') = Cardinality(Holders) - 1 /\ smAt' \in [SemUsers -> {"closed", "open", "waits", "holds"}]
          /\ Cardinality(Holders) \in Nat
      BY <3>1, HoldersMove
    <3>3. smValue' \in Nat /\ smValue' + Cardinality(Holders') = SemInitial + Cardinality(smPhantom')
      BY <2>1, <2>2, <3>1, <3>2
    <3> QED BY <3>1, <3>2, <3>3 DEF SemInv, PermitsConserved, Holders
  <2>6. CASE smPhantom = {} /\ SemInterrupted(u)
    <3>1. Moves(u, "waits", "holds") /\ smPhantom' = {u} /\ UNCHANGED smValue
      BY <2>6 DEF SemInterrupted
    <3>2. /\ Cardinality(Holders') = Cardinality(Holders) + 1 /\ smAt' \in [SemUsers -> {"closed", "open", "waits", "holds"}]
          /\ Cardinality(Holders) \in Nat
      BY <3>1, HoldersMove
    <3>3. Cardinality(smPhantom) = 0 /\ Cardinality(smPhantom') = 1
      BY <2>6, <3>1, FS_EmptySet, FS_Singleton
    <3>4. smValue' \in Nat /\ smValue' + Cardinality(Holders') = SemInitial + Cardinality(smPhantom')
      BY <2>1, <2>2, <3>1, <3>2, <3>3
    <3> QED BY <3>1, <3>2, <3>4 DEF SemInv, PermitsConserved, Holders
  <2> QED BY <2>3, <2>4, <2>5, <2>6
<1> QED BY <1>1, <1>2

(* Semaphore: at first nobody holds a permit.                                 *)
LEMMA SemInitInv == SemInit => SemInv
<1> SUFFICES ASSUME SemInit PROVE SemInv
  OBVIOUS
<1>1. Holders = {} /\ smPhantom = {} /\ smValue = SemInitial
  BY DEF SemInit, Holders
<1>2. Cardinality(Holders) = 0 /\ Cardinality(smPhantom) = 0
  BY <1>1, FS_EmptySet
<1> QED BY <1>1, <1>2, SemaphoreAssumption DEF SemInit, SemInv, PermitsConserved, Holders

(* What processes share, for any number of them, any sizes and any deaths: no address that ShmMem::get
   returns is beyond its segment; as long as no wait has taken the robust mutex from a dead owner one
   process at most is inside; a wait with a predicate returns its truth; and no permit of a semaphore is
   lost or made, but for the waits that a signal interrupted.                  *)
THEOREM SharedObjectsAreSound == Spec => []SharedObjectsSound
<1> DEFINE Inv == SegmentInv /\ MonitorInv /\ SemInv
<1>1. Init => Inv
  BY SegmentInitInv, MonitorInitInv, SemInitInv DEF Init
<1>2. Inv /\ [Next]_vars => Inv'
  <2> SUFFICES ASSUME Inv, [Next]_vars PROVE Inv'
    OBVIOUS
  <2>1. [SegmentNext]_segmentVars /\ [MonitorNext]_monitorVars /\ [SemNext]_semVars
    BY DEF Next, vars, InFutex, InArena, InPool, InTimer, InSegment, InMonitor, InThread, InSemaphore, InStatistics, InRange
  <2> QED BY <2>1, SegmentStep, MonitorStep, SemStep
<1>3. Inv => SharedObjectsSound
  BY SegmentInvSafe, MonitorInvSafe DEF SharedObjectsSound, SemInv
<1> QED BY <1>1, <1>2, <1>3, PTL DEF Spec
-----------------------------------------------------------------------------
(***************************************************************************)
(* The timer.  With no setter under way _callback is the function the      *)
(* timerfd was programmed for; while there are rounds left and nothing was *)
(* assigned since the expirations were read, _callback is the one that was *)
(* tested then.                                                            *)
(***************************************************************************)
Fns == TimerFns \cup {NoFn}
SetRecs == [fn : Fns, mode : {"once", "periodic", "off"}, torn : BOOLEAN]

TimerTypes ==
    /\ tmCallback \in Fns \cup {TornFn} /\ tmOwner \in Fns /\ tmTicks \in Nat /\ tmStale \in BOOLEAN
    /\ tmLoop \in [left : Nat, owner : Fns, in : BOOLEAN, clean : BOOLEAN]
    /\ tmSetter = <<>> \/ \E r \in SetRecs : tmSetter = <<r>>
    /\ tmCalled \in [fn : Fns \cup {TornFn}, owner : Fns, made : BOOLEAN]

Programmed ==
    /\ tmSetter = <<>> => tmCallback = tmOwner
    /\ (tmSetter # <<>> /\ ~tmSetter[1].torn) => tmCallback = tmSetter[1].fn

Tested == (tmLoop.left > 0 /\ ~tmStale) => tmCallback \notin {NoFn, TornFn} /\ (tmLoop.clean => tmCallback = tmLoop.owner)
InCall == (tmCalled.made => tmLoop.in) /\ (tmLoop.in => tmLoop.left > 0)

TimerInv == TimerTypes /\ Programmed /\ Tested /\ InCall /\ TimerCallsExpired

LEMMA TimerInitInv == TimerInit => TimerInv
<1> SUFFICES ASSUME TimerInit PROVE TimerInv
  OBVIOUS
<1>1. tmLoop.left = 0 /\ tmLoop.in = FALSE /\ tmCalled.made = FALSE
  BY DEF TimerInit, Idle, NoCallYet
<1>2. TimerTypes
  BY DEF TimerInit, TimerTypes, Idle, NoCallYet, Fns
<1> QED BY <1>1, <1>2 DEF TimerInit, TimerInv, Programmed, Tested, InCall, TimerCallsExpired

(* What a setter does to a loop that has rounds left is marked. *)
LEMMA SetterMarks ==
  ASSUME TimerInv, UNCHANGED <<tmLoop, tmCalled>>, tmStale' = (tmStale \/ tmLoop.left > 0)
  PROVE  Tested' /\ InCall' /\ TimerCallsExpired'
<1>1. tmLoop.left \in Nat /\ tmStale \in BOOLEAN
  BY DEF TimerInv, TimerTypes
<1>2. InCall' /\ Tested'
  BY DEF TimerInv, InCall, Tested
<1>3. tmCalled.made => tmLoop.left > 0
  BY DEF TimerInv, InCall
<1> QED BY <1>1, <1>2, <1>3 DEF TimerCallsExpired

LEMMA SetInLoopStep == ASSUME TimerInv, NEW fn \in Fns, NEW mode, SetInLoop(fn, mode) PROVE TimerInv'
<1>1. Tested' /\ InCall' /\ TimerCallsExpired'
  BY SetterMarks DEF SetInLoop
<1>2. TimerTypes' /\ Programmed'
  BY DEF TimerInv, TimerTypes, Programmed, SetInLoop, Settime
<1> QED BY <1>1, <1>2 DEF TimerInv

LEMMA SetterBeginsStep == ASSUME TimerInv, NEW fn \in Fns, NEW mode \in {"once", "periodic", "off"}, SetterBegins(fn, mode) PROVE TimerInv'
<1>1. Tested' /\ InCall' /\ TimerCallsExpired'
  BY SetterMarks DEF SetterBegins
<1>2. PICK r \in SetRecs : r.torn = TRUE /\ tmSetter' = <<r>>
  BY DEF SetterBegins, SetRecs
<1>3. tmSetter' # <<>> /\ tmSetter'[1] = r
  BY <1>2
<1>4. TimerTypes' /\ Programmed'
  BY <1>2, <1>3 DEF TimerInv, TimerTypes, Programmed, SetterBegins
<1> QED BY <1>1, <1>4 DEF TimerInv

LEMMA SetterAssignsStep == ASSUME TimerInv, SetterAssigns PROVE TimerInv'
<1>1. Tested' /\ InCall' /\ TimerCallsExpired'
  BY SetterMarks DEF SetterAssigns
<1>2. PICK r \in SetRecs : tmSetter = <<r>> /\ tmSetter[1] = r
  BY DEF SetterAssigns, TimerInv, TimerTypes
<1> DEFINE q == [r EXCEPT !.torn = FALSE]
<1>3. q \in SetRecs /\ q.fn = r.fn /\ q.torn = FALSE /\ tmSetter' = <<q>> /\ tmCallback' = r.fn /\ r.fn \in Fns
  BY <1>2 DEF SetterAssigns, SetRecs
<1> HIDE DEF q
<1>4. tmSetter' # <<>> /\ tmSetter'[1] = q
  BY <1>3
<1>5. TimerTypes' /\ Programmed'
  BY <1>3, <1>4 DEF TimerInv, TimerTypes, Programmed, SetterAssigns
<1> QED BY <1>1, <1>5 DEF TimerInv

LEMMA SetterArmsStep == ASSUME TimerInv, SetterArms PROVE TimerInv'
<1>1. PICK r \in SetRecs : tmSetter = <<r>> /\ tmSetter[1] = r
  BY DEF SetterArms, TimerInv, TimerTypes
<1>2. tmOwner' = r.fn /\ tmTicks' = 0 /\ tmSetter' = <<>> /\ tmCallback = r.fn /\ tmCallback' = tmCallback /\ r.fn \in Fns
  BY <1>1 DEF SetterArms, Settime, TimerInv, Programmed, SetRecs
<1>3. TimerTypes' /\ Programmed'
  BY <1>2 DEF SetterArms, TimerInv, TimerTypes, Programmed
<1>4. Tested' /\ InCall' /\ TimerCallsExpired'
  BY DEF SetterArms, TimerInv, Tested, InCall, TimerCallsExpired
<1> QED BY <1>3, <1>4 DEF TimerInv

LEMMA ExpireStep == ASSUME TimerInv, Expire PROVE TimerInv'
  BY DEF TimerInv, TimerTypes, Programmed, Tested, InCall, TimerCallsExpired, Expire

LEMMA OnReadableStep == ASSUME TimerInv, OnReadable PROVE TimerInv'
<1>0. /\ TimerTypes /\ Programmed /\ InCall /\ tmLoop.left = 0 /\ tmStale' = (tmCallback = TornFn) /\ tmTicks' = 0
      /\ UNCHANGED <<tmCallback, tmOwner, tmSetter, tmCalled>>
  BY DEF TimerInv, OnReadable
<1>1. ~tmCalled.made
  BY <1>0 DEF InCall, TimerTypes
<1>2. CASE tmCallback # NoFn
  <2>1. tmLoop' = Rounds
    BY <1>2 DEF OnReadable
  <2>2. tmLoop'.in = FALSE /\ tmLoop'.clean = (tmSetter = <<>>) /\ tmLoop'.owner = tmOwner
    BY <2>1 DEF Rounds
  <2>3. TimerTypes'
    BY <1>0, <2>1 DEF TimerTypes, Rounds
  <2> QED BY <1>0, <1>1, <1>2, <2>2, <2>3 DEF TimerInv, Programmed, Tested, InCall, TimerCallsExpired
<1>3. CASE tmCallback = NoFn
  <2>1. tmLoop' = Idle
    BY <1>3 DEF OnReadable
  <2>2. tmLoop'.in = FALSE /\ tmLoop'.left = 0
    BY <2>1 DEF Idle
  <2>3. TimerTypes'
    BY <1>0, <2>1 DEF TimerTypes, Idle, Fns
  <2> QED BY <1>0, <1>1, <2>2, <2>3 DEF TimerInv, Programmed, Tested, InCall, TimerCallsExpired
<1> QED BY <1>2, <1>3

LEMMA CallBeginsStep == ASSUME TimerInv, CallBegins PROVE TimerInv'
<1>0. /\ TimerTypes /\ Programmed /\ Tested /\ tmLoop.left > 0 /\ tmCalled' = [fn |-> tmCallback, owner |-> tmLoop.owner, made |-> TRUE]
      /\ tmLoop' = [tmLoop EXCEPT !.in = TRUE] /\ UNCHANGED <<tmCallback, tmOwner, tmTicks, tmSetter, tmStale>>
  BY DEF TimerInv, CallBegins
<1>1. tmLoop'.in = TRUE /\ tmLoop'.left = tmLoop.left /\ tmLoop'.clean = tmLoop.clean /\ tmLoop'.owner = tmLoop.owner
  BY <1>0 DEF TimerTypes
<1>2. tmCalled'.fn = tmCallback /\ tmCalled'.owner = tmLoop.owner
  BY <1>0
<1>3. TimerTypes'
  BY <1>0 DEF TimerTypes
<1> QED BY <1>0, <1>1, <1>2, <1>3 DEF TimerInv, Programmed, Tested, InCall, TimerCallsExpired

LEMMA CallEndsStep == ASSUME TimerInv, CallEnds PROVE TimerInv'
<1>0. /\ TimerTypes /\ Programmed /\ Tested /\ InCall /\ tmLoop.in /\ tmCalled' = NoCallYet
      /\ UNCHANGED <<tmCallback, tmOwner, tmTicks, tmSetter, tmStale>>
  BY DEF TimerInv, CallEnds
<1>1. tmCalled'.made = FALSE /\ tmCalled' \in [fn : Fns \cup {TornFn}, owner : Fns, made : BOOLEAN]
  BY <1>0 DEF NoCallYet, Fns
<1>2. PICK n \in Nat : n = tmLoop.left
  BY <1>0 DEF TimerTypes
<1>3. CASE n > 1
  <2>1. tmLoop' = [tmLoop EXCEPT !.left = n - 1, !.in = FALSE] /\ n - 1 \in Nat
    BY <1>2, <1>3 DEF CallEnds
  <2>2. tmLoop'.in = FALSE /\ tmLoop'.left = n - 1 /\ tmLoop'.clean = tmLoop.clean /\ tmLoop'.owner = tmLoop.owner
    BY <1>0, <2>1 DEF TimerTypes
  <2>3. TimerTypes'
    BY <1>0, <1>1, <2>1 DEF TimerTypes
  <2>4. Tested'
    BY <1>0, <1>2, <1>3, <2>2 DEF Tested
  <2> QED BY <1>0, <1>1, <2>2, <2>3, <2>4 DEF TimerInv, Programmed, InCall, TimerCallsExpired
<1>4. CASE ~(n > 1)
  <2>1. tmLoop' = Idle
    BY <1>2, <1>4 DEF CallEnds
  <2>2. tmLoop'.in = FALSE /\ tmLoop'.left = 0
    BY <2>1 DEF Idle
  <2>3. TimerTypes'
    BY <1>0, <1>1, <2>1 DEF TimerTypes, Idle, Fns
  <2> QED BY <1>0, <1>1, <2>2, <2>3 DEF TimerInv, Programmed, Tested, InCall, TimerCallsExpired
<1> QED BY <1>3, <1>4

LEMMA TimerStep == ASSUME TimerInv, [TimerNext]_timerVars PROVE TimerInv'
<1>1. CASE UNCHANGED timerVars
  BY <1>1 DEF timerVars, TimerInv, TimerTypes, Programmed, Tested, InCall, TimerCallsExpired
<1>2. CASE SetOneShot \/ SetInterval \/ Cancel
  <2>1. TimerFns \subseteq Fns /\ NoFn \in Fns
    BY DEF Fns
  <2> QED BY <1>2, <2>1, SetInLoopStep, SetterBeginsStep DEF SetOneShot, SetInterval, Cancel
<1> QED BY <1>1, <1>2, SetterAssignsStep, SetterArmsStep, ExpireStep, OnReadableStep, CallBeginsStep, CallEndsStep DEF TimerNext

(***************************************************************************)
(* BasicTimer::onReadable, with setters called in the callback, in the     *)
(* reactor's thread and by another thread, calls the function the timer    *)
(* expired for, unless a setter ran since the expirations were read.       *)
(***************************************************************************)
THEOREM TimerCallsItsFunction == Spec => []TimerCallsExpired
<1>1. Init => TimerInv
  BY TimerInitInv DEF Init
<1>2. TimerInv /\ [Next]_vars => TimerInv'
  <2> SUFFICES ASSUME TimerInv, [Next]_vars PROVE TimerInv'
    OBVIOUS
  <2>1. [TimerNext]_timerVars
    BY DEF Next, vars, InFutex, InArena, InPool, InTimer, InSegment, InMonitor, InThread, InSemaphore, InStatistics, InRange
  <2> QED BY <2>1, TimerStep
<1>3. TimerInv => TimerCallsExpired
  BY DEF TimerInv
<1> QED BY <1>1, <1>2, <1>3, PTL DEF Spec

-----------------------------------------------------------------------------
(***************************************************************************)
(* Threads and their handles.  An Invoker has one owner at a time: a       *)
(* handle, or the temporary of the assignment under way; one that was      *)
(* deleted has ended.                                                      *)
(***************************************************************************)
InvokerStates == {"unborn", "created", "func", "store", "leaves", "exited"}

ThreadTypes ==
    /\ thInvoker \in [Handles -> Invokers \cup {NoInvoker}] /\ thMoved \in Invokers \cup {NoInvoker}
    /\ thAt \in [Invokers -> InvokerStates] /\ thFreed \in [Invokers -> BOOLEAN] /\ thFresh \in Nat
    /\ thCall = <<>> \/ \E h \in Handles : thCall[1] = h
    /\ thCall = <<>> => thMoved = NoInvoker

OwnedOnce ==
    /\ \A g, h \in Handles : (g # h /\ thInvoker[g] = thInvoker[h]) => thInvoker[g] = NoInvoker
    /\ \A h \in Handles : thInvoker[h] = thMoved => thMoved = NoInvoker

FreshUnborn ==
    /\ \A i \in Invokers : i >= thFresh => thAt[i] = "unborn" /\ thMoved # i /\ \A h \in Handles : thInvoker[h] # i
    /\ \A i \in Invokers : thFreed[i] => thAt[i] = "exited"

ThreadInv == ThreadTypes /\ OwnedOnce /\ FreshUnborn /\ ThreadsOwned

LEMMA ThreadInitInv == ThreadInit => ThreadInv
<1> SUFFICES ASSUME ThreadInit PROVE ThreadInv
  OBVIOUS
<1>1. NoInvoker \notin Invokers
  BY InvokersAssumption DEF Invokers
<1>2. ThreadTypes /\ OwnedOnce
  BY DEF ThreadInit, ThreadTypes, OwnedOnce, InvokerStates
<1>3. FreshUnborn /\ ThreadsOwned
  BY <1>1 DEF ThreadInit, FreshUnborn, ThreadsOwned
<1> QED BY <1>2, <1>3 DEF ThreadInv

LEMMA ConstructStep == ASSUME ThreadInv, NEW h \in Handles, Construct(h) PROVE ThreadInv'
<1>0. /\ ThreadTypes /\ OwnedOnce /\ FreshUnborn /\ ThreadsOwned /\ thCall = <<>> /\ thFresh \in Invokers
      /\ thAt' = [thAt EXCEPT ![thFresh] = "created"] /\ thFresh' = thFresh + 1 /\ thMoved' = thFresh /\ thCall' = <<h, "cancel">>
      /\ UNCHANGED <<thInvoker, thFreed>>
  BY DEF ThreadInv, Construct
<1>1. NoInvoker \notin Invokers /\ Invokers \subseteq Nat
  BY InvokersAssumption DEF Invokers
<1>2. thMoved = NoInvoker /\ thAt'[thFresh] = "created" /\ \A i \in Invokers \ {thFresh} : thAt'[i] = thAt[i]
  BY <1>0 DEF ThreadTypes
<1>3. ThreadTypes'
  <2>1. thCall' # <<>> /\ thCall'[1] = h
    BY <1>0
  <2> QED BY <1>0, <1>1, <2>1 DEF ThreadTypes, InvokerStates
<1>4. OwnedOnce'
  BY <1>0, <1>1 DEF OwnedOnce, FreshUnborn, ThreadTypes
<1>5. FreshUnborn'
  BY <1>0, <1>1, <1>2 DEF FreshUnborn, ThreadTypes
<1>6. ThreadsOwned'
  <2>1. ~thFreed[thFresh]
    BY <1>0, <1>1 DEF FreshUnborn, ThreadTypes
  <2> QED BY <1>0, <1>1, <1>2, <2>1 DEF ThreadsOwned
<1> QED BY <1>3, <1>4, <1>5, <1>6 DEF ThreadInv

(* A call begins, or asks for the cancellation: no Invoker moves. *)
LEMMA HandleCallStep ==
  ASSUME ThreadInv, UNCHANGED <<thInvoker, thAt, thFreed, thFresh, thMoved>>, NEW h \in Handles, NEW what, thCall' = <<h, what>>
  PROVE  ThreadInv'
<1>1. thCall' # <<>> /\ thCall'[1] = h
  OBVIOUS
<1> QED BY <1>1 DEF ThreadInv, ThreadTypes, OwnedOnce, FreshUnborn, ThreadsOwned

LEMMA JoinStepStep == ASSUME ThreadInv, JoinStep PROVE ThreadInv'
<1>1. PICK h \in Handles : thCall # <<>> /\ thCall[1] = h
  BY DEF ThreadInv, ThreadTypes, JoinStep
<1>0. /\ ThreadTypes /\ OwnedOnce /\ FreshUnborn /\ ThreadsOwned
      /\ thFreed' = (IF Joinable(h) THEN [thFreed EXCEPT ![thInvoker[h]] = TRUE] ELSE thFreed)
      /\ thInvoker' = [thInvoker EXCEPT ![h] = thMoved] /\ thMoved' = NoInvoker /\ thCall' = <<>>
      /\ Joinable(h) => thAt[thInvoker[h]] = "exited"
      /\ UNCHANGED <<thAt, thFresh>>
  BY <1>1 DEF ThreadInv, JoinStep, Reset
<1>2. NoInvoker \notin Invokers /\ thInvoker[h] \in Invokers \cup {NoInvoker} /\ (Joinable(h) <=> thInvoker[h] \in Invokers)
  BY <1>0, InvokersAssumption DEF Invokers, ThreadTypes, Joinable
<1>3. thInvoker'[h] = thMoved /\ \A g \in Handles \ {h} : thInvoker'[g] = thInvoker[g]
  BY <1>0 DEF ThreadTypes
<1>4. \A i \in Invokers : thFreed'[i] <=> (thFreed[i] \/ i = thInvoker[h])
  BY <1>0, <1>2 DEF ThreadTypes
<1>5. ThreadTypes'
  BY <1>0, <1>2 DEF ThreadTypes
<1>6. OwnedOnce'
  BY <1>0, <1>2, <1>3 DEF OwnedOnce
<1>7. FreshUnborn'
  BY <1>0, <1>2, <1>3, <1>4 DEF FreshUnborn
<1>8. ThreadsOwned'
  <2>1. ASSUME NEW i \in Invokers, thAt[i] \notin {"unborn", "exited"}
        PROVE  ~thFreed'[i] /\ \E g \in Handles : thInvoker'[g] = i
    <3>1. i # thInvoker[h] /\ ~thFreed[i] /\ (thMoved = i \/ \E g \in Handles : thInvoker[g] = i)
      BY <1>0, <1>2, <2>1 DEF ThreadsOwned
    <3> QED BY <1>3, <1>4, <3>1
  <2> QED BY <1>0, <2>1 DEF ThreadsOwned
<1> QED BY <1>5, <1>6, <1>7, <1>8 DEF ThreadInv

LEMMA SwapStep == ASSUME ThreadInv, NEW g \in Handles, NEW h \in Handles, Swap(g, h) PROVE ThreadInv'
<1>0. /\ ThreadTypes /\ OwnedOnce /\ FreshUnborn /\ ThreadsOwned /\ g # h
      /\ thInvoker' = [thInvoker EXCEPT ![g] = thInvoker[h], ![h] = thInvoker[g]] /\ UNCHANGED <<thAt, thFreed, thCall, thFresh, thMoved>>
  BY DEF ThreadInv, Swap
<1>1. thInvoker'[g] = thInvoker[h] /\ thInvoker'[h] = thInvoker[g] /\ \A k \in Handles \ {g, h} : thInvoker'[k] = thInvoker[k]
  BY <1>0 DEF ThreadTypes
<1>2. ThreadTypes'
  BY <1>0 DEF ThreadTypes
<1>3. \A k \in Handles : \E j \in Handles : thInvoker'[k] = thInvoker[j]
  BY <1>1
<1>4. OwnedOnce'
  <2>1. ASSUME NEW a \in Handles, NEW b \in Handles, a # b, thInvoker'[a] = thInvoker'[b] PROVE thInvoker'[a] = NoInvoker
    <3>1. CASE a \in {g, h} /\ b \in {g, h}
      <4>1. thInvoker[g] = thInvoker[h]
        BY <1>1, <2>1, <3>1
      <4>2. thInvoker[g] = NoInvoker
        BY <1>0, <4>1 DEF OwnedOnce
      <4> QED BY <1>1, <3>1, <4>1, <4>2
    <3>2. CASE a \notin {g, h} /\ b \in {g, h}
      BY <1>0, <1>1, <2>1, <3>2 DEF OwnedOnce
    <3>3. CASE a \in {g, h} /\ b \notin {g, h}
      BY <1>0, <1>1, <2>1, <3>3 DEF OwnedOnce
    <3>4. CASE a \notin {g, h} /\ b \notin {g, h}
      BY <1>0, <1>1, <2>1, <3>4 DEF OwnedOnce
    <3> QED BY <3>1, <3>2, <3>3, <3>4
  <2> QED BY <1>0, <1>3, <2>1 DEF OwnedOnce
<1>5. FreshUnborn'
  <2>1. ASSUME NEW i \in Invokers, i >= thFresh, NEW k \in Handles PROVE thInvoker'[k] # i
    <3>1. \A j \in Handles : thInvoker[j] # i
      BY <1>0, <2>1 DEF FreshUnborn
    <3> QED BY <1>3, <3>1
  <2> QED BY <1>0, <2>1 DEF FreshUnborn
<1>6. ThreadsOwned'
  BY <1>0, <1>1 DEF ThreadsOwned
<1> QED BY <1>2, <1>4, <1>5, <1>6 DEF ThreadInv

LEMMA ThreadRunsStep == ASSUME ThreadInv, NEW i \in Invokers, ThreadStep(i) PROVE ThreadInv'
<1>1. PICK from \in InvokerStates \ {"unborn", "exited"}, to \in InvokerStates \ {"unborn"} : thAt[i] = from /\ thAt' = [thAt EXCEPT ![i] = to]
  BY DEF ThreadStep, Routine, FuncReturns, Cancelled, StoreDone, Exits, HandleAt, InvokerStates
<1>0. ThreadTypes /\ OwnedOnce /\ FreshUnborn /\ ThreadsOwned /\ UNCHANGED <<thInvoker, thFreed, thCall, thFresh, thMoved>>
  BY DEF ThreadInv, ThreadStep, Routine, FuncReturns, Cancelled, StoreDone, Exits, OwnerIdle
<1>2. thAt'[i] = to /\ \A j \in Invokers \ {i} : thAt'[j] = thAt[j]
  BY <1>0, <1>1 DEF ThreadTypes
<1>3. ThreadTypes' /\ OwnedOnce'
  BY <1>0, <1>1 DEF ThreadTypes, OwnedOnce
<1>4. FreshUnborn'
  BY <1>0, <1>1, <1>2 DEF FreshUnborn
<1>5. ThreadsOwned'
  BY <1>0, <1>1, <1>2 DEF ThreadsOwned
<1> QED BY <1>3, <1>4, <1>5 DEF ThreadInv

LEMMA ThreadStepInv == ASSUME ThreadInv, [ThreadNext]_threadVars PROVE ThreadInv'
<1>1. CASE UNCHANGED threadVars
  BY <1>1 DEF threadVars, ThreadInv, ThreadTypes, OwnedOnce, FreshUnborn, ThreadsOwned
<1>2. ASSUME NEW h \in Handles, Construct(h) \/ JoinCall(h) \/ TryJoin(h) \/ CancelCall(h) PROVE ThreadInv'
  BY <1>2, ConstructStep, HandleCallStep DEF JoinCall, TryJoin, CancelCall
<1>3. ASSUME CancelStep PROVE ThreadInv'
  <2>1. thCall[1] \in Handles
    BY <1>3 DEF CancelStep, ThreadInv, ThreadTypes
  <2> QED BY <1>3, <2>1, HandleCallStep DEF CancelStep
<1> QED BY <1>1, <1>2, <1>3, JoinStepStep, SwapStep, ThreadRunsStep DEF ThreadNext, OwnerStep

(***************************************************************************)
(* For any handles and threads, through join, tryJoin, cancel, swap and    *)
(* move assignment: a thread never runs on an Invoker that was deleted,    *)
(* nor without a handle that will join it (Thread, Invoker).               *)
(***************************************************************************)
THEOREM ThreadsAreOwned == Spec => []ThreadsOwned
<1>1. Init => ThreadInv
  BY ThreadInitInv DEF Init
<1>2. ThreadInv /\ [Next]_vars => ThreadInv'
  <2> SUFFICES ASSUME ThreadInv, [Next]_vars PROVE ThreadInv'
    OBVIOUS
  <2>1. [ThreadNext]_threadVars
    BY DEF Next, vars, InFutex, InArena, InPool, InTimer, InSegment, InMonitor, InThread, InSemaphore, InStatistics, InRange
  <2> QED BY <2>1, ThreadStepInv
<1>3. ThreadInv => ThreadsOwned
  BY DEF ThreadInv
<1> QED BY <1>1, <1>2, <1>3, PTL DEF Spec
=============================================================================
