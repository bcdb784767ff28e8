-------------------------------- MODULE Futex --------------------------------
(***************************************************************************)
(* Futex and SharedFutex of core/include/join/futex.hpp: a mutex on one    *)
(* word (0 unlocked, 1 locked, 2 locked and perhaps waited for) and the    *)
(* kernel's futex queue.  Every atomic operation and every system call is  *)
(* one step.                                                               *)
(***************************************************************************)
EXTENDS Naturals

CONSTANT Lockers    \* the threads, or the processes of a SharedFutex

VARIABLES
    word,       \* _futex
    fpc,        \* where each thread is
    expected    \* the local expected of lock, after a failed exchange

futexVars == <<word, fpc, expected>>

FutexPc == {"out", "check", "wait", "asleep", "retry", "held", "wake"}

FutexTypeOK ==
    /\ word \in 0..2
    /\ fpc \in [Lockers -> FutexPc]
    /\ expected \in [Lockers -> 0..2]

FutexInit ==
    /\ word = 0
    /\ fpc = [t \in Lockers |-> "out"]
    /\ expected = [t \in Lockers |-> 0]

At(t, here, there) == fpc[t] = here /\ fpc' = [fpc EXCEPT ![t] = there]

-----------------------------------------------------------------------------
(* lock.                                                                    *)

\* compare_exchange (0, 1): the fast path, which is also all of tryLock.
TryLock(t) ==
    /\ At(t, "out", "held")
    /\ word = 0
    /\ word' = 1
    /\ UNCHANGED expected

LockContended(t) ==
    /\ At(t, "out", "check")
    /\ word # 0
    /\ expected' = [expected EXCEPT ![t] = word]
    /\ UNCHANGED word

\* expected == 2 || compare_exchange (expected, 2): wait if so, else try again.
LockCheck(t) ==
    \/ /\ expected[t] = 2
       /\ At(t, "check", "wait")
       /\ UNCHANGED <<word, expected>>
    \/ /\ expected[t] # 2 /\ word = expected[t]
       /\ At(t, "check", "wait")
       /\ word' = 2
       /\ UNCHANGED expected
    \/ /\ expected[t] # 2 /\ word # expected[t]
       /\ At(t, "check", "retry")
       /\ UNCHANGED <<word, expected>>

\* FUTEX_WAIT (2): sleep if the word is still 2.
FutexWait(t) ==
    /\ At(t, "wait", IF word = 2 THEN "asleep" ELSE "retry")
    /\ UNCHANGED <<word, expected>>

\* The system call returns without a wake.
Interrupted(t) ==
    /\ At(t, "asleep", "retry")
    /\ UNCHANGED <<word, expected>>

\* Mutant: a thread that has waited takes the lock as if nobody else waited.
LockRetryAsFirst(t) ==
    \/ /\ At(t, "retry", "held")
       /\ word = 0
       /\ word' = 1
       /\ UNCHANGED expected
    \/ /\ At(t, "retry", "check")
       /\ word # 0
       /\ expected' = [expected EXCEPT ![t] = word]
       /\ UNCHANGED word

\* Mutant: an exchange instead of a compare-exchange.
LockRetryBlind(t) ==
    /\ At(t, "retry", "held")
    /\ word' = 2
    /\ UNCHANGED expected

\* compare_exchange (0, 2)
LockRetry(t) ==
    \/ /\ At(t, "retry", "held")
       /\ word = 0
       /\ word' = 2
       /\ UNCHANGED expected
    \/ /\ At(t, "retry", "check")
       /\ word # 0
       /\ expected' = [expected EXCEPT ![t] = word]
       /\ UNCHANGED word

-----------------------------------------------------------------------------
(* unlock.                                                                  *)

\* exchange (0)
Unlock(t) ==
    /\ At(t, "held", IF word = 2 THEN "wake" ELSE "out")
    /\ word' = 0
    /\ UNCHANGED expected

\* FUTEX_WAKE (1)
Wake(t) ==
    /\ fpc[t] = "wake"
    /\ \/ \E u \in Lockers :
            /\ fpc[u] = "asleep"
            /\ fpc' = [fpc EXCEPT ![t] = "out", ![u] = "retry"]
       \/ /\ \A u \in Lockers : fpc[u] # "asleep"
          /\ fpc' = [fpc EXCEPT ![t] = "out"]
    /\ UNCHANGED <<word, expected>>

-----------------------------------------------------------------------------

LockStep(t) == LockCheck(t) \/ FutexWait(t) \/ LockRetry(t) \/ Unlock(t) \/ Wake(t)

FutexNext == \E t \in Lockers : TryLock(t) \/ LockContended(t) \/ LockStep(t) \/ Interrupted(t)

-----------------------------------------------------------------------------

(* lock and tryLock: at most one thread holds the mutex, and the word is 0 exactly
   when none does.                                                            *)
MutualExclusion ==
    /\ \A t, u \in Lockers : fpc[t] = "held" /\ fpc[u] = "held" => t = u
    /\ word = 0 <=> \A t \in Lockers : fpc[t] # "held"

(* unlock, "waking one waiter if any": no thread sleeps in the kernel unless the word
   says so, or another thread is on its way to wake it or to mark the word again. *)
NoLostWaiter ==
    (\E t \in Lockers : fpc[t] = "asleep")
        => word = 2 \/ \E u \in Lockers : fpc[u] \in {"wake", "retry", "check", "wait"}
=============================================================================
