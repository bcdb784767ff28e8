----------------------------- MODULE ThreadPool -----------------------------
(***************************************************************************)
(* Threads, the pool that runs jobs on them, and the distribution of a     *)
(* range over the cores.                                                   *)
(***************************************************************************)
EXTENDS Naturals, Sequences, Integers, FiniteSets, Probe
LOCAL INSTANCE TLC
LOCAL INSTANCE SequencesExt
LOCAL INSTANCE Functions

-----------------------------------------------------------------------------
(***************************************************************************)
(* ThreadPool and WorkerThread of core/src/thread_pool.cpp, over a Mutex   *)
(* and a Condition (core/src/mutex.cpp, core/src/condition.cpp), which are *)
(* POSIX mutexes and conditions: a wait releases the mutex and sleeps in   *)
(* one step, may end spuriously, and takes the mutex again.                *)
(*                                                                         *)
(* A job is the number of its push.  A job may itself push a job.          *)
(***************************************************************************)
CONSTANTS
    Workers,
    Owner,       \* the thread that creates, feeds and destroys the pool
    NoThread,    \* the mutex is free
    MaxJobs      \* bound: jobs pushed

\* The constructor throws when it is asked for no worker.
ASSUME ThreadPoolAssumption ==
    MaxJobs \in Nat /\ Workers # {} /\ Owner \notin Workers /\ NoThread \notin Workers \cup {Owner}

VARIABLES
    mutex,      \* who holds _mutex
    sleepers,   \* the workers waiting on _condition
    stop,       \* _stop
    jobs,       \* _jobs
    pushed,     \* how many jobs were pushed
    started,    \* the jobs in the order in which they were taken
    finished,   \* the jobs that have run
    wpcs,       \* where each worker is
    opc         \* where the owner is

poolVars == <<mutex, sleepers, stop, jobs, pushed, started, finished, wpcs, opc>>

Threads == Workers \cup {Owner}

ThreadPoolInit ==
    /\ mutex = NoThread
    /\ sleepers = {}
    /\ stop = FALSE
    /\ jobs = <<>>
    /\ pushed = 0
    /\ started = <<>>
    /\ finished = {}
    /\ wpcs = [w \in Workers |-> [pc |-> "lock", job |-> 0]]
    /\ opc = "idle"

Goto(w, pc) == wpcs' = [wpcs EXCEPT ![w].pc = pc]

-----------------------------------------------------------------------------
(* WorkerThread::work.                                                      *)

\* The worker takes the mutex, at the top of the loop or after a wait.
Lock(w) ==
    /\ wpcs[w].pc = "lock" /\ mutex = NoThread
    /\ mutex' = w
    /\ Goto(w, "test")
    /\ UNCHANGED <<sleepers, stop, jobs, pushed, started, finished, opc>>

\* The predicate of the wait: _stop, and if it is not set _jobs, which the mutex protects.
Test(w) ==
    /\ wpcs[w].pc = "test"
    /\ Goto(w, IF stop \/ jobs # <<>> THEN "take" ELSE "wait")
    /\ UNCHANGED <<mutex, sleepers, stop, jobs, pushed, started, finished, opc>>

\* pthread_cond_wait
Wait(w) ==
    /\ wpcs[w].pc = "wait"
    /\ mutex' = NoThread
    /\ sleepers' = sleepers \cup {w}
    /\ Goto(w, "asleep")
    /\ UNCHANGED <<stop, jobs, pushed, started, finished, opc>>

Spurious(w) ==
    /\ w \in sleepers
    /\ sleepers' = sleepers \ {w}
    /\ Goto(w, "lock")
    /\ UNCHANGED <<mutex, stop, jobs, pushed, started, finished, opc>>

\* Mutant: a stopping worker leaves its jobs.
TakeStopFirst(w) ==
    /\ wpcs[w].pc = "take"
    /\ mutex' = NoThread
    /\ \/ /\ stop
          /\ Goto(w, "done")
          /\ UNCHANGED <<jobs, started>>
       \/ /\ ~stop
          /\ wpcs' = [wpcs EXCEPT ![w] = [pc |-> "run", job |-> Head(jobs)]]
          /\ jobs' = Tail(jobs)
          /\ started' = Append(started, Head(jobs))
    /\ UNCHANGED <<sleepers, stop, pushed, finished, opc>>

\* The worker returns if there is nothing left to do, else takes the first job.
Take(w) ==
    /\ wpcs[w].pc = "take"
    /\ mutex' = NoThread
    /\ \/ /\ jobs = <<>>
          /\ Goto(w, "done")
          /\ UNCHANGED <<jobs, started>>
       \/ /\ jobs # <<>>
          /\ wpcs' = [wpcs EXCEPT ![w] = [pc |-> "run", job |-> Head(jobs)]]
          /\ jobs' = Tail(jobs)
          /\ started' = Append(started, Head(jobs))
    /\ UNCHANGED <<sleepers, stop, pushed, finished, opc>>

RunJob(w) ==
    /\ wpcs[w].pc = "run"
    /\ finished' = finished \cup {wpcs[w].job}
    /\ wpcs' = [wpcs EXCEPT ![w] = [pc |-> "lock", job |-> 0]]
    /\ UNCHANGED <<mutex, sleepers, stop, jobs, pushed, started, opc>>

-----------------------------------------------------------------------------
(* ThreadPool::push, by the owner or from a job.                            *)

\* Mutant: the job is pushed and nobody is told.
PushSilent(t) ==
    /\ IF t = Owner THEN opc = "idle" ELSE wpcs[t].pc = "run"
    /\ mutex = NoThread
    /\ pushed < MaxJobs
    /\ pushed' = pushed + 1
    /\ jobs' = Append(jobs, pushed + 1)
    /\ UNCHANGED <<mutex, sleepers, wpcs, stop, started, finished, opc>>

\* The mutex is held throughout, and the signal wakes one sleeper, if there is one.
Push(t) ==
    /\ IF t = Owner THEN opc = "idle" ELSE wpcs[t].pc = "run"
    /\ mutex = NoThread
    /\ pushed < MaxJobs
    /\ pushed' = pushed + 1
    /\ jobs' = Append(jobs, pushed + 1)
    /\ \/ \E w \in sleepers : sleepers' = sleepers \ {w} /\ Goto(w, "lock")
       \/ sleepers = {} /\ UNCHANGED <<sleepers, wpcs>>
    /\ UNCHANGED <<mutex, stop, started, finished, opc>>

-----------------------------------------------------------------------------
(* ThreadPool::~ThreadPool.                                                 *)

StoreStop ==
    /\ opc = "idle"
    /\ stop' = TRUE
    /\ opc' = "broadcast"
    /\ UNCHANGED <<mutex, sleepers, jobs, pushed, started, finished, wpcs>>

Broadcast ==
    /\ opc = "broadcast"
    /\ sleepers' = {}
    /\ wpcs' = [w \in Workers |-> IF w \in sleepers THEN [wpcs[w] EXCEPT !.pc = "lock"] ELSE wpcs[w]]
    /\ opc' = "join"
    /\ UNCHANGED <<mutex, stop, jobs, pushed, started, finished>>

\* _workers.clear () joins every worker.
Join ==
    /\ opc = "join"
    /\ \A w \in Workers : wpcs[w].pc = "done"
    /\ opc' = "gone"
    /\ UNCHANGED <<mutex, sleepers, stop, jobs, pushed, started, finished, wpcs>>

-----------------------------------------------------------------------------

Work(w) == Lock(w) \/ Test(w) \/ Wait(w) \/ Take(w) \/ RunJob(w)
Destroy == Broadcast \/ Join

ThreadPoolNext ==
    \/ \E w \in Workers : Work(w) \/ Spurious(w)
    \/ \E t \in Threads : Push(t)
    \/ StoreStop
    \/ Destroy

ThreadPoolSpec == ThreadPoolInit /\ [][ThreadPoolNext]_poolVars

-----------------------------------------------------------------------------

(* work takes the jobs in the order of the pushes, each once.                 *)
JobsInOrder ==
    /\ started \o jobs = [i \in 1..pushed |-> i]
    /\ finished \subseteq {started[i] : i \in 1..Len(started)}

(* The destructor returns only when every job that was pushed has run, jobs pushed by
   jobs included, "gracefully stop all threads".                              *)
DestructorDrains == opc = "gone" => finished = 1..pushed

(* Every job that was pushed is run in the end.                               *)
JobsComplete == \A j \in 1..MaxJobs : (pushed >= j) ~> (j \in finished)

(* ~ThreadPool sets _stop and broadcasts without the mutex: a worker between its predicate and
   its wait misses both and is joined for ever.  The mutex it holds meanwhile lets one worker at
   most be there, so that all the others leave.                               *)
OneWorkerMissesStop ==
    opc \in {"join", "gone"} => \A v, w \in Workers : {v, w} \subseteq sleepers => v = w

-----------------------------------------------------------------------------
(***************************************************************************)
(* Thread and Invoker (core/thread.hpp, core/thread.cpp): the owner's      *)
(* handles, each with a pointer to an Invoker on the heap, and the         *)
(* threads, which run on their Invoker until they have returned, or until  *)
(* a cancellation reaches them.                                            *)
(***************************************************************************)
CONSTANTS
    Handles,       \* Thread objects of one owner
    NoInvoker,     \* the null _invoker
    MaxInvokers    \* bound: threads created

ASSUME InvokersAssumption == MaxInvokers \in Nat /\ NoInvoker \notin 1..MaxInvokers

VARIABLES
    thInvoker,     \* handle: its _invoker
    thAt,          \* invoker: "unborn", "created", "func", "store", "leaves", "exited"
    thDone,        \* invoker: _done
    thCancel,      \* invoker: pthread_cancel has been called
    thFreed,       \* invoker: deleted
    thCall,        \* the owner's call: what it still has to do, <<>> between two calls
    thFresh,       \* next invoker
    thMoved        \* the _invoker of the temporary a move assignment takes from

threadVars == <<thInvoker, thAt, thDone, thCancel, thFreed, thCall, thFresh, thMoved>>

Invokers == 1..MaxInvokers

ThreadInit ==
    /\ thInvoker = [h \in Handles |-> NoInvoker]
    /\ thAt = [i \in Invokers |-> "unborn"] /\ thFreed = [i \in Invokers |-> FALSE]
    /\ thDone = [i \in Invokers |-> FALSE] /\ thCancel = [i \in Invokers |-> FALSE]
    /\ thCall = <<>> /\ thFresh = 1 /\ thMoved = NoInvoker

Joinable(h) == thInvoker[h] # NoInvoker
Running(h) == Joinable(h) /\ ~thDone[thInvoker[h]]

\* h = Thread (func): the new Invoker is created, then the old thread of h is cancelled and joined.
Construct(h) ==
    /\ thCall = <<>> /\ thFresh \in Invokers
    /\ thAt' = [thAt EXCEPT ![thFresh] = "created"] /\ thFresh' = thFresh + 1
    /\ thMoved' = thFresh /\ thCall' = <<h, "cancel">>
    /\ UNCHANGED <<thInvoker, thDone, thCancel, thFreed>>

JoinCall(h) ==
    /\ thCall = <<>> /\ thCall' = <<h, "join">>
    /\ UNCHANGED <<thInvoker, thAt, thDone, thCancel, thFreed, thFresh, thMoved>>

TryJoin(h) ==
    /\ thCall = <<>> /\ ~Running(h) /\ thCall' = <<h, "join">>
    /\ UNCHANGED <<thInvoker, thAt, thDone, thCancel, thFreed, thFresh, thMoved>>

\* cancel, and the destructor.
CancelCall(h) ==
    /\ thCall = <<>> /\ thCall' = <<h, "cancel">>
    /\ UNCHANGED <<thInvoker, thAt, thDone, thCancel, thFreed, thFresh, thMoved>>

CancelStep ==
    /\ thCall # <<>> /\ thCall[2] = "cancel" /\ thCall' = <<thCall[1], "join">>
    /\ thCancel' = IF Running(thCall[1]) THEN [thCancel EXCEPT ![thInvoker[thCall[1]]] = TRUE] ELSE thCancel
    /\ UNCHANGED <<thInvoker, thAt, thDone, thFreed, thFresh, thMoved>>

\* The _invoker of h is deleted, and replaced by the one a move assignment brings.
Reset(h) ==
    /\ thFreed' = IF Joinable(h) THEN [thFreed EXCEPT ![thInvoker[h]] = TRUE] ELSE thFreed
    /\ thInvoker' = [thInvoker EXCEPT ![h] = thMoved] /\ thMoved' = NoInvoker /\ thCall' = <<>>

\* pthread_join waits for the thread's end; then the Invoker is deleted.
JoinStep ==
    /\ thCall # <<>> /\ thCall[2] = "join"
    /\ Joinable(thCall[1]) => thAt[thInvoker[thCall[1]]] = "exited"
    /\ Reset(thCall[1]) /\ UNCHANGED <<thAt, thDone, thCancel, thFresh>>

Swap(g, h) ==
    /\ thCall = <<>> /\ g # h
    /\ thInvoker' = [thInvoker EXCEPT ![g] = thInvoker[h], ![h] = thInvoker[g]]
    /\ UNCHANGED <<thAt, thDone, thCancel, thFreed, thCall, thFresh, thMoved>>

HandleAt(i, from, to) == thAt[i] = from /\ thAt' = [thAt EXCEPT ![i] = to]
OwnerIdle == UNCHANGED <<thInvoker, thCancel, thFreed, thCall, thFresh, thMoved>>

Routine(i) == HandleAt(i, "created", "func") /\ UNCHANGED thDone /\ OwnerIdle
\* _func returns, or the cancellation unwinds it (its wait is a cancellation point).
FuncReturns(i) == HandleAt(i, "func", "store") /\ UNCHANGED thDone /\ OwnerIdle
Cancelled(i) == thCancel[i] /\ HandleAt(i, "func", "exited") /\ UNCHANGED thDone /\ OwnerIdle
StoreDone(i) == HandleAt(i, "store", "leaves") /\ thDone' = [thDone EXCEPT ![i] = TRUE] /\ OwnerIdle
Exits(i) == HandleAt(i, "leaves", "exited") /\ UNCHANGED thDone /\ OwnerIdle

ThreadStep(i) == Routine(i) \/ FuncReturns(i) \/ Cancelled(i) \/ StoreDone(i) \/ Exits(i)
OwnerStep == CancelStep \/ JoinStep

ThreadNext ==
    \/ \E h \in Handles : Construct(h) \/ JoinCall(h) \/ TryJoin(h) \/ CancelCall(h)
    \/ \E g, h \in Handles : Swap(g, h)
    \/ OwnerStep \/ \E i \in Invokers : ThreadStep(i)

(* A thread never runs on an Invoker that was deleted, and never runs without a handle *)
(* (or the temporary of a move assignment) that will join it: join, tryJoin, cancel,   *)
(* move assignment and swap included.                                                  *)
ThreadsOwned ==
    \A i \in Invokers : thAt[i] \notin {"unborn", "exited"} =>
        ~thFreed[i] /\ (thMoved = i \/ \E h \in Handles : thInvoker[h] = i)

-----------------------------------------------------------------------------
(***************************************************************************)
(* distribute and parallelForEach (core/thread_pool.hpp), and the topology *)
(* that says how many threads they use (CpuTopology::detect, core/cpu.cpp).*)
(* The topology is read from a directory: one entry per logical CPU, in    *)
(* any order, with what its files say.                                     *)
(***************************************************************************)
CONSTANTS MaxElements, MaxCores,     \* bounds of a distribution
          CpuCount                   \* bound: logical CPUs of a machine

\* The ranges that the threads of the pool are given, and last the caller's own.
Tasks(count, concurrency) ==
    [i \in 1..concurrency |-> (count \div concurrency) + (IF i <= count % concurrency THEN 1 ELSE 0)]
Distribute(count, cores) ==
    IF count = 0 THEN <<>>
    ELSE LET concurrency == IF cores < count THEN cores ELSE count
             tasks == Tasks(count, concurrency)
             begin(i) == FoldLeft(LAMBDA a, n : a + n, 0, SubSeq(tasks, 1, i - 1))
         IN  [i \in 1..concurrency |-> begin(i) + 1..(IF i = concurrency THEN count ELSE begin(i) + tasks[i])]

\* The machine: for each CPU its core_id, -1 where the file is missing, package and node.
Entries == [core : -1..1, socket : 0..1, numa : 0..1]
CoreKey(e) == <<e.socket, e.core, e.numa>>
\* One turn of the loop of detect: the first CPU of a core makes it, and the first core of a node the node.
AddCpu(t, cpu) ==
    LET e == cpu.entry
        old == {i \in DOMAIN t.cores : t.cores[i].key = CoreKey(e)}
        node == {i \in DOMAIN t.nodes : t.nodes[i].id = e.numa}
        known == IF node = {} THEN Append(t.nodes, [id |-> e.numa, cores |-> <<>>]) ELSE t.nodes
        n == IF node = {} THEN Len(known) ELSE CHOOSE i \in node : TRUE
    IN  IF old = {}
        THEN [cores |-> Append(t.cores, [key |-> CoreKey(e), threads |-> <<cpu.id>>]),
              nodes |-> [known EXCEPT ![n].cores = Append(@, e.core)]]
        ELSE [t EXCEPT !.cores = [i \in DOMAIN @ |-> IF i \in old THEN [@[i] EXCEPT !.threads = Append(@, cpu.id)] ELSE @[i]]]
CoreBefore(a, b) == a.key[1] < b.key[1] \/ (a.key[1] = b.key[1] /\ a.key[2] < b.key[2])
Detect(order, machine) ==
    LET t == FoldLeft(AddCpu, [cores |-> <<>>, nodes |-> <<>>], [i \in DOMAIN order |-> [id |-> order[i], entry |-> machine[order[i]]]])
    IN  [cores |-> SortSeq([i \in DOMAIN t.cores |-> [t.cores[i] EXCEPT !.threads = SortSeq(@, <)]], CoreBefore),
         nodes |-> SortSeq(t.nodes, LAMBDA a, b : a.id < b.id)]

DistributionInit ==
    \/ Begin("distribute", (0..MaxElements) \X (1..MaxCores))
    \/ Begin("topology", {o \in [1..CpuCount -> 1..CpuCount] : IsInjective(o)} \X [1..CpuCount -> Entries])
DistributionNext ==
    \/ Compute("distribute", Distribute(input[1], input[2]))
    \/ Compute("topology", Detect(input[1], input[2]))
-----------------------------------------------------------------------------
(***************************************************************************)
(* Every element is handled by exactly one thread, no thread is made for   *)
(* nothing and none has more than one element more than another, however   *)
(* the count divides (distribute).                                         *)
(***************************************************************************)
EachElementOnce ==
    Computed("distribute") =>
        /\ \A e \in 1..input[1] : Cardinality({i \in DOMAIN Result : e \in Result[i]}) = 1
        /\ \A i, j \in DOMAIN Result : Result[i] # {} /\ Cardinality(Result[i]) <= Cardinality(Result[j]) + 1
        /\ Len(Result) <= input[2]

(***************************************************************************)
(* In whatever order the directory lists them, the CPUs are grouped by     *)
(* socket, core and node, each exactly once, and the topology is the same  *)
(* up to the order of cores that differ in their node only, which the      *)
(* comparison of cores does not look at (CpuTopology::detect).             *)
(***************************************************************************)
CpusGrouped ==
    Computed("topology") =>
        LET machine == input[2]
            cpus(key) == {c \in DOMAIN machine : CoreKey(machine[c]) = key}
            keys == {CoreKey(machine[c]) : c \in DOMAIN machine}
        IN  /\ Len(Result.cores) = Cardinality(keys)
            /\ \A i \in DOMAIN Result.cores :
                  Result.cores[i].threads = SortSeq(SetToSeq(cpus(Result.cores[i].key)), <)
            /\ \A i \in 1..Len(Result.cores) - 1 : ~CoreBefore(Result.cores[i + 1], Result.cores[i])
            /\ \A i \in DOMAIN Result.nodes :
                  /\ i > 1 => Result.nodes[i - 1].id < Result.nodes[i].id
                  /\ Len(Result.nodes[i].cores) = Cardinality({k \in keys : k[3] = Result.nodes[i].id})
=============================================================================
