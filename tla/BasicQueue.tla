----------------------------- MODULE BasicQueue -----------------------------
(***************************************************************************)
(* BasicQueue<Type, Backend, SyncPolicy> of queue.hpp: the queue under     *)
(* each of its three policies.  policy, the template argument, is chosen   *)
(* once and for all; so is the way the producers of an Mpsc ring push,     *)
(* which must not be mixed (see the finding on mixed pushes).              *)
(***************************************************************************)
EXTENDS Ring, SpscQueue

CONSTANTS
    Consumers,     \* the consumers of an Mpmc ring
    Policies,      \* bound: the policies examined, of "spsc", "mpsc", "mpmc"
    MpscUses       \* bound: the ways to push into an Mpsc ring

ASSUME QueueAssumption ==
    /\ Policies \subseteq {"spsc", "mpsc", "mpmc"}
    /\ MpscUses \subseteq {"single", "batch", "mixed"}

VARIABLES
    policy,
    cons           \* the consumers' frames, Mpsc and Mpmc

ringVars == <<cons, seq, ppc, phead, psize, pn, pi, taken, use>>
vars == <<segment, policy, producer, consumer, ringVars>>

Mpsc == INSTANCE MpscQueue
Mpmc == INSTANCE MpmcQueue

Init ==
    /\ policy \in Policies
    /\ use \in IF policy = "mpsc" THEN MpscUses ELSE {"mixed"}
    /\ RingInit
    /\ SpscInit
    /\ cons = IF policy = "mpmc" THEN [c \in Consumers |-> Mpmc!IdleConsumer] ELSE Mpsc!IdleConsumer

Next ==
    \/ policy = "spsc" /\ SpscNext /\ UNCHANGED <<policy, ringVars>>
    \/ policy = "mpsc" /\ Mpsc!Next /\ UNCHANGED <<policy, producer, consumer>>
    \/ policy = "mpmc" /\ Mpmc!Next /\ UNCHANGED <<policy, producer, consumer>>

Spec == Init /\ [][Next]_vars

-----------------------------------------------------------------------------

PairPush == policy = "spsc" /\ SpscPush /\ UNCHANGED <<policy, ringVars>>
PairPop == policy = "spsc" /\ SpscPop /\ UNCHANGED <<policy, ringVars>>
MpscPush(p) == policy = "mpsc" /\ Mpsc!TryPush(p) /\ UNCHANGED <<policy, cons, producer, consumer>>
MpscPop == policy = "mpsc" /\ (Mpsc!StartPop \/ Mpsc!TryPop) /\ UNCHANGED <<policy, producer, consumer>>
MpmcPush(p) == policy = "mpmc" /\ Mpmc!TryPush(p) /\ UNCHANGED <<policy, cons, producer, consumer>>
MpmcPop(c) == policy = "mpmc" /\ (Mpmc!PopLoadTail(c) \/ Mpmc!TryPop(c)) /\ UNCHANGED <<policy, producer, consumer>>

\* A producer in the middle of a push is scheduled, and the consumers keep popping.
Fairness ==
    /\ WF_vars(PairPush) /\ WF_vars(PairPop)
    /\ \A p \in Producers : WF_vars(MpscPush(p)) /\ WF_vars(MpmcPush(p))
    /\ WF_vars(MpscPop)
    /\ \A c \in Consumers : WF_vars(MpmcPop(c))

FairSpec == Spec /\ Fairness

-----------------------------------------------------------------------------

TypeOK ==
    CASE policy = "spsc" -> SpscTypeOK
      [] policy = "mpsc" -> Mpsc!TypeOK
      [] policy = "mpmc" -> RingTypeOK

(* Spsc's cached indices may be old, never ahead: its unsigned differences do not
   wrap around.                                                               *)
SpscCachesLag == policy = "spsc" => CachesAreOld

(* A push is never accepted beyond the capacity, whatever the order in which the
   policy's tryPop gives the slots back and moves _tail.                      *)
WithinCapacity ==
    CASE policy = "spsc" -> head + wi - tail <= Capacity
      [] policy = "mpsc" -> Mpsc!WithinCapacity
      [] policy = "mpmc" -> Mpmc!WithinCapacity

Popped(k) == IF policy = "spsc" THEN Len(popped) > k ELSE \E r \in taken : r.ticket = k

(* Every element a producer has claimed a place for is popped in the end.     *)
EveryPushIsPopped == \A k \in 0..MaxTickets - 1 : (Len(order) > k) ~> Popped(k)

(* An Mpmc producer that has claimed a batch gets all its slots in the end.   *)
BatchCompletes == \A p \in Producers : (ppc[p] = "await") ~> (ppc[p] = "idle")

FifoItems ==
    CASE policy = "spsc" -> SpscItems
      [] policy = "mpsc" -> Mpsc!FifoItems
      [] policy = "mpmc" -> Mpmc!FifoItems

Fifo == INSTANCE BoundedFifo WITH
            Value <- Value \cup (Producers \X (0..MaxTickets - 1)), Capacity <- Capacity, items <- FifoItems

(* Every policy implements the bounded FIFO that the reactor relies on.       *)
ImplementsFifo == Fifo!FifoSpec

(* The segment every policy shares is sound in every interleaving: well formed, never over its
   capacity, never written by two producers in one place, and Spsc's cached indices never ahead of
   the ones they stand for.                                                   *)
SegmentSound == TypeOK /\ WithinCapacity /\ WritersApart /\ SpscCachesLag

(* What was claimed is popped, and a claimed batch gets all its slots, while the threads are
   scheduled and the consumers keep popping.                                  *)
QueueProgress == EveryPushIsPopped /\ BatchCompletes
=============================================================================
