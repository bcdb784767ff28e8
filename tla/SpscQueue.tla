----------------------------- MODULE SpscQueue -----------------------------
(***************************************************************************)
(* The Spsc policy of queue.hpp: one producer, one consumer, each with a   *)
(* cached copy of the other's index in its own BasicQueue object.          *)
(*                                                                         *)
(* Every access to a shared index and to a slot is one step.  tryPush of   *)
(* one element and of several are the same steps with size 1.  A process   *)
(* that attaches to a segment in shared memory starts with its cached      *)
(* index at 0.                                                             *)
(***************************************************************************)
EXTENDS QueueSegment

VARIABLES
    cachedTail, cachedHead,
    wpc, wsize, wn, wi,   \* the frame of tryPush: step, size, toWrite, i
    rpc, rsize, rn, ri,   \* the frame of tryPop: step, size, toRead, i
    popped                \* the elements popped

segment == <<head, tail, data, order>>
producer == <<cachedTail, wpc, wsize, wn, wi>>
consumer == <<cachedHead, rpc, rsize, rn, ri, popped>>
spscVars == <<segment, producer, consumer>>

SpscInit ==
    /\ SegmentInit
    /\ cachedTail = 0 /\ wpc = "idle" /\ wsize = 0 /\ wn = 0 /\ wi = 0
    /\ cachedHead = 0 /\ rpc = "idle" /\ rsize = 0 /\ rn = 0 /\ ri = 0
    /\ popped = <<>>

-----------------------------------------------------------------------------
(* tryPush.                                                                 *)

\* Go on with the room for avail elements, or to the step that no room leads to.
PushOn(size, avail, noRoom) ==
    /\ wpc' = IF avail = 0 THEN noRoom ELSE "write"
    /\ wsize' = size
    /\ wn' = Least(size, avail)
    /\ UNCHANGED wi

\* The check against the cached tail.
PushStart(size) ==
    /\ wpc = "idle"
    /\ head + size <= MaxTickets
    /\ PushOn(size, Capacity - (head - cachedTail), "refresh")
    /\ UNCHANGED <<segment, cachedTail, consumer>>

\* Mutant: the fresh tail is not compared.
PushRefreshUnchecked ==
    /\ wpc = "refresh"
    /\ cachedTail' = tail
    /\ PushOn(wsize, wsize, "idle")
    /\ UNCHANGED <<segment, consumer>>

\* Load _tail; still no room is a TemporaryError.
PushRefresh ==
    /\ wpc = "refresh"
    /\ cachedTail' = tail
    /\ PushOn(wsize, Capacity - (head - tail), "idle")
    /\ UNCHANGED <<segment, consumer>>

SpscWrite(v) ==
    /\ wpc = "write"
    /\ data' = [data EXCEPT ![Index(head + wi)] = v]
    /\ order' = Append(order, v)
    /\ wi' = wi + 1
    /\ wpc' = IF wi + 1 < wn THEN "write" ELSE "publish"
    /\ UNCHANGED <<head, tail, cachedTail, wsize, wn, consumer>>

PushPublish ==
    /\ wpc = "publish"
    /\ head' = head + wn
    /\ wpc' = "idle" /\ wi' = 0
    /\ UNCHANGED <<tail, data, order, cachedTail, wsize, wn, consumer>>

-----------------------------------------------------------------------------
(* tryPop.                                                                  *)

PopOn(size, pending, noElement) ==
    /\ rpc' = IF pending = 0 THEN noElement ELSE "read"
    /\ rsize' = size
    /\ rn' = Least(size, pending)
    /\ UNCHANGED <<ri, popped>>

PopStart(size) ==
    /\ rpc = "idle"
    /\ PopOn(size, cachedHead - tail, "refresh")
    /\ UNCHANGED <<segment, producer, cachedHead>>

PopRefresh ==
    /\ rpc = "refresh"
    /\ cachedHead' = head
    /\ PopOn(rsize, head - tail, "idle")
    /\ UNCHANGED <<segment, producer>>

\* A read of the slot that is being written may be torn.
SlotRead(k) == IF wpc = "write" /\ Index(head + wi) = Index(k) THEN Torn ELSE data[Index(k)]

PopRead ==
    /\ rpc = "read"
    /\ popped' = Append(popped, SlotRead(tail + ri))
    /\ ri' = ri + 1
    /\ rpc' = IF ri + 1 < rn THEN "read" ELSE "publish"
    /\ UNCHANGED <<segment, producer, cachedHead, rsize, rn>>

PopPublish ==
    /\ rpc = "publish"
    /\ tail' = tail + rn
    /\ rpc' = "idle" /\ ri' = 0
    /\ UNCHANGED <<head, data, order, producer, cachedHead, rsize, rn, popped>>

-----------------------------------------------------------------------------
(* The constructor in a process that attaches to the segment: the caches    *)
(* start at 0.  In the first lap 0 is still a correct, if old, copy.        *)

AttachProducer ==
    /\ wpc = "idle"
    /\ LateAttach \/ head <= Capacity
    /\ cachedTail' = 0
    /\ UNCHANGED <<segment, wpc, wsize, wn, wi, consumer>>

AttachConsumer ==
    /\ rpc = "idle"
    /\ LateAttach \/ tail = 0
    /\ cachedHead' = 0
    /\ UNCHANGED <<segment, producer, rpc, rsize, rn, ri, popped>>

-----------------------------------------------------------------------------

SpscPush == PushRefresh \/ (\E v \in Value : SpscWrite(v)) \/ PushPublish
SpscPop == (\E size \in Sizes : PopStart(size)) \/ PopRefresh \/ PopRead \/ PopPublish

SpscNext ==
    \/ \E size \in Sizes : PushStart(size)
    \/ SpscPush
    \/ SpscPop
    \/ AttachProducer
    \/ AttachConsumer

SpscSpec == SpscInit /\ [][SpscNext]_spscVars

-----------------------------------------------------------------------------

SpscTypeOK ==
    /\ head \in Nat /\ tail \in Nat
    /\ data \in [Slots -> Value \cup {Free}]
    /\ order \in Seq(Value) /\ popped \in Seq(Value \cup {Free, Torn})
    /\ cachedTail \in Nat /\ cachedHead \in Nat
    /\ wpc \in {"idle", "refresh", "write", "publish"} /\ wsize \in Nat /\ wn \in Nat /\ wi \in Nat
    /\ rpc \in {"idle", "refresh", "read", "publish"} /\ rsize \in Nat /\ rn \in Nat /\ ri \in Nat

(* tryPop returns exactly the elements that were pushed, in the order of the pushes:
   none is lost, repeated, torn, or read before it was published.             *)
DeliveredInOrder ==
    /\ Len(popped) <= head
    /\ \A k \in 1..Len(popped) : popped[k] = order[k]

(* The caches may be old but never ahead, so the unsigned differences of tryPush and
   tryPop never wrap around, and a slot is written only once it was given back. *)
CachesAreOld ==
    /\ cachedTail <= tail /\ tail <= cachedHead /\ cachedHead <= head
    /\ head - cachedTail <= Capacity

\* The queue as BoundedFifo sees it: the elements written and not yet given back.
SpscItems == [j \in 1..head + wi - tail |-> [val |-> order[tail + j], ready |-> tail + j <= head]]
=============================================================================
