----------------------------- MODULE MpscQueue -----------------------------
(***************************************************************************)
(* The Mpsc policy of queue.hpp: many producers, one consumer.  tryPop     *)
(* gives the slot back (sequence number) before it moves _tail; tryPush of *)
(* several elements trusts _tail and does not look at the slots.           *)
(***************************************************************************)
EXTENDS Ring

VARIABLE cons    \* the consumer's frame: [pc, n, i, val]

vars == <<segmentVars, producerVars, taken, use, cons>>

Consumer == "consumer"
IdleConsumer == [pc |-> "idle", n |-> 0, i |-> 0, val |-> Free]

Init == RingInit /\ cons = IdleConsumer

-----------------------------------------------------------------------------
(* tryPush.                                                                 *)

BatchCas(p) == BatchCasTo(p, "write")
PushPublish(p) == PushPublishTo(p, "write")

TryPush(p) == PushLoadSeq(p) \/ PushCas(p) \/ BatchLoadTail(p) \/ BatchCas(p) \/ PushWrite(p) \/ PushPublish(p)

StartPush(p) == PushLoadHead(p) \/ \E size \in Batches : BatchLoadHead(p, size)

-----------------------------------------------------------------------------
(* tryPop: one element, or up to size elements.                             *)

StartPop ==
    /\ cons.pc = "idle"
    /\ \/ cons' = [cons EXCEPT !.pc = "check", !.n = 1]
       \/ \E size \in PopSizes :
            cons' = [cons EXCEPT !.pc = "check", !.n = Least(size, Sub(head, tail))]
    /\ UNCHANGED <<segmentVars, producerVars, taken, use>>

\* Mutant: the slot is read whether published or not.
PopCheckUnchecked ==
    /\ cons.pc = "check"
    /\ cons' = [cons EXCEPT !.pc = IF cons.i < cons.n THEN "read" ELSE "finish"]
    /\ UNCHANGED <<segmentVars, producerVars, taken, use>>

\* The next slot is read if it is published, else the pop ends with what it has.
PopCheck ==
    /\ cons.pc = "check"
    /\ LET k == tail + cons.i IN
       cons' = [cons EXCEPT !.pc = IF cons.i < cons.n /\ seq[Index(k)] = k + 1 THEN "read" ELSE "finish"]
    /\ UNCHANGED <<segmentVars, producerVars, taken, use>>

\* element = slot->data: a racing write may tear it.
Racing(k) == \E p \in Producers : ppc[p] = "write" /\ Index(Ticket(p)) = Index(k)

PopRead ==
    /\ cons.pc = "read"
    /\ \E v \in {data[Index(tail + cons.i)]} \cup (IF Racing(tail + cons.i) THEN {Torn} ELSE {}) :
        /\ cons' = [cons EXCEPT !.pc = "release", !.val = v]
        /\ taken' = taken \cup {[ticket |-> tail + cons.i, val |-> v, by |-> Consumer]}
    /\ UNCHANGED <<segmentVars, producerVars, use>>

\* The slot is free for the producer one lap ahead.
PopRelease ==
    /\ cons.pc = "release"
    /\ seq' = [seq EXCEPT ![Index(tail + cons.i)] = tail + cons.i + Capacity]
    /\ cons' = [cons EXCEPT !.pc = "check", !.i = @ + 1, !.val = Free]
    /\ UNCHANGED <<head, tail, data, producerVars, taken, use>>

\* Mutant: the tail is moved by the size asked for.
PopFinishWhole ==
    /\ cons.pc = "finish"
    /\ tail' = IF cons.i > 0 THEN tail + cons.n ELSE tail
    /\ cons' = IdleConsumer
    /\ UNCHANGED <<head, seq, data, producerVars, taken, use>>

PopFinish ==
    /\ cons.pc = "finish"
    /\ tail' = tail + cons.i
    /\ cons' = IdleConsumer
    /\ UNCHANGED <<head, seq, data, producerVars, taken, use>>

TryPop == PopCheck \/ PopRead \/ PopRelease \/ PopFinish

-----------------------------------------------------------------------------

Next ==
    \/ \E p \in Producers : (StartPush(p) \/ TryPush(p)) /\ UNCHANGED cons
    \/ StartPop \/ TryPop

Spec == Init /\ [][Next]_vars

-----------------------------------------------------------------------------

TypeOK ==
    /\ RingTypeOK
    /\ cons.pc \in {"idle", "check", "read", "release", "finish"}
    /\ cons.n \in Nat /\ cons.i \in 0..cons.n

(* A push is never accepted beyond the capacity: the slots between the released ones
   and the head are at most Capacity, although _head - _tail may be one more.  *)
Released == tail + cons.i
WithinCapacity == head - Released <= Capacity

\* The queue as BoundedFifo sees it: the places claimed and not yet released.
FifoItems ==
    [j \in 1..head - Released |->
        [val |-> order[Released + j], ready |-> seq[Index(Released + j - 1)] = Released + j]]
=============================================================================
