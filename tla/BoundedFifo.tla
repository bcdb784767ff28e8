---------------------------- MODULE BoundedFifo ----------------------------
(***************************************************************************)
(* What the rings of core/include/join/queue.hpp promise: a bounded FIFO   *)
(* in which a producer first claims the next places and later publishes    *)
(* them, and in which only published elements at the front are taken.  It  *)
(* is the queue the reactor's command ring is modelled by.                 *)
(***************************************************************************)
EXTENDS Naturals, Sequences

CONSTANTS Value, Capacity

VARIABLE items      \* the places in claim order: [val, ready]

Item == [val : Value, ready : BOOLEAN]

FifoInit == items = <<>>

Claim ==
    /\ Len(items') \in Len(items) + 1..Capacity
    /\ \A i \in 1..Len(items) : items'[i] = items[i]
    /\ \A i \in Len(items) + 1..Len(items') : items'[i] \in Item /\ ~items'[i].ready

Publish ==
    /\ Len(items') = Len(items)
    /\ \A i \in 1..Len(items) :
        /\ items'[i].val = items[i].val
        /\ items[i].ready => items'[i].ready

\* A consumer takes one or several published elements from the front.
Take ==
    \E n \in 1..Len(items) :
        /\ \A i \in 1..n : items[i].ready
        /\ items' = SubSeq(items, n + 1, Len(items))

FifoNext == Claim \/ Publish \/ Take

FifoSpec == FifoInit /\ [][FifoNext]_items
=============================================================================
