---------------------------- MODULE QueueSegment ----------------------------
(***************************************************************************)
(* The memory segment the three policies of queue.hpp share: the indices   *)
(* _head and _tail and the slots' data.  An index is the number of a       *)
(* ticket, and never wraps; order records the element of each ticket.      *)
(***************************************************************************)
EXTENDS Integers, Sequences

CONSTANTS
    Capacity,      \* _capacity, a power of two
    MaxTickets,    \* bound: how many elements are pushed in all
    Torn,          \* what a read that races a write may return
    Free,          \* the content of a slot never written
    Value,         \* the elements of an Spsc queue
    Sizes,         \* bound: the sizes of tryPush and tryPop of an Spsc queue
    LateAttach     \* bound: whether a process attaches to an Spsc queue after its first lap

ASSUME SegmentAssumption ==
    /\ Capacity \in Nat \ {0}
    /\ MaxTickets \in Nat
    /\ Sizes \subseteq Nat \ {0}
    /\ LateAttach \in BOOLEAN

VARIABLES
    head, tail,    \* _sync._head, _sync._tail
    data,          \* the slots' data
    order          \* order[k + 1]: the element pushed with ticket k

Slots == 0..Capacity - 1

\* head & mask
Index(k) == k % Capacity

\* std::min, for toWrite and toRead
Least(a, b) == IF a <= b THEN a ELSE b

SegmentInit ==
    /\ head = 0 /\ tail = 0
    /\ data = [s \in Slots |-> Free]
    /\ order = <<>>
=============================================================================
