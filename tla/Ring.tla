-------------------------------- MODULE Ring --------------------------------
(***************************************************************************)
(* The shared segment of the MPSC and MPMC rings of queue.hpp, the         *)
(* producers' side that both policies have in common (tryPush of one       *)
(* element, the compare-exchange loop of tryPush of several).              *)
(*                                                                         *)
(* Every shared load, store and compare-exchange is one step, in program   *)
(* order (the memory orders of the code make each hand-over a              *)
(* release/acquire pair).  Unsigned 64-bit arithmetic is arithmetic modulo *)
(* Word.  A spurious failure of compare_exchange_weak only repeats the     *)
(* loads before it, as if the thread had been late to make them.           *)
(* An element is named by the producer and the ticket (the value of _head) *)
(* it was claimed with; order records who claimed each ticket.             *)
(***************************************************************************)
EXTENDS QueueSegment

CONSTANTS
    Producers,
    Word,          \* 2^64, or a smaller power of two above every ticket
    Batches,       \* bound: the sizes of batches pushed
    PopSizes       \* bound: the sizes of batches popped (single pops are always made)

ASSUME RingAssumption ==
    /\ Word \in Nat /\ Word > MaxTickets + Capacity
    /\ Batches \subseteq Nat \ {0}
    /\ PopSizes \subseteq Nat \ {0}

VARIABLES
    seq,                       \* the slots' _seq
    ppc, phead, psize, pn, pi, \* a producer's frame: local head, size, toWrite, index
    taken,                     \* the elements popped: [ticket, val, by]
    use                        \* how the producers push: "single", "batch" or "mixed"

producerVars == <<ppc, phead, psize, pn, pi, order>>
segmentVars == <<head, tail, seq, data>>

Element(p, k) == <<p, k>>

\* uint64_t subtraction.
Sub(a, b) == (a - b) % Word

RingTypeOK ==
    /\ head \in 0..MaxTickets /\ tail \in 0..MaxTickets
    /\ seq \in [Slots -> 0..MaxTickets + Capacity]
    /\ \A s \in Slots : data[s] = Free \/ data[s] \in Producers \X (0..MaxTickets)
    /\ ppc \in [Producers -> {"idle", "loadseq", "cas", "loadtail", "cas_n", "await", "write", "publish"}]
    /\ phead \in [Producers -> 0..MaxTickets]
    /\ psize \in [Producers -> Batches \cup {1}]
    /\ pn \in [Producers -> 0..Word - 1] /\ pi \in [Producers -> Nat]

\* The constructor: initSlots.
RingInit ==
    /\ SegmentInit
    /\ seq = [s \in Slots |-> s]
    /\ ppc = [p \in Producers |-> "idle"]
    /\ phead = [p \in Producers |-> 0]
    /\ psize = [p \in Producers |-> 1]
    /\ pn = [p \in Producers |-> 0]
    /\ pi = [p \in Producers |-> 0]
    /\ taken = {}

ResetFrame(p) ==
    /\ ppc' = [ppc EXCEPT ![p] = "idle"]
    /\ phead' = [phead EXCEPT ![p] = 0]
    /\ psize' = [psize EXCEPT ![p] = 1]
    /\ pn' = [pn EXCEPT ![p] = 0]
    /\ pi' = [pi EXCEPT ![p] = 0]
    /\ UNCHANGED order

-----------------------------------------------------------------------------
(* tryPush (element).                                                       *)

PushLoadHead(p) ==
    /\ use # "batch"
    /\ ppc[p] = "idle"
    /\ head < MaxTickets
    /\ ppc' = [ppc EXCEPT ![p] = "loadseq"]
    /\ phead' = [phead EXCEPT ![p] = head]
    /\ UNCHANGED <<psize, pn, pi, order, segmentVars, taken, use>>

\* Mutant: the slot's sequence is not compared with the head.
PushLoadSeqUnchecked(p) ==
    /\ ppc[p] = "loadseq"
    /\ ppc' = [ppc EXCEPT ![p] = "cas"]
    /\ UNCHANGED <<phead, psize, pn, pi, order, segmentVars, taken, use>>

\* Load the slot's sequence: equal, the slot is free; below, the ring is full (TemporaryError);
\* above, another producer was faster and the head is loaded again.
PushLoadSeq(p) ==
    LET s == seq[Index(phead[p])] IN
    /\ ppc[p] = "loadseq"
    /\ \/ /\ s = phead[p]
          /\ ppc' = [ppc EXCEPT ![p] = "cas"]
          /\ UNCHANGED <<phead, psize, pn, pi, order>>
       \/ /\ s < phead[p]
          /\ ResetFrame(p)
       \/ /\ s > phead[p]
          /\ phead' = [phead EXCEPT ![p] = head]
          /\ UNCHANGED <<ppc, psize, pn, pi, order>>
    /\ UNCHANGED <<segmentVars, taken, use>>

\* The places n from ticket h on are claimed by p.
Claimed(p, h, n, next) ==
    /\ h + n <= MaxTickets
    /\ head' = h + n
    /\ order' = order \o [i \in 1..n |-> Element(p, h + i - 1)]
    /\ ppc' = [ppc EXCEPT ![p] = next]
    /\ pn' = [pn EXCEPT ![p] = n]

\* compare_exchange_weak of _head, one place; on failure the head is reloaded.
PushCas(p) ==
    /\ ppc[p] = "cas"
    /\ \/ /\ head = phead[p]
          /\ Claimed(p, head, 1, "write")
          /\ UNCHANGED <<phead, psize, pi>>
       \/ /\ head # phead[p]
          /\ phead' = [phead EXCEPT ![p] = head]
          /\ ppc' = [ppc EXCEPT ![p] = "loadseq"]
          /\ UNCHANGED <<head, psize, pn, pi, order>>
    /\ UNCHANGED <<tail, seq, data, taken, use>>

-----------------------------------------------------------------------------
(* tryPush (elements, size): the claim.                                     *)

BatchLoadHead(p, size) ==
    /\ use # "single"
    /\ ppc[p] = "idle"
    /\ head < MaxTickets
    /\ ppc' = [ppc EXCEPT ![p] = "loadtail"]
    /\ phead' = [phead EXCEPT ![p] = head]
    /\ psize' = [psize EXCEPT ![p] = size]
    /\ UNCHANGED <<pn, pi, order, segmentVars, taken, use>>

\* Mutant: one place too many.
ToWriteOffByOne(size, h, t) == Least(size, Sub(Capacity + 1, Sub(h, t)))

\* How many places a batch of this size gets for these values of head and tail.
ToWrite(size, h, t) == Least(size, Sub(Capacity, Sub(h, t)))

BatchLoadTail(p) ==
    LET n == ToWrite(psize[p], phead[p], tail) IN
    /\ ppc[p] = "loadtail"
    /\ \/ /\ n = 0
          /\ ResetFrame(p)
       \/ /\ n # 0
          /\ pn' = [pn EXCEPT ![p] = n]
          /\ ppc' = [ppc EXCEPT ![p] = "cas_n"]
          /\ UNCHANGED <<phead, psize, pi, order>>
    /\ UNCHANGED <<segmentVars, taken, use>>

\* compare_exchange_weak of _head, toWrite places.  next is where the write loop begins.
BatchCasTo(p, next) ==
    /\ ppc[p] = "cas_n"
    /\ \/ /\ head = phead[p]
          /\ Claimed(p, head, pn[p], next)
          /\ UNCHANGED <<phead, psize, pi>>
       \/ /\ head # phead[p]
          /\ phead' = [phead EXCEPT ![p] = head]
          /\ ppc' = [ppc EXCEPT ![p] = "loadtail"]
          /\ UNCHANGED <<head, psize, pn, pi, order>>
    /\ UNCHANGED <<tail, seq, data, taken, use>>

-----------------------------------------------------------------------------
(* The write loop.                                                          *)

Ticket(p) == phead[p] + pi[p]

PushWrite(p) ==
    /\ ppc[p] = "write"
    /\ data' = [data EXCEPT ![Index(Ticket(p))] = Element(p, Ticket(p))]
    /\ ppc' = [ppc EXCEPT ![p] = "publish"]
    /\ UNCHANGED <<head, tail, seq, phead, psize, pn, pi, order, taken, use>>

\* Store the sequence number, then the next element of the batch (at step next) or return.
PushPublishTo(p, next) ==
    /\ ppc[p] = "publish"
    /\ seq' = [seq EXCEPT ![Index(Ticket(p))] = Ticket(p) + 1]
    /\ IF pi[p] + 1 < pn[p]
       THEN /\ pi' = [pi EXCEPT ![p] = @ + 1]
            /\ ppc' = [ppc EXCEPT ![p] = next]
            /\ UNCHANGED <<phead, psize, pn, order>>
       ELSE ResetFrame(p)
    /\ UNCHANGED <<head, tail, data, taken, use>>

-----------------------------------------------------------------------------
(* Properties of both rings.                                                *)

(* tryPop returns, for each ticket, the very element tryPush claimed it with (so no
   element is lost, reordered, torn or overwritten on its way), and a ticket is
   popped once.                                                               *)
PopsAreFifo ==
    \A r \in taken :
        /\ r.ticket < Len(order)
        /\ r.val = order[r.ticket + 1]
        /\ \A s \in taken : s.ticket = r.ticket => s = r

(* A producer writes a slot only after the element that was there, one lap before,
   has been popped.                                                           *)
NoOverwrite ==
    \A p \in Producers : ppc[p] = "write" /\ Ticket(p) >= Capacity =>
        \E r \in taken : r.ticket = Ticket(p) - Capacity

(* No two producers write the same slot at the same time.                     *)
WritersApart ==
    \A p, q \in Producers :
        ppc[p] \in {"write", "publish"} /\ ppc[q] \in {"write", "publish"} /\ Index(Ticket(p)) = Index(Ticket(q))
            => p = q
=============================================================================
