----------------------------- MODULE QueueProofs -----------------------------
(***************************************************************************)
(* BasicQueue under its three policies, for any capacity above 1, any      *)
(* producers and consumers, any batch sizes and any number of elements:    *)
(* pops are FIFO, no slot is overwritten before its element is popped, the *)
(* segment stays sound, and the queue implements BoundedFifo.              *)
(*                                                                         *)
(* The argument of the rings (Mpsc and Mpmc) is about a window: from the   *)
(* oldest ticket F that is not given back, the Capacity tickets F,         *)
(* F + 1, ... map to different slots, and the sequence number of each of   *)
(* these slots says where its ticket stands: still the element of one lap  *)
(* before (k - Capacity + 1), free (k), published (k + 1).  Every step of  *)
(* a producer is about a ticket of the window that is its own; every step  *)
(* of a consumer moves the window on or changes a slot only it may give    *)
(* back.  With a capacity of 1 the numbers of a free slot and of a         *)
(* published one coincide (k + 1 = k + Capacity), so the argument, and the *)
(* ring, need at least two slots.                                          *)
(***************************************************************************)
EXTENDS BasicQueue, SequenceTheorems, TLAPS

-----------------------------------------------------------------------------
(***************************************************************************)
(* The Spsc policy by itself, when no process attaches to the segment      *)
(* after its first lap.  The invariant says what each side may rely on:    *)
(* the cached indices lag behind the real ones, the places a push is about *)
(* to write lie within a lap of the cached tail, the places a pop is about *)
(* to read lie before the cached head, and every slot between tail and the *)
(* last write holds the element of its ticket.  Two tickets less than a    *)
(* lap apart have different slots, so writes do not disturb the slots that *)
(* matter.                                                                 *)
(***************************************************************************)

(* A ticket's slot is a slot.                                                 *)
LEMMA ModRange == ASSUME NEW m \in Nat, NEW C \in Nat \ {0} PROVE m % C \in 0..C - 1
  OBVIOUS

(* Division with remainder.                                                   *)
LEMMA DivMod ==
  ASSUME NEW m \in Nat, NEW C \in Nat \ {0}
  PROVE  m \div C \in Int /\ m = C * (m \div C) + (m % C)
  OBVIOUS

(* A multiple of C by a number below 1 is not positive.                       *)
LEMMA MulLow == ASSUME NEW d \in Int, NEW C \in Nat \ {0}, d <= 0 PROVE C * d <= 0
  OBVIOUS

(* A multiple of C by a positive number is at least C.                        *)
LEMMA MulHigh == ASSUME NEW d \in Int, NEW C \in Nat \ {0}, d >= 1 PROVE C * d >= C
  OBVIOUS

(* Different tickets less than a lap apart have different slots.              *)
LEMMA ModApart ==
  ASSUME NEW m \in Nat, NEW n \in Nat, NEW C \in Nat \ {0}, m < n, n < m + C
  PROVE  m % C # n % C
<1> SUFFICES ASSUME m % C = n % C PROVE FALSE
  OBVIOUS
<1> DEFINE d == (n \div C) - (m \div C)
<1>1. d \in Int
  BY DivMod
<1>2. C * d = n - m
  <2>1. C * d = C * (n \div C) - C * (m \div C)
    BY DivMod
  <2> QED
    BY <2>1, DivMod, ModRange
<1>3. C * d > 0 /\ C * d < C
  BY <1>2
<1> HIDE DEF d
<1>4. d >= 1 \/ d <= 0
  BY <1>1
<1> QED
  BY <1>1, <1>3, <1>4, MulLow, MulHigh

-----------------------------------------------------------------------------

\* What a tryPush relies on.
ProducerInv ==
    /\ wpc \in {"idle", "refresh"} => wi = 0
    /\ wpc = "refresh" => wsize # 0
    /\ wpc = "write" => wi < wn
    /\ wpc = "publish" => wi = wn
    /\ wpc \in {"write", "publish"} => head + wn - cachedTail <= Capacity

\* What a tryPop relies on.
ConsumerInv ==
    /\ rpc \in {"idle", "refresh"} => ri = 0
    /\ rpc = "refresh" => rsize # 0
    /\ rpc = "read" => ri < rn
    /\ rpc = "publish" => ri = rn
    /\ rpc \in {"read", "publish"} => tail + rn <= cachedHead

Lengths == Len(order) = head + wi /\ Len(popped) = tail + ri

\* Every slot from tail to the last write holds the element of its ticket.
SlotsHold == \A k \in Nat : tail <= k /\ k < head + wi => data[Index(k)] = order[k + 1]

InOrder == \A k \in 1..Len(popped) : popped[k] = order[k]

SpscInv == SpscTypeOK /\ CachesAreOld /\ ProducerInv /\ ConsumerInv /\ Lengths /\ SlotsHold /\ InOrder

(* The invariant is initially true.                                           *)
LEMMA SpscInitInv == SpscInit => SpscInv
  BY SegmentAssumption
  DEF SpscInit, SegmentInit, Slots, SpscInv, SpscTypeOK, CachesAreOld, ProducerInv, ConsumerInv, Lengths, SlotsHold, InOrder

(* A step of the producer that writes no slot keeps the invariant.            *)
LEMMA PushStartInv ==
  ASSUME SpscInv, NEW size \in Sizes, PushStart(size)
  PROVE  SpscInv'
<1> USE SegmentAssumption
<1> USE DEF SpscInv, SpscTypeOK, CachesAreOld
<1>1. (SpscTypeOK /\ CachesAreOld)'
  BY DEF PushStart, PushOn, Least, segment, consumer
<1>2. ProducerInv'
  BY DEF PushStart, PushOn, Least, segment, consumer, ProducerInv
<1>3. (ConsumerInv /\ Lengths /\ SlotsHold /\ InOrder)'
  BY DEF PushStart, PushOn, segment, consumer, ProducerInv, ConsumerInv, Lengths, SlotsHold, InOrder, Index
<1> QED
  BY <1>1, <1>2, <1>3

(* Loading _tail keeps the invariant: the new cached tail is the tail.        *)
LEMMA PushRefreshInv ==
  ASSUME SpscInv, PushRefresh
  PROVE  SpscInv'
<1> USE SegmentAssumption
<1> USE DEF SpscInv, SpscTypeOK, CachesAreOld
<1>1. (SpscTypeOK /\ CachesAreOld)'
  BY DEF PushRefresh, PushOn, Least, segment, consumer
<1>2. ProducerInv'
  BY DEF PushRefresh, PushOn, Least, segment, consumer, ProducerInv
<1>3. (ConsumerInv /\ Lengths /\ SlotsHold /\ InOrder)'
  BY DEF PushRefresh, PushOn, segment, consumer, ProducerInv, ConsumerInv, Lengths, SlotsHold, InOrder, Index
<1> QED
  BY <1>1, <1>2, <1>3

(* Writing a slot keeps the invariant: the slot is a lap away from every slot in use. *)
LEMMA PushWriteInv ==
  ASSUME SpscInv, NEW v \in Value, SpscWrite(v)
  PROVE  SpscInv'
<1> USE SegmentAssumption
<1> DEFINE w == head + wi
<1>0. /\ w \in Nat /\ wpc = "write" /\ wi < wn
      /\ w < tail + Capacity /\ tail <= w
      /\ wi \in Nat /\ wn \in Nat /\ head \in Nat /\ tail \in Nat
      /\ Len(order) = w /\ order \in Seq(Value) /\ popped \in Seq(Value \cup {Free, Torn})
      /\ Len(popped) <= w
  BY DEF SpscInv, SpscTypeOK, CachesAreOld, ProducerInv, ConsumerInv, Lengths, SpscWrite
<1>a. Index(w) \in Slots
  BY <1>0, ModRange DEF Index, Slots
<1>1. /\ order' = Append(order, v) /\ data' = [data EXCEPT ![Index(w)] = v]
      /\ wi' = wi + 1
      /\ wpc' = IF wi + 1 < wn THEN "write" ELSE "publish"
      /\ UNCHANGED <<head, tail, cachedTail, wsize, wn, cachedHead, rpc, rsize, rn, ri, popped>>
  BY DEF SpscWrite, consumer
<1>2. SpscTypeOK'
  BY <1>0, <1>1, <1>a DEF SpscInv, SpscTypeOK
<1>3. CachesAreOld' /\ ConsumerInv'
  BY <1>1 DEF SpscInv, CachesAreOld, ConsumerInv
<1>4. ProducerInv'
  BY <1>0, <1>1 DEF SpscInv, ProducerInv
<1>5. /\ Len(order') = w + 1 /\ order'[w + 1] = v
      /\ \A k \in 1..w : order'[k] = order[k]
  BY <1>0, <1>1
<1>6. Lengths'
  BY <1>0, <1>1, <1>5 DEF SpscInv, Lengths
<1>7. SlotsHold'
  <2> SUFFICES ASSUME NEW k \in Nat, tail <= k, k < w + 1
               PROVE  data'[Index(k)] = order'[k + 1]
    <3>1. tail' = tail /\ head' + wi' = w + 1
      BY <1>0, <1>1
    <3> QED
      BY <3>1 DEF SlotsHold
  <2>1. CASE k = w
    BY <2>1, <1>0, <1>1, <1>5, <1>a DEF SpscInv, SpscTypeOK
  <2>2. CASE k # w
    <3>1. k < w /\ w < k + Capacity /\ k + 1 \in 1..w
      BY <2>2, <1>0
    <3>2. Index(k) # Index(w)
      BY <3>1, <1>0, ModApart DEF Index
    <3>3. data'[Index(k)] = data[Index(k)]
      BY <3>2, <1>0, <1>1, ModRange DEF SpscInv, SpscTypeOK, Index, Slots
    <3> QED
      BY <3>1, <3>3, <1>5 DEF SpscInv, SlotsHold
  <2> QED
    BY <2>1, <2>2
<1>8. InOrder'
  BY <1>0, <1>1, <1>5 DEF SpscInv, InOrder
<1> QED
  BY <1>2, <1>3, <1>4, <1>6, <1>7, <1>8 DEF SpscInv

(* Storing _head keeps the invariant.                                         *)
LEMMA PushPublishInv ==
  ASSUME SpscInv, PushPublish
  PROVE  SpscInv'
<1> USE SegmentAssumption
<1>1. /\ wi = wn /\ head' = head + wn /\ wpc' = "idle" /\ wi' = 0
      /\ UNCHANGED <<tail, data, order, cachedTail, wsize, wn, cachedHead, rpc, rsize, rn, ri, popped>>
      /\ head \in Nat /\ wn \in Nat /\ cachedTail \in Nat /\ head + wn - cachedTail <= Capacity
  BY DEF PushPublish, consumer, SpscInv, SpscTypeOK, ProducerInv
<1>2. (SpscTypeOK /\ CachesAreOld)'
  BY <1>1 DEF SpscInv, SpscTypeOK, CachesAreOld
<1>3. (ProducerInv /\ ConsumerInv)'
  BY <1>1 DEF SpscInv, ProducerInv, ConsumerInv
<1>4. (Lengths /\ SlotsHold /\ InOrder)'
  BY <1>1 DEF SpscInv, Lengths, SlotsHold, InOrder, Index
<1> QED
  BY <1>2, <1>3, <1>4 DEF SpscInv

(* The consumer's checks keep the invariant.                                  *)
LEMMA PopStartInv ==
  ASSUME SpscInv, NEW size \in Sizes, PopStart(size)
  PROVE  SpscInv'
<1> USE SegmentAssumption
<1> USE DEF SpscInv, SpscTypeOK, CachesAreOld
<1>1. (SpscTypeOK /\ CachesAreOld)'
  BY DEF PopStart, PopOn, Least, segment, producer
<1>2. ConsumerInv'
  BY DEF PopStart, PopOn, Least, segment, producer, ConsumerInv
<1>3. (ProducerInv /\ Lengths /\ SlotsHold /\ InOrder)'
  BY DEF PopStart, PopOn, segment, producer, ProducerInv, ConsumerInv, Lengths, SlotsHold, InOrder, Index
<1> QED
  BY <1>1, <1>2, <1>3

(* Loading _head keeps the invariant: the new cached head is the head.        *)
LEMMA PopRefreshInv ==
  ASSUME SpscInv, PopRefresh
  PROVE  SpscInv'
<1> USE SegmentAssumption
<1> USE DEF SpscInv, SpscTypeOK, CachesAreOld
<1>1. (SpscTypeOK /\ CachesAreOld)'
  BY DEF PopRefresh, PopOn, Least, segment, producer
<1>2. ConsumerInv'
  BY DEF PopRefresh, PopOn, Least, segment, producer, ConsumerInv
<1>3. (ProducerInv /\ Lengths /\ SlotsHold /\ InOrder)'
  BY DEF PopRefresh, PopOn, segment, producer, ProducerInv, ConsumerInv, Lengths, SlotsHold, InOrder, Index
<1> QED
  BY <1>1, <1>2, <1>3

(* A slot that is read holds the next element and is not being written.       *)
LEMMA PopReadInv ==
  ASSUME SpscInv, PopRead
  PROVE  SpscInv'
<1> USE SegmentAssumption
<1> DEFINE r == tail + ri
           w == head + wi
<1>0. /\ r \in Nat /\ w \in Nat /\ tail <= r /\ r < head /\ Len(popped) = r /\ r + 1 \in 1..Len(order)
      /\ ri \in Nat /\ rn \in Nat /\ head \in Nat /\ tail \in Nat /\ wi \in Nat
      /\ order \in Seq(Value) /\ popped \in Seq(Value \cup {Free, Torn})
      /\ wpc = "write" => w < r + Capacity
  BY DEF SpscInv, SpscTypeOK, CachesAreOld, ProducerInv, ConsumerInv, Lengths, PopRead
<1>1. SlotRead(r) = order[r + 1]
  <2>1. data[Index(r)] = order[r + 1]
    BY <1>0 DEF SpscInv, SlotsHold
  <2>2. ASSUME wpc = "write" PROVE Index(w) # Index(r)
    <3>1. r < w /\ w < r + Capacity
      BY <2>2, <1>0
    <3> QED
      BY <3>1, <1>0, ModApart DEF Index
  <2> QED
    BY <2>1, <2>2 DEF SlotRead
<1>2. /\ popped' = Append(popped, order[r + 1])
      /\ ri' = ri + 1 /\ rpc = "read"
      /\ rpc' = IF ri + 1 < rn THEN "read" ELSE "publish"
      /\ UNCHANGED <<head, tail, data, order, cachedHead, rsize, rn, cachedTail, wpc, wsize, wn, wi>>
  BY <1>1 DEF PopRead, segment, producer
<1>3. order[r + 1] \in Value
  BY <1>0
<1>4. SpscTypeOK'
  BY <1>0, <1>2, <1>3 DEF SpscInv, SpscTypeOK
<1>5. (CachesAreOld /\ ProducerInv /\ SlotsHold)'
  BY <1>2 DEF SpscInv, CachesAreOld, ProducerInv, SlotsHold, Index
<1>6. ConsumerInv'
  BY <1>0, <1>2 DEF SpscInv, ConsumerInv
<1>7. /\ Len(popped') = r + 1 /\ popped'[r + 1] = order[r + 1]
      /\ \A k \in 1..r : popped'[k] = popped[k]
  BY <1>0, <1>2, <1>3
<1>8. Lengths'
  BY <1>0, <1>2, <1>7 DEF SpscInv, Lengths
<1>9. InOrder'
  BY <1>0, <1>2, <1>7 DEF SpscInv, InOrder
<1> QED
  BY <1>4, <1>5, <1>6, <1>8, <1>9 DEF SpscInv

(* Storing _tail keeps the invariant.                                         *)
LEMMA PopPublishInv ==
  ASSUME SpscInv, PopPublish
  PROVE  SpscInv'
<1> USE SegmentAssumption
<1>1. /\ ri = rn /\ tail' = tail + rn /\ rpc' = "idle" /\ ri' = 0 /\ tail + rn <= cachedHead
      /\ UNCHANGED <<head, data, order, cachedTail, wpc, wsize, wn, wi, cachedHead, rsize, rn, popped>>
      /\ tail \in Nat /\ rn \in Nat
  BY DEF PopPublish, producer, SpscInv, SpscTypeOK, ConsumerInv
<1>2. (SpscTypeOK /\ CachesAreOld)'
  BY <1>1 DEF SpscInv, SpscTypeOK, CachesAreOld
<1>3. (ProducerInv /\ ConsumerInv)'
  BY <1>1 DEF SpscInv, ProducerInv, ConsumerInv
<1>4. (Lengths /\ InOrder)'
  BY <1>1 DEF SpscInv, Lengths, InOrder
<1>5. SlotsHold'
  BY <1>1 DEF SpscInv, SlotsHold, SpscTypeOK
<1> QED
  BY <1>2, <1>3, <1>4, <1>5 DEF SpscInv

(* In the first lap an attaching process's 0 is an old copy of the index.     *)
LEMMA AttachInv ==
  ASSUME SpscInv, ~LateAttach, AttachProducer \/ AttachConsumer
  PROVE  SpscInv'
<1> USE SegmentAssumption
<1> USE DEF SpscInv, SpscTypeOK, CachesAreOld, ProducerInv, ConsumerInv, Lengths, SlotsHold, InOrder, Index
<1>1. CASE AttachProducer
  BY <1>1 DEF AttachProducer, segment, consumer
<1>2. CASE AttachConsumer
  BY <1>2 DEF AttachConsumer, segment, producer
<1> QED
  BY <1>1, <1>2

(* The invariant is inductive.                                                *)
LEMMA SpscStep ==
  ASSUME SpscInv, ~LateAttach, [SpscNext]_spscVars
  PROVE  SpscInv'
<1>1. CASE UNCHANGED spscVars
  BY <1>1 DEF spscVars, segment, producer, consumer, SpscInv, SpscTypeOK, CachesAreOld, ProducerInv, ConsumerInv, Lengths, SlotsHold, InOrder, Index
<1>2. CASE SpscNext
  BY <1>2, PushStartInv, PushRefreshInv, PushWriteInv, PushPublishInv, PopStartInv, PopRefreshInv,
     PopReadInv, PopPublishInv, AttachInv
  DEF SpscNext, SpscPush, SpscPop
<1> QED
  BY <1>1, <1>2

(* What was popped is a prefix of what was published, in order.               *)
LEMMA SpscInOrder == SpscInv => DeliveredInOrder
<1> SUFFICES ASSUME SpscInv PROVE DeliveredInOrder
  OBVIOUS
<1>1. /\ head \in Nat /\ tail \in Nat /\ cachedHead \in Nat /\ ri \in Nat /\ rn \in Nat
      /\ tail <= cachedHead /\ cachedHead <= head /\ Len(popped) = tail + ri
  BY DEF SpscInv, SpscTypeOK, CachesAreOld, Lengths
<1>2. CASE rpc \in {"idle", "refresh"}
  BY <1>1, <1>2 DEF SpscInv, ConsumerInv, InOrder, DeliveredInOrder
<1>3. CASE rpc \in {"read", "publish"}
  BY <1>1, <1>3 DEF SpscInv, ConsumerInv, InOrder, DeliveredInOrder
<1> QED
  BY <1>2, <1>3 DEF SpscInv, SpscTypeOK

(* Elements are popped in the order in which they were pushed, whatever the
   capacity, the batch sizes and the interleaving of tryPush and tryPop.      *)
THEOREM SpscDelivers == ASSUME ~LateAttach PROVE SpscSpec => []DeliveredInOrder
<1>1. SpscInv => DeliveredInOrder
  BY SpscInOrder
<1>2. SpscInv /\ [SpscNext]_spscVars => SpscInv'
  BY SpscStep
<1> QED
  BY <1>1, <1>2, SpscInitInv, PTL DEF SpscSpec

(* The cached indices never run ahead, so no unsigned difference wraps around. *)
THEOREM SpscCachesOld == ASSUME ~LateAttach PROVE SpscSpec => []CachesAreOld
<1>1. SpscInv => CachesAreOld
  BY DEF SpscInv
<1>2. SpscInv /\ [SpscNext]_spscVars => SpscInv'
  BY SpscStep
<1> QED
  BY <1>1, <1>2, SpscInitInv, PTL DEF SpscSpec

-----------------------------------------------------------------------------
(***************************************************************************)
(* The rings.                                                              *)
(***************************************************************************)

(* The tickets of a lap from F on, the oldest place that is not given back.   *)
Window(F) == F..F + Capacity - 1

InFlight(p) == ppc[p] \in {"await", "write", "publish"}

(* The places claimed and not given back are within a lap, and order has the element of each. *)
WindowInv(F) ==
    /\ F \in Nat /\ F <= head /\ head <= F + Capacity
    /\ order \in Seq(Producers \X Nat) /\ Len(order) = head

(* The sequence number of a slot tells of the one ticket of the window that maps to it whether
   the element one lap before is still being given back, the slot is free for the ticket, or
   the ticket's element is there.                                              *)
SlotInv(F) ==
    \A k \in Window(F) :
        /\ seq[Index(k)] \in {k - Capacity + 1, k, k + 1}
        /\ seq[Index(k)] = k + 1 => k < head /\ data[Index(k)] = order[k + 1]

(* What a producer in the write loop relies on: the rest of its batch is its own and not published. *)
OwnedInv(F) ==
    \A p \in Producers : InFlight(p) =>
        /\ pi[p] < pn[p] /\ phead[p] + pn[p] <= head /\ F <= Ticket(p)
        /\ \A k \in Ticket(p)..phead[p] + pn[p] - 1 : order[k + 1] = Element(p, k) /\ seq[Index(k)] # k + 1
        /\ ppc[p] \in {"write", "publish"} => seq[Index(Ticket(p))] = Ticket(p)
        /\ ppc[p] = "publish" => data[Index(Ticket(p))] = Element(p, Ticket(p))

(* What a producer about to claim relies on, should the head still be the one it loaded. *)
LookInv(F) ==
    \A p \in Producers :
        /\ phead[p] <= head
        /\ ~InFlight(p) => pi[p] = 0
        /\ ppc[p] = "cas" => /\ phead[p] < F + Capacity
                             /\ phead[p] = head => seq[Index(phead[p])] = phead[p]
        /\ ppc[p] = "cas_n" => pn[p] > 0 /\ phead[p] + pn[p] <= F + Capacity

(* Every ticket below G was popped and none from G on, each once and with its element. *)
TakenInv(G) ==
    /\ \A r \in taken :
        /\ r.ticket \in Nat /\ r.ticket < G /\ r.val = order[r.ticket + 1]
        /\ \A s \in taken : s.ticket = r.ticket => s = r
    /\ \A k \in 0..G - 1 : \E r \in taken : r.ticket = k

RingTypes == RingTypeOK /\ data \in [Slots -> (Producers \X (0..MaxTickets)) \cup {Free}]

RingInv(F) == RingTypes /\ WindowInv(F) /\ SlotInv(F) /\ OwnedInv(F) /\ LookInv(F)

-----------------------------------------------------------------------------

(* The Mpsc consumer gives a slot back before it moves _tail.                 *)
Floor == tail + cons.i

MpscFrame == [pc : {"idle", "check", "read", "release", "finish"}, n : Nat, i : Nat,
              val : (Producers \X Nat) \cup {Free, Torn}]

MpscConsInv ==
    /\ cons \in MpscFrame
    /\ cons.i <= cons.n
    /\ cons.pc = "idle" => cons.i = 0
    /\ cons.pc \in {"read", "release"} => cons.i < cons.n /\ Floor < head /\ seq[Index(Floor)] = Floor + 1

(* No slot of the window waits to be given back; and with batches alone _tail bounds the head. *)
MpscUseInv ==
    /\ \A k \in Window(Floor) : seq[Index(k)] # k - Capacity + 1
    /\ \A p \in Producers : ppc[p] # "await"
    /\ use \in {"single", "batch"}
    /\ use = "single" => \A p \in Producers : ppc[p] \notin {"loadtail", "cas_n"}
    /\ use = "batch" =>
        /\ head <= tail + Capacity
        /\ \A p \in Producers : /\ ppc[p] \notin {"loadseq", "cas"}
                                /\ ppc[p] = "cas_n" => phead[p] + pn[p] <= tail + Capacity

MpscTakenInv == TakenInv(IF cons.pc = "release" THEN Floor + 1 ELSE Floor)

MpscInv == RingInv(Floor) /\ MpscConsInv /\ MpscUseInv /\ MpscTakenInv

-----------------------------------------------------------------------------

Frame == [pc : {"idle", "check", "copy", "loadhead", "collect", "copy_n", "cas", "release"},
          tail : Nat, size : Nat, n : Nat, i : Nat, vals : Seq((Producers \X Nat) \cup {Free, Torn})]

(* The elements copied are those of the tickets from _tail on, if _tail is still where it was. *)
Copied(f) ==
    /\ tail + Len(f.vals) <= head
    /\ \A j \in 1..Len(f.vals) : seq[Index(tail + j - 1)] = tail + j /\ f.vals[j] = order[tail + j]

CopyInv(f) ==
    /\ f.pc = "copy" /\ f.tail = tail => seq[Index(tail)] = tail + 1
    /\ f.pc \in {"collect", "copy_n", "cas"} /\ f.tail = tail => Copied(f)
    /\ f.pc \in {"collect", "copy_n"} /\ f.tail = tail => tail + f.n <= head
    /\ f.pc = "collect" => Len(f.vals) <= f.n
    /\ f.pc = "copy_n" => /\ Len(f.vals) < f.n
                          /\ f.tail = tail => seq[Index(tail + Len(f.vals))] = tail + Len(f.vals) + 1
    /\ f.pc = "cas" => f.n = Len(f.vals) /\ f.n > 0

(* Consumer c gives back what it has popped; until then the slots keep their elements' numbers. *)
ReleaseInv(c, f) ==
    f.pc = "release" =>
        /\ f.i < f.n
        /\ f.tail + f.n <= tail
        /\ \A j \in f.tail + f.i..f.tail + f.n - 1 :
            /\ tail <= j + Capacity
            /\ seq[Index(j)] = j + 1
            /\ \E r \in taken : r.ticket = j /\ r.by = c

FrameInv(c, f) ==
    /\ f \in Frame
    /\ f.tail <= tail
    /\ f.pc # "release" => f.i = 0
    /\ CopyInv(f)
    /\ ReleaseInv(c, f)

MpmcConsInv ==
    /\ cons = [c \in Consumers |-> cons[c]]
    /\ \A c \in Consumers : FrameInv(c, cons[c])

MpmcInv == RingInv(tail) /\ MpmcConsInv /\ TakenInv(tail)

-----------------------------------------------------------------------------

(* What holds of a queue of any policy; of the Spsc ring only that the others' state is idle. *)
QueueInv ==
    /\ policy \in {"spsc", "mpsc", "mpmc"}
    /\ policy = "spsc" => taken = {} /\ \A p \in Producers : ppc[p] = "idle"
    /\ policy = "mpsc" => MpscInv
    /\ policy = "mpmc" => MpmcInv
    /\ policy # "spsc" => popped = <<>>

-----------------------------------------------------------------------------
(* Slots and tickets.                                                       *)

(* A ticket's slot is a slot.                                                  *)
LEMMA IndexIn == ASSUME NEW k \in Nat PROVE Index(k) \in Slots
BY SegmentAssumption, ModRange DEF Index, Slots

(* Two tickets of one window have different slots.                            *)
LEMMA IndexApart ==
  ASSUME NEW F \in Nat, NEW j \in Window(F), NEW k \in Window(F), Index(j) = Index(k)
  PROVE  j = k
<1>1. j \in Nat /\ k \in Nat /\ j < k + Capacity /\ k < j + Capacity
  BY SegmentAssumption DEF Window
<1>2. Capacity \in Nat \ {0}
  BY SegmentAssumption
<1>3. j < k => j % Capacity # k % Capacity
  BY <1>1, <1>2, ModApart
<1>4. k < j => k % Capacity # j % Capacity
  BY <1>1, <1>2, ModApart
<1>5. j % Capacity = k % Capacity
  BY DEF Index
<1> QED BY <1>1, <1>3, <1>4, <1>5

(* A ticket and the one a lap later have the same slot.                       *)
LEMMA IndexLap == ASSUME NEW k \in Nat PROVE Index(k + Capacity) = Index(k)
<1> DEFINE C == Capacity
           m == k + C
           d == (m \div C) - (k \div C) - 1
<1>0. C \in Nat \ {0} /\ m \in Nat
  BY SegmentAssumption
<1> HIDE DEF C
<1>1. /\ m \div C \in Int /\ m = C * (m \div C) + (m % C)
      /\ k \div C \in Int /\ k = C * (k \div C) + (k % C)
      /\ m % C \in 0..C - 1 /\ k % C \in 0..C - 1
  <2> HIDE DEF m
  <2> QED BY <1>0, DivMod, ModRange
<1>2. d \in Int
  BY <1>1
<1>3. C * d = (k % C) - (m % C)
  <2>1. C * d = C * (m \div C) - C * (k \div C) - C
    BY <1>0, <1>1
  <2> QED BY <1>0, <1>1, <2>1
<1>4. C * d < C /\ C * d > -C
  BY <1>0, <1>1, <1>3
<1> HIDE DEF d
<1>5. d = 0 \/ d >= 1 \/ -d >= 1
  BY <1>2
<1>6. d >= 1 => C * d >= C
  BY <1>0, <1>2, MulHigh
<1>7. -d >= 1 => C * (-d) >= C
  BY <1>0, <1>2, MulHigh
<1>8. C * (-d) = -(C * d) /\ C * d \in Int
  BY <1>0, <1>2
<1>9. d = 0
  BY <1>0, <1>4, <1>5, <1>6, <1>7, <1>8
<1>10. m % C = k % C
  BY <1>0, <1>1, <1>3, <1>9
<1> QED BY <1>10 DEF Index, C

-----------------------------------------------------------------------------
(* The producers, for any floor F that their steps leave alone.             *)

(* The types of the ring, one by one.                                          *)
LEMMA RingTypesFacts ==
  ASSUME RingTypes
  PROVE  /\ head \in Nat /\ head <= MaxTickets /\ tail \in Nat /\ tail <= MaxTickets
         /\ seq \in [Slots -> Int]
         /\ ppc \in [Producers -> {"idle", "loadseq", "cas", "loadtail", "cas_n", "await", "write", "publish"}]
         /\ phead \in [Producers -> Nat] /\ pn \in [Producers -> Nat] /\ pi \in [Producers -> Nat]
         /\ psize \in [Producers -> Nat \ {0}]
         /\ \A p \in Producers : Ticket(p) \in Nat /\ Ticket(p) = phead[p] + pi[p]
<1> USE SegmentAssumption, RingAssumption
<1> USE DEF RingTypes, RingTypeOK
<1>1. /\ head \in Nat /\ head <= MaxTickets /\ tail \in Nat /\ tail <= MaxTickets
      /\ ppc \in [Producers -> {"idle", "loadseq", "cas", "loadtail", "cas_n", "await", "write", "publish"}]
  OBVIOUS
<1>2. seq \in [Slots -> Int]
  OBVIOUS
<1>3. phead \in [Producers -> Nat]
  OBVIOUS
<1>4. pn \in [Producers -> Nat]
  OBVIOUS
<1>5. psize \in [Producers -> Nat \ {0}]
  <2>1. Batches \cup {1} \subseteq Nat \ {0}
    OBVIOUS
  <2>2. psize \in [Producers -> Batches \cup {1}]
    OBVIOUS
  <2> QED BY <2>1, <2>2
<1> QED BY <1>1, <1>2, <1>3, <1>4, <1>5 DEF Ticket

(* A producer that looks for room changes only its frame.                     *)
LEMMA LookStep ==
  ASSUME NEW F \in Nat, RingInv(F), NEW p \in Producers, ~InFlight(p),
         RingTypes',
         \A q \in Producers : q # p => ppc'[q] = ppc[q] /\ phead'[q] = phead[q] /\ pn'[q] = pn[q] /\ pi'[q] = pi[q],
         ppc'[p] \in {"idle", "loadseq", "cas", "loadtail", "cas_n"},
         phead'[p] <= head,
         pi'[p] = 0,
         ppc'[p] = "cas" => /\ phead'[p] < F + Capacity
                            /\ phead'[p] = head => seq[Index(phead'[p])] = phead'[p],
         ppc'[p] = "cas_n" => pn'[p] > 0 /\ phead'[p] + pn'[p] <= F + Capacity,
         UNCHANGED <<segmentVars, order>>
  PROVE  RingInv(F)'
<1> USE DEF segmentVars
<1>1. WindowInv(F)' /\ SlotInv(F)'
  BY DEF RingInv, WindowInv, SlotInv, Window
<1>2. OwnedInv(F)'
  BY DEF RingInv, OwnedInv, InFlight, Ticket
<1>3. LookInv(F)'
  BY DEF RingInv, LookInv, InFlight
<1> QED BY <1>1, <1>2, <1>3 DEF RingInv

(* Loading _head before the push of one element keeps the invariant.           *)
LEMMA PushLoadHeadInv ==
  ASSUME NEW F \in Nat, RingInv(F), NEW p \in Producers, PushLoadHead(p)
  PROVE  RingInv(F)'
<1>1. RingTypes'
  BY SegmentAssumption, RingAssumption DEF RingInv, RingTypes, RingTypeOK, PushLoadHead, segmentVars
<1>2. pi[p] = 0 /\ ~InFlight(p)
  BY DEF RingInv, LookInv, InFlight, PushLoadHead
<1>3. /\ ppc'[p] = "loadseq" /\ phead'[p] = head
      /\ \A q \in Producers : q # p => ppc'[q] = ppc[q] /\ phead'[q] = phead[q]
      /\ UNCHANGED <<pi, pn, segmentVars, order>>
      /\ head \in Nat
  BY RingTypesFacts DEF PushLoadHead, RingInv
<1> QED BY <1>1, <1>2, <1>3, LookStep

(* Loading _head before the push of several keeps the invariant.               *)
LEMMA BatchLoadHeadInv ==
  ASSUME NEW F \in Nat, RingInv(F), NEW p \in Producers, NEW size \in Batches, BatchLoadHead(p, size)
  PROVE  RingInv(F)'
<1>1. RingTypes'
  BY SegmentAssumption, RingAssumption DEF RingInv, RingTypes, RingTypeOK, BatchLoadHead, segmentVars
<1>2. pi[p] = 0 /\ ~InFlight(p)
  BY DEF RingInv, LookInv, InFlight, BatchLoadHead
<1>3. /\ ppc'[p] = "loadtail" /\ phead'[p] = head
      /\ \A q \in Producers : q # p => ppc'[q] = ppc[q] /\ phead'[q] = phead[q]
      /\ UNCHANGED <<pi, pn, segmentVars, order>>
      /\ head \in Nat
  BY RingTypesFacts DEF BatchLoadHead, RingInv
<1> QED BY <1>1, <1>2, <1>3, LookStep

(* A frame that is given up keeps the types.                                   *)
LEMMA ResetTypes ==
  ASSUME RingTypes, NEW p \in Producers, ResetFrame(p)
  PROVE  /\ ppc'[p] = "idle" /\ phead'[p] = 0 /\ pi'[p] = 0 /\ pn'[p] = 0
         /\ \A q \in Producers : q # p => ppc'[q] = ppc[q] /\ phead'[q] = phead[q] /\ pn'[q] = pn[q] /\ pi'[q] = pi[q]
         /\ ppc' \in [Producers -> {"idle", "loadseq", "cas", "loadtail", "cas_n", "await", "write", "publish"}]
         /\ phead' \in [Producers -> 0..MaxTickets]
         /\ psize' \in [Producers -> Batches \cup {1}]
         /\ pn' \in [Producers -> 0..Word - 1] /\ pi' \in [Producers -> Nat]
         /\ UNCHANGED order
BY SegmentAssumption, RingAssumption DEF RingTypes, RingTypeOK, ResetFrame

(* An equal sequence number means that the slot is free, if a lap has more than one slot. *)
LEMMA PushLoadSeqInv ==
  ASSUME Capacity > 1, NEW F \in Nat, RingInv(F), NEW p \in Producers, PushLoadSeq(p)
  PROVE  RingInv(F)'
<1> DEFINE h == phead[p]
<1>1. ppc[p] = "loadseq" /\ ~InFlight(p) /\ pi[p] = 0 /\ h <= head /\ h \in Nat /\ head \in Nat
  BY RingTypesFacts DEF PushLoadSeq, RingInv, LookInv, InFlight
<1>2. UNCHANGED <<segmentVars, order>>
  BY DEF PushLoadSeq, ResetFrame
<1>3. CASE seq[Index(h)] = h /\ ppc' = [ppc EXCEPT ![p] = "cas"] /\ UNCHANGED <<phead, psize, pn, pi, order>>
  <2>1. RingTypes'
    BY <1>2, <1>3 DEF RingInv, RingTypes, RingTypeOK, segmentVars
  <2>2. head <= F + Capacity /\ F <= head
    BY DEF RingInv, WindowInv
  <2>3. ASSUME h = F + Capacity PROVE FALSE
    <3>1. Index(h) = Index(F)
      BY <2>3, IndexLap
    <3>2. F \in Window(F)
      BY SegmentAssumption DEF Window
    <3>3. seq[Index(F)] \in {F - Capacity + 1, F, F + 1}
      BY <3>2 DEF RingInv, SlotInv
    <3> QED BY <1>3, <2>3, <3>1, <3>3, SegmentAssumption
  <2>4. h < F + Capacity
    BY <1>1, <2>2, <2>3, SegmentAssumption
  <2>5. ppc'[p] = "cas" /\ \A q \in Producers : q # p => ppc'[q] = ppc[q]
    BY <1>3, RingTypesFacts DEF RingInv
  <2> HIDE DEF h
  <2>6. phead'[p] = h /\ phead'[p] <= head
    BY <1>1, <1>3 DEF h
  <2> QED BY <1>1, <1>2, <1>3, <2>1, <2>4, <2>5, <2>6, LookStep
<1>4. CASE ResetFrame(p)
  <2>1. RingTypes
    BY DEF RingInv
  <2>2. RingTypes'
    BY <1>2, <1>4, <2>1, ResetTypes DEF RingTypes, RingTypeOK, segmentVars
  <2> QED BY <1>1, <1>2, <1>4, <2>1, <2>2, ResetTypes, LookStep
<1>5. CASE phead' = [phead EXCEPT ![p] = head] /\ UNCHANGED <<ppc, psize, pn, pi, order>>
  <2>1. RingTypes'
    BY <1>2, <1>5 DEF RingInv, RingTypes, RingTypeOK, segmentVars
  <2>2. phead'[p] = head /\ \A q \in Producers : q # p => phead'[q] = phead[q]
    BY <1>5, RingTypesFacts DEF RingInv
  <2> QED BY <1>1, <1>2, <1>5, <2>1, <2>2, LookStep
<1> QED BY <1>3, <1>4, <1>5 DEF PushLoadSeq

(* The differences of unsigned indices are exact: head and tail are less than Word - Capacity
   apart, and the head is at most a lap ahead.                                 *)
LEMMA ToWriteExact ==
  ASSUME NEW size \in Nat, NEW h \in 0..MaxTickets, NEW t \in 0..MaxTickets, h <= t + Capacity
  PROVE  /\ ToWrite(size, h, t) \in Nat
         /\ ToWrite(size, h, t) < Word
         /\ h + ToWrite(size, h, t) <= t + Capacity
<1> USE SegmentAssumption, RingAssumption
<1> DEFINE a == Sub(h, t)
<1>1. a \in Int /\ (a = h - t \/ a = h - t + Word)
  <2>1. CASE h >= t
    BY <2>1 DEF Sub
  <2>2. CASE h < t
    BY <2>2 DEF Sub
  <2> QED BY <2>1, <2>2
<1>2. Sub(Capacity, a) = Capacity - (h - t)
  <2> HIDE DEF a
  <2>1. CASE a = h - t
    BY <1>1, <2>1 DEF Sub
  <2>2. CASE a = h - t + Word
    BY <1>1, <2>2 DEF Sub
  <2> QED BY <1>1, <2>1, <2>2
<1> QED BY <1>2 DEF ToWrite, Least

(* Loading _tail, to see how much of a batch fits, keeps the invariant.        *)
LEMMA BatchLoadTailInv ==
  ASSUME NEW F \in Nat, RingInv(F), NEW p \in Producers, BatchLoadTail(p),
         phead[p] <= tail + Capacity, tail <= F
  PROVE  /\ RingInv(F)'
         /\ ppc'[p] = "cas_n" => phead'[p] + pn'[p] <= tail + Capacity
<1> DEFINE n == ToWrite(psize[p], phead[p], tail)
<1>1. ppc[p] = "loadtail" /\ ~InFlight(p) /\ pi[p] = 0 /\ phead[p] <= head
  BY DEF BatchLoadTail, RingInv, LookInv, InFlight
<1>2. UNCHANGED <<segmentVars, order>>
  BY DEF BatchLoadTail, ResetFrame
<1>3. RingTypes
  BY DEF RingInv
<1>4. n \in 0..Word - 1 /\ phead[p] + n <= tail + Capacity /\ phead[p] \in Nat /\ tail \in Nat
  <2>1. phead[p] \in 0..MaxTickets /\ tail \in 0..MaxTickets /\ psize[p] \in Nat
    BY <1>3, RingTypesFacts DEF RingTypes, RingTypeOK
  <2> QED BY <2>1, ToWriteExact, RingAssumption, SegmentAssumption
<1>5. CASE ResetFrame(p)
  <2>1. RingTypes'
    BY <1>2, <1>3, <1>5, ResetTypes DEF RingTypes, RingTypeOK, segmentVars
  <2>2. ppc'[p] = "idle"
    BY <1>3, <1>5, ResetTypes
  <2>3. RingInv(F)'
    BY <1>1, <1>2, <1>3, <1>5, <2>1, ResetTypes, RingTypesFacts, LookStep
  <2> QED BY <2>2, <2>3
<1>6. CASE n # 0 /\ pn' = [pn EXCEPT ![p] = n] /\ ppc' = [ppc EXCEPT ![p] = "cas_n"] /\ UNCHANGED <<phead, psize, pi, order>>
  <2> HIDE DEF n
  <2>1. RingTypes'
    BY <1>2, <1>3, <1>4, <1>6 DEF RingTypes, RingTypeOK, segmentVars
  <2>2. /\ ppc'[p] = "cas_n" /\ pn'[p] = n
        /\ \A q \in Producers : q # p => ppc'[q] = ppc[q] /\ pn'[q] = pn[q]
    BY <1>3, <1>6, RingTypesFacts
  <2>3. phead'[p] + pn'[p] <= tail + Capacity /\ phead'[p] + pn'[p] <= F + Capacity /\ pn'[p] > 0
    BY <1>4, <1>6, <2>2, SegmentAssumption
  <2>4. RingInv(F)'
    BY <1>1, <1>2, <1>6, <2>1, <2>2, <2>3, LookStep
  <2> QED BY <2>3, <2>4
<1> QED BY <1>5, <1>6 DEF BatchLoadTail

(* What a successful compare-exchange of _head does to order.                 *)
LEMMA ClaimOrder ==
  ASSUME NEW F \in Nat, WindowInv(F), NEW p \in Producers, NEW n \in Nat,
         order' = order \o [i \in 1..n |-> Element(p, head + i - 1)],
         head' = head + n, head \in Nat
  PROVE  /\ order' \in Seq(Producers \X Nat) /\ Len(order') = head'
         /\ \A k \in 1..head : order'[k] = order[k]
         /\ \A k \in head..head + n - 1 : order'[k + 1] = Element(p, k)
<1> DEFINE new == [i \in 1..n |-> Element(p, head + i - 1)]
<1>1. \A i \in 1..n : Element(p, head + i - 1) \in Producers \X Nat
  BY DEF Element
<1>2. new \in Seq(Producers \X Nat) /\ Len(new) = n
  BY <1>1
<1>3. order \in Seq(Producers \X Nat) /\ Len(order) = head
  BY DEF WindowInv
<1>4. \A i \in 1..n : new[i] = Element(p, head + i - 1)
  OBVIOUS
<1> HIDE DEF new
<1>5. order' = order \o new
  BY DEF new
<1>6. /\ order \o new \in Seq(Producers \X Nat)
      /\ Len(order \o new) = head + n
      /\ \A k \in 1..head + n : (order \o new)[k] = IF k <= head THEN order[k] ELSE new[k - head]
  BY <1>2, <1>3, ConcatProperties
<1>7. \A k \in 1..head : order'[k] = order[k]
  BY <1>5, <1>6
<1>8. ASSUME NEW k \in head..head + n - 1 PROVE order'[k + 1] = Element(p, k)
  <2>1. k + 1 \in 1..head + n /\ ~(k + 1 <= head) /\ (k + 1) - head \in 1..n /\ head + ((k + 1) - head) - 1 = k
    OBVIOUS
  <2>a. (order \o new)[k + 1] = IF k + 1 <= head THEN order[k + 1] ELSE new[(k + 1) - head]
    BY <1>6, <2>1
  <2>b. (order \o new)[k + 1] = new[(k + 1) - head]
    BY <2>a, <2>1
  <2>2. order'[k + 1] = new[(k + 1) - head]
    BY <1>5, <2>b
  <2>3. new[(k + 1) - head] = Element(p, head + ((k + 1) - head) - 1)
    BY <1>4, <2>1
  <2> QED BY <2>1, <2>2, <2>3
<1> QED BY <1>5, <1>6, <1>7, <1>8

(* The places are claimed: nobody else's, not published, and free if the write may begin at once. *)
LEMMA ClaimedInv ==
  ASSUME NEW F \in Nat, RingInv(F), NEW p \in Producers, ~InFlight(p),
         NEW n \in Nat, n > 0, NEW next \in {"await", "write"}, phead[p] = head,
         Claimed(p, head, n, next),
         n < Word,
         head + n <= F + Capacity,
         next = "write" => seq[Index(head)] = head,
         UNCHANGED <<phead, psize, pi, tail, seq, data, taken, use>>
  PROVE  RingInv(F)'
<1>0. RingTypes /\ WindowInv(F) /\ SlotInv(F) /\ OwnedInv(F) /\ LookInv(F)
  BY DEF RingInv
<1>1. /\ head \in Nat /\ head' = head + n /\ head' <= MaxTickets
      /\ order' = order \o [i \in 1..n |-> Element(p, head + i - 1)]
      /\ ppc'[p] = next /\ pn'[p] = n /\ pi[p] = 0
      /\ \A q \in Producers : q # p => ppc'[q] = ppc[q] /\ pn'[q] = pn[q]
  BY <1>0, RingTypesFacts DEF Claimed, LookInv
<1>2. /\ order' \in Seq(Producers \X Nat) /\ Len(order') = head'
      /\ \A k \in 1..head : order'[k] = order[k]
      /\ \A k \in head..head + n - 1 : order'[k + 1] = Element(p, k)
  BY <1>0, <1>1, ClaimOrder
<1>3. RingTypes'
  <2>1. RingTypeOK /\ data \in [Slots -> (Producers \X (0..MaxTickets)) \cup {Free}]
    BY <1>0 DEF RingTypes
  <2>2. head' \in 0..MaxTickets /\ n \in 0..Word - 1
    BY <1>1, <2>1, SegmentAssumption, RingAssumption DEF RingTypeOK
  <2>3. pn' \in [Producers -> 0..Word - 1]
    BY <2>1, <2>2 DEF RingTypeOK, Claimed
  <2>4. ppc' \in [Producers -> {"idle", "loadseq", "cas", "loadtail", "cas_n", "await", "write", "publish"}]
    BY <2>1 DEF RingTypeOK, Claimed
  <2> QED BY <2>1, <2>2, <2>3, <2>4 DEF RingTypes, RingTypeOK
<1>4. WindowInv(F)'
  BY <1>0, <1>1, <1>2 DEF WindowInv
<1>5. SlotInv(F)'
  <2> SUFFICES ASSUME NEW k \in Window(F)
               PROVE  /\ seq[Index(k)] \in {k - Capacity + 1, k, k + 1}
                      /\ seq[Index(k)] = k + 1 => k < head' /\ data[Index(k)] = order'[k + 1]
    BY DEF SlotInv, Window
  <2>1. /\ seq[Index(k)] \in {k - Capacity + 1, k, k + 1}
        /\ seq[Index(k)] = k + 1 => k < head /\ data[Index(k)] = order[k + 1]
    BY <1>0 DEF SlotInv
  <2>2. k \in Nat /\ (k < head => k + 1 \in 1..head)
    BY <1>1, SegmentAssumption DEF Window
  <2> QED BY <1>1, <1>2, <2>1, <2>2
<1>6. OwnedInv(F)'
  <2> SUFFICES ASSUME NEW q \in Producers, InFlight(q)'
               PROVE  /\ pi[q] < pn'[q] /\ phead[q] + pn'[q] <= head' /\ F <= Ticket(q)
                      /\ \A k \in Ticket(q)..phead[q] + pn'[q] - 1 :
                            order'[k + 1] = Element(q, k) /\ seq[Index(k)] # k + 1
                      /\ ppc'[q] \in {"write", "publish"} => seq[Index(Ticket(q))] = Ticket(q)
                      /\ ppc'[q] = "publish" => data[Index(Ticket(q))] = Element(q, Ticket(q))
    BY DEF OwnedInv, Ticket
  <2>1. CASE q = p
    <3>1. Ticket(q) = head /\ pi[q] = 0 /\ phead[q] = head /\ pn'[q] = n
      BY <1>1, <2>1 DEF Ticket
    <3>2. ASSUME NEW k \in head..head + n - 1 PROVE seq[Index(k)] # k + 1
      <4>1. k \in Window(F) /\ ~(k < head)
        BY <1>0, <1>1, SegmentAssumption DEF WindowInv, Window
      <4> QED BY <1>0, <4>1 DEF SlotInv
    <3> QED BY <1>0, <1>1, <1>2, <2>1, <3>1, <3>2 DEF WindowInv
  <2>2. CASE q # p
    <3>1. InFlight(q) /\ ppc'[q] = ppc[q] /\ pn'[q] = pn[q]
      BY <1>1, <2>2 DEF InFlight
    <3>2. /\ pi[q] < pn[q] /\ phead[q] + pn[q] <= head /\ F <= Ticket(q)
          /\ \A k \in Ticket(q)..phead[q] + pn[q] - 1 : order[k + 1] = Element(q, k) /\ seq[Index(k)] # k + 1
          /\ ppc[q] \in {"write", "publish"} => seq[Index(Ticket(q))] = Ticket(q)
          /\ ppc[q] = "publish" => data[Index(Ticket(q))] = Element(q, Ticket(q))
      BY <1>0, <3>1 DEF OwnedInv
    <3>3. Ticket(q) \in Nat /\ phead[q] \in Nat /\ pn[q] \in Nat
      BY <1>0, RingTypesFacts
    <3>4. ASSUME NEW k \in Ticket(q)..phead[q] + pn[q] - 1 PROVE order'[k + 1] = order[k + 1]
      <4>1. k + 1 \in 1..head
        BY <1>1, <3>2, <3>3
      <4> QED BY <1>2, <4>1
    <3>5. phead[q] + pn'[q] <= head'
      BY <1>1, <3>1, <3>2, <3>3
    <3>6. \A k \in Ticket(q)..phead[q] + pn'[q] - 1 : order'[k + 1] = Element(q, k) /\ seq[Index(k)] # k + 1
      BY <3>1, <3>2, <3>4
    <3> QED BY <3>1, <3>2, <3>5, <3>6
  <2> QED BY <2>1, <2>2
<1>7. LookInv(F)'
  <2> SUFFICES ASSUME NEW q \in Producers
               PROVE  /\ phead[q] <= head'
                      /\ ~InFlight(q)' => pi[q] = 0
                      /\ ppc'[q] = "cas" => /\ phead[q] < F + Capacity
                                            /\ phead[q] = head' => seq[Index(phead[q])] = phead[q]
                      /\ ppc'[q] = "cas_n" => pn'[q] > 0 /\ phead[q] + pn'[q] <= F + Capacity
    BY DEF LookInv
  <2>1. phead[q] \in Nat /\ phead[q] <= head
    BY <1>0, RingTypesFacts DEF LookInv
  <2>2. CASE q = p
    BY <1>1, <2>1, <2>2 DEF InFlight
  <2>3. CASE q # p
    BY <1>0, <1>1, <2>1, <2>3 DEF LookInv, InFlight
  <2> QED BY <2>2, <2>3
<1> QED BY <1>3, <1>4, <1>5, <1>6, <1>7 DEF RingInv

(* The compare-and-swap that claims one place keeps the invariant.             *)
LEMMA PushCasInv ==
  ASSUME NEW F \in Nat, RingInv(F), NEW p \in Producers, PushCas(p)
  PROVE  RingInv(F)'
<1>1. ppc[p] = "cas" /\ ~InFlight(p) /\ pi[p] = 0 /\ UNCHANGED <<tail, seq, data, taken, use>>
  BY DEF PushCas, RingInv, LookInv, InFlight
<1>2. CASE head = phead[p] /\ Claimed(p, head, 1, "write") /\ UNCHANGED <<phead, psize, pi>>
  <2>1. head < F + Capacity /\ seq[Index(head)] = head /\ head \in Nat
    BY <1>1, <1>2, RingTypesFacts DEF RingInv, LookInv
  <2>2. 1 < Word /\ head + 1 <= F + Capacity
    BY <2>1, SegmentAssumption, RingAssumption
  <2> QED BY <1>1, <1>2, <2>1, <2>2, ClaimedInv
<1>3. CASE phead' = [phead EXCEPT ![p] = head] /\ ppc' = [ppc EXCEPT ![p] = "loadseq"] /\ UNCHANGED <<head, psize, pn, pi, order>>
  <2>1. RingTypes'
    BY <1>1, <1>3 DEF RingInv, RingTypes, RingTypeOK
  <2>2. /\ ppc'[p] = "loadseq" /\ phead'[p] = head
        /\ \A q \in Producers : q # p => ppc'[q] = ppc[q] /\ phead'[q] = phead[q]
        /\ head \in Nat
    BY <1>3, RingTypesFacts DEF RingInv
  <2> QED BY <1>1, <1>3, <2>1, <2>2, LookStep DEF segmentVars
<1> QED BY <1>2, <1>3 DEF PushCas

(* The compare-and-swap that claims a batch keeps the invariant.               *)
LEMMA BatchCasInv ==
  ASSUME NEW F \in Nat, RingInv(F), NEW p \in Producers, NEW next \in {"await", "write"}, BatchCasTo(p, next),
         next = "write" => \A k \in Window(F) : seq[Index(k)] # k - Capacity + 1
  PROVE  RingInv(F)'
<1>0. RingTypes
  BY DEF RingInv
<1>1. ppc[p] = "cas_n" /\ ~InFlight(p) /\ pi[p] = 0 /\ UNCHANGED <<tail, seq, data, taken, use>>
  BY DEF BatchCasTo, RingInv, LookInv, InFlight
<1>2. CASE head = phead[p] /\ Claimed(p, head, pn[p], next) /\ UNCHANGED <<phead, psize, pi>>
  <2>1. /\ pn[p] \in Nat /\ pn[p] > 0 /\ pn[p] < Word /\ head + pn[p] <= F + Capacity
        /\ head \in Nat /\ F <= head
    BY <1>0, <1>1, <1>2, RingTypesFacts, RingAssumption, SegmentAssumption DEF RingInv, LookInv, WindowInv, RingTypes, RingTypeOK
  <2>2. ASSUME next = "write" PROVE seq[Index(head)] = head
    <3>1. head \in Window(F)
      BY <2>1, SegmentAssumption DEF Window
    <3> QED BY <2>1, <2>2, <3>1 DEF RingInv, SlotInv
  <2> QED BY <1>1, <1>2, <2>1, <2>2, ClaimedInv
<1>3. CASE phead' = [phead EXCEPT ![p] = head] /\ ppc' = [ppc EXCEPT ![p] = "loadtail"] /\ UNCHANGED <<head, psize, pn, pi, order>>
  <2>1. RingTypes'
    BY <1>1, <1>3 DEF RingInv, RingTypes, RingTypeOK
  <2>2. /\ ppc'[p] = "loadtail" /\ phead'[p] = head
        /\ \A q \in Producers : q # p => ppc'[q] = ppc[q] /\ phead'[q] = phead[q]
        /\ head \in Nat
    BY <1>3, RingTypesFacts DEF RingInv
  <2> QED BY <1>1, <1>3, <2>1, <2>2, LookStep DEF segmentVars
<1> QED BY <1>2, <1>3 DEF BatchCasTo

-----------------------------------------------------------------------------
(* The write loop.                                                          *)

(* What a producer in the write loop knows of its next ticket.                *)
LEMMA OwnTicket ==
  ASSUME NEW F \in Nat, RingInv(F), NEW p \in Producers, InFlight(p)
  PROVE  /\ Ticket(p) \in Window(F) /\ Ticket(p) \in Nat /\ Ticket(p) < head
         /\ order[Ticket(p) + 1] = Element(p, Ticket(p))
         /\ seq[Index(Ticket(p))] # Ticket(p) + 1
         /\ phead[p] \in Nat /\ pn[p] \in Nat /\ pi[p] \in Nat /\ pi[p] < pn[p] /\ phead[p] + pn[p] <= head
         /\ Ticket(p) = phead[p] + pi[p]
<1>1. /\ phead[p] \in Nat /\ pn[p] \in Nat /\ pi[p] \in Nat /\ Ticket(p) \in Nat
      /\ Ticket(p) = phead[p] + pi[p] /\ head \in Nat
  BY RingTypesFacts DEF RingInv
<1>2. /\ pi[p] < pn[p] /\ phead[p] + pn[p] <= head /\ F <= Ticket(p)
      /\ \A k \in Ticket(p)..phead[p] + pn[p] - 1 : order[k + 1] = Element(p, k) /\ seq[Index(k)] # k + 1
  BY DEF RingInv, OwnedInv
<1>3. head <= F + Capacity
  BY DEF RingInv, WindowInv
<1>4. Ticket(p) \in Ticket(p)..phead[p] + pn[p] - 1
  BY <1>1, <1>2
<1>5. Ticket(p) \in Window(F) /\ Ticket(p) < head
  BY <1>1, <1>2, <1>3, SegmentAssumption DEF Window
<1> QED BY <1>1, <1>2, <1>4, <1>5

(* A ticket belongs to one producer: its slot is not among those of another's batch. *)
LEMMA OwnersApart ==
  ASSUME NEW F \in Nat, RingInv(F), NEW p \in Producers, InFlight(p), NEW q \in Producers, InFlight(q), q # p
  PROVE  \A k \in Ticket(q)..phead[q] + pn[q] - 1 :
            /\ k \in Window(F) /\ k \in Nat /\ k < head
            /\ k # Ticket(p) /\ Index(k) \in Slots /\ Index(k) # Index(Ticket(p))
<1> SUFFICES ASSUME NEW k \in Ticket(q)..phead[q] + pn[q] - 1
             PROVE  /\ k \in Window(F) /\ k \in Nat /\ k < head
                    /\ k # Ticket(p) /\ Index(k) \in Slots /\ Index(k) # Index(Ticket(p))
  OBVIOUS
<1>1. Ticket(q) \in Nat /\ phead[q] \in Nat /\ pn[q] \in Nat /\ head \in Nat
  BY RingTypesFacts DEF RingInv
<1>2. F <= Ticket(q) /\ phead[q] + pn[q] <= head /\ head <= F + Capacity
  BY DEF RingInv, OwnedInv, WindowInv
<1>3. k \in Window(F) /\ k \in Nat /\ k < head
  BY <1>1, <1>2, SegmentAssumption DEF Window
<1>4. order[k + 1] = Element(q, k)
  BY DEF RingInv, OwnedInv
<1>5. order[Ticket(p) + 1] = Element(p, Ticket(p)) /\ Ticket(p) \in Window(F)
  BY OwnTicket
<1>6. k # Ticket(p)
  BY <1>4, <1>5 DEF Element
<1> QED BY <1>3, <1>5, <1>6, IndexApart, IndexIn

(* Waiting for the slot of the next ticket keeps the invariant.                *)
LEMMA BatchAwaitInv ==
  ASSUME NEW F \in Nat, RingInv(F), NEW p \in Producers, Mpmc!BatchAwait(p)
  PROVE  RingInv(F)'
<1>0. /\ ppc[p] = "await" /\ seq[Index(Ticket(p))] = Ticket(p) /\ ppc' = [ppc EXCEPT ![p] = "write"]
      /\ UNCHANGED <<phead, psize, pn, pi, order, head, tail, seq, data>>
  BY DEF Mpmc!BatchAwait, Mpmc!Index, Mpmc!Ticket, Index, Ticket, Mpmc!segmentVars
<1>1. ppc'[p] = "write" /\ \A q \in Producers : q # p => ppc'[q] = ppc[q]
  BY <1>0, RingTypesFacts DEF RingInv
<1>2. RingTypes'
  BY <1>0 DEF RingInv, RingTypes, RingTypeOK
<1>3. WindowInv(F)' /\ SlotInv(F)'
  BY <1>0 DEF RingInv, WindowInv, SlotInv
<1>4. \A q \in Producers : InFlight(q)' = InFlight(q)
  BY <1>0, <1>1 DEF InFlight
<1>5. LookInv(F)'
  BY <1>0, <1>1, <1>4 DEF RingInv, LookInv
<1>6. OwnedInv(F)'
  BY <1>0, <1>1, <1>4 DEF RingInv, OwnedInv, Ticket
<1> QED BY <1>2, <1>3, <1>5, <1>6 DEF RingInv

(* The slot written is of no published element and of no other producer's ticket. *)
LEMMA PushWriteRingInv ==
  ASSUME NEW F \in Nat, RingInv(F), NEW p \in Producers, PushWrite(p)
  PROVE  RingInv(F)'
<1> DEFINE t == Ticket(p)
<1>0. /\ ppc[p] = "write" /\ ppc' = [ppc EXCEPT ![p] = "publish"]
      /\ data' = [data EXCEPT ![Index(t)] = Element(p, t)]
      /\ UNCHANGED <<head, tail, seq, phead, psize, pn, pi, order>>
  BY DEF PushWrite
<1>1. RingTypes /\ WindowInv(F) /\ SlotInv(F) /\ OwnedInv(F) /\ LookInv(F) /\ InFlight(p)
  BY <1>0 DEF RingInv, InFlight
<1>2. ppc'[p] = "publish" /\ \A q \in Producers : q # p => ppc'[q] = ppc[q]
  BY <1>0, <1>1, RingTypesFacts
<1>3. /\ t \in Window(F) /\ t \in Nat /\ t < head /\ Index(t) \in Slots
      /\ order[t + 1] = Element(p, t) /\ seq[Index(t)] = t
  BY <1>0, <1>1, OwnTicket, IndexIn DEF OwnedInv
<1>4. \A q \in Producers : InFlight(q)' = InFlight(q)
  BY <1>0, <1>1, <1>2 DEF InFlight
<1> HIDE DEF t
<1>5. data'[Index(t)] = Element(p, t) /\ \A s \in Slots : s # Index(t) => data'[s] = data[s]
  BY <1>0, <1>1, <1>3 DEF RingTypes
<1>6. RingTypes'
  <2>1. Element(p, t) \in Producers \X (0..MaxTickets)
    BY <1>1, <1>3, RingTypesFacts, SegmentAssumption DEF Element
  <2>2. data' \in [Slots -> (Producers \X (0..MaxTickets)) \cup {Free}]
    BY <1>0, <1>1, <2>1 DEF RingTypes
  <2>3. \A s \in Slots : data'[s] = Free \/ data'[s] \in Producers \X (0..MaxTickets)
    BY <2>2
  <2> QED BY <1>0, <1>1, <2>2, <2>3 DEF RingTypes, RingTypeOK
<1>7. WindowInv(F)'
  BY <1>0, <1>1 DEF WindowInv
<1>8. SlotInv(F)'
  <2> SUFFICES ASSUME NEW k \in Window(F)
               PROVE  /\ seq[Index(k)] \in {k - Capacity + 1, k, k + 1}
                      /\ seq[Index(k)] = k + 1 => k < head /\ data'[Index(k)] = order[k + 1]
    BY <1>0 DEF SlotInv
  <2>1. /\ seq[Index(k)] \in {k - Capacity + 1, k, k + 1}
        /\ seq[Index(k)] = k + 1 => k < head /\ data[Index(k)] = order[k + 1]
    BY <1>1 DEF SlotInv
  <2>2. k \in Nat /\ Index(k) \in Slots
    BY IndexIn, SegmentAssumption DEF Window
  <2>3. CASE k = t
    BY <1>3, <2>1, <2>3
  <2>4. CASE k # t
    BY <1>3, <1>5, <2>1, <2>2, <2>4, IndexApart
  <2> QED BY <2>3, <2>4
<1>9. OwnedInv(F)'
  <2> SUFFICES ASSUME NEW q \in Producers, InFlight(q)
               PROVE  /\ pi[q] < pn[q] /\ phead[q] + pn[q] <= head /\ F <= Ticket(q)
                      /\ \A k \in Ticket(q)..phead[q] + pn[q] - 1 : order[k + 1] = Element(q, k) /\ seq[Index(k)] # k + 1
                      /\ ppc'[q] \in {"write", "publish"} => seq[Index(Ticket(q))] = Ticket(q)
                      /\ ppc'[q] = "publish" => data'[Index(Ticket(q))] = Element(q, Ticket(q))
    BY <1>0, <1>4 DEF OwnedInv, Ticket
  <2>1. /\ pi[q] < pn[q] /\ phead[q] + pn[q] <= head /\ F <= Ticket(q)
        /\ \A k \in Ticket(q)..phead[q] + pn[q] - 1 : order[k + 1] = Element(q, k) /\ seq[Index(k)] # k + 1
        /\ ppc[q] \in {"write", "publish"} => seq[Index(Ticket(q))] = Ticket(q)
        /\ ppc[q] = "publish" => data[Index(Ticket(q))] = Element(q, Ticket(q))
    BY <1>1 DEF OwnedInv
  <2>2. CASE q = p
    BY <1>3, <1>5, <2>1, <2>2 DEF t
  <2>3. CASE q # p
    <3>1. Ticket(q) \in Ticket(q)..phead[q] + pn[q] - 1
      BY OwnTicket
    <3>2. Index(Ticket(q)) \in Slots /\ Index(Ticket(q)) # Index(t)
      BY <1>1, <2>3, <3>1, OwnersApart DEF t
    <3> QED BY <1>2, <1>5, <2>1, <2>3, <3>2
  <2> QED BY <2>2, <2>3
<1>10. LookInv(F)'
  BY <1>0, <1>1, <1>2, <1>4 DEF LookInv
<1> QED BY <1>6, <1>7, <1>8, <1>9, <1>10 DEF RingInv

(* The next element is published; another one may be written at once if its slot is free. *)
LEMMA PushPublishRingInv ==
  ASSUME NEW F \in Nat, RingInv(F), NEW p \in Producers, NEW next \in {"await", "write"}, PushPublishTo(p, next),
         next = "write" => \A k \in Window(F) : seq[Index(k)] # k - Capacity + 1
  PROVE  RingInv(F)'
<1> DEFINE t == Ticket(p)
<1>0. /\ ppc[p] = "publish" /\ seq' = [seq EXCEPT ![Index(t)] = t + 1]
      /\ UNCHANGED <<head, tail, data>>
  BY DEF PushPublishTo
<1>1. RingTypes /\ WindowInv(F) /\ SlotInv(F) /\ OwnedInv(F) /\ LookInv(F) /\ InFlight(p)
  BY <1>0 DEF RingInv, InFlight
<1>2. /\ t \in Window(F) /\ t \in Nat /\ t < head /\ Index(t) \in Slots /\ t = phead[p] + pi[p]
      /\ order[t + 1] = Element(p, t) /\ seq[Index(t)] = t /\ data[Index(t)] = Element(p, t)
      /\ phead[p] \in Nat /\ pn[p] \in Nat /\ pi[p] \in Nat /\ pi[p] < pn[p] /\ phead[p] + pn[p] <= head
  BY <1>0, <1>1, OwnTicket, IndexIn DEF OwnedInv
<1>3. \/ /\ pi[p] + 1 < pn[p] /\ pi' = [pi EXCEPT ![p] = pi[p] + 1] /\ ppc' = [ppc EXCEPT ![p] = next]
         /\ UNCHANGED <<phead, psize, pn, order>>
      \/ ResetFrame(p)
  BY DEF PushPublishTo
<1> HIDE DEF t
<1>4. /\ \A q \in Producers : q # p => ppc'[q] = ppc[q] /\ phead'[q] = phead[q] /\ pn'[q] = pn[q] /\ pi'[q] = pi[q]
      /\ order' = order
      /\ \/ ppc'[p] = next /\ pi'[p] = pi[p] + 1 /\ pi[p] + 1 < pn[p] /\ phead'[p] = phead[p] /\ pn'[p] = pn[p]
         \/ ppc'[p] = "idle" /\ phead'[p] = 0 /\ pi'[p] = 0
  BY <1>1, <1>3, ResetTypes, RingTypesFacts
<1>5. seq'[Index(t)] = t + 1 /\ \A s \in Slots : s # Index(t) => seq'[s] = seq[s]
  BY <1>0, <1>1, <1>2, RingTypesFacts
<1>6. RingTypes'
  <2>1. /\ ppc' \in [Producers -> {"idle", "loadseq", "cas", "loadtail", "cas_n", "await", "write", "publish"}]
        /\ phead' \in [Producers -> 0..MaxTickets] /\ psize' \in [Producers -> Batches \cup {1}]
        /\ pn' \in [Producers -> 0..Word - 1] /\ pi' \in [Producers -> Nat]
    <3>1. CASE ResetFrame(p)
      BY <1>1, <3>1, ResetTypes
    <3>2. CASE pi' = [pi EXCEPT ![p] = pi[p] + 1] /\ ppc' = [ppc EXCEPT ![p] = next] /\ UNCHANGED <<phead, psize, pn, order>>
      BY <1>1, <1>2, <3>2 DEF RingTypes, RingTypeOK
    <3> QED BY <1>3, <3>1, <3>2
  <2>2. t + 1 \in 0..MaxTickets + Capacity
    BY <1>1, <1>2, RingTypesFacts, SegmentAssumption
  <2>3. seq' \in [Slots -> 0..MaxTickets + Capacity]
    BY <1>0, <1>1, <2>2 DEF RingTypes, RingTypeOK
  <2> QED BY <1>0, <1>1, <2>1, <2>3 DEF RingTypes, RingTypeOK
<1>7. WindowInv(F)'
  BY <1>0, <1>1, <1>4 DEF WindowInv
<1>8. SlotInv(F)'
  <2> SUFFICES ASSUME NEW k \in Window(F)
               PROVE  /\ seq'[Index(k)] \in {k - Capacity + 1, k, k + 1}
                      /\ seq'[Index(k)] = k + 1 => k < head /\ data[Index(k)] = order[k + 1]
    BY <1>0, <1>4 DEF SlotInv
  <2>1. /\ seq[Index(k)] \in {k - Capacity + 1, k, k + 1}
        /\ seq[Index(k)] = k + 1 => k < head /\ data[Index(k)] = order[k + 1]
    BY <1>1 DEF SlotInv
  <2>2. k \in Nat /\ Index(k) \in Slots
    BY IndexIn, SegmentAssumption DEF Window
  <2>3. CASE k = t
    BY <1>2, <1>5, <2>3
  <2>4. CASE k # t
    BY <1>2, <1>5, <2>1, <2>2, <2>4, IndexApart
  <2> QED BY <2>3, <2>4
<1>9. OwnedInv(F)'
  <2> SUFFICES ASSUME NEW q \in Producers, InFlight(q)'
               PROVE  /\ pi'[q] < pn'[q] /\ phead'[q] + pn'[q] <= head /\ F <= Ticket(q)'
                      /\ \A k \in Ticket(q)'..phead'[q] + pn'[q] - 1 : order[k + 1] = Element(q, k) /\ seq'[Index(k)] # k + 1
                      /\ ppc'[q] \in {"write", "publish"} => seq'[Index(Ticket(q)')] = Ticket(q)'
                      /\ ppc'[q] = "publish" => data[Index(Ticket(q)')] = Element(q, Ticket(q)')
    BY <1>0, <1>4 DEF OwnedInv, Index
  <2>1. CASE q = p
    <3>1. /\ ppc'[q] = next /\ pi'[q] = pi[p] + 1 /\ pi[p] + 1 < pn[p] /\ phead'[q] = phead[p] /\ pn'[q] = pn[p]
          /\ Ticket(q)' = t + 1
      BY <1>2, <1>4, <2>1 DEF InFlight, Ticket
    <3>2. ASSUME NEW k \in t + 1..phead[p] + pn[p] - 1
          PROVE  order[k + 1] = Element(p, k) /\ seq'[Index(k)] = seq[Index(k)] /\ seq[Index(k)] # k + 1 /\ k \in Window(F)
      <4>1. k \in Ticket(p)..phead[p] + pn[p] - 1 /\ k \in Nat
        BY <1>2 DEF t
      <4>2. order[k + 1] = Element(p, k) /\ seq[Index(k)] # k + 1
        BY <1>1, <4>1 DEF OwnedInv
      <4>3. head \in Nat /\ head <= F + Capacity
        BY <1>1, RingTypesFacts DEF WindowInv
      <4>4. F <= t /\ t + 1 <= k /\ k + 1 <= phead[p] + pn[p]
        BY <1>2, <4>1, SegmentAssumption DEF Window
      <4>5. k \in Window(F) /\ k # t
        BY <1>2, <4>1, <4>3, <4>4, SegmentAssumption DEF Window
      <4> QED BY <1>2, <1>5, <4>1, <4>2, <4>5, IndexIn, IndexApart
    <3>3. t + 1 \in t + 1..phead[p] + pn[p] - 1
      BY <1>2, <3>1
    <3>4. next = "write" => seq'[Index(t + 1)] = t + 1
      BY <1>1, <1>2, <3>2, <3>3 DEF SlotInv
    <3>5. F <= t + 1
      BY <1>2 DEF Window
    <3> QED BY <1>2, <2>1, <3>1, <3>2, <3>4, <3>5
  <2>2. CASE q # p
    <3>1. /\ InFlight(q) /\ Ticket(q)' = Ticket(q) /\ ppc'[q] = ppc[q] /\ phead'[q] = phead[q]
          /\ pn'[q] = pn[q] /\ pi'[q] = pi[q]
      BY <1>4, <2>2 DEF InFlight, Ticket
    <3>2. /\ pi[q] < pn[q] /\ phead[q] + pn[q] <= head /\ F <= Ticket(q)
          /\ \A k \in Ticket(q)..phead[q] + pn[q] - 1 : order[k + 1] = Element(q, k) /\ seq[Index(k)] # k + 1
          /\ ppc[q] \in {"write", "publish"} => seq[Index(Ticket(q))] = Ticket(q)
          /\ ppc[q] = "publish" => data[Index(Ticket(q))] = Element(q, Ticket(q))
      BY <1>1, <3>1 DEF OwnedInv
    <3>3. \A k \in Ticket(q)..phead[q] + pn[q] - 1 : seq'[Index(k)] = seq[Index(k)]
      BY <1>1, <1>5, <2>2, <3>1, OwnersApart DEF t
    <3>4. Ticket(q) \in Ticket(q)..phead[q] + pn[q] - 1
      BY <3>1, OwnTicket
    <3> QED BY <3>1, <3>2, <3>3, <3>4
  <2> QED BY <2>1, <2>2
<1>10. LookInv(F)'
  <2> SUFFICES ASSUME NEW q \in Producers
               PROVE  /\ phead'[q] <= head
                      /\ ~InFlight(q)' => pi'[q] = 0
                      /\ ppc'[q] = "cas" => /\ phead'[q] < F + Capacity
                                            /\ phead'[q] = head => seq'[Index(phead'[q])] = phead'[q]
                      /\ ppc'[q] = "cas_n" => pn'[q] > 0 /\ phead'[q] + pn'[q] <= F + Capacity
    BY <1>0 DEF LookInv, Index
  <2>1. CASE q = p
    BY <1>1, <1>2, <1>4, <2>1, RingTypesFacts DEF InFlight
  <2>2. CASE q # p
    <3>1. /\ phead[q] <= head
          /\ ~InFlight(q) => pi[q] = 0
          /\ ppc[q] = "cas" => /\ phead[q] < F + Capacity
                               /\ phead[q] = head => seq[Index(phead[q])] = phead[q]
          /\ ppc[q] = "cas_n" => pn[q] > 0 /\ phead[q] + pn[q] <= F + Capacity
      BY <1>1 DEF LookInv
    <3>2. ASSUME ppc[q] = "cas", phead[q] = head PROVE seq'[Index(head)] = seq[Index(head)]
      <4>1. head \in Window(F) /\ head \in Nat /\ head # t
        <5>1. head \in Nat /\ F <= head /\ head < F + Capacity
          BY <1>1, <3>1, <3>2, RingTypesFacts DEF WindowInv
        <5> QED BY <1>2, <5>1, SegmentAssumption DEF Window
      <4> QED BY <1>2, <1>5, <4>1, IndexApart, IndexIn
    <3> QED BY <1>4, <2>2, <3>1, <3>2 DEF InFlight
  <2> QED BY <2>1, <2>2
<1> QED BY <1>6, <1>7, <1>8, <1>9, <1>10 DEF RingInv

-----------------------------------------------------------------------------
(* Any step of a producer.                                                  *)

(* The steps of tryPush, with the step at which the write loop of a batch begins. *)
ProducerStep(p, next) ==
    \/ PushLoadHead(p) \/ PushLoadSeq(p) \/ PushCas(p)
    \/ (\E size \in Batches : BatchLoadHead(p, size)) \/ BatchLoadTail(p) \/ BatchCasTo(p, next)
    \/ Mpmc!BatchAwait(p) \/ PushWrite(p) \/ PushPublishTo(p, next)

(* The pushes of Mpsc are producer steps.                                      *)
LEMMA MpscProducerStep ==
  ASSUME NEW p \in Producers, Mpsc!StartPush(p) \/ Mpsc!TryPush(p)
  PROVE  ProducerStep(p, "write") /\ ~Mpmc!BatchAwait(p)
<1>1. Mpsc!PushLoadHead(p) => PushLoadHead(p) /\ ppc[p] # "await"
  BY DEF Mpsc!PushLoadHead, PushLoadHead, Mpsc!segmentVars, segmentVars
<1>2. Mpsc!PushLoadSeq(p) => PushLoadSeq(p) /\ ppc[p] # "await"
  BY DEF Mpsc!PushLoadSeq, PushLoadSeq, Mpsc!segmentVars, segmentVars, Mpsc!Index, Index, Mpsc!ResetFrame, ResetFrame
<1>3. Mpsc!PushCas(p) => PushCas(p) /\ ppc[p] # "await"
  BY DEF Mpsc!PushCas, PushCas, Mpsc!Claimed, Claimed, Mpsc!Element, Element
<1>4. ASSUME NEW size \in Batches PROVE Mpsc!BatchLoadHead(p, size) => BatchLoadHead(p, size) /\ ppc[p] # "await"
  BY DEF Mpsc!BatchLoadHead, BatchLoadHead, Mpsc!segmentVars, segmentVars
<1>5. Mpsc!BatchLoadTail(p) => BatchLoadTail(p) /\ ppc[p] # "await"
  BY DEF Mpsc!BatchLoadTail, BatchLoadTail, Mpsc!segmentVars, segmentVars, Mpsc!ResetFrame, ResetFrame,
         Mpsc!ToWrite, ToWrite, Mpsc!Sub, Sub, Mpsc!Least, Least
<1>6. Mpsc!BatchCas(p) => BatchCasTo(p, "write") /\ ppc[p] # "await"
  BY DEF Mpsc!BatchCas, Mpsc!BatchCasTo, BatchCasTo, Mpsc!Claimed, Claimed, Mpsc!Element, Element
<1>7. Mpsc!PushWrite(p) => PushWrite(p) /\ ppc[p] # "await"
  BY DEF Mpsc!PushWrite, PushWrite, Mpsc!Index, Index, Mpsc!Ticket, Ticket, Mpsc!Element, Element
<1>8. Mpsc!PushPublish(p) => PushPublishTo(p, "write") /\ ppc[p] # "await"
  BY DEF Mpsc!PushPublish, Mpsc!PushPublishTo, PushPublishTo, Mpsc!Index, Index, Mpsc!Ticket, Ticket, Mpsc!ResetFrame, ResetFrame
<1>9. Mpmc!BatchAwait(p) => ppc[p] = "await"
  BY DEF Mpmc!BatchAwait
<1> QED BY <1>1, <1>2, <1>3, <1>4, <1>5, <1>6, <1>7, <1>8, <1>9 DEF Mpsc!StartPush, Mpsc!TryPush, ProducerStep

(* The pushes of Mpmc are producer steps.                                      *)
LEMMA MpmcProducerStep ==
  ASSUME NEW p \in Producers, Mpmc!StartPush(p) \/ Mpmc!TryPush(p)
  PROVE  ProducerStep(p, "await")
<1>1. Mpmc!PushLoadHead(p) => PushLoadHead(p)
  BY DEF Mpmc!PushLoadHead, PushLoadHead, Mpmc!segmentVars, segmentVars
<1>2. Mpmc!PushLoadSeq(p) => PushLoadSeq(p)
  BY DEF Mpmc!PushLoadSeq, PushLoadSeq, Mpmc!segmentVars, segmentVars, Mpmc!Index, Index, Mpmc!ResetFrame, ResetFrame
<1>3. Mpmc!PushCas(p) => PushCas(p)
  BY DEF Mpmc!PushCas, PushCas, Mpmc!Claimed, Claimed, Mpmc!Element, Element
<1>4. ASSUME NEW size \in Batches PROVE Mpmc!BatchLoadHead(p, size) => BatchLoadHead(p, size)
  BY DEF Mpmc!BatchLoadHead, BatchLoadHead, Mpmc!segmentVars, segmentVars
<1>5. Mpmc!BatchLoadTail(p) => BatchLoadTail(p)
  BY DEF Mpmc!BatchLoadTail, BatchLoadTail, Mpmc!segmentVars, segmentVars, Mpmc!ResetFrame, ResetFrame,
         Mpmc!ToWrite, ToWrite, Mpmc!Sub, Sub, Mpmc!Least, Least
<1>6. Mpmc!BatchCas(p) => BatchCasTo(p, "await")
  BY DEF Mpmc!BatchCas, Mpmc!BatchCasTo, BatchCasTo, Mpmc!Claimed, Claimed, Mpmc!Element, Element
<1>7. Mpmc!PushWrite(p) => PushWrite(p)
  BY DEF Mpmc!PushWrite, PushWrite, Mpmc!Index, Index, Mpmc!Ticket, Ticket, Mpmc!Element, Element
<1>8. Mpmc!PushPublish(p) => PushPublishTo(p, "await")
  BY DEF Mpmc!PushPublish, Mpmc!PushPublishTo, PushPublishTo, Mpmc!Index, Index, Mpmc!Ticket, Ticket, Mpmc!ResetFrame, ResetFrame
<1> QED BY <1>1, <1>2, <1>3, <1>4, <1>5, <1>6, <1>7, <1>8 DEF Mpmc!StartPush, Mpmc!TryPush, ProducerStep

(* A producer's step keeps the ring's invariant.                              *)
LEMMA ProducerStepInv ==
  ASSUME Capacity > 1, NEW F \in Nat, RingInv(F), NEW p \in Producers, NEW next \in {"await", "write"},
         ProducerStep(p, next), tail <= F,
         next = "write" => \A k \in Window(F) : seq[Index(k)] # k - Capacity + 1,
         ppc[p] = "loadtail" => phead[p] <= tail + Capacity
  PROVE  RingInv(F)'
<1>1. CASE BatchLoadTail(p)
  <2>1. ppc[p] = "loadtail"
    BY <1>1 DEF BatchLoadTail
  <2> QED BY <1>1, <2>1, BatchLoadTailInv
<1> QED BY <1>1, PushLoadHeadInv, BatchLoadHeadInv, PushLoadSeqInv, PushCasInv, BatchCasInv, BatchAwaitInv,
           PushWriteRingInv, PushPublishRingInv DEF ProducerStep

(* A claim extends order and leaves the rest of it alone.                     *)
LEMMA ClaimGrows ==
  ASSUME NEW F \in Nat, WindowInv(F), NEW p \in Producers, NEW n \in Nat, NEW next, head \in Nat, Claimed(p, head, n, next)
  PROVE  head' \in Nat /\ head <= head' /\ \A k \in 1..head : order'[k] = order[k]
<1>1. head' = head + n /\ order' = order \o [i \in 1..n |-> Element(p, head + i - 1)]
  BY DEF Claimed
<1>2. \A k \in 1..head : order'[k] = order[k]
  BY <1>1, ClaimOrder
<1>3. head' \in Nat /\ head <= head'
  BY <1>1
<1> QED BY <1>2, <1>3

(* What others see of a producer's step: order may grow, and a slot whose ticket was free may be
   published.                                                                  *)
LEMMA ProducerEffect ==
  ASSUME NEW F \in Nat, RingInv(F), NEW p \in Producers, NEW next, ProducerStep(p, next)
  PROVE  /\ UNCHANGED <<tail, taken, use>>
         /\ head' \in Nat /\ head <= head' /\ \A k \in 1..head : order'[k] = order[k]
         /\ \A k \in Window(F) : seq'[Index(k)] = seq[Index(k)] \/ (seq[Index(k)] = k /\ seq'[Index(k)] = k + 1)
<1>0. head \in Nat /\ pn[p] \in Nat /\ WindowInv(F)
  BY RingTypesFacts DEF RingInv
<1>1. CASE PushCas(p)
  <2>1. UNCHANGED <<tail, taken, use, seq>>
    BY <1>1 DEF PushCas
  <2>2. UNCHANGED <<head, order>> \/ Claimed(p, head, 1, "write")
    BY <1>1 DEF PushCas
  <2> QED BY <1>0, <2>1, <2>2, ClaimGrows
<1>2. CASE BatchCasTo(p, next)
  <2>1. UNCHANGED <<tail, taken, use, seq>>
    BY <1>2 DEF BatchCasTo
  <2>2. UNCHANGED <<head, order>> \/ Claimed(p, head, pn[p], next)
    BY <1>2 DEF BatchCasTo
  <2> QED BY <1>0, <2>1, <2>2, ClaimGrows
<1>3. CASE PushPublishTo(p, next)
  <2>0. InFlight(p) /\ ppc[p] = "publish"
    BY <1>3 DEF PushPublishTo, InFlight
  <2>1. UNCHANGED <<head, tail, taken, use, order>> /\ seq' = [seq EXCEPT ![Index(Ticket(p))] = Ticket(p) + 1]
    BY <1>3 DEF PushPublishTo, ResetFrame
  <2>2. Ticket(p) \in Window(F) /\ Ticket(p) \in Nat /\ seq[Index(Ticket(p))] = Ticket(p)
    BY <2>0, OwnTicket DEF RingInv, OwnedInv
  <2>3. ASSUME NEW k \in Window(F)
        PROVE  seq'[Index(k)] = seq[Index(k)] \/ (seq[Index(k)] = k /\ seq'[Index(k)] = k + 1)
    <3>1. k \in Nat /\ Index(k) \in Slots /\ seq \in [Slots -> Int]
      BY IndexIn, SegmentAssumption, RingTypesFacts DEF Window, RingInv
    <3>2. CASE Index(k) = Index(Ticket(p))
      <4>1. k = Ticket(p)
        BY <2>2, <3>2, IndexApart
      <4> QED BY <2>1, <2>2, <3>1, <4>1
    <3>3. CASE Index(k) # Index(Ticket(p))
      BY <2>1, <3>1, <3>3
    <3> QED BY <3>2, <3>3
  <2> QED BY <1>0, <2>1, <2>3
<1>4. CASE PushLoadHead(p) \/ PushLoadSeq(p) \/ (\E size \in Batches : BatchLoadHead(p, size)) \/ BatchLoadTail(p)
           \/ Mpmc!BatchAwait(p) \/ PushWrite(p)
  <2>1. UNCHANGED <<head, tail, taken, use, order, seq>>
    BY <1>4 DEF PushLoadHead, PushLoadSeq, BatchLoadHead, BatchLoadTail, Mpmc!BatchAwait, PushWrite, ResetFrame,
                segmentVars, Mpmc!segmentVars
  <2> QED BY <1>0, <2>1
<1> QED BY <1>1, <1>2, <1>3, <1>4 DEF ProducerStep

(* Claiming and publishing leave what was popped alone.                       *)
LEMMA TakenKept ==
  ASSUME NEW G \in Nat, TakenInv(G), G <= head, head \in Nat,
         taken' = taken, \A k \in 1..head : order'[k] = order[k]
  PROVE  TakenInv(G)'
<1>1. ASSUME NEW r \in taken PROVE r.ticket \in Nat /\ r.ticket < G /\ r.val = order'[r.ticket + 1]
  <2>1. r.ticket \in Nat /\ r.ticket < G /\ r.val = order[r.ticket + 1]
    BY DEF TakenInv
  <2>2. r.ticket + 1 \in 1..head
    BY <2>1
  <2> QED BY <2>1, <2>2
<1> QED BY <1>1 DEF TakenInv

-----------------------------------------------------------------------------
(* Mpsc.                                                                    *)

(* The invariant is about the value of the floor, however it is written.      *)
LEMMA RingAtFloor == ASSUME NEW F \in Nat, Floor' = F, RingInv(F)' PROVE RingInv(Floor)'
BY DEF RingInv, WindowInv, SlotInv, OwnedInv, LookInv, Window

(* The ring invariant at the value of Floor.                                   *)
LEMMA RingOfFloor == ASSUME NEW F \in Nat, Floor = F, RingInv(Floor) PROVE RingInv(F)
BY DEF RingInv, WindowInv, SlotInv, OwnedInv, LookInv, Window

(* What the invariant of Mpsc gives the proofs below.                          *)
LEMMA MpscFacts ==
  ASSUME MpscInv
  PROVE  /\ Floor \in Nat /\ tail \in Nat /\ head \in Nat /\ cons.i \in Nat /\ cons.n \in Nat /\ Floor = tail + cons.i
         /\ tail <= Floor /\ Floor <= head
         /\ cons.pc = "release" => Floor + 1 <= head
         /\ RingTypes /\ WindowInv(Floor)
<1>1. RingTypes /\ WindowInv(Floor) /\ cons \in MpscFrame
  BY DEF MpscInv, RingInv, MpscConsInv
<1>2. tail \in Nat /\ head \in Nat
  BY <1>1, RingTypesFacts
<1>3. cons.i \in Nat /\ cons.n \in Nat
  BY <1>1 DEF MpscFrame
<1>4. Floor \in Nat /\ Floor = tail + cons.i /\ tail <= Floor
  BY <1>2, <1>3 DEF Floor
<1>5. Floor <= head
  BY <1>1 DEF WindowInv
<1>6. cons.pc = "release" => Floor < head
  BY DEF MpscInv, MpscConsInv
<1>7. cons.pc = "release" => Floor + 1 <= head
  BY <1>2, <1>4, <1>6
<1> QED BY <1>1, <1>2, <1>3, <1>4, <1>5, <1>7

(* A producer's step of an Mpsc ring whose producers all push one by one, or all in batches. *)
LEMMA MpscUseKept ==
  ASSUME MpscInv, NEW p \in Producers, ProducerStep(p, "write"), ~Mpmc!BatchAwait(p), cons' = cons
  PROVE  MpscUseInv'
<1> PICK F \in Nat : F = Floor
  BY MpscFacts
<1>1. /\ Floor = F /\ RingInv(F) /\ RingTypes /\ tail \in Nat /\ head \in Nat /\ MpscUseInv
  BY MpscFacts, RingOfFloor DEF MpscInv
<1>2. UNCHANGED <<tail, use>> /\ Floor' = F
  BY <1>1, ProducerEffect DEF Floor
<1>3. \A k \in Window(Floor) : seq'[Index(k)] # k - Capacity + 1
  <2>1. ASSUME NEW k \in Window(F) PROVE seq'[Index(k)] # k - Capacity + 1
    <3>1. seq[Index(k)] # k - Capacity + 1
      BY <1>1 DEF MpscUseInv, Window
    <3>2. seq'[Index(k)] = seq[Index(k)] \/ seq'[Index(k)] = k + 1
      BY <1>1, ProducerEffect
    <3>3. k \in Int /\ Capacity \in Nat \ {0}
      BY SegmentAssumption DEF Window
    <3> QED BY <3>1, <3>2, <3>3
  <2> QED BY <1>1, <2>1 DEF Window
<1>4. /\ \A q \in Producers : ppc[q] # "await"
      /\ use \in {"single", "batch"}
      /\ use = "single" => \A q \in Producers : ppc[q] \notin {"loadtail", "cas_n"}
      /\ use = "batch" =>
            /\ head <= tail + Capacity
            /\ \A q \in Producers : /\ ppc[q] \notin {"loadseq", "cas"}
                                    /\ ppc[q] = "cas_n" => phead[q] + pn[q] <= tail + Capacity
  BY <1>1 DEF MpscUseInv
<1> DEFINE Kept ==
        /\ \A q \in Producers : q # p => ppc'[q] = ppc[q] /\ phead'[q] = phead[q] /\ pn'[q] = pn[q]
        /\ ppc'[p] # "await"
        /\ use = "single" => ppc'[p] \notin {"loadtail", "cas_n"}
        /\ use = "batch" => /\ head' <= tail + Capacity
                            /\ ppc'[p] \notin {"loadseq", "cas"}
                            /\ ppc'[p] = "cas_n" => phead'[p] + pn'[p] <= tail + Capacity
<1>5. SUFFICES Kept
  <2>1. \A k \in Window(Floor') : seq'[Index(k)] # k - Capacity + 1
    BY <1>1, <1>2, <1>3
  <2>2. \A q \in Producers : ppc'[q] # "await"
    BY <1>4, <1>5
  <2>3. use = "single" => \A q \in Producers : ppc'[q] \notin {"loadtail", "cas_n"}
    BY <1>4, <1>5
  <2>4. use = "batch" => \A q \in Producers : /\ ppc'[q] \notin {"loadseq", "cas"}
                                              /\ ppc'[q] = "cas_n" => phead'[q] + pn'[q] <= tail + Capacity
    BY <1>4, <1>5
  <2>5. (\A k \in Window(Floor) : seq[Index(k)] # k - Capacity + 1)'
    BY <2>1 DEF Window, Index
  <2> QED BY <1>2, <1>4, <1>5, <2>2, <2>3, <2>4, <2>5 DEF MpscUseInv
<1>6. /\ ppc \in [Producers -> {"idle", "loadseq", "cas", "loadtail", "cas_n", "await", "write", "publish"}]
      /\ phead \in [Producers -> Nat] /\ pn \in [Producers -> Nat]
  BY <1>1, RingTypesFacts
<1>7. CASE PushLoadHead(p)
  BY <1>4, <1>6, <1>7 DEF PushLoadHead, segmentVars
<1>8. CASE PushLoadSeq(p)
  <2>1. CASE ResetFrame(p)
    BY <1>1, <1>4, <1>8, <2>1, ResetTypes DEF PushLoadSeq, segmentVars
  <2>2. CASE ~ResetFrame(p)
    BY <1>4, <1>6, <1>8, <2>2 DEF PushLoadSeq, segmentVars
  <2> QED BY <2>1, <2>2
<1>9. CASE PushCas(p)
  BY <1>4, <1>6, <1>9 DEF PushCas, Claimed
<1>10. ASSUME NEW size \in Batches, BatchLoadHead(p, size) PROVE Kept
  BY <1>4, <1>6, <1>10 DEF BatchLoadHead, segmentVars
<1>11. CASE BatchLoadTail(p)
  <2>1. ppc[p] = "loadtail" /\ head' = head
    BY <1>11 DEF BatchLoadTail, segmentVars
  <2>2. use = "batch"
    BY <1>4, <2>1
  <2>3. phead[p] <= tail + Capacity /\ tail <= F
    <3>1. phead[p] <= head /\ phead[p] \in Nat
      BY <1>1, <1>6 DEF RingInv, LookInv
    <3> QED BY <1>1, <1>4, <2>2, <3>1, MpscFacts, SegmentAssumption
  <2>4. ppc'[p] = "cas_n" => phead'[p] + pn'[p] <= tail + Capacity
    BY <1>1, <1>11, <2>3, BatchLoadTailInv
  <2>5. CASE ResetFrame(p)
    BY <1>1, <1>4, <2>1, <2>2, <2>5, ResetTypes
  <2>6. CASE ~ResetFrame(p)
    BY <1>4, <1>6, <1>11, <2>1, <2>2, <2>4, <2>6 DEF BatchLoadTail
  <2> QED BY <2>5, <2>6
<1>12. CASE BatchCasTo(p, "write")
  BY <1>4, <1>6, <1>12 DEF BatchCasTo, Claimed
<1>13. CASE PushWrite(p)
  BY <1>4, <1>6, <1>13 DEF PushWrite
<1>14. CASE PushPublishTo(p, "write")
  <2>1. CASE ResetFrame(p)
    BY <1>1, <1>4, <1>14, <2>1, ResetTypes DEF PushPublishTo
  <2>2. CASE ~ResetFrame(p)
    BY <1>4, <1>6, <1>14, <2>2 DEF PushPublishTo
  <2> QED BY <2>1, <2>2
<1> QED BY <1>7, <1>8, <1>9, <1>10, <1>11, <1>12, <1>13, <1>14 DEF ProducerStep

(* A push into an Mpsc ring keeps the invariant.                               *)
LEMMA MpscProducerInv ==
  ASSUME Capacity > 1, MpscInv, NEW p \in Producers, Mpsc!StartPush(p) \/ Mpsc!TryPush(p), cons' = cons
  PROVE  MpscInv'
<1>1. ProducerStep(p, "write") /\ ~Mpmc!BatchAwait(p)
  BY MpscProducerStep
<1> PICK F \in Nat : F = Floor
  BY MpscFacts
<1> PICK G \in Nat : G = IF cons.pc = "release" THEN Floor + 1 ELSE Floor
  BY MpscFacts
<1>2. /\ Floor = F /\ RingInv(F) /\ RingTypes /\ tail \in Nat /\ head \in Nat /\ tail <= F /\ G <= head
      /\ MpscUseInv /\ MpscConsInv /\ TakenInv(G)
  <2>1. TakenInv(G)
    BY DEF MpscInv, MpscTakenInv
  <2> QED BY <2>1, MpscFacts, RingOfFloor DEF MpscInv
<1>3. /\ UNCHANGED <<tail, taken, use>> /\ head' \in Nat /\ head <= head' /\ \A k \in 1..head : order'[k] = order[k]
      /\ \A k \in Window(F) : seq'[Index(k)] = seq[Index(k)] \/ (seq[Index(k)] = k /\ seq'[Index(k)] = k + 1)
  BY <1>1, <1>2, ProducerEffect
<1>4. Floor' = F /\ G = IF cons'.pc = "release" THEN Floor' + 1 ELSE Floor'
  BY <1>2, <1>3 DEF Floor
<1>5. RingInv(Floor)'
  <2>1. \A k \in Window(F) : seq[Index(k)] # k - Capacity + 1
    BY <1>2 DEF MpscUseInv, Window
  <2>2. ppc[p] = "loadtail" => phead[p] <= tail + Capacity
    <3>1. phead[p] <= head /\ phead[p] \in Nat
      BY <1>2, RingTypesFacts DEF RingInv, LookInv
    <3>2. ppc[p] = "loadtail" => head <= tail + Capacity
      BY <1>2 DEF MpscUseInv
    <3> QED BY <1>2, <3>1, <3>2, SegmentAssumption
  <2>3. RingInv(F)'
    BY <1>1, <1>2, <2>1, <2>2, ProducerStepInv
  <2> QED BY <1>4, <2>3, RingAtFloor
<1>6. MpscTakenInv'
  <2>1. TakenInv(G)'
    BY <1>2, <1>3, TakenKept
  <2> QED BY <1>4, <2>1 DEF MpscTakenInv, TakenInv
<1>7. MpscConsInv'
  <2>1. ASSUME cons.pc \in {"read", "release"} PROVE Floor < head' /\ seq'[Index(Floor)] = Floor + 1
    <3>1. cons.i < cons.n /\ Floor < head /\ seq[Index(Floor)] = Floor + 1
      BY <1>2, <2>1 DEF MpscConsInv
    <3>2. F \in Window(F)
      BY SegmentAssumption DEF Window
    <3> QED BY <1>2, <1>3, <3>1, <3>2
  <2>2. cons'.pc \in {"read", "release"} => cons'.i < cons'.n /\ Floor' < head' /\ seq'[Index(Floor')] = Floor' + 1
    BY <1>2, <1>4, <2>1 DEF MpscConsInv
  <2> QED BY <1>2, <2>2 DEF MpscConsInv, Index
<1> QED BY <1>1, <1>5, <1>6, <1>7, MpscUseKept DEF MpscInv

(* A step of the consumer that touches only its frame, and not the place it is at. *)
LEMMA MpscFrameStep ==
  ASSUME MpscInv, MpscConsInv', UNCHANGED <<segmentVars, producerVars, taken, use>>, cons'.i = cons.i,
         cons.pc # "release", cons'.pc # "release"
  PROVE  MpscInv'
<1> USE DEF segmentVars, producerVars
<1>1. Floor' = Floor
  BY DEF Floor
<1>2. RingInv(Floor)'
  BY <1>1 DEF MpscInv, RingInv, RingTypes, RingTypeOK, WindowInv, SlotInv, OwnedInv, LookInv, Window, InFlight, Ticket
<1>3. MpscUseInv'
  BY <1>1 DEF MpscInv, MpscUseInv, Window
<1>4. MpscTakenInv'
  BY <1>1 DEF MpscInv, MpscTakenInv, TakenInv
<1> QED BY <1>2, <1>3, <1>4 DEF MpscInv

(* The start of a tryPop keeps the invariant.                                  *)
LEMMA MpscStartPopInv == ASSUME MpscInv, Mpsc!StartPop PROVE MpscInv'
<1>0. cons \in MpscFrame /\ cons.pc = "idle" /\ cons.i = 0 /\ UNCHANGED <<segmentVars, producerVars, taken, use>>
  BY DEF MpscInv, MpscConsInv, Mpsc!StartPop, Mpsc!segmentVars, Mpsc!producerVars, segmentVars, producerVars
<1>1. \A size \in PopSizes : Mpsc!Least(size, Mpsc!Sub(head, tail)) \in Nat
  <2>1. Mpsc!Sub(head, tail) \in Nat
    <3>1. head - tail \in Int /\ Word \in Nat \ {0}
      BY MpscFacts, RingAssumption, SegmentAssumption
    <3> QED BY <3>1 DEF Mpsc!Sub
  <2> QED BY <2>1, RingAssumption DEF Mpsc!Least
<1>2. PICK n \in Nat : cons' = [cons EXCEPT !.pc = "check", !.n = n]
  BY <1>1 DEF Mpsc!StartPop
<1>3. cons' \in MpscFrame /\ cons'.pc = "check" /\ cons'.i = 0 /\ cons'.n = n
  BY <1>0, <1>2 DEF MpscFrame
<1>4. MpscConsInv'
  BY <1>3 DEF MpscConsInv
<1> QED BY <1>0, <1>3, <1>4, MpscFrameStep

(* The look at the sequence number of the next slot keeps the invariant.       *)
LEMMA MpscPopCheckInv == ASSUME MpscInv, Mpsc!PopCheck PROVE MpscInv'
<1> DEFINE go == IF cons.i < cons.n /\ seq[Index(Floor)] = Floor + 1 THEN "read" ELSE "finish"
<1>0. /\ cons \in MpscFrame /\ cons.i <= cons.n /\ cons.pc = "check"
      /\ UNCHANGED <<segmentVars, producerVars, taken, use>>
      /\ cons' = [cons EXCEPT !.pc = go]
  BY DEF MpscInv, MpscConsInv, Mpsc!PopCheck, Mpsc!segmentVars, Mpsc!producerVars, segmentVars, producerVars, Floor,
         Mpsc!Index, Index
<1>1. cons' \in MpscFrame /\ cons'.pc = go /\ cons'.i = cons.i /\ cons'.n = cons.n
  BY <1>0 DEF MpscFrame
<1>2. Floor' = Floor /\ head' = head /\ seq' = seq
  BY <1>0, <1>1 DEF Floor, segmentVars
<1>3. seq[Index(Floor)] = Floor + 1 => Floor < head
  <2>1. Floor \in Window(Floor)
    BY MpscFacts, SegmentAssumption DEF Window
  <2> QED BY <2>1 DEF MpscInv, RingInv, SlotInv
<1>4. MpscConsInv'
  BY <1>0, <1>1, <1>2, <1>3 DEF MpscConsInv
<1> QED BY <1>0, <1>1, <1>4, MpscFrameStep

(* The element read is the one of its ticket: no producer writes its slot.    *)
LEMMA MpscPopReadInv == ASSUME MpscInv, Mpsc!PopRead PROVE MpscInv'
<1> PICK F \in Nat : F = Floor
  BY MpscFacts
<1>0. /\ F = Floor /\ RingInv(F) /\ RingTypes /\ head \in Nat /\ WindowInv(F)
      /\ cons \in MpscFrame /\ cons.pc = "read" /\ cons.i < cons.n /\ F < head /\ seq[Index(F)] = F + 1
  BY MpscFacts, RingOfFloor DEF MpscInv, MpscConsInv, Mpsc!PopRead, RingInv
<1>1. F \in Window(F)
  BY SegmentAssumption DEF Window
<1>2. data[Index(F)] = order[F + 1]
  BY <1>0, <1>1 DEF RingInv, SlotInv
<1>3. ~Mpsc!Racing(F)
  <2> SUFFICES ASSUME NEW p \in Producers, ppc[p] = "write", Index(Ticket(p)) = Index(F) PROVE FALSE
    BY DEF Mpsc!Racing, Mpsc!Index, Mpsc!Ticket, Index, Ticket
  <2>1. InFlight(p)
    BY DEF InFlight
  <2>2. Ticket(p) \in Window(F) /\ seq[Index(Ticket(p))] # Ticket(p) + 1
    BY <1>0, <2>1, OwnTicket
  <2>3. Ticket(p) = F
    BY <1>1, <2>2, IndexApart
  <2> QED BY <1>0, <2>2, <2>3
<1>4. /\ cons' = [cons EXCEPT !.pc = "release", !.val = order[F + 1]]
      /\ taken' = taken \cup {[ticket |-> F, val |-> order[F + 1], by |-> Mpsc!Consumer]}
      /\ UNCHANGED <<segmentVars, producerVars, use>>
  BY <1>0, <1>2, <1>3 DEF Mpsc!PopRead, Floor, Mpsc!Index, Index, Mpsc!segmentVars, Mpsc!producerVars, segmentVars, producerVars
<1>5. order[F + 1] \in Producers \X Nat
  <2>1. F + 1 \in 1..Len(order) /\ order \in Seq(Producers \X Nat)
    BY <1>0 DEF WindowInv
  <2> QED BY <2>1
<1>6. cons' \in MpscFrame /\ cons'.pc = "release" /\ cons'.i = cons.i /\ cons'.n = cons.n
  BY <1>0, <1>4, <1>5 DEF MpscFrame
<1>7. Floor' = F
  BY <1>0, <1>4, <1>6 DEF Floor, segmentVars
<1>8. RingInv(Floor)'
  <2>1. RingInv(F)'
    BY <1>0, <1>4 DEF RingInv, RingTypes, RingTypeOK, WindowInv, SlotInv, OwnedInv, LookInv, InFlight, Ticket, segmentVars, producerVars
  <2> QED BY <1>7, <2>1, RingAtFloor
<1>9. MpscUseInv'
  BY <1>0, <1>4, <1>7 DEF MpscInv, MpscUseInv, Window, segmentVars, producerVars
<1>10. MpscConsInv'
  BY <1>0, <1>4, <1>6, <1>7 DEF MpscInv, MpscConsInv, segmentVars
<1>11. MpscTakenInv'
  <2>1. TakenInv(F)
    BY <1>0 DEF MpscInv, MpscTakenInv
  <2> DEFINE new == [ticket |-> F, val |-> order[F + 1], by |-> Mpsc!Consumer]
  <2>2. new.ticket = F /\ new.val = order[F + 1]
    OBVIOUS
  <2>3. taken' = taken \cup {new} /\ order' = order
    BY <1>4 DEF producerVars
  <2> HIDE DEF new
  <2>4. TakenInv(F + 1)'
    <3>1. ASSUME NEW r \in taken' PROVE r.ticket \in Nat /\ r.ticket < F + 1 /\ r.val = order[r.ticket + 1]
      BY <2>1, <2>2, <2>3 DEF TakenInv
    <3>2. ASSUME NEW r \in taken', NEW s \in taken', s.ticket = r.ticket PROVE s = r
      BY <2>1, <2>2, <2>3, <3>2 DEF TakenInv
    <3>3. ASSUME NEW k \in 0..(F + 1) - 1 PROVE \E r \in taken' : r.ticket = k
      <4>1. CASE k = F
        BY <2>2, <2>3, <4>1
      <4>2. CASE k # F
        BY <2>1, <2>3, <4>2 DEF TakenInv
      <4> QED BY <4>1, <4>2
    <3> QED BY <2>3, <3>1, <3>2, <3>3 DEF TakenInv
  <2> QED BY <1>6, <1>7, <2>4 DEF MpscTakenInv, TakenInv
<1> QED BY <1>8, <1>9, <1>10, <1>11 DEF MpscInv

(* The oldest place of the window is given back, for the ticket one lap later. *)
LEMMA GiveBackFloor ==
  ASSUME Capacity > 1, NEW F \in Nat, RingInv(F), F < head, seq[Index(F)] = F + 1,
         seq' = [seq EXCEPT ![Index(F)] = F + Capacity],
         UNCHANGED <<head, tail, data, producerVars>>
  PROVE  /\ RingInv(F + 1)'
         /\ \A k \in Window(F + 1) : \/ k \in Window(F) /\ seq'[Index(k)] = seq[Index(k)]
                                     \/ k = F + Capacity /\ seq'[Index(k)] = k
<1> USE DEF producerVars
<1>0. RingTypes /\ WindowInv(F) /\ SlotInv(F) /\ OwnedInv(F) /\ LookInv(F) /\ head \in Nat /\ head <= MaxTickets
  BY RingTypesFacts DEF RingInv
<1>1. seq \in [Slots -> Int] /\ F \in Window(F) /\ Index(F) \in Slots
  BY <1>0, RingTypesFacts, IndexIn, SegmentAssumption DEF Window
<1>2. ASSUME NEW k \in Window(F), k # F PROVE seq'[Index(k)] = seq[Index(k)]
  <2>1. k \in Nat /\ Index(k) \in Slots
    BY IndexIn, SegmentAssumption DEF Window
  <2> QED BY <1>1, <1>2, <2>1, IndexApart
<1>3. Index(F + Capacity) = Index(F) /\ seq'[Index(F)] = F + Capacity
  BY <1>1, IndexLap
<1>4. ASSUME NEW k \in Window(F + 1) PROVE (k \in Window(F) /\ k # F) \/ k = F + Capacity
  BY SegmentAssumption DEF Window
<1>5. RingTypes'
  <2>1. F + Capacity \in 0..MaxTickets + Capacity
    BY <1>0, SegmentAssumption
  <2>2. seq' \in [Slots -> 0..MaxTickets + Capacity]
    BY <1>0, <2>1 DEF RingTypes, RingTypeOK
  <2> QED BY <1>0, <2>2 DEF RingTypes, RingTypeOK
<1>6. WindowInv(F + 1)'
  BY <1>0, SegmentAssumption DEF WindowInv
<1>7. SlotInv(F + 1)'
  <2> SUFFICES ASSUME NEW k \in Window(F + 1)
               PROVE  /\ seq'[Index(k)] \in {k - Capacity + 1, k, k + 1}
                      /\ seq'[Index(k)] = k + 1 => k < head /\ data[Index(k)] = order[k + 1]
    BY DEF SlotInv, Index
  <2>1. CASE k \in Window(F) /\ k # F
    BY <1>0, <1>2, <2>1 DEF SlotInv
  <2>2. CASE k = F + Capacity
    BY <1>3, <2>2, SegmentAssumption
  <2> QED BY <1>4, <2>1, <2>2
<1>8. OwnedInv(F + 1)'
  <2> SUFFICES ASSUME NEW q \in Producers, InFlight(q)
               PROVE  /\ pi[q] < pn[q] /\ phead[q] + pn[q] <= head /\ F + 1 <= Ticket(q)
                      /\ \A k \in Ticket(q)..phead[q] + pn[q] - 1 : order[k + 1] = Element(q, k) /\ seq'[Index(k)] # k + 1
                      /\ ppc[q] \in {"write", "publish"} => seq'[Index(Ticket(q))] = Ticket(q)
                      /\ ppc[q] = "publish" => data[Index(Ticket(q))] = Element(q, Ticket(q))
    BY DEF OwnedInv, Ticket, InFlight, Index
  <2>1. /\ pi[q] < pn[q] /\ phead[q] + pn[q] <= head /\ F <= Ticket(q)
        /\ \A k \in Ticket(q)..phead[q] + pn[q] - 1 : order[k + 1] = Element(q, k) /\ seq[Index(k)] # k + 1
        /\ ppc[q] \in {"write", "publish"} => seq[Index(Ticket(q))] = Ticket(q)
        /\ ppc[q] = "publish" => data[Index(Ticket(q))] = Element(q, Ticket(q))
    BY <1>0 DEF OwnedInv
  <2>2. /\ Ticket(q) \in Nat /\ Ticket(q) # F /\ phead[q] \in Nat /\ pn[q] \in Nat
        /\ Ticket(q) \in Ticket(q)..phead[q] + pn[q] - 1
    BY OwnTicket
  <2>3. F + 1 <= Ticket(q)
    BY <2>1, <2>2
  <2>4. head <= F + Capacity
    BY <1>0 DEF WindowInv
  <2>5. ASSUME NEW k \in Ticket(q)..phead[q] + pn[q] - 1 PROVE seq'[Index(k)] = seq[Index(k)]
    <3>1. k \in Window(F) /\ k # F
      BY <1>0, <2>1, <2>2, <2>3, <2>4, SegmentAssumption DEF Window
    <3> QED BY <1>2, <3>1
  <2> QED BY <2>1, <2>2, <2>3, <2>5
<1>9. LookInv(F + 1)'
  <2> SUFFICES ASSUME NEW q \in Producers
               PROVE  /\ phead[q] <= head
                      /\ ~InFlight(q) => pi[q] = 0
                      /\ ppc[q] = "cas" => /\ phead[q] < F + 1 + Capacity
                                           /\ phead[q] = head => seq'[Index(phead[q])] = phead[q]
                      /\ ppc[q] = "cas_n" => pn[q] > 0 /\ phead[q] + pn[q] <= F + 1 + Capacity
    BY DEF LookInv, InFlight, Index
  <2>1. /\ phead[q] <= head
        /\ ~InFlight(q) => pi[q] = 0
        /\ ppc[q] = "cas" => /\ phead[q] < F + Capacity
                             /\ phead[q] = head => seq[Index(phead[q])] = phead[q]
        /\ ppc[q] = "cas_n" => pn[q] > 0 /\ phead[q] + pn[q] <= F + Capacity
    BY <1>0 DEF LookInv
  <2>2. phead[q] \in Nat /\ pn[q] \in Nat
    BY <1>0, RingTypesFacts
  <2>3. ASSUME ppc[q] = "cas", phead[q] = head PROVE seq'[Index(head)] = seq[Index(head)]
    <3>1. head \in Window(F) /\ head # F
      BY <1>0, <2>1, <2>3, SegmentAssumption DEF Window
    <3> QED BY <1>2, <3>1
  <2> QED BY <2>1, <2>2, <2>3, SegmentAssumption
<1>10. ASSUME NEW k \in Window(F + 1)
       PROVE  \/ k \in Window(F) /\ seq'[Index(k)] = seq[Index(k)]
              \/ k = F + Capacity /\ seq'[Index(k)] = k
  BY <1>2, <1>3, <1>4
<1> QED BY <1>5, <1>6, <1>7, <1>8, <1>9, <1>10 DEF RingInv

(* Giving a slot back keeps the invariant: the window moves on by one ticket.  *)
LEMMA MpscPopReleaseInv == ASSUME Capacity > 1, MpscInv, Mpsc!PopRelease PROVE MpscInv'
<1> PICK F \in Nat : F = Floor
  BY MpscFacts
<1>0. /\ F = Floor /\ RingInv(F) /\ cons \in MpscFrame /\ cons.pc = "release" /\ cons.i < cons.n
      /\ cons.i \in Nat /\ cons.n \in Nat /\ tail \in Nat
      /\ F < head /\ seq[Index(F)] = F + 1 /\ MpscUseInv /\ TakenInv(F + 1)
  BY MpscFacts, RingOfFloor DEF MpscInv, MpscConsInv, Mpsc!PopRelease, MpscTakenInv
<1>1. /\ seq' = [seq EXCEPT ![Index(F)] = F + Capacity]
      /\ cons' = [cons EXCEPT !.pc = "check", !.i = cons.i + 1, !.val = Free]
      /\ UNCHANGED <<head, tail, data, producerVars, taken, use>>
  BY <1>0 DEF Mpsc!PopRelease, Mpsc!Index, Index, Floor, Mpsc!producerVars, producerVars
<1>2. cons' \in MpscFrame /\ cons'.pc = "check" /\ cons'.i = cons.i + 1 /\ cons'.n = cons.n
  <2>1. cons.i + 1 \in Nat /\ Free \in (Producers \X Nat) \cup {Free, Torn}
    BY <1>0
  <2> QED BY <1>0, <1>1, <2>1 DEF MpscFrame
<1>3. Floor' = F + 1
  BY <1>0, <1>1, <1>2 DEF Floor
<1>4. /\ RingInv(F + 1)'
      /\ \A k \in Window(F + 1) : \/ k \in Window(F) /\ seq'[Index(k)] = seq[Index(k)]
                                  \/ k = F + Capacity /\ seq'[Index(k)] = k
  BY <1>0, <1>1, GiveBackFloor
<1>5. RingInv(Floor)'
  BY <1>3, <1>4, RingAtFloor
<1>6. MpscConsInv'
  BY <1>0, <1>2 DEF MpscConsInv
<1>7. MpscUseInv'
  <2>1. ASSUME NEW k \in Window(F + 1) PROVE seq'[Index(k)] # k - Capacity + 1
    <3>1. CASE k \in Window(F) /\ seq'[Index(k)] = seq[Index(k)]
      BY <1>0, <3>1 DEF MpscUseInv, Window
    <3>2. CASE k = F + Capacity /\ seq'[Index(k)] = k
      BY <3>2, SegmentAssumption
    <3> QED BY <1>4, <3>1, <3>2
  <2>2. (\A k \in Window(Floor) : seq[Index(k)] # k - Capacity + 1)'
    BY <1>3, <2>1 DEF Window, Index
  <2> QED BY <1>0, <1>1, <2>2 DEF MpscUseInv, producerVars
<1>8. MpscTakenInv'
  <2>2. TakenInv(F + 1)'
    BY <1>0, <1>1 DEF TakenInv, producerVars
  <2> QED BY <1>2, <1>3, <2>2 DEF MpscTakenInv, TakenInv
<1> QED BY <1>5, <1>6, <1>7, <1>8 DEF MpscInv

(* Storing _tail after the last slot was given back keeps the invariant.       *)
LEMMA MpscPopFinishInv == ASSUME MpscInv, Mpsc!PopFinish PROVE MpscInv'
<1>0. /\ cons.pc = "finish" /\ tail' = Floor /\ cons'.pc = "idle" /\ cons'.i = 0 /\ cons'.n = 0 /\ cons' \in MpscFrame
      /\ UNCHANGED <<head, seq, data, producerVars, taken, use>>
  BY DEF Mpsc!PopFinish, Mpsc!IdleConsumer, Floor, MpscFrame, Mpsc!producerVars, producerVars
<1>1. Floor \in Nat /\ Floor <= head /\ tail <= Floor /\ RingTypes /\ head \in Nat /\ head <= MaxTickets /\ tail \in Nat
  BY MpscFacts, RingTypesFacts
<1>2. Floor' = Floor
  BY <1>0, <1>1 DEF Floor
<1>3. RingTypes'
  BY <1>0, <1>1, SegmentAssumption DEF RingTypes, RingTypeOK, producerVars
<1>4. RingInv(Floor)'
  BY <1>0, <1>2, <1>3 DEF MpscInv, RingInv, WindowInv, SlotInv, OwnedInv, LookInv, Window, InFlight, Ticket, producerVars
<1>5. MpscConsInv'
  BY <1>0 DEF MpscConsInv
<1>6. MpscUseInv'
  <2>1. (\A k \in Window(Floor) : seq[Index(k)] # k - Capacity + 1)'
    BY <1>0, <1>2 DEF MpscInv, MpscUseInv, Window
  <2>2. use = "batch" => head <= Floor + Capacity /\ \A p \in Producers : ppc[p] = "cas_n" => phead[p] + pn[p] <= Floor + Capacity
    <3>1. use = "batch" => /\ head <= tail + Capacity
                           /\ \A p \in Producers : ppc[p] = "cas_n" => phead[p] + pn[p] <= tail + Capacity
      BY DEF MpscInv, MpscUseInv
    <3>2. \A p \in Producers : phead[p] \in Nat /\ pn[p] \in Nat
      BY <1>1, RingTypesFacts
    <3> QED BY <1>1, <3>1, <3>2, SegmentAssumption
  <2> QED BY <1>0, <2>1, <2>2 DEF MpscInv, MpscUseInv, producerVars
<1>7. MpscTakenInv'
  BY <1>0, <1>2 DEF MpscInv, MpscTakenInv, TakenInv, producerVars
<1> QED BY <1>4, <1>5, <1>6, <1>7 DEF MpscInv

-----------------------------------------------------------------------------
(* Mpmc.                                                                    *)

(* The ring invariant in the next state, at a known value of _tail.            *)
LEMMA RingAtTail == ASSUME NEW F \in Nat, tail' = F, RingInv(F)' PROVE RingInv(tail)'
BY DEF RingInv, WindowInv, SlotInv, OwnedInv, LookInv, Window

(* The ring invariant at the value of _tail.                                   *)
LEMMA RingOfTail == ASSUME NEW F \in Nat, tail = F, RingInv(tail) PROVE RingInv(F)
BY DEF RingInv, WindowInv, SlotInv, OwnedInv, LookInv, Window

(* What the invariant of Mpmc gives the proofs below.                          *)
LEMMA MpmcFacts ==
  ASSUME MpmcInv
  PROVE  /\ tail \in Nat /\ head \in Nat /\ tail <= head /\ head <= tail + Capacity /\ head <= MaxTickets
         /\ RingTypes /\ WindowInv(tail) /\ SlotInv(tail)
<1>1. RingTypes /\ WindowInv(tail) /\ SlotInv(tail)
  BY DEF MpmcInv, RingInv
<1> QED BY <1>1, RingTypesFacts DEF WindowInv

(* The fields of a consumer's frame.                                           *)
LEMMA FrameFacts ==
  ASSUME NEW f \in Frame
  PROVE  f.tail \in Nat /\ f.size \in Nat /\ f.n \in Nat /\ f.i \in Nat /\ Len(f.vals) \in Nat
         /\ f.vals \in Seq((Producers \X Nat) \cup {Free, Torn})
<1>1. f.vals \in Seq((Producers \X Nat) \cup {Free, Torn}) /\ f.tail \in Nat /\ f.size \in Nat /\ f.n \in Nat /\ f.i \in Nat
  BY DEF Frame
<1>2. Len(f.vals) \in Nat
  BY <1>1
<1> QED BY <1>1, <1>2

(* Copies stay good as long as published elements stay where they are.        *)
LEMMA CopyKept ==
  ASSUME MpmcInv, NEW f \in Frame, CopyInv(f), tail' = tail, head' \in Nat, head <= head',
         \A k \in 1..head : order'[k] = order[k],
         \A k \in Window(tail) : seq[Index(k)] = k + 1 => seq'[Index(k)] = k + 1
  PROVE  CopyInv(f)'
<1>1. /\ tail \in Nat /\ head \in Nat /\ tail <= head /\ head <= tail + Capacity
      /\ Capacity \in Nat \ {0} /\ Len(f.vals) \in Nat /\ f.n \in Nat
  BY MpmcFacts, FrameFacts, SegmentAssumption
<1>2. ASSUME NEW m \in Nat, tail + m < head, seq[Index(tail + m)] = tail + m + 1
      PROVE  seq'[Index(tail + m)] = tail + m + 1
  <2>1. tail + m \in Window(tail)
    BY <1>1, <1>2 DEF Window
  <2> QED BY <1>2, <2>1
<1>3. ASSUME Copied(f) PROVE Copied(f)'
  <2>1. ASSUME NEW j \in 1..Len(f.vals)
        PROVE  seq'[Index(tail + j - 1)] = tail + j /\ f.vals[j] = order'[tail + j]
    <3>1. tail + Len(f.vals) <= head /\ seq[Index(tail + j - 1)] = tail + j /\ f.vals[j] = order[tail + j]
      BY <1>3 DEF Copied
    <3>2. j - 1 \in Nat /\ tail + (j - 1) < head /\ tail + (j - 1) + 1 = tail + j /\ tail + j \in 1..head
      BY <1>1, <3>1
    <3>3. order'[tail + j] = order[tail + j]
      BY <3>2
    <3>4. seq'[Index(tail + (j - 1))] = tail + (j - 1) + 1
      BY <1>2, <3>1, <3>2
    <3> QED BY <3>1, <3>2, <3>3, <3>4
  <2>2. tail + Len(f.vals) <= head'
    BY <1>1, <1>3 DEF Copied
  <2> QED BY <2>1, <2>2 DEF Copied, Index
<1>4. ASSUME f.pc = "copy", f.tail = tail PROVE seq'[Index(tail)] = tail + 1
  <2>1. tail \in Window(tail) /\ seq[Index(tail)] = tail + 1
    BY <1>1, <1>4 DEF CopyInv, Window
  <2> QED BY <2>1
<1>5. ASSUME f.pc \in {"collect", "copy_n"}, f.tail = tail PROVE tail + f.n <= head'
  BY <1>1, <1>5 DEF CopyInv
<1>6. ASSUME f.pc = "copy_n", f.tail = tail PROVE seq'[Index(tail + Len(f.vals))] = tail + Len(f.vals) + 1
  <2>1. Len(f.vals) < f.n /\ tail + f.n <= head /\ seq[Index(tail + Len(f.vals))] = tail + Len(f.vals) + 1
    BY <1>6 DEF CopyInv
  <2>2. tail + Len(f.vals) < head
    BY <1>1, <2>1
  <2> QED BY <1>1, <1>2, <2>1, <2>2
<1> QED BY <1>3, <1>4, <1>5, <1>6 DEF CopyInv, Index

(* The slot of an element popped and not given back is that of the ticket one lap later. *)
LEMMA ReleasingSlot ==
  ASSUME MpmcInv, NEW c \in Consumers, NEW f \in Frame, ReleaseInv(c, f), f.pc = "release",
         NEW j \in f.tail + f.i..f.tail + f.n - 1
  PROVE  /\ j \in Nat /\ j < tail /\ tail <= j + Capacity /\ seq[Index(j)] = j + 1
         /\ j + Capacity \in Window(tail) /\ Index(j + Capacity) = Index(j)
         /\ \E r \in taken : r.ticket = j /\ r.by = c
<1>1. f.tail \in Nat /\ f.n \in Nat /\ f.i \in Nat /\ tail \in Nat /\ f.tail + f.n <= tail /\ Capacity \in Nat \ {0}
  BY FrameFacts, MpmcFacts, SegmentAssumption DEF ReleaseInv
<1>2. tail <= j + Capacity /\ seq[Index(j)] = j + 1 /\ \E r \in taken : r.ticket = j /\ r.by = c
  BY DEF ReleaseInv
<1>3. j \in Nat /\ j < tail
  BY <1>1
<1>4. j + Capacity \in Window(tail)
  BY <1>1, <1>2, <1>3 DEF Window
<1> QED BY <1>2, <1>3, <1>4, IndexLap

(* What a consumer knows of the slots it gives back stays true while they are not touched. *)
LEMMA ReleaseKept ==
  ASSUME MpmcInv, NEW c \in Consumers, NEW f \in Frame, ReleaseInv(c, f), tail' = tail, taken' = taken,
         f.pc = "release" => \A j \in f.tail + f.i..f.tail + f.n - 1 : seq'[Index(j)] = seq[Index(j)]
  PROVE  ReleaseInv(c, f)'
<1> SUFFICES ASSUME f.pc = "release"
             PROVE  /\ f.i < f.n /\ f.tail + f.n <= tail
                    /\ \A j \in f.tail + f.i..f.tail + f.n - 1 :
                          tail <= j + Capacity /\ seq'[Index(j)] = j + 1 /\ \E r \in taken : r.ticket = j /\ r.by = c
  BY DEF ReleaseInv, Index
<1> QED BY DEF ReleaseInv

(* The producers' steps leave the consumers' claims true.                     *)
LEMMA MpmcProducerInv ==
  ASSUME Capacity > 1, MpmcInv, NEW p \in Producers, Mpmc!StartPush(p) \/ Mpmc!TryPush(p), cons' = cons
  PROVE  MpmcInv'
<1>1. ProducerStep(p, "await")
  BY MpmcProducerStep
<1> PICK F \in Nat : F = tail
  BY MpmcFacts
<1>2. /\ tail = F /\ RingInv(F) /\ RingTypes /\ tail \in Nat /\ head \in Nat /\ tail <= head
      /\ head <= tail + Capacity /\ MpmcConsInv /\ TakenInv(F)
  BY MpmcFacts, RingOfTail DEF MpmcInv
<1>3. /\ UNCHANGED <<tail, taken, use>> /\ head' \in Nat /\ head <= head' /\ \A k \in 1..head : order'[k] = order[k]
      /\ \A k \in Window(F) : seq'[Index(k)] = seq[Index(k)] \/ (seq[Index(k)] = k /\ seq'[Index(k)] = k + 1)
  BY <1>1, <1>2, ProducerEffect
<1>4. RingInv(tail)'
  <2>1. phead[p] <= tail + Capacity
    <3>1. phead[p] <= head /\ phead[p] \in Nat
      BY <1>2, RingTypesFacts DEF RingInv, LookInv
    <3> QED BY <1>2, <3>1, SegmentAssumption
  <2>2. RingInv(F)'
    BY <1>1, <1>2, <2>1, ProducerStepInv
  <2> QED BY <1>2, <1>3, <2>2, RingAtTail
<1>5. TakenInv(tail)'
  <2>1. TakenInv(F)'
    BY <1>2, <1>3, TakenKept
  <2> QED BY <1>2, <1>3, <2>1 DEF TakenInv
<1>6. \A k \in Window(tail) : seq[Index(k)] = k + 1 => seq'[Index(k)] = k + 1
  <2>1. \A k \in Window(F) : k \in Int
    BY SegmentAssumption DEF Window
  <2> QED BY <1>2, <1>3, <2>1 DEF Window
<1>7. ASSUME NEW c \in Consumers, NEW f, FrameInv(c, f) PROVE FrameInv(c, f)'
  <2>1. f \in Frame /\ f.tail <= tail /\ CopyInv(f) /\ ReleaseInv(c, f) /\ (f.pc # "release" => f.i = 0)
    BY <1>7 DEF FrameInv
  <2>2. CopyInv(f)'
    BY <1>2, <1>3, <1>6, <2>1, CopyKept
  <2>3. ASSUME f.pc = "release", NEW j \in f.tail + f.i..f.tail + f.n - 1 PROVE seq'[Index(j)] = seq[Index(j)]
    <3>1. /\ j \in Nat /\ seq[Index(j)] = j + 1
          /\ j + Capacity \in Window(F) /\ Index(j + Capacity) = Index(j)
      BY <1>2, <2>1, <2>3, ReleasingSlot
    <3>2. seq[Index(j)] # j + Capacity
      BY <3>1, SegmentAssumption
    <3> QED BY <1>3, <3>1, <3>2
  <2>4. ReleaseInv(c, f)'
    BY <1>3, <2>1, <2>3, ReleaseKept
  <2> QED BY <1>3, <2>1, <2>2, <2>4 DEF FrameInv
<1>8. MpmcConsInv'
  BY <1>2, <1>7 DEF MpmcConsInv
<1> QED BY <1>4, <1>5, <1>8 DEF MpmcInv

(* A consumer's step that changes only its frame.                             *)
LEMMA MpmcFrameStep ==
  ASSUME MpmcInv, NEW c \in Consumers, NEW g, FrameInv(c, g), cons' = [cons EXCEPT ![c] = g],
         UNCHANGED <<segmentVars, producerVars, taken, use>>
  PROVE  MpmcInv'
<1> USE DEF segmentVars, producerVars
<1>1. RingInv(tail)'
  BY DEF MpmcInv, RingInv, RingTypes, RingTypeOK, WindowInv, SlotInv, OwnedInv, LookInv, Window, InFlight, Ticket
<1>2. TakenInv(tail)'
  BY DEF MpmcInv, TakenInv
<1>3. ASSUME NEW d \in Consumers, NEW f, FrameInv(d, f) PROVE FrameInv(d, f)'
  BY <1>3 DEF FrameInv, CopyInv, Copied, ReleaseInv, Index
<1>4. /\ cons' = [d \in Consumers |-> cons'[d]]
      /\ \A d \in Consumers : cons'[d] = IF d = c THEN g ELSE cons[d]
  BY DEF MpmcInv, MpmcConsInv
<1>5. MpmcConsInv'
  <2>1. ASSUME NEW d \in Consumers PROVE FrameInv(d, cons'[d])
    BY <1>4 DEF MpmcInv, MpmcConsInv
  <2>2. ASSUME NEW d \in Consumers PROVE FrameInv(d, cons[d])'
    BY <1>3, <2>1
  <2> QED BY <1>4, <2>2 DEF MpmcConsInv
<1> QED BY <1>1, <1>2, <1>5 DEF MpmcInv

(* The invariant of a consumer, in a state where the queue's holds.            *)
LEMMA ConsumerFrame ==
  ASSUME MpmcInv, NEW c \in Consumers
  PROVE  FrameInv(c, cons[c])
BY DEF MpmcInv, MpmcConsInv

(* An idle consumer relies on nothing.                                         *)
LEMMA IdleFrame ==
  ASSUME MpmcInv, NEW c \in Consumers
  PROVE  FrameInv(c, Mpmc!IdleConsumer)
<1> DEFINE g == Mpmc!IdleConsumer
<1>1. g \in Frame /\ g.pc = "idle" /\ g.tail = 0 /\ g.i = 0
  BY DEF Mpmc!IdleConsumer, Frame
<1> HIDE DEF g
<1>2. FrameInv(c, g)
  BY <1>1, MpmcFacts DEF FrameInv, CopyInv, ReleaseInv
<1> QED BY <1>2 DEF g

(* Loading _tail at the start of a tryPop keeps the invariant.                 *)
LEMMA MpmcLoadTailInv == ASSUME MpmcInv, NEW c \in Consumers, Mpmc!PopLoadTail(c) PROVE MpmcInv'
<1> PICK f : f = cons[c]
  OBVIOUS
<1>1. f \in Frame /\ f.i = 0
  BY ConsumerFrame DEF FrameInv, Mpmc!PopLoadTail
<1>2. tail \in Nat
  BY MpmcFacts
<1>3. UNCHANGED <<segmentVars, producerVars, taken, use>>
  BY DEF Mpmc!PopLoadTail, Mpmc!segmentVars, Mpmc!producerVars, segmentVars, producerVars
<1>4. CASE cons' = [cons EXCEPT ![c] = [f EXCEPT !.pc = "check", !.tail = tail]]
  <2> DEFINE g == [f EXCEPT !.pc = "check", !.tail = tail]
  <2>1. g \in Frame /\ g.pc = "check" /\ g.tail = tail /\ g.i = 0
    BY <1>1, <1>2 DEF Frame
  <2> HIDE DEF g
  <2>2. FrameInv(c, g)
    BY <1>2, <2>1 DEF FrameInv, CopyInv, ReleaseInv
  <2>3. cons' = [cons EXCEPT ![c] = g]
    BY <1>4 DEF g
  <2> QED BY <1>3, <2>2, <2>3, MpmcFrameStep
<1>5. ASSUME NEW size \in PopSizes, cons' = [cons EXCEPT ![c] = [f EXCEPT !.pc = "loadhead", !.tail = tail, !.size = size]]
      PROVE  MpmcInv'
  <2> DEFINE g == [f EXCEPT !.pc = "loadhead", !.tail = tail, !.size = size]
  <2>a. size \in Nat
    BY RingAssumption
  <2>1. g \in Frame /\ g.pc = "loadhead" /\ g.tail = tail /\ g.i = 0
    BY <1>1, <1>2, <2>a DEF Frame
  <2> HIDE DEF g
  <2>2. FrameInv(c, g)
    BY <1>2, <2>1 DEF FrameInv, CopyInv, ReleaseInv
  <2>3. cons' = [cons EXCEPT ![c] = g]
    BY <1>5 DEF g
  <2> QED BY <1>3, <2>2, <2>3, MpmcFrameStep
<1> QED BY <1>4, <1>5 DEF Mpmc!PopLoadTail, Mpmc!Goto

(* The look at the sequence number of the first slot keeps the invariant.      *)
LEMMA MpmcPopCheckInv == ASSUME MpmcInv, NEW c \in Consumers, Mpmc!PopCheck(c) PROVE MpmcInv'
<1> PICK f : f = cons[c]
  OBVIOUS
<1>1. f \in Frame /\ f.i = 0 /\ f.tail <= tail /\ f.pc = "check"
  BY ConsumerFrame DEF FrameInv, Mpmc!PopCheck
<1>2. tail \in Nat
  BY MpmcFacts
<1>3. UNCHANGED <<segmentVars, producerVars, taken, use>>
  BY DEF Mpmc!PopCheck, Mpmc!segmentVars, Mpmc!producerVars, segmentVars, producerVars
<1>4. CASE seq[Index(f.tail)] = f.tail + 1 /\ cons' = [cons EXCEPT ![c] = [f EXCEPT !.pc = "copy"]]
  <2> DEFINE g == [f EXCEPT !.pc = "copy"]
  <2>1. g \in Frame /\ g.pc = "copy" /\ g.tail = f.tail /\ g.i = 0
    BY <1>1 DEF Frame
  <2> HIDE DEF g
  <2>2. FrameInv(c, g)
    BY <1>1, <1>4, <2>1 DEF FrameInv, CopyInv, ReleaseInv
  <2>3. cons' = [cons EXCEPT ![c] = g]
    BY <1>4 DEF g
  <2> QED BY <1>3, <2>2, <2>3, MpmcFrameStep
<1>5. CASE cons' = [cons EXCEPT ![c] = Mpmc!IdleConsumer]
  BY <1>3, <1>5, IdleFrame, MpmcFrameStep
<1>6. CASE cons' = [cons EXCEPT ![c] = [f EXCEPT !.tail = tail]]
  <2> DEFINE g == [f EXCEPT !.tail = tail]
  <2>1. g \in Frame /\ g.pc = "check" /\ g.tail = tail /\ g.i = 0
    BY <1>1, <1>2 DEF Frame
  <2> HIDE DEF g
  <2>2. FrameInv(c, g)
    BY <1>2, <2>1 DEF FrameInv, CopyInv, ReleaseInv
  <2>3. cons' = [cons EXCEPT ![c] = g]
    BY <1>6 DEF g
  <2> QED BY <1>3, <2>2, <2>3, MpmcFrameStep
<1> QED BY <1>4, <1>5, <1>6 DEF Mpmc!PopCheck, Mpmc!Goto, Mpmc!Index, Index

(* What is read of a published slot is its ticket's element: no producer writes there. *)
LEMMA PublishedRead ==
  ASSUME MpmcInv, NEW k \in Window(tail), seq[Index(k)] = k + 1, NEW v \in Mpmc!ReadOf(k)
  PROVE  v = order[k + 1] /\ k < head
<1> PICK F \in Nat : F = tail
  BY MpmcFacts
<1>1. RingInv(F) /\ k \in Window(F)
  BY RingOfTail DEF MpmcInv
<1>2. data[Index(k)] = order[k + 1] /\ k < head
  BY <1>1 DEF RingInv, SlotInv
<1>3. ~Mpmc!Racing(k)
  <2> SUFFICES ASSUME NEW p \in Producers, ppc[p] = "write", Index(Ticket(p)) = Index(k) PROVE FALSE
    BY DEF Mpmc!Racing, Mpmc!Index, Mpmc!Ticket, Index, Ticket
  <2>1. InFlight(p)
    BY DEF InFlight
  <2>2. Ticket(p) \in Window(F) /\ seq[Index(Ticket(p))] # Ticket(p) + 1
    BY <1>1, <2>1, OwnTicket
  <2>3. Ticket(p) = k
    BY <1>1, <2>2, IndexApart
  <2> QED BY <2>2, <2>3
<1> QED BY <1>2, <1>3 DEF Mpmc!ReadOf, Mpmc!Index, Index

(* What is read from a slot is an element, Free or Torn.                       *)
LEMMA ReadTyped ==
  ASSUME MpmcInv, NEW k \in Nat, NEW v \in Mpmc!ReadOf(k)
  PROVE  v \in (Producers \X Nat) \cup {Free, Torn}
<1>1. data[Index(k)] \in (Producers \X (0..MaxTickets)) \cup {Free}
  BY IndexIn, MpmcFacts DEF RingTypes
<1>2. data[Index(k)] \in (Producers \X Nat) \cup {Free}
  BY <1>1, SegmentAssumption
<1>3. v = data[Index(k)] \/ v = Torn
  BY DEF Mpmc!ReadOf, Mpmc!Index, Index
<1> QED BY <1>2, <1>3

(* Copying the first element keeps the invariant.                              *)
LEMMA MpmcPopCopyInv == ASSUME MpmcInv, NEW c \in Consumers, Mpmc!PopCopy(c) PROVE MpmcInv'
<1> PICK f : f = cons[c]
  OBVIOUS
<1>1. f \in Frame /\ f.i = 0 /\ f.tail <= tail /\ f.pc = "copy" /\ CopyInv(f) /\ f.tail \in Nat
  BY ConsumerFrame, FrameFacts DEF FrameInv, Mpmc!PopCopy
<1>2. tail \in Nat /\ head \in Nat /\ Capacity \in Nat \ {0}
  BY MpmcFacts, SegmentAssumption
<1>3. UNCHANGED <<segmentVars, producerVars, taken, use>>
  BY DEF Mpmc!PopCopy, Mpmc!segmentVars, Mpmc!producerVars, segmentVars, producerVars
<1>4. PICK v \in Mpmc!ReadOf(f.tail) : cons' = [cons EXCEPT ![c] = [f EXCEPT !.pc = "cas", !.n = 1, !.vals = <<v>>]]
  BY DEF Mpmc!PopCopy, Mpmc!Goto
<1> DEFINE g == [f EXCEPT !.pc = "cas", !.n = 1, !.vals = <<v>>]
<1>5. v \in (Producers \X Nat) \cup {Free, Torn}
  BY <1>1, <1>4, ReadTyped
<1>6. <<v>> \in Seq((Producers \X Nat) \cup {Free, Torn}) /\ Len(<<v>>) = 1 /\ <<v>>[1] = v
  BY <1>5
<1>7. g \in Frame /\ g.pc = "cas" /\ g.tail = f.tail /\ g.i = 0 /\ g.n = 1 /\ g.vals = <<v>>
  BY <1>1, <1>6 DEF Frame
<1> HIDE DEF g
<1>8. ASSUME f.tail = tail PROVE Copied(g)
  <2>1. tail \in Window(tail) /\ seq[Index(tail)] = tail + 1
    BY <1>1, <1>2, <1>8 DEF CopyInv, Window
  <2>2. v = order[tail + 1] /\ tail < head
    BY <1>4, <1>8, <2>1, PublishedRead
  <2>3. \A j \in 1..1 : tail + j - 1 = tail /\ tail + j = tail + 1 /\ j = 1
    BY <1>2
  <2>4. tail + 1 <= head
    BY <1>2, <2>2
  <2> QED BY <1>6, <1>7, <2>1, <2>2, <2>3, <2>4 DEF Copied
<1>9. FrameInv(c, g)
  BY <1>1, <1>6, <1>7, <1>8 DEF FrameInv, CopyInv, ReleaseInv
<1>10. cons' = [cons EXCEPT ![c] = g]
  BY <1>4 DEF g
<1> QED BY <1>3, <1>9, <1>10, MpmcFrameStep

(* Loading _head, to see how many elements there are, keeps the invariant.     *)
LEMMA MpmcLoadHeadInv == ASSUME MpmcInv, NEW c \in Consumers, Mpmc!PopLoadHead(c) PROVE MpmcInv'
<1> PICK f : f = cons[c]
  OBVIOUS
<1>1. f \in Frame /\ f.i = 0 /\ f.tail <= tail /\ f.pc = "loadhead" /\ f.tail \in Nat /\ f.size \in Nat
  BY ConsumerFrame, FrameFacts DEF FrameInv, Mpmc!PopLoadHead
<1>2. tail \in Nat /\ head \in Nat /\ Capacity \in Nat \ {0} /\ tail <= head /\ head < Word /\ Word \in Nat
  BY MpmcFacts, SegmentAssumption, RingAssumption
<1>3. UNCHANGED <<segmentVars, producerVars, taken, use>>
  BY DEF Mpmc!PopLoadHead, Mpmc!segmentVars, Mpmc!producerVars, segmentVars, producerVars
<1> PICK n : n = Mpmc!Least(f.size, Mpmc!Sub(head, f.tail))
  OBVIOUS
<1>4. Mpmc!Sub(head, f.tail) = head - f.tail
  <2>1. head - f.tail \in 0..Word - 1
    BY <1>1, <1>2
  <2>2. \A d \in 0..Word - 1 : d % Word = d
    BY <1>2
  <2> QED BY <2>1, <2>2 DEF Mpmc!Sub
<1>5. n \in Nat /\ n <= head - f.tail
  BY <1>1, <1>2, <1>4 DEF Mpmc!Least
<1>6. CASE cons' = [cons EXCEPT ![c] = Mpmc!IdleConsumer]
  BY <1>3, <1>6, IdleFrame, MpmcFrameStep
<1>7. CASE cons' = [cons EXCEPT ![c] = [f EXCEPT !.pc = "collect", !.n = n, !.vals = <<>>]]
  <2> DEFINE g == [f EXCEPT !.pc = "collect", !.n = n, !.vals = <<>>]
  <2>0. << >> \in Seq((Producers \X Nat) \cup {Free, Torn}) /\ Len(<< >>) = 0
    OBVIOUS
  <2>1. g \in Frame /\ g.pc = "collect" /\ g.tail = f.tail /\ g.i = 0 /\ g.n = n /\ g.vals = <<>>
    BY <1>1, <1>5, <2>0 DEF Frame
  <2> HIDE DEF g
  <2>2. Copied(g)
    BY <1>2, <2>0, <2>1 DEF Copied
  <2>3. FrameInv(c, g)
    BY <1>1, <1>2, <1>5, <2>0, <2>1, <2>2 DEF FrameInv, CopyInv, ReleaseInv
  <2>4. cons' = [cons EXCEPT ![c] = g]
    BY <1>7 DEF g
  <2> QED BY <1>3, <2>3, <2>4, MpmcFrameStep
<1> QED BY <1>6, <1>7 DEF Mpmc!PopLoadHead, Mpmc!Goto

(* The look at the sequence number of a further slot keeps the invariant.      *)
LEMMA MpmcPopCollectInv == ASSUME MpmcInv, NEW c \in Consumers, Mpmc!PopCollect(c) PROVE MpmcInv'
<1> PICK f : f = cons[c]
  OBVIOUS
<1>1. /\ f \in Frame /\ f.i = 0 /\ f.tail <= tail /\ f.pc = "collect" /\ f.tail \in Nat /\ f.n \in Nat
      /\ CopyInv(f) /\ Len(f.vals) \in Nat /\ f.vals \in Seq((Producers \X Nat) \cup {Free, Torn})
  BY ConsumerFrame, FrameFacts DEF FrameInv, Mpmc!PopCollect
<1>2. tail \in Nat
  BY MpmcFacts
<1>3. UNCHANGED <<segmentVars, producerVars, taken, use>>
  BY DEF Mpmc!PopCollect, Mpmc!segmentVars, Mpmc!producerVars, segmentVars, producerVars
<1>4. CASE /\ Len(f.vals) < f.n /\ seq[Index(f.tail + Len(f.vals))] = f.tail + Len(f.vals) + 1
           /\ cons' = [cons EXCEPT ![c] = [f EXCEPT !.pc = "copy_n"]]
  <2> DEFINE g == [f EXCEPT !.pc = "copy_n"]
  <2>1. g \in Frame /\ g.pc = "copy_n" /\ g.tail = f.tail /\ g.i = 0 /\ g.n = f.n /\ g.vals = f.vals
    BY <1>1 DEF Frame
  <2> HIDE DEF g
  <2>2. FrameInv(c, g)
    BY <1>1, <1>4, <2>1 DEF FrameInv, CopyInv, ReleaseInv, Copied
  <2>3. cons' = [cons EXCEPT ![c] = g]
    BY <1>4 DEF g
  <2> QED BY <1>3, <2>2, <2>3, MpmcFrameStep
<1>5. CASE cons' = [cons EXCEPT ![c] = Mpmc!IdleConsumer]
  BY <1>3, <1>5, IdleFrame, MpmcFrameStep
<1>6. CASE f.vals # <<>> /\ cons' = [cons EXCEPT ![c] = [f EXCEPT !.pc = "cas", !.n = Len(f.vals)]]
  <2> DEFINE g == [f EXCEPT !.pc = "cas", !.n = Len(f.vals)]
  <2>0. Len(f.vals) > 0
    BY <1>1, <1>6, EmptySeq
  <2>1. g \in Frame /\ g.pc = "cas" /\ g.tail = f.tail /\ g.i = 0 /\ g.n = Len(f.vals) /\ g.vals = f.vals
    BY <1>1 DEF Frame
  <2> HIDE DEF g
  <2>2. FrameInv(c, g)
    BY <1>1, <2>0, <2>1 DEF FrameInv, CopyInv, ReleaseInv, Copied
  <2>3. cons' = [cons EXCEPT ![c] = g]
    BY <1>6 DEF g
  <2> QED BY <1>3, <2>2, <2>3, MpmcFrameStep
<1> QED BY <1>4, <1>5, <1>6 DEF Mpmc!PopCollect, Mpmc!Goto, Mpmc!Index, Index

(* Copying a further element keeps the invariant.                              *)
LEMMA MpmcPopCopyNextInv == ASSUME MpmcInv, NEW c \in Consumers, Mpmc!PopCopyNext(c) PROVE MpmcInv'
<1> PICK f : f = cons[c]
  OBVIOUS
<1>1. /\ f \in Frame /\ f.i = 0 /\ f.tail <= tail /\ f.pc = "copy_n" /\ f.tail \in Nat /\ f.n \in Nat
      /\ CopyInv(f) /\ Len(f.vals) \in Nat /\ f.vals \in Seq((Producers \X Nat) \cup {Free, Torn})
  BY ConsumerFrame, FrameFacts DEF FrameInv, Mpmc!PopCopyNext
<1>2. tail \in Nat /\ head \in Nat /\ head <= tail + Capacity /\ Capacity \in Nat \ {0}
  BY MpmcFacts, SegmentAssumption
<1>3. UNCHANGED <<segmentVars, producerVars, taken, use>>
  BY DEF Mpmc!PopCopyNext, Mpmc!segmentVars, Mpmc!producerVars, segmentVars, producerVars
<1>4. PICK v \in Mpmc!ReadOf(f.tail + Len(f.vals)) :
        cons' = [cons EXCEPT ![c] = [f EXCEPT !.pc = "collect", !.vals = Append(f.vals, v)]]
  BY DEF Mpmc!PopCopyNext, Mpmc!Goto
<1> DEFINE g == [f EXCEPT !.pc = "collect", !.vals = Append(f.vals, v)]
<1>5. v \in (Producers \X Nat) \cup {Free, Torn}
  BY <1>1, <1>4, ReadTyped
<1>6. /\ Append(f.vals, v) \in Seq((Producers \X Nat) \cup {Free, Torn})
      /\ Len(Append(f.vals, v)) = Len(f.vals) + 1
      /\ \A j \in 1..Len(f.vals) : Append(f.vals, v)[j] = f.vals[j]
      /\ Append(f.vals, v)[Len(f.vals) + 1] = v
  BY <1>1, <1>5
<1>7. g \in Frame /\ g.pc = "collect" /\ g.tail = f.tail /\ g.i = 0 /\ g.n = f.n /\ g.vals = Append(f.vals, v)
  BY <1>1, <1>6 DEF Frame
<1> HIDE DEF g
<1>8. Len(f.vals) < f.n
  BY <1>1 DEF CopyInv
<1>9. ASSUME f.tail = tail PROVE Copied(g) /\ tail + f.n <= head
  <2>1. /\ tail + f.n <= head /\ Copied(f) /\ seq[Index(tail + Len(f.vals))] = tail + Len(f.vals) + 1
    BY <1>1, <1>9 DEF CopyInv
  <2>2. tail + Len(f.vals) \in Window(tail)
    BY <1>1, <1>2, <1>8, <2>1 DEF Window
  <2>3. v = order[tail + Len(f.vals) + 1]
    BY <1>4, <1>9, <2>1, <2>2, PublishedRead
  <2>4. ASSUME NEW j \in 1..Len(f.vals) + 1
        PROVE  seq[Index(tail + j - 1)] = tail + j /\ g.vals[j] = order[tail + j]
    <3>1. CASE j = Len(f.vals) + 1
      <4>1. tail + j - 1 = tail + Len(f.vals) /\ tail + j = tail + Len(f.vals) + 1
        BY <1>1, <1>2, <3>1
      <4> QED BY <1>6, <1>7, <2>1, <2>3, <3>1, <4>1
    <3>2. CASE j # Len(f.vals) + 1
      <4>1. j \in 1..Len(f.vals)
        BY <1>1, <3>2
      <4> QED BY <1>6, <1>7, <2>1, <4>1 DEF Copied
    <3> QED BY <3>1, <3>2
  <2>5. tail + (Len(f.vals) + 1) <= head
    BY <1>1, <1>2, <1>8, <2>1
  <2> QED BY <1>6, <1>7, <2>1, <2>4, <2>5 DEF Copied
<1>10. Len(g.vals) <= g.n
  BY <1>1, <1>6, <1>7, <1>8
<1>11. FrameInv(c, g)
  BY <1>1, <1>7, <1>9, <1>10 DEF FrameInv, CopyInv, ReleaseInv
<1>12. cons' = [cons EXCEPT ![c] = g]
  BY <1>4 DEF g
<1> QED BY <1>3, <1>11, <1>12, MpmcFrameStep

(* The elements copied are claimed: nobody moved _tail meanwhile, so they are the oldest ones. *)
LEMMA MpmcPopCasInv == ASSUME Capacity > 1, MpmcInv, NEW c \in Consumers, Mpmc!PopCas(c) PROVE MpmcInv'
<1> PICK f : f = cons[c]
  OBVIOUS
<1>1. /\ f \in Frame /\ f.i = 0 /\ f.tail <= tail /\ f.pc = "cas" /\ f.tail \in Nat /\ f.n \in Nat
      /\ CopyInv(f) /\ Len(f.vals) \in Nat /\ f.n = Len(f.vals) /\ f.n > 0
  BY ConsumerFrame, FrameFacts DEF FrameInv, CopyInv, Mpmc!PopCas
<1>2. /\ tail \in Nat /\ head \in Nat /\ head <= tail + Capacity /\ Capacity \in Nat \ {0} /\ head <= MaxTickets
      /\ RingTypes /\ WindowInv(tail) /\ SlotInv(tail) /\ MaxTickets \in Nat
  BY MpmcFacts, SegmentAssumption
<1>3. UNCHANGED <<head, seq, data, producerVars, use>>
  BY DEF Mpmc!PopCas, Mpmc!producerVars, producerVars
<1>4. CASE /\ cons' = [cons EXCEPT ![c] = [f EXCEPT !.pc = IF f.size = 0 THEN "check" ELSE "loadhead", !.tail = tail, !.vals = <<>>, !.n = 0]]
           /\ UNCHANGED <<tail, taken>>
  <2> PICK go \in {"check", "loadhead"} : go = IF f.size = 0 THEN "check" ELSE "loadhead"
    OBVIOUS
  <2> DEFINE g == [f EXCEPT !.pc = go, !.tail = tail, !.vals = <<>>, !.n = 0]
  <2>0. << >> \in Seq((Producers \X Nat) \cup {Free, Torn})
    OBVIOUS
  <2>1. g \in Frame /\ g.pc = go /\ g.tail = tail /\ g.i = 0
    BY <1>1, <1>2, <2>0 DEF Frame
  <2> HIDE DEF g
  <2>2. FrameInv(c, g)
    BY <1>2, <2>1 DEF FrameInv, CopyInv, ReleaseInv
  <2>3. cons' = [cons EXCEPT ![c] = g]
    BY <1>4 DEF g
  <2> QED BY <1>3, <1>4, <2>2, <2>3, MpmcFrameStep DEF segmentVars
<1>5. CASE /\ tail = f.tail /\ tail' = tail + f.n
           /\ taken' = taken \cup {[ticket |-> f.tail + i - 1, val |-> f.vals[i], by |-> c] : i \in 1..f.n}
           /\ cons' = [cons EXCEPT ![c] = [f EXCEPT !.pc = "release", !.vals = <<>>]]
  <2> PICK F \in Nat : F = tail
    BY <1>2
  <2> PICK n \in Nat : n = f.n
    BY <1>1
  <2>0. /\ F = tail /\ RingInv(F) /\ n > 0 /\ TakenInv(F) /\ tail' = F + n /\ SlotInv(F) /\ OwnedInv(F) /\ LookInv(F)
        /\ F \in Window(F)
    BY <1>1, <1>2, <1>5, RingOfTail DEF MpmcInv, RingInv, Window
  <2>1. F + n <= head /\ \A j \in 1..n : seq[Index(F + j - 1)] = F + j /\ f.vals[j] = order[F + j]
    BY <1>1, <1>5 DEF CopyInv, Copied
  <2>2. ASSUME NEW k \in F..F + n - 1 PROVE k \in Window(F) /\ seq[Index(k)] = k + 1
    <3>1. (k - F) + 1 \in 1..n /\ F + ((k - F) + 1) - 1 = k /\ F + ((k - F) + 1) = k + 1
      OBVIOUS
    <3>2. k \in Window(F)
      BY <1>2, <2>0, <2>1 DEF Window
    <3> QED BY <2>1, <3>1, <3>2
  <2>3. RingTypes'
    BY <1>2, <1>3, <2>0, <2>1 DEF RingTypes, RingTypeOK, producerVars
  <2>4. WindowInv(F + n)'
    BY <1>2, <1>3, <2>0, <2>1 DEF WindowInv, producerVars
  <2>5. SlotInv(F + n)'
    <3> SUFFICES ASSUME NEW k \in Window(F + n)
                 PROVE  /\ seq[Index(k)] \in {k - Capacity + 1, k, k + 1}
                        /\ seq[Index(k)] = k + 1 => k < head /\ data[Index(k)] = order[k + 1]
      BY <1>3 DEF SlotInv, Index, producerVars
    <3>1. CASE k \in Window(F)
      BY <2>0, <3>1 DEF SlotInv
    <3>2. CASE k \notin Window(F)
      <4>1. k - Capacity \in F..F + n - 1 /\ k - Capacity \in Nat /\ (k - Capacity) + Capacity = k
        BY <1>2, <3>2 DEF Window
      <4>2. Index(k) = Index(k - Capacity)
        BY <4>1, IndexLap
      <4>3. seq[Index(k)] = k - Capacity + 1
        BY <2>2, <4>1, <4>2
      <4> QED BY <1>2, <4>1, <4>3
    <3> QED BY <3>1, <3>2
  <2>6. OwnedInv(F + n)'
    <3>1. ASSUME NEW q \in Producers, InFlight(q) PROVE F + n <= Ticket(q)
      <4>1. Ticket(q) \in Nat /\ F <= Ticket(q) /\ seq[Index(Ticket(q))] # Ticket(q) + 1
        BY <2>0, <3>1, OwnTicket DEF OwnedInv
      <4>2. ~(Ticket(q) \in F..F + n - 1)
        BY <2>2, <4>1
      <4> QED BY <4>1, <4>2
    <3> QED BY <1>3, <2>0, <3>1 DEF OwnedInv, Ticket, InFlight, producerVars
  <2>7. LookInv(F + n)'
    <3>1. \A q \in Producers : phead[q] \in Nat /\ pn[q] \in Nat
      BY <1>2, RingTypesFacts
    <3> QED BY <1>2, <1>3, <2>0, <3>1 DEF LookInv, InFlight, producerVars
  <2>8. RingInv(tail)'
    <3>1. RingInv(F + n)'
      BY <2>3, <2>4, <2>5, <2>6, <2>7 DEF RingInv
    <3>2. F + n \in Nat
      OBVIOUS
    <3> QED BY <2>0, <3>1, <3>2, RingAtTail
  <2> DEFINE new(i) == [ticket |-> F + i - 1, val |-> f.vals[i], by |-> c]
  <2>9. taken' = taken \cup {new(i) : i \in 1..n}
    BY <1>5, <2>0
  <2>10. \A i \in 1..n : new(i).ticket = F + i - 1 /\ new(i).val = f.vals[i] /\ new(i).by = c
    OBVIOUS
  <2>11. TakenInv(tail)'
    <3>1. \A r \in taken : r.ticket \in Nat /\ r.ticket < F /\ r.val = order[r.ticket + 1] /\ \A s \in taken : s.ticket = r.ticket => s = r
      BY <2>0 DEF TakenInv
    <3>2. \A i \in 1..n : /\ new(i).ticket \in Nat /\ new(i).ticket < F + n /\ new(i).ticket >= F
                          /\ new(i).val = order[new(i).ticket + 1]
      <4> SUFFICES ASSUME NEW i \in 1..n
                   PROVE  /\ new(i).ticket \in Nat /\ new(i).ticket < F + n /\ new(i).ticket >= F
                          /\ new(i).val = order[new(i).ticket + 1]
        OBVIOUS
      <4>1. new(i).ticket = F + i - 1 /\ new(i).val = f.vals[i]
        OBVIOUS
      <4>2. f.vals[i] = order[F + i]
        BY <2>1
      <4>3. F + i - 1 \in Nat /\ F + i - 1 < F + n /\ F + i - 1 >= F /\ (F + i - 1) + 1 = F + i
        OBVIOUS
      <4> QED BY <4>1, <4>2, <4>3
    <3>3. \A i, j \in 1..n : new(i).ticket = new(j).ticket => new(i) = new(j)
      <4> SUFFICES ASSUME NEW i \in 1..n, NEW j \in 1..n, new(i).ticket = new(j).ticket PROVE new(i) = new(j)
        OBVIOUS
      <4>1. F + i - 1 = F + j - 1
        OBVIOUS
      <4>2. i = j
        BY <4>1
      <4> QED BY <4>2
    <3>4. \A k \in F..F + n - 1 : \E i \in 1..n : new(i).ticket = k
      <4> SUFFICES ASSUME NEW k \in F..F + n - 1 PROVE \E i \in 1..n : new(i).ticket = k
        OBVIOUS
      <4>1. (k - F) + 1 \in 1..n /\ F + ((k - F) + 1) - 1 = k
        OBVIOUS
      <4>2. new((k - F) + 1).ticket = k
        BY <4>1
      <4> QED BY <4>1, <4>2
    <3> HIDE DEF new
    <3>5. ASSUME NEW r \in taken' PROVE r.ticket \in Nat /\ r.ticket < F + n /\ r.val = order[r.ticket + 1]
      BY <2>9, <3>1, <3>2
    <3>6. ASSUME NEW r \in taken', NEW s \in taken', s.ticket = r.ticket PROVE s = r
      BY <2>9, <3>1, <3>2, <3>3, <3>6
    <3>7. ASSUME NEW k \in 0..(F + n) - 1 PROVE \E r \in taken' : r.ticket = k
      <4>1. CASE k < F
        BY <2>0, <2>9, <4>1 DEF TakenInv
      <4>2. CASE k >= F
        <5>1. k \in F..F + n - 1
          BY <4>2
        <5> QED BY <2>9, <3>4, <5>1
      <4> QED BY <4>1, <4>2
    <3>8. order' = order
      BY <1>3 DEF producerVars
    <3> QED BY <2>0, <3>5, <3>6, <3>7, <3>8 DEF TakenInv
  <2> DEFINE g == [f EXCEPT !.pc = "release", !.vals = <<>>]
  <2>12. << >> \in Seq((Producers \X Nat) \cup {Free, Torn})
    OBVIOUS
  <2>13. g \in Frame /\ g.pc = "release" /\ g.tail = F /\ g.i = 0 /\ g.n = n
    BY <1>1, <1>5, <2>12 DEF Frame
  <2>14. cons' = [cons EXCEPT ![c] = g]
    BY <1>5
  <2> HIDE DEF g
  <2>15. FrameInv(c, g)'
    <3>1. ASSUME NEW j \in F..F + n - 1
          PROVE  /\ F + n <= j + Capacity /\ seq[Index(j)] = j + 1
                 /\ \E r \in taken' : r.ticket = j /\ r.by = c
      <4>1. (j - F) + 1 \in 1..n /\ F + ((j - F) + 1) - 1 = j
        OBVIOUS
      <4>2. new((j - F) + 1).ticket = j /\ new((j - F) + 1).by = c /\ new((j - F) + 1) \in taken'
        BY <2>9, <4>1
      <4>3. F + n <= j + Capacity
        BY <1>2, <2>0, <2>1
      <4> QED BY <2>2, <4>2, <4>3
    <3>2. ReleaseInv(c, g)'
      BY <1>3, <2>0, <2>13, <3>1 DEF ReleaseInv, Index
    <3>3. CopyInv(g)'
      BY <2>13 DEF CopyInv
    <3> QED BY <2>0, <2>13, <3>2, <3>3 DEF FrameInv
  <2>16. ASSUME NEW d \in Consumers, NEW h, FrameInv(d, h) PROVE FrameInv(d, h)'
    <3>1. h \in Frame /\ h.tail \in Nat /\ h.n \in Nat /\ h.i \in Nat /\ h.tail <= F
          /\ CopyInv(h) /\ ReleaseInv(d, h) /\ (h.pc # "release" => h.i = 0)
      BY <2>0, <2>16, FrameFacts DEF FrameInv
    <3>2. h.tail < tail' /\ h.tail <= tail' /\ h.tail # tail'
      BY <2>0, <3>1
    <3>3. CopyInv(h)'
      BY <3>1, <3>2 DEF CopyInv
    <3>4. ASSUME h.pc = "release", NEW j \in h.tail + h.i..h.tail + h.n - 1
          PROVE  F + n <= j + Capacity /\ seq[Index(j)] = j + 1 /\ \E r \in taken' : r.ticket = j /\ r.by = d
      <4>1. /\ j \in Nat /\ F <= j + Capacity /\ seq[Index(j)] = j + 1 /\ Index(j + Capacity) = Index(j)
            /\ \E r \in taken : r.ticket = j /\ r.by = d
        BY <2>0, <3>1, <3>4, ReleasingSlot
      <4>2. j + Capacity \notin F..F + n - 1
        BY <1>2, <2>2, <4>1
      <4>3. F + n <= j + Capacity
        BY <1>2, <4>1, <4>2
      <4> QED BY <2>9, <4>1, <4>3
    <3>5. h.pc = "release" => h.i < h.n /\ h.tail + h.n <= F
      BY <2>0, <3>1 DEF ReleaseInv
    <3>6. ReleaseInv(d, h)'
      BY <1>3, <2>0, <3>1, <3>4, <3>5 DEF ReleaseInv, Index
    <3> QED BY <3>1, <3>2, <3>3, <3>6 DEF FrameInv
  <2>17. MpmcConsInv'
    <3>1. /\ cons' = [d \in Consumers |-> cons'[d]]
          /\ \A d \in Consumers : cons'[d] = IF d = c THEN g ELSE cons[d]
      BY <2>14 DEF MpmcInv, MpmcConsInv
    <3>2. ASSUME NEW d \in Consumers PROVE FrameInv(d, cons[d])'
      <4>1. CASE d = c
        BY <2>15, <3>1, <4>1
      <4>2. CASE d # c
        BY <2>16, <3>1, <4>2, ConsumerFrame
      <4> QED BY <4>1, <4>2
    <3> QED BY <3>1, <3>2 DEF MpmcConsInv
  <2> QED BY <2>8, <2>11, <2>17 DEF MpmcInv
<1> QED BY <1>4, <1>5 DEF Mpmc!PopCas, Mpmc!Goto

(* A slot is given back to the ticket one lap later; nobody else relies on it. *)
LEMMA MpmcPopReleaseInv == ASSUME Capacity > 1, MpmcInv, NEW c \in Consumers, Mpmc!PopRelease(c) PROVE MpmcInv'
<1> PICK f : f = cons[c]
  OBVIOUS
<1> PICK F \in Nat : F = tail
  BY MpmcFacts
<1>1. /\ f \in Frame /\ f.pc = "release" /\ f.tail \in Nat /\ f.n \in Nat /\ f.i \in Nat /\ f.i < f.n
      /\ ReleaseInv(c, f) /\ f.tail <= tail
  BY ConsumerFrame, FrameFacts DEF FrameInv, ReleaseInv, Mpmc!PopRelease
<1>2. /\ F = tail /\ RingInv(F) /\ head \in Nat /\ Capacity \in Nat \ {0} /\ MaxTickets \in Nat /\ tail <= MaxTickets
      /\ RingTypes /\ WindowInv(F) /\ SlotInv(F) /\ OwnedInv(F) /\ LookInv(F) /\ TakenInv(F)
      /\ seq \in [Slots -> Int]
  <2>1. RingInv(F) /\ TakenInv(F)
    BY RingOfTail DEF MpmcInv
  <2> QED BY <2>1, MpmcFacts, RingTypesFacts, SegmentAssumption DEF RingInv
<1> PICK j \in Nat : j = f.tail + f.i
  BY <1>1
<1> PICK K \in Nat : K = j + Capacity
  BY <1>2
<1>3. /\ seq' = [seq EXCEPT ![Index(j)] = K]
      /\ UNCHANGED <<head, tail, data, producerVars, taken, use>>
      /\ cons' = [cons EXCEPT ![c] = IF f.i + 1 < f.n THEN [f EXCEPT !.i = f.i + 1] ELSE Mpmc!IdleConsumer]
  BY DEF Mpmc!PopRelease, Mpmc!Goto, Mpmc!Index, Index, Mpmc!producerVars, producerVars
<1>4. j \in f.tail + f.i..f.tail + f.n - 1
  BY <1>1
<1>5. /\ j < tail /\ seq[Index(j)] = j + 1 /\ K \in Window(F) /\ Index(K) = Index(j) /\ Index(j) \in Slots
      /\ \E r \in taken : r.ticket = j /\ r.by = c
  BY <1>1, <1>2, <1>4, ReleasingSlot, IndexIn
<1>6. /\ seq'[Index(j)] = K
      /\ \A s \in Slots : s # Index(j) => seq'[s] = seq[s]
  BY <1>2, <1>3, <1>5
<1>7. ASSUME NEW k \in Window(F)
      PROVE  /\ k \in Nat /\ Index(k) \in Slots
             /\ \/ k # K /\ seq'[Index(k)] = seq[Index(k)]
                \/ k = K /\ seq[Index(k)] = k - Capacity + 1 /\ seq'[Index(k)] = k
  <2>1. k \in Nat /\ Index(k) \in Slots
    BY <1>2, IndexIn DEF Window
  <2>2. CASE k = K
    BY <1>2, <1>5, <1>6, <2>1, <2>2
  <2>3. CASE k # K
    BY <1>5, <1>6, <2>1, <2>3, IndexApart
  <2> QED BY <2>1, <2>2, <2>3
<1>8. RingInv(F)'
  <2>1. RingTypes'
    <3>1. K \in 0..MaxTickets + Capacity
      BY <1>2, <1>5
    <3>2. seq' \in [Slots -> 0..MaxTickets + Capacity]
      BY <1>2, <1>3, <3>1 DEF RingTypes, RingTypeOK
    <3> QED BY <1>2, <1>3, <3>2 DEF RingTypes, RingTypeOK, producerVars
  <2>2. WindowInv(F)'
    BY <1>2, <1>3 DEF WindowInv, producerVars
  <2>3. SlotInv(F)'
    <3> SUFFICES ASSUME NEW k \in Window(F)
                 PROVE  /\ seq'[Index(k)] \in {k - Capacity + 1, k, k + 1}
                        /\ seq'[Index(k)] = k + 1 => k < head /\ data[Index(k)] = order[k + 1]
      BY <1>3 DEF SlotInv, producerVars
    <3> QED BY <1>2, <1>7 DEF SlotInv
  <2>4. OwnedInv(F)'
    <3> SUFFICES ASSUME NEW q \in Producers, InFlight(q)
                 PROVE  /\ pi[q] < pn[q] /\ phead[q] + pn[q] <= head /\ F <= Ticket(q)
                        /\ \A k \in Ticket(q)..phead[q] + pn[q] - 1 : order[k + 1] = Element(q, k) /\ seq'[Index(k)] # k + 1
                        /\ ppc[q] \in {"write", "publish"} => seq'[Index(Ticket(q))] = Ticket(q)
                        /\ ppc[q] = "publish" => data[Index(Ticket(q))] = Element(q, Ticket(q))
      BY <1>3 DEF OwnedInv, Ticket, InFlight, producerVars
    <3>1. /\ pi[q] < pn[q] /\ phead[q] + pn[q] <= head /\ F <= Ticket(q)
          /\ \A k \in Ticket(q)..phead[q] + pn[q] - 1 : order[k + 1] = Element(q, k) /\ seq[Index(k)] # k + 1
          /\ ppc[q] \in {"write", "publish"} => seq[Index(Ticket(q))] = Ticket(q)
          /\ ppc[q] = "publish" => data[Index(Ticket(q))] = Element(q, Ticket(q))
      BY <1>2 DEF OwnedInv
    <3>2. Ticket(q) \in Window(F) /\ Ticket(q) \in Nat /\ phead[q] \in Nat /\ pn[q] \in Nat
      BY <1>2, OwnTicket
    <3>3. ASSUME NEW k \in Ticket(q)..phead[q] + pn[q] - 1 PROVE seq'[Index(k)] # k + 1
      <4>1. head <= F + Capacity
        BY <1>2 DEF WindowInv
      <4>2. k \in Window(F)
        BY <1>2, <3>1, <3>2, <4>1 DEF Window
      <4> QED BY <1>7, <3>1, <4>2
    <3>4. seq[Index(Ticket(q))] = Ticket(q) => seq'[Index(Ticket(q))] = Ticket(q)
      BY <1>7, <3>2
    <3> QED BY <3>1, <3>3, <3>4
  <2>5. LookInv(F)'
    <3>1. ASSUME NEW q \in Producers, ppc[q] = "cas", phead[q] = head PROVE seq'[Index(head)] = head
      <4>1. head < F + Capacity /\ seq[Index(head)] = head /\ F <= head
        BY <1>2, <3>1 DEF LookInv, WindowInv
      <4>2. head \in Window(F)
        BY <1>2, <4>1 DEF Window
      <4> QED BY <1>7, <4>1, <4>2
    <3> QED BY <1>2, <1>3, <3>1 DEF LookInv, InFlight, producerVars
  <2> QED BY <2>1, <2>2, <2>3, <2>4, <2>5 DEF RingInv
<1>9. RingInv(tail)'
  BY <1>2, <1>3, <1>8, RingAtTail
<1>10. TakenInv(tail)'
  BY <1>2, <1>3 DEF MpmcInv, TakenInv, producerVars
<1>11. ASSUME NEW d \in Consumers, NEW h, FrameInv(d, h),
              h.pc = "release" => \A m \in h.tail + h.i..h.tail + h.n - 1 : m # j
       PROVE  FrameInv(d, h)'
  <2>1. h \in Frame /\ h.tail <= tail /\ CopyInv(h) /\ ReleaseInv(d, h) /\ (h.pc # "release" => h.i = 0)
    BY <1>11 DEF FrameInv
  <2>2. CopyInv(h)'
    <3>1. \A k \in Window(tail) : seq[Index(k)] = k + 1 => seq'[Index(k)] = k + 1
      BY <1>2, <1>7
    <3>2. order' = order /\ head' = head /\ tail' = tail
      BY <1>3 DEF producerVars
    <3> QED BY <1>2, <2>1, <3>1, <3>2, CopyKept
  <2>3. ASSUME h.pc = "release", NEW m \in h.tail + h.i..h.tail + h.n - 1 PROVE seq'[Index(m)] = seq[Index(m)]
    <3>1. m \in Nat /\ m + Capacity \in Window(F) /\ Index(m + Capacity) = Index(m) /\ m # j
      BY <1>2, <1>11, <2>1, <2>3, ReleasingSlot
    <3>2. m + Capacity # K
      BY <1>2, <3>1
    <3> QED BY <1>7, <3>1, <3>2
  <2>4. ReleaseInv(d, h)'
    BY <1>3, <2>1, <2>3, ReleaseKept
  <2> QED BY <1>3, <2>1, <2>2, <2>4 DEF FrameInv
<1>12. ASSUME NEW d \in Consumers, d # c PROVE FrameInv(d, cons[d])'
  <2>1. cons'[d] = cons[d]
    BY <1>3, <1>12 DEF MpmcInv, MpmcConsInv
  <2>2. FrameInv(d, cons[d])
    BY ConsumerFrame
  <2> PICK h : h = cons[d]
    OBVIOUS
  <2>3. FrameInv(d, h)
    BY <2>2
  <2>4. ASSUME h.pc = "release", NEW m \in h.tail + h.i..h.tail + h.n - 1 PROVE m # j
    <3>1. h \in Frame /\ ReleaseInv(d, h)
      BY <2>3 DEF FrameInv
    <3>2. \E r \in taken : r.ticket = m /\ r.by = d
      BY <2>4, <3>1, ReleasingSlot
    <3>3. \A r, s \in taken : s.ticket = r.ticket => s = r
      BY <1>2 DEF TakenInv
    <3> QED BY <1>5, <1>12, <3>2, <3>3
  <2>5. FrameInv(d, h)'
    BY <1>11, <2>3, <2>4
  <2> QED BY <2>1, <2>5
<1>13. FrameInv(c, cons[c])'
  <2>1. CASE f.i + 1 < f.n
    <3> DEFINE g == [f EXCEPT !.i = f.i + 1]
    <3>0. f.i + 1 \in Nat
      BY <1>1
    <3>1. g \in Frame /\ g.pc = "release" /\ g.tail = f.tail /\ g.n = f.n /\ g.i = f.i + 1
      BY <1>1, <3>0 DEF Frame
    <3>2. cons'[c] = g
      BY <1>3, <2>1 DEF MpmcInv, MpmcConsInv
    <3> HIDE DEF g
    <3>3. FrameInv(c, g)
      <4>1. \A m \in g.tail + g.i..g.tail + g.n - 1 : m \in f.tail + f.i..f.tail + f.n - 1
        BY <1>1, <3>1
      <4>2. ReleaseInv(c, g)
        BY <1>1, <2>1, <3>1, <4>1 DEF ReleaseInv
      <4> QED BY <1>1, <3>1, <4>2 DEF FrameInv, CopyInv
    <3>4. \A m \in g.tail + g.i..g.tail + g.n - 1 : m # j
      BY <1>1, <3>1
    <3>5. FrameInv(c, g)'
      BY <1>11, <3>3, <3>4
    <3> QED BY <3>2, <3>5
  <2>2. CASE ~(f.i + 1 < f.n)
    <3> DEFINE g == Mpmc!IdleConsumer
    <3>1. cons'[c] = g
      BY <1>3, <2>2 DEF MpmcInv, MpmcConsInv
    <3>2. g.pc # "release"
      BY DEF Mpmc!IdleConsumer
    <3>3. FrameInv(c, g)
      BY IdleFrame
    <3> HIDE DEF g
    <3>4. FrameInv(c, g)'
      BY <1>11, <3>2, <3>3
    <3> QED BY <3>1, <3>4
  <2> QED BY <2>1, <2>2
<1>14. MpmcConsInv'
  <2>1. cons' = [d \in Consumers |-> cons'[d]]
    BY <1>3 DEF MpmcInv, MpmcConsInv
  <2> QED BY <1>12, <1>13, <2>1 DEF MpmcConsInv
<1> QED BY <1>9, <1>10, <1>14 DEF MpmcInv

-----------------------------------------------------------------------------
(* The queue under any of its policies.                                     *)

(* The ring invariant is initially true, with the window at ticket 0.          *)
LEMMA RingInitInv == ASSUME RingInit PROVE RingInv(0) /\ TakenInv(0)
<1> USE SegmentAssumption, RingAssumption DEF RingInit, SegmentInit
<1>1. ASSUME NEW k \in Window(0) PROVE Index(k) = k /\ k \in Slots /\ seq[Index(k)] = k
  BY DEF Window, Index, Slots
<1>2. RingTypes
  <2>1. data \in [Slots -> (Producers \X (0..MaxTickets)) \cup {Free}] /\ \A s \in Slots : data[s] = Free
    OBVIOUS
  <2>2. seq \in [Slots -> 0..MaxTickets + Capacity]
    BY DEF Slots
  <2>3. 0 \in 0..Word - 1 /\ 0 \in 0..MaxTickets
    OBVIOUS
  <2> QED BY <2>1, <2>2, <2>3 DEF RingTypes, RingTypeOK
<1>3. WindowInv(0)
  BY DEF WindowInv
<1>4. SlotInv(0)
  <2>1. ASSUME NEW k \in Window(0) PROVE seq[Index(k)] = k /\ k \in Nat
    BY <1>1 DEF Window
  <2> QED BY <2>1 DEF SlotInv
<1>5. OwnedInv(0) /\ LookInv(0)
  BY DEF OwnedInv, LookInv, InFlight
<1>6. TakenInv(0)
  BY DEF TakenInv
<1> QED BY <1>2, <1>3, <1>4, <1>5, <1>6 DEF RingInv

(* The invariant is initially true.                                           *)
LEMMA QueueInitInv == ASSUME Capacity > 1, "mixed" \notin MpscUses, Init PROVE QueueInv
<1>0. policy \in {"spsc", "mpsc", "mpmc"} /\ RingInit /\ popped = <<>> /\ tail = 0 /\ head = 0
  BY QueueAssumption DEF Init, SpscInit, RingInit, SegmentInit
<1>1. RingInv(0) /\ TakenInv(0)
  BY <1>0, RingInitInv
<1>2. taken = {} /\ \A p \in Producers : ppc[p] = "idle"
  BY <1>0 DEF RingInit
<1>3. ASSUME policy = "mpsc" PROVE MpscInv
  <2>1. /\ cons = Mpsc!IdleConsumer /\ cons \in MpscFrame /\ cons.pc = "idle" /\ cons.i = 0 /\ cons.n = 0
        /\ use \in {"single", "batch"}
    BY <1>3, QueueAssumption DEF Init, Mpsc!IdleConsumer, MpscFrame
  <2>2. Floor = 0
    BY <1>0, <2>1 DEF Floor
  <2>3. RingInv(Floor)
    BY <1>1, <2>2
  <2>4. MpscConsInv
    BY <2>1 DEF MpscConsInv
  <2>5. MpscUseInv
    <3>1. ASSUME NEW k \in Window(0) PROVE seq[Index(k)] # k - Capacity + 1
      <4>1. seq[Index(k)] = k /\ k \in Nat
        BY <1>0, SegmentAssumption DEF RingInit, Window, Index, Slots
      <4> QED BY <4>1, SegmentAssumption
    <3> QED BY <1>0, <1>2, <2>1, <2>2, <3>1, SegmentAssumption DEF MpscUseInv
  <2>6. MpscTakenInv
    BY <1>1, <2>1, <2>2 DEF MpscTakenInv
  <2> QED BY <2>3, <2>4, <2>5, <2>6 DEF MpscInv
<1>4. ASSUME policy = "mpmc" PROVE MpmcInv
  <2> DEFINE g == Mpmc!IdleConsumer
  <2>1. cons = [c \in Consumers |-> g] /\ g \in Frame /\ g.pc = "idle" /\ g.tail = 0 /\ g.i = 0
    BY <1>4 DEF Init, Mpmc!IdleConsumer, Frame
  <2> HIDE DEF g
  <2>2. \A c \in Consumers : cons[c] = g /\ FrameInv(c, g)
    BY <1>0, <2>1 DEF FrameInv, CopyInv, ReleaseInv
  <2>3. MpmcConsInv
    BY <2>1, <2>2 DEF MpmcConsInv
  <2> QED BY <1>0, <1>1, <2>3 DEF MpmcInv
<1> QED BY <1>0, <1>2, <1>3, <1>4 DEF QueueInv

(* The invariant is inductive.                                                *)
LEMMA QueueStep == ASSUME Capacity > 1, QueueInv, [Next]_vars PROVE QueueInv'
<1>0. policy \in {"spsc", "mpsc", "mpmc"}
  BY DEF QueueInv
<1>1. CASE UNCHANGED vars
  <2> USE <1>1 DEF vars, segment, producer, consumer, ringVars
  <2>1. ASSUME policy = "mpsc" PROVE MpscInv'
    <3>1. MpscInv
      BY <2>1 DEF QueueInv
    <3>2. Floor' = Floor
      BY DEF Floor
    <3>3. RingInv(Floor)'
      BY <3>1, <3>2 DEF MpscInv, RingInv, RingTypes, RingTypeOK, WindowInv, SlotInv, OwnedInv, LookInv, Window, InFlight, Ticket
    <3>4. MpscConsInv' /\ MpscUseInv' /\ MpscTakenInv'
      BY <3>1, <3>2 DEF MpscInv, MpscConsInv, MpscUseInv, MpscTakenInv, TakenInv, Window, Index
    <3> QED BY <3>3, <3>4 DEF MpscInv
  <2>2. ASSUME policy = "mpmc" PROVE MpmcInv'
    <3>1. MpmcInv
      BY <2>2 DEF QueueInv
    <3>2. RingInv(tail)' /\ TakenInv(tail)'
      BY <3>1 DEF MpmcInv, RingInv, RingTypes, RingTypeOK, WindowInv, SlotInv, OwnedInv, LookInv, Window, InFlight, Ticket, TakenInv
    <3>3. ASSUME NEW c \in Consumers, NEW f, FrameInv(c, f) PROVE FrameInv(c, f)'
      BY <3>3 DEF FrameInv, CopyInv, Copied, ReleaseInv, Index
    <3>4. MpmcConsInv'
      BY <3>1, <3>3 DEF MpmcInv, MpmcConsInv
    <3> QED BY <3>2, <3>4 DEF MpmcInv
  <2> QED BY <1>0, <2>1, <2>2 DEF QueueInv
<1>2. CASE policy = "spsc" /\ SpscNext /\ UNCHANGED <<policy, ringVars>>
  BY <1>2 DEF QueueInv, ringVars
<1>3. CASE policy = "mpsc" /\ Mpsc!Next /\ UNCHANGED <<policy, producer, consumer>>
  <2>1. MpscInv
    BY <1>3 DEF QueueInv
  <2>2. MpscInv'
    BY <1>3, <2>1, MpscProducerInv, MpscStartPopInv, MpscPopCheckInv, MpscPopReadInv, MpscPopReleaseInv, MpscPopFinishInv
    DEF Mpsc!Next, Mpsc!TryPop
  <2> QED BY <1>3, <2>2 DEF QueueInv, consumer
<1>4. CASE policy = "mpmc" /\ Mpmc!Next /\ UNCHANGED <<policy, producer, consumer>>
  <2>1. MpmcInv
    BY <1>4 DEF QueueInv
  <2>2. MpmcInv'
    BY <1>4, <2>1, MpmcProducerInv, MpmcLoadTailInv, MpmcPopCheckInv, MpmcPopCopyInv, MpmcLoadHeadInv, MpmcPopCollectInv,
       MpmcPopCopyNextInv, MpmcPopCasInv, MpmcPopReleaseInv
    DEF Mpmc!Next, Mpmc!TryPop
  <2> QED BY <1>4, <2>2 DEF QueueInv, consumer
<1> QED BY <1>1, <1>2, <1>3, <1>4 DEF Next

(* The ring a policy has, as its window and what was popped of it.            *)
LEMMA PolicyRing ==
  ASSUME QueueInv, policy # "spsc"
  PROVE  \E F \in Nat, G \in Nat : RingInv(F) /\ TakenInv(G) /\ F <= G /\ G <= head
<1>1. CASE policy = "mpsc"
  <2>1. MpscInv
    BY <1>1 DEF QueueInv
  <2> DEFINE G == IF cons.pc = "release" THEN Floor + 1 ELSE Floor
  <2>2. Floor \in Nat /\ G \in Nat /\ Floor <= G /\ G <= head
    BY <2>1, MpscFacts
  <2>3. RingInv(Floor) /\ TakenInv(G)
    BY <2>1 DEF MpscInv, MpscTakenInv
  <2> QED BY <2>2, <2>3
<1>2. CASE policy = "mpmc"
  <2>1. MpmcInv
    BY <1>2 DEF QueueInv
  <2>2. tail \in Nat /\ tail <= tail /\ tail <= head
    BY <2>1, MpmcFacts
  <2> QED BY <2>1, <2>2 DEF MpmcInv
<1> QED BY <1>1, <1>2 DEF QueueInv

(* tryPop of an Mpsc or Mpmc queue returns for each ticket the element that was pushed with it, and
   each ticket once, for any number of producers, consumers and slots (more than one) and any
   sizes of batches, provided that the producers of an Mpsc queue do not mix single and batch
   pushes.                                                                    *)
THEOREM QueuePopsAreFifo ==
  ASSUME Capacity > 1, "mixed" \notin MpscUses
  PROVE  Spec => []PopsAreFifo
<1>1. QueueInv => PopsAreFifo
  <2> SUFFICES ASSUME QueueInv PROVE PopsAreFifo
    OBVIOUS
  <2>1. CASE policy = "spsc"
    BY <2>1 DEF QueueInv, PopsAreFifo
  <2>2. CASE policy # "spsc"
    <3>1. PICK F \in Nat, G \in Nat : RingInv(F) /\ TakenInv(G) /\ F <= G /\ G <= head
      BY <2>2, PolicyRing
    <3>2. Len(order) = head /\ head \in Nat
      BY <3>1, RingTypesFacts DEF RingInv, WindowInv
    <3> QED BY <3>1, <3>2 DEF TakenInv, PopsAreFifo
  <2> QED BY <2>1, <2>2
<1>2. QueueInv /\ [Next]_vars => QueueInv'
  BY QueueStep
<1>3. Init => QueueInv
  BY QueueInitInv
<1> QED BY <1>1, <1>2, <1>3, PTL DEF Spec

(* No producer writes a slot whose element, one lap before, has not been popped. *)
THEOREM QueueNoOverwrite ==
  ASSUME Capacity > 1, "mixed" \notin MpscUses
  PROVE  Spec => []NoOverwrite
<1>1. QueueInv => NoOverwrite
  <2> SUFFICES ASSUME QueueInv, NEW p \in Producers, ppc[p] = "write", Ticket(p) >= Capacity
               PROVE  \E r \in taken : r.ticket = Ticket(p) - Capacity
    BY DEF NoOverwrite
  <2>1. policy # "spsc"
    BY DEF QueueInv
  <2>2. PICK F \in Nat, G \in Nat : RingInv(F) /\ TakenInv(G) /\ F <= G /\ G <= head
    BY <2>1, PolicyRing
  <2>3. Ticket(p) \in Window(F) /\ Ticket(p) \in Nat
    BY <2>2, OwnTicket DEF InFlight
  <2>4. Ticket(p) - Capacity \in 0..G - 1
    BY <2>2, <2>3, SegmentAssumption DEF Window
  <2> QED BY <2>2, <2>4 DEF TakenInv
<1>2. QueueInv /\ [Next]_vars => QueueInv'
  BY QueueStep
<1>3. Init => QueueInv
  BY QueueInitInv
<1> QED BY <1>1, <1>2, <1>3, PTL DEF Spec

(* The invariant of the Spsc policy holds of the queue whenever that is its policy. *)
LEMMA SpscPart ==
  ASSUME ~LateAttach
  PROVE  Spec => [](policy = "spsc" => SpscInv)
<1>1. Init => (policy = "spsc" => SpscInv)
  BY SpscInitInv DEF Init
<1>2. (policy = "spsc" => SpscInv) /\ [Next]_vars => (policy = "spsc" => SpscInv)'
  <2> SUFFICES ASSUME policy = "spsc" => SpscInv, [Next]_vars, policy' = "spsc" PROVE SpscInv'
    OBVIOUS
  <2>1. CASE UNCHANGED vars
    <3>1. UNCHANGED spscVars /\ policy = "spsc"
      BY <2>1 DEF vars, spscVars
    <3> QED BY <3>1, SpscStep
  <2>2. CASE policy = "spsc" /\ SpscNext
    BY <2>2, SpscStep
  <2> QED BY <2>1, <2>2 DEF Next
<1> QED BY <1>1, <1>2, PTL DEF Spec

(* The elements of an Spsc queue are popped in the order in which they were pushed. *)
THEOREM QueueDelivers == ASSUME ~LateAttach, Capacity > 1, "mixed" \notin MpscUses PROVE Spec => []DeliveredInOrder
<1>1. QueueInv /\ (policy = "spsc" => SpscInv) => DeliveredInOrder
  <2> SUFFICES ASSUME QueueInv, policy = "spsc" => SpscInv PROVE DeliveredInOrder
    OBVIOUS
  <2>1. CASE policy = "spsc"
    BY <2>1, SpscInOrder
  <2>2. CASE policy # "spsc"
    <3>1. popped = <<>> /\ head \in Nat
      <4>1. PICK F \in Nat, G \in Nat : RingInv(F) /\ TakenInv(G) /\ F <= G /\ G <= head
        BY <2>2, PolicyRing
      <4> QED BY <2>2, <4>1, RingTypesFacts DEF QueueInv, RingInv
    <3> QED BY <3>1 DEF DeliveredInOrder
  <2> QED BY <2>1, <2>2
<1>2. QueueInv /\ [Next]_vars => QueueInv'
  BY QueueStep
<1>3. Init => QueueInv
  BY QueueInitInv
<1> QED BY <1>1, <1>2, <1>3, SpscPart, PTL DEF Spec

(* The segment is well formed, never over its capacity, never written by two producers in one
   place, and the cached indices of Spsc never run ahead, whatever the policy.  *)
THEOREM QueueSegmentSound ==
  ASSUME ~LateAttach, Capacity > 1, "mixed" \notin MpscUses
  PROVE  Spec => []SegmentSound
<1>1. QueueInv /\ (policy = "spsc" => SpscInv) => SegmentSound
  <2> SUFFICES ASSUME QueueInv, policy = "spsc" => SpscInv PROVE SegmentSound
    OBVIOUS
  <2>1. CASE policy = "spsc"
    <3>1. SpscInv
      BY <2>1
    <3>2. head + wi - tail <= Capacity
      BY <3>1, SegmentAssumption DEF SpscInv, SpscTypeOK, CachesAreOld, ProducerInv
    <3>3. WritersApart
      BY <2>1 DEF QueueInv, WritersApart
    <3> QED BY <2>1, <3>1, <3>2, <3>3 DEF SegmentSound, TypeOK, WithinCapacity, SpscCachesLag, SpscInv
  <2>2. ASSUME policy # "spsc" PROVE WritersApart /\ RingTypeOK
    <3>1. PICK F \in Nat, G \in Nat : RingInv(F) /\ TakenInv(G) /\ F <= G /\ G <= head
      BY <2>2, PolicyRing
    <3>2. ASSUME NEW p \in Producers, NEW q \in Producers, ppc[p] \in {"write", "publish"}, ppc[q] \in {"write", "publish"},
                 Index(Ticket(p)) = Index(Ticket(q)), p # q
          PROVE  FALSE
      <4>1. InFlight(p) /\ InFlight(q)
        BY <3>2 DEF InFlight
      <4>2. Ticket(q) \in Ticket(q)..phead[q] + pn[q] - 1
        BY <3>1, <4>1, OwnTicket
      <4> QED BY <3>1, <3>2, <4>1, <4>2, OwnersApart
    <3> QED BY <3>1, <3>2 DEF WritersApart, RingInv, RingTypes
  <2>3. CASE policy = "mpsc"
    <3>1. MpscInv
      BY <2>3 DEF QueueInv
    <3>2. Mpsc!TypeOK
      <4>1. Mpsc!RingTypeOK
        BY <2>2, <2>3 DEF Mpsc!RingTypeOK, RingTypeOK, Mpsc!Slots, Slots
      <4>2. cons.pc \in {"idle", "check", "read", "release", "finish"} /\ cons.n \in Nat /\ cons.i \in 0..cons.n
        BY <3>1 DEF MpscInv, MpscConsInv, MpscFrame
      <4> QED BY <4>1, <4>2 DEF Mpsc!TypeOK
    <3>3. Mpsc!WithinCapacity
      BY <3>1, MpscFacts, SegmentAssumption DEF Mpsc!WithinCapacity, Mpsc!Released, WindowInv, Floor
    <3> QED BY <2>2, <2>3, <3>2, <3>3 DEF SegmentSound, TypeOK, WithinCapacity, SpscCachesLag
  <2>4. CASE policy = "mpmc"
    <3>1. MpmcInv
      BY <2>4 DEF QueueInv
    <3>2. Mpmc!WithinCapacity
      BY <3>1, MpmcFacts, SegmentAssumption DEF Mpmc!WithinCapacity
    <3> QED BY <2>2, <2>4, <3>2 DEF SegmentSound, TypeOK, WithinCapacity, SpscCachesLag
  <2> QED BY <2>1, <2>3, <2>4 DEF QueueInv
<1>2. QueueInv /\ [Next]_vars => QueueInv'
  BY QueueStep
<1>3. Init => QueueInv
  BY QueueInitInv
<1> QED BY <1>1, <1>2, <1>3, SpscPart, PTL DEF Spec

-----------------------------------------------------------------------------
(* Refinement: every policy implements the bounded FIFO.                    *)

Places == [val : (Value \cup (Producers \X Nat)), ready : BOOLEAN]

(* The queue as BoundedFifo sees it, from ticket F to ticket h: the element of each ticket, and
   whether it is published.                                                    *)
Items(h, o, s, F) == [j \in 1..h - F |-> [val |-> o[F + j], ready |-> s[Index(F + j - 1)] = F + j]]

ItemsAre(items, h, o, s, F) ==
    /\ items \in Seq(Places) /\ Len(items) = h - F
    /\ \A j \in 1..h - F : items[j].val = o[F + j] /\ items[j].ready = (s[Index(F + j - 1)] = F + j)

(* Items is the sequence of places it describes.                               *)
LEMMA ItemsFacts ==
  ASSUME NEW F \in Nat, NEW h \in Nat, F <= h, NEW o \in Seq(Producers \X Nat), Len(o) = h, NEW s
  PROVE  ItemsAre(Items(h, o, s, F), h, o, s, F)
<1> DEFINE n == h - F
           e(j) == [val |-> o[F + j], ready |-> s[Index(F + j - 1)] = F + j]
<1>2. n \in Nat
  OBVIOUS
<1>3. \A j \in 1..n : e(j) \in Places /\ e(j).val = o[F + j] /\ e(j).ready = (s[Index(F + j - 1)] = F + j)
  <2> SUFFICES ASSUME NEW j \in 1..n
               PROVE  e(j) \in Places /\ e(j).val = o[F + j] /\ e(j).ready = (s[Index(F + j - 1)] = F + j)
    OBVIOUS
  <2>1. F + j \in 1..Len(o)
    BY <1>2
  <2>2. o[F + j] \in Producers \X Nat
    BY <2>1
  <2>3. o[F + j] \in Value \cup (Producers \X Nat)
    BY <2>2
  <2>4. e(j) \in Places
    BY <2>3 DEF Places
  <2> QED BY <2>4
<1>4. Items(h, o, s, F) = [j \in 1..n |-> e(j)]
  BY DEF Items
<1> HIDE DEF n, e
<1>5. Items(h, o, s, F) \in Seq(Places) /\ Len(Items(h, o, s, F)) = n
  BY <1>2, <1>3, <1>4
<1>6. \A j \in 1..n : Items(h, o, s, F)[j] = e(j)
  BY <1>4
<1>7. \A j \in 1..n : Items(h, o, s, F)[j].val = o[F + j] /\ Items(h, o, s, F)[j].ready = (s[Index(F + j - 1)] = F + j)
  BY <1>3, <1>6
<1> QED BY <1>5, <1>7 DEF n, ItemsAre

(* Places with equal fields are equal.                                         *)
LEMMA PlaceEqual ==
  ASSUME NEW a \in Places, NEW b \in Places, a.val = b.val, a.ready = b.ready
  PROVE  a = b
BY DEF Places

(* A suffix of a sequence, element by element.                                *)
LEMMA SuffixIs ==
  ASSUME NEW S, NEW s \in Seq(S), NEW t \in Seq(S), NEW n \in 1..Len(s), Len(t) = Len(s) - n,
         \A j \in 1..Len(t) : t[j] = s[n + j]
  PROVE  t = SubSeq(s, n + 1, Len(s))
<1> DEFINE u == SubSeq(s, n + 1, Len(s))
<1>0. Len(s) \in Nat /\ Len(t) \in Nat /\ n + 1 \in Int /\ Len(s) \in Int
  OBVIOUS
<1>1. \A i \in n + 1..Len(s) : s[i] \in S
  OBVIOUS
<1>2. /\ u \in Seq(S)
      /\ Len(u) = IF n + 1 <= Len(s) THEN Len(s) - (n + 1) + 1 ELSE 0
      /\ \A i \in 1..Len(s) - (n + 1) + 1 : u[i] = s[(n + 1) + i - 1]
  BY <1>0, <1>1, SubSeqProperties
<1> HIDE DEF u
<1>3. Len(u) = Len(t)
  BY <1>0, <1>2
<1>4. ASSUME NEW j \in 1..Len(t) PROVE t[j] = u[j]
  <2>1. j \in 1..Len(s) - (n + 1) + 1 /\ (n + 1) + j - 1 = n + j
    BY <1>0
  <2> QED BY <1>2, <2>1
<1>5. t = u
  BY <1>2, <1>3, <1>4, SeqEqual
<1> QED BY <1>5 DEF u

(* Elements are claimed at the end of the FIFO, not published.                *)
LEMMA ClaimFifo ==
  ASSUME NEW F \in Nat, RingInv(F), RingInv(F)', NEW p \in Producers, NEW n \in Nat, NEW to, Claimed(p, head, n, to), seq' = seq,
         ItemsAre(FifoItems, head, order, seq, F), ItemsAre(FifoItems', head', order', seq', F)
  PROVE  Fifo!Claim \/ UNCHANGED FifoItems
<1>1. /\ head \in Nat /\ F <= head /\ WindowInv(F) /\ SlotInv(F)
  BY RingTypesFacts DEF RingInv, WindowInv
<1>2. head' <= F + Capacity /\ head' <= MaxTickets
  BY SegmentAssumption DEF RingInv, WindowInv, RingTypes, RingTypeOK
<1>3. head' = head + n /\ order' = order \o [i \in 1..n |-> Element(p, head + i - 1)]
  BY DEF Claimed
<1>4. /\ \A k \in 1..head : order'[k] = order[k]
      /\ \A k \in head..head + n - 1 : order'[k + 1] = Element(p, k)
  BY <1>1, <1>3, ClaimOrder
<1>5. /\ FifoItems \in Seq(Places) /\ Len(FifoItems) = head - F
      /\ FifoItems' \in Seq(Places) /\ Len(FifoItems') = head' - F
  BY DEF ItemsAre
<1>6. ASSUME NEW i \in 1..head - F PROVE FifoItems'[i] = FifoItems[i]
  <2>1. F + i \in 1..head /\ i \in 1..head' - F
    BY <1>1, <1>3
  <2>2. FifoItems'[i].val = order'[F + i] /\ FifoItems'[i].ready = (seq'[Index(F + i - 1)] = F + i)
    BY <2>1 DEF ItemsAre
  <2>3. FifoItems[i].val = order[F + i] /\ FifoItems[i].ready = (seq[Index(F + i - 1)] = F + i)
    BY DEF ItemsAre
  <2>4. FifoItems'[i] \in Places /\ FifoItems[i] \in Places
    BY <1>5, <2>1
  <2>5. FifoItems'[i].val = FifoItems[i].val /\ FifoItems'[i].ready = FifoItems[i].ready
    BY <1>4, <2>1, <2>2, <2>3
  <2> QED BY <2>4, <2>5, PlaceEqual
<1>7. ASSUME NEW i \in head - F + 1..head' - F PROVE FifoItems'[i] \in Fifo!Item /\ ~FifoItems'[i].ready
  <2> PICK k \in Nat : k = F + i - 1
    BY <1>1
  <2>1. /\ k \in head..head + n - 1 /\ k \in Window(F) /\ ~(k < head) /\ F + i = k + 1 /\ i \in 1..head' - F
        /\ k \in 0..MaxTickets - 1
    BY <1>1, <1>2, <1>3, SegmentAssumption DEF Window
  <2>2. order'[F + i] = Element(p, k)
    BY <1>4, <2>1
  <2>3. seq[Index(k)] # k + 1
    BY <1>1, <2>1 DEF SlotInv
  <2>4. FifoItems'[i].val = order'[F + i] /\ FifoItems'[i].ready = (seq'[Index(F + i - 1)] = F + i)
    BY <2>1 DEF ItemsAre
  <2>5. FifoItems'[i].val = Element(p, k) /\ FifoItems'[i].ready = FALSE
    BY <2>1, <2>2, <2>3, <2>4
  <2>6. Element(p, k) \in Value \cup (Producers \X (0..MaxTickets - 1))
    BY <2>1 DEF Element
  <2>7. FifoItems'[i] \in Places
    BY <1>5, <2>1
  <2>8. FifoItems'[i] = [val |-> Element(p, k), ready |-> FALSE]
    BY <2>5, <2>7 DEF Places
  <2> QED BY <2>5, <2>6, <2>8 DEF Fifo!Item
<1>8. CASE n = 0
  <2>1. head' = head
    BY <1>1, <1>3, <1>8
  <2>2. \A i \in 1..Len(FifoItems) : FifoItems'[i] = FifoItems[i]
    BY <1>5, <1>6
  <2> QED BY <1>5, <2>1, <2>2, SeqEqual
<1>9. CASE n # 0
  <2>1. Len(FifoItems') \in Len(FifoItems) + 1..Capacity
    BY <1>1, <1>2, <1>3, <1>5, <1>9, SegmentAssumption
  <2> QED BY <1>5, <1>6, <1>7, <2>1 DEF Fifo!Claim
<1> QED BY <1>8, <1>9

(* The elements stay; more of them may be published.                          *)
LEMMA PublishFifo ==
  ASSUME NEW F \in Nat, RingInv(F), UNCHANGED <<head, order>>,
         \A k \in Window(F) : seq[Index(k)] = k + 1 => seq'[Index(k)] = k + 1,
         ItemsAre(FifoItems, head, order, seq, F), ItemsAre(FifoItems', head', order', seq', F)
  PROVE  Fifo!Publish
<1>1. /\ head \in Nat /\ F <= head /\ head <= F + Capacity /\ Capacity \in Nat
  BY RingTypesFacts, SegmentAssumption DEF RingInv, WindowInv
<1>2. ASSUME NEW i \in 1..head - F
      PROVE  FifoItems'[i].val = FifoItems[i].val /\ (FifoItems[i].ready => FifoItems'[i].ready)
  <2> PICK k \in Nat : k = F + i - 1
    BY <1>1
  <2>1. k \in Window(F) /\ F + i = k + 1
    BY <1>1 DEF Window
  <2>2. FifoItems'[i].val = order[F + i] /\ FifoItems'[i].ready = (seq'[Index(F + i - 1)] = F + i)
    BY DEF ItemsAre
  <2>3. FifoItems[i].val = order[F + i] /\ FifoItems[i].ready = (seq[Index(F + i - 1)] = F + i)
    BY DEF ItemsAre
  <2> QED BY <2>1, <2>2, <2>3
<1>3. Len(FifoItems) = head - F /\ Len(FifoItems') = head - F
  BY DEF ItemsAre
<1> QED BY <1>2, <1>3 DEF Fifo!Publish

(* The oldest n elements are taken, all of them published.                    *)
LEMMA TakeFifo ==
  ASSUME NEW F \in Nat, NEW n \in Nat, n > 0, RingInv(F), F + n <= head, UNCHANGED <<head, order>>,
         \A k \in F..F + n - 1 : seq[Index(k)] = k + 1,
         \A k \in F + n..head - 1 : seq'[Index(k)] = seq[Index(k)],
         ItemsAre(FifoItems, head, order, seq, F), ItemsAre(FifoItems', head', order', seq', F + n)
  PROVE  Fifo!Take
<1>1. head \in Nat /\ F <= head
  BY RingTypesFacts DEF RingInv, WindowInv
<1>2. /\ FifoItems \in Seq(Places) /\ Len(FifoItems) = head - F
      /\ FifoItems' \in Seq(Places) /\ Len(FifoItems') = head - (F + n)
  BY DEF ItemsAre
<1>3. ASSUME NEW i \in 1..n PROVE FifoItems[i].ready
  <2>1. F + i - 1 \in F..F + n - 1 /\ (F + i - 1) + 1 = F + i /\ i \in 1..head - F
    BY <1>1
  <2>2. FifoItems[i].ready = (seq[Index(F + i - 1)] = F + i)
    BY <2>1 DEF ItemsAre
  <2> QED BY <2>1, <2>2
<1>4. ASSUME NEW j \in 1..Len(FifoItems') PROVE FifoItems'[j] = FifoItems[n + j]
  <2>1. /\ n + j \in 1..head - F /\ F + (n + j) = (F + n) + j /\ j \in 1..head - (F + n)
        /\ F + (n + j) - 1 = (F + n) + j - 1 /\ (F + n) + j - 1 \in F + n..head - 1
    BY <1>1, <1>2
  <2>2. FifoItems'[j].val = order[(F + n) + j] /\ FifoItems'[j].ready = (seq'[Index((F + n) + j - 1)] = (F + n) + j)
    BY <2>1 DEF ItemsAre
  <2>3. FifoItems[n + j].val = order[F + (n + j)] /\ FifoItems[n + j].ready = (seq[Index(F + (n + j) - 1)] = F + (n + j))
    BY <2>1 DEF ItemsAre
  <2>4. FifoItems'[j] \in Places /\ FifoItems[n + j] \in Places
    BY <1>2, <2>1
  <2>5. FifoItems'[j].val = FifoItems[n + j].val /\ FifoItems'[j].ready = FifoItems[n + j].ready
    BY <2>1, <2>2, <2>3
  <2> QED BY <2>4, <2>5, PlaceEqual
<1>5. n \in 1..Len(FifoItems) /\ Len(FifoItems') = Len(FifoItems) - n
  BY <1>1, <1>2
<1>6. FifoItems' = SubSeq(FifoItems, n + 1, Len(FifoItems))
  BY <1>2, <1>4, <1>5, SuffixIs
<1> QED BY <1>3, <1>5, <1>6 DEF Fifo!Take

(* A producer claims places, publishes one, or is not seen.                   *)
LEMMA ProducerFifo ==
  ASSUME NEW F \in Nat, RingInv(F), RingInv(F)', NEW p \in Producers, NEW next, ProducerStep(p, next),
         ItemsAre(FifoItems, head, order, seq, F), ItemsAre(FifoItems', head', order', seq', F)
  PROVE  Fifo!FifoNext \/ UNCHANGED FifoItems
<1>1. \A k \in Window(F) : seq[Index(k)] = k + 1 => seq'[Index(k)] = k + 1
  <2>1. \A k \in Window(F) : k \in Int
    BY SegmentAssumption DEF Window
  <2> QED BY <2>1, ProducerEffect
<1>2. CASE PushCas(p)
  <2>1. seq' = seq /\ (UNCHANGED <<head, order>> \/ Claimed(p, head, 1, "write"))
    BY <1>2 DEF PushCas
  <2> QED BY <1>1, <2>1, ClaimFifo, PublishFifo DEF Fifo!FifoNext
<1>3. CASE BatchCasTo(p, next)
  <2>1. seq' = seq /\ (UNCHANGED <<head, order>> \/ Claimed(p, head, pn[p], next)) /\ pn[p] \in Nat
    BY <1>3, RingTypesFacts DEF BatchCasTo, RingInv
  <2> QED BY <1>1, <2>1, ClaimFifo, PublishFifo DEF Fifo!FifoNext
<1>4. CASE ~PushCas(p) /\ ~BatchCasTo(p, next)
  <2>1. UNCHANGED <<head, order>>
    BY <1>4 DEF ProducerStep, PushLoadHead, PushLoadSeq, BatchLoadHead, BatchLoadTail, Mpmc!BatchAwait, PushWrite,
                PushPublishTo, ResetFrame, segmentVars, Mpmc!segmentVars
  <2> QED BY <1>1, <2>1, PublishFifo DEF Fifo!FifoNext
<1> QED BY <1>2, <1>3, <1>4

(* An Mpsc pop is seen when the slot is given back.                           *)
LEMMA MpscFifo ==
  ASSUME Capacity > 1, policy = "mpsc", policy' = "mpsc", MpscInv, MpscInv', Mpsc!Next
  PROVE  Fifo!FifoNext \/ UNCHANGED FifoItems
<1>1. /\ FifoItems = Items(head, order, seq, Floor)
      /\ FifoItems' = Items(head', order', seq', Floor')
  BY DEF FifoItems, Mpsc!FifoItems, Mpsc!Released, Mpsc!Index, Index, Items, Floor
<1>2. PICK F \in Nat : F = Floor
  BY MpscFacts
<1>3. /\ RingInv(F) /\ head \in Nat /\ F <= head /\ order \in Seq(Producers \X Nat) /\ Len(order) = head
      /\ ItemsAre(FifoItems, head, order, seq, F)
  <2>1. RingInv(F) /\ head \in Nat /\ F <= head /\ order \in Seq(Producers \X Nat) /\ Len(order) = head
    BY <1>2, MpscFacts, RingOfFloor DEF MpscInv, WindowInv
  <2> QED BY <1>1, <1>2, <2>1, ItemsFacts
<1>4. ItemsAre(FifoItems', head', order', seq', Floor')
  <2>1. /\ head' \in Nat /\ Floor' \in Nat /\ Floor' <= head' /\ order' \in Seq(Producers \X Nat) /\ Len(order') = head'
    BY SegmentAssumption DEF MpscInv, RingInv, WindowInv, RingTypes, RingTypeOK
  <2> QED BY <1>1, <2>1, ItemsFacts
<1>5. ASSUME NEW p \in Producers, Mpsc!StartPush(p) \/ Mpsc!TryPush(p), cons' = cons
      PROVE  Fifo!FifoNext \/ UNCHANGED FifoItems
  <2>1. ProducerStep(p, "write")
    BY <1>5, MpscProducerStep
  <2>2. Floor' = F
    BY <1>2, <1>3, <1>5, <2>1, ProducerEffect DEF Floor
  <2>3. RingInv(F)'
    BY <2>2 DEF MpscInv, RingInv, WindowInv, SlotInv, OwnedInv, LookInv, Window
  <2> QED BY <1>3, <1>4, <2>1, <2>2, <2>3, ProducerFifo
<1>6. CASE Mpsc!PopRelease
  <2>1. /\ F < head /\ seq[Index(F)] = F + 1 /\ cons \in MpscFrame /\ cons.i \in Nat /\ tail \in Nat
    BY <1>2, <1>6, MpscFacts DEF MpscInv, MpscConsInv, Mpsc!PopRelease
  <2>2. /\ seq' = [seq EXCEPT ![Index(F)] = F + Capacity]
        /\ cons' = [cons EXCEPT !.pc = "check", !.i = cons.i + 1, !.val = Free]
        /\ UNCHANGED <<head, tail, order>>
    BY <1>2, <1>6 DEF Mpsc!PopRelease, Mpsc!Index, Index, Floor, Mpsc!producerVars
  <2>3. Floor' = F + 1
    BY <1>2, <2>1, <2>2 DEF Floor, MpscFrame
  <2>4. \A k \in F..F + 1 - 1 : seq[Index(k)] = k + 1
    BY <2>1
  <2>5. ASSUME NEW k \in F + 1..head - 1 PROVE seq'[Index(k)] = seq[Index(k)]
    <3>1. head <= F + Capacity /\ seq \in [Slots -> Int]
      BY <1>3, RingTypesFacts DEF RingInv, WindowInv
    <3>2. k \in Window(F) /\ F \in Window(F) /\ k # F /\ k \in Nat
      BY <1>3, <3>1, SegmentAssumption DEF Window
    <3> QED BY <2>2, <3>1, <3>2, IndexApart, IndexIn
  <2>6. F + 1 <= head
    BY <1>3, <2>1
  <2>7. Fifo!Take
    <3> PICK n \in Nat : n = 1
      OBVIOUS
    <3>1. F + n = F + 1 /\ n > 0 /\ F..F + n - 1 = F..F + 1 - 1
      BY <1>2
    <3>2. F + n <= head
      BY <2>6, <3>1
    <3>3. \A k \in F..F + n - 1 : seq[Index(k)] = k + 1
      BY <2>4, <3>1
    <3>4. \A k \in F + n..head - 1 : seq'[Index(k)] = seq[Index(k)]
      BY <2>5, <3>1
    <3>5. ItemsAre(FifoItems', head', order', seq', F + n)
      BY <1>4, <2>3, <3>1
    <3>6. n > 0 /\ UNCHANGED <<head, order>> /\ RingInv(F) /\ ItemsAre(FifoItems, head, order, seq, F)
      BY <1>3, <2>2, <3>1
    <3> QED BY <3>2, <3>3, <3>4, <3>5, <3>6, TakeFifo
  <2> QED BY <2>7 DEF Fifo!FifoNext
<1>7. CASE Mpsc!StartPop \/ Mpsc!PopCheck \/ Mpsc!PopRead
  <2>1. UNCHANGED <<head, tail, seq, order>>
    BY <1>7 DEF Mpsc!StartPop, Mpsc!PopCheck, Mpsc!PopRead, Mpsc!segmentVars, Mpsc!producerVars
  <2>2. cons'.i = cons.i
    <3>1. cons \in MpscFrame
      BY DEF MpscInv, MpscConsInv
    <3> QED BY <1>7, <3>1 DEF Mpsc!StartPop, Mpsc!PopCheck, Mpsc!PopRead, MpscFrame
  <2>3. Floor' = Floor
    BY <2>1, <2>2 DEF Floor
  <2> QED BY <1>1, <2>1, <2>3
<1>8. CASE Mpsc!PopFinish
  <2>1. UNCHANGED <<head, seq, order>> /\ tail' = Floor /\ cons'.i = 0
    BY <1>8 DEF Mpsc!PopFinish, Mpsc!producerVars, Floor, Mpsc!IdleConsumer
  <2>2. Floor' = Floor
    BY <1>2, <2>1 DEF Floor
  <2> QED BY <1>1, <2>1, <2>2
<1> QED BY <1>5, <1>6, <1>7, <1>8 DEF Mpsc!Next, Mpsc!TryPop

(* An Mpmc pop is seen when _tail is moved.                                   *)
LEMMA MpmcFifo ==
  ASSUME Capacity > 1, policy = "mpmc", policy' = "mpmc", MpmcInv, MpmcInv', Mpmc!Next
  PROVE  Fifo!FifoNext \/ UNCHANGED FifoItems
<1>1. /\ FifoItems = Items(head, order, seq, tail)
      /\ FifoItems' = Items(head', order', seq', tail')
  BY DEF FifoItems, Mpmc!FifoItems, Mpmc!Index, Index, Items
<1>2. PICK F \in Nat : F = tail
  BY MpmcFacts
<1>3. /\ RingInv(F) /\ head \in Nat /\ F <= head /\ order \in Seq(Producers \X Nat) /\ Len(order) = head
      /\ head <= F + Capacity
      /\ ItemsAre(FifoItems, head, order, seq, F)
  <2>1. /\ RingInv(F) /\ head \in Nat /\ F <= head /\ order \in Seq(Producers \X Nat) /\ Len(order) = head
        /\ head <= F + Capacity
    BY <1>2, MpmcFacts, RingOfTail DEF MpmcInv, WindowInv
  <2> QED BY <1>1, <1>2, <2>1, ItemsFacts
<1>4. ItemsAre(FifoItems', head', order', seq', tail')
  <2>1. /\ head' \in Nat /\ tail' \in Nat /\ tail' <= head' /\ order' \in Seq(Producers \X Nat) /\ Len(order') = head'
    BY SegmentAssumption DEF MpmcInv, RingInv, WindowInv, RingTypes, RingTypeOK
  <2> QED BY <1>1, <2>1, ItemsFacts
<1>5. ASSUME NEW p \in Producers, Mpmc!StartPush(p) \/ Mpmc!TryPush(p)
      PROVE  Fifo!FifoNext \/ UNCHANGED FifoItems
  <2>1. ProducerStep(p, "await")
    BY <1>5, MpmcProducerStep
  <2>2. tail' = F
    BY <1>2, <1>3, <2>1, ProducerEffect
  <2>3. RingInv(F)'
    BY <2>2 DEF MpmcInv, RingInv, WindowInv, SlotInv, OwnedInv, LookInv, Window
  <2> QED BY <1>3, <1>4, <2>1, <2>2, <2>3, ProducerFifo
<1>6. ASSUME NEW c \in Consumers, Mpmc!PopCas(c) PROVE Fifo!FifoNext \/ UNCHANGED FifoItems
  <2> PICK f : f = cons[c]
    OBVIOUS
  <2>0. UNCHANGED <<head, seq, order>> /\ f.pc = "cas" /\ (tail' = tail \/ (tail = f.tail /\ tail' = tail + f.n))
    BY <1>6 DEF Mpmc!PopCas, Mpmc!producerVars
  <2>1. CASE tail' = tail
    BY <1>1, <2>0, <2>1
  <2>2. CASE tail = f.tail /\ tail' = tail + f.n
    <3>1. /\ f \in Frame /\ f.n \in Nat /\ f.n > 0 /\ f.n = Len(f.vals) /\ Copied(f)
      BY <2>0, <2>2, ConsumerFrame, FrameFacts DEF FrameInv, CopyInv
    <3> PICK n \in Nat : n = f.n
      BY <3>1
    <3>2. F + n <= head /\ \A j \in 1..n : seq[Index(F + j - 1)] = F + j
      BY <1>2, <3>1 DEF Copied
    <3>3. ASSUME NEW k \in F..F + n - 1 PROVE seq[Index(k)] = k + 1
      <4>1. (k - F) + 1 \in 1..n /\ F + ((k - F) + 1) - 1 = k /\ F + ((k - F) + 1) = k + 1
        OBVIOUS
      <4> QED BY <3>2, <4>1
    <3>4. Fifo!Take
      BY <1>2, <1>3, <1>4, <2>0, <2>2, <3>1, <3>2, <3>3, TakeFifo
    <3> QED BY <3>4 DEF Fifo!FifoNext
  <2> QED BY <2>0, <2>1, <2>2
<1>7. ASSUME NEW c \in Consumers, Mpmc!PopRelease(c) PROVE Fifo!FifoNext \/ UNCHANGED FifoItems
  <2> PICK f : f = cons[c]
    OBVIOUS
  <2>1. /\ f \in Frame /\ f.pc = "release" /\ f.tail \in Nat /\ f.n \in Nat /\ f.i \in Nat /\ f.i < f.n /\ ReleaseInv(c, f)
    BY <1>7, ConsumerFrame, FrameFacts DEF FrameInv, ReleaseInv, Mpmc!PopRelease
  <2> PICK j \in Nat : j = f.tail + f.i
    BY <2>1
  <2>2. seq' = [seq EXCEPT ![Index(j)] = j + Capacity] /\ UNCHANGED <<head, tail, order>>
    BY <1>7 DEF Mpmc!PopRelease, Mpmc!Index, Index, Mpmc!producerVars
  <2>3. j \in f.tail + f.i..f.tail + f.n - 1
    BY <2>1
  <2>4. /\ seq[Index(j)] = j + 1 /\ j + Capacity \in Window(F) /\ Index(j + Capacity) = Index(j)
    BY <1>2, <2>1, <2>3, ReleasingSlot
  <2>5. seq \in [Slots -> Int]
    BY <1>3, RingTypesFacts DEF RingInv
  <2>6. ASSUME NEW k \in Window(F), seq[Index(k)] = k + 1 PROVE seq'[Index(k)] = k + 1
    <3>1. k \in Nat /\ Index(k) \in Slots
      BY IndexIn, SegmentAssumption DEF Window
    <3>2. k # j + Capacity
      BY <2>4, <2>6, <3>1, SegmentAssumption
    <3>3. Index(k) # Index(j)
      BY <2>4, <3>2, IndexApart
    <3> QED BY <2>2, <2>5, <2>6, <3>1, <3>3
  <2>7. Fifo!Publish
    BY <1>2, <1>3, <1>4, <2>2, <2>6, PublishFifo
  <2> QED BY <2>7 DEF Fifo!FifoNext
<1>8. ASSUME NEW c \in Consumers,
             Mpmc!PopLoadTail(c) \/ Mpmc!PopCheck(c) \/ Mpmc!PopCopy(c) \/ Mpmc!PopLoadHead(c) \/ Mpmc!PopCollect(c) \/ Mpmc!PopCopyNext(c)
      PROVE  Fifo!FifoNext \/ UNCHANGED FifoItems
  <2>1. UNCHANGED <<head, tail, seq, order>>
    BY <1>8 DEF Mpmc!PopLoadTail, Mpmc!PopCheck, Mpmc!PopCopy, Mpmc!PopLoadHead, Mpmc!PopCollect, Mpmc!PopCopyNext,
                Mpmc!segmentVars, Mpmc!producerVars
  <2> QED BY <1>1, <2>1
<1> QED BY <1>5, <1>6, <1>7, <1>8 DEF Mpmc!Next, Mpmc!TryPop

(* The queue of the Spsc policy, as a sequence of places.                     *)
PairAre(items, h, w, t, o) ==
    /\ items \in Seq(Places) /\ Len(items) = (h + w) - t
    /\ \A j \in 1..(h + w) - t : items[j].val = o[t + j] /\ items[j].ready = (t + j <= h)

(* The places as the operator that SpscItems is.                              *)
Pairs(h, w, t, o) == [j \in 1..h + w - t |-> [val |-> o[t + j], ready |-> t + j <= h]]

(* Pairs is the sequence of places it describes.                               *)
LEMMA PairFacts ==
  ASSUME NEW h \in Nat, NEW w \in Nat, NEW t \in Nat, t <= h + w, NEW o \in Seq(Value), Len(o) = h + w
  PROVE  PairAre(Pairs(h, w, t, o), h, w, t, o)
<1> DEFINE n == (h + w) - t
           e(j) == [val |-> o[t + j], ready |-> t + j <= h]
<1>1. n \in Nat /\ h + w - t = n
  OBVIOUS
<1>2. \A j \in 1..n : e(j) \in Places /\ e(j).val = o[t + j] /\ e(j).ready = (t + j <= h)
  <2> SUFFICES ASSUME NEW j \in 1..n PROVE e(j) \in Places /\ e(j).val = o[t + j] /\ e(j).ready = (t + j <= h)
    OBVIOUS
  <2>1. t + j \in 1..Len(o)
    BY <1>1
  <2>2. o[t + j] \in Value \cup (Producers \X Nat)
    BY <2>1
  <2>3. e(j) \in Places
    BY <2>2 DEF Places
  <2> QED BY <2>3
<1>3. Pairs(h, w, t, o) = [j \in 1..n |-> e(j)]
  BY <1>1 DEF Pairs
<1> HIDE DEF n, e
<1>4. Pairs(h, w, t, o) \in Seq(Places) /\ Len(Pairs(h, w, t, o)) = n
  BY <1>1, <1>2, <1>3
<1>5. \A j \in 1..n : Pairs(h, w, t, o)[j] = e(j)
  BY <1>3
<1>6. \A j \in 1..n : Pairs(h, w, t, o)[j].val = o[t + j] /\ Pairs(h, w, t, o)[j].ready = (t + j <= h)
  BY <1>2, <1>5
<1> QED BY <1>4, <1>6 DEF n, PairAre

(* What the invariant of Spsc says of its places.                             *)
LEMMA SpscPlaces ==
  ASSUME SpscInv
  PROVE  /\ head \in Nat /\ wi \in Nat /\ wn \in Nat /\ tail \in Nat /\ rn \in Nat /\ ri \in Nat /\ tail <= head
         /\ order \in Seq(Value) /\ Len(order) = head + wi
         /\ PairAre(SpscItems, head, wi, tail, order)
         /\ wpc \in {"write", "publish"} => head + wn <= tail + Capacity
<1>1. /\ head \in Nat /\ wi \in Nat /\ wn \in Nat /\ tail \in Nat /\ rn \in Nat /\ ri \in Nat /\ tail <= head
      /\ order \in Seq(Value) /\ Len(order) = head + wi
  BY DEF SpscInv, SpscTypeOK, CachesAreOld, Lengths
<1>2. SpscItems = Pairs(head, wi, tail, order)
  BY DEF SpscItems, Pairs
<1>3. PairAre(Pairs(head, wi, tail, order), head, wi, tail, order)
  <2>1. tail <= head + wi
    BY <1>1
  <2> QED BY <1>1, <2>1, PairFacts
<1>4. wpc \in {"write", "publish"} => head + wn <= tail + Capacity
  BY <1>1, SegmentAssumption DEF SpscInv, SpscTypeOK, CachesAreOld, ProducerInv
<1> QED BY <1>1, <1>2, <1>3, <1>4

(* The same in the next state.                                                *)
LEMMA SpscPlacesNext ==
  ASSUME SpscInv'
  PROVE  PairAre(SpscItems', head', wi', tail', order')
<1>1. /\ head' \in Nat /\ wi' \in Nat /\ tail' \in Nat /\ tail' <= head'
      /\ order' \in Seq(Value) /\ Len(order') = head' + wi'
  BY DEF SpscInv, SpscTypeOK, CachesAreOld, Lengths
<1>2. SpscItems' = Pairs(head', wi', tail', order')
  BY DEF SpscItems, Pairs
<1>3. tail' <= head' + wi'
  <2>1. head' \in Nat /\ wi' \in Nat /\ tail' \in Nat /\ tail' <= head'
    BY <1>1
  <2>2. \A h, w, t \in Nat : t <= h => t <= h + w
    OBVIOUS
  <2> QED BY <2>1, <2>2
<1> QED BY <1>1, <1>2, <1>3, PairFacts

(* A write of Spsc claims the next place.                                     *)
LEMMA SpscWriteFifo ==
  ASSUME SpscInv, SpscInv', NEW v \in Value, SpscWrite(v), FifoItems = SpscItems, FifoItems' = SpscItems'
  PROVE  Fifo!Claim
<1>1. /\ head \in Nat /\ wi \in Nat /\ wn \in Nat /\ tail \in Nat /\ tail <= head
      /\ order \in Seq(Value) /\ Len(order) = head + wi
      /\ PairAre(FifoItems, head, wi, tail, order) /\ PairAre(FifoItems', head', wi', tail', order')
      /\ head + wn <= tail + Capacity /\ wi < wn
  BY SpscPlaces, SpscPlacesNext DEF SpscWrite, SpscInv, ProducerInv
<1>2. head' = head /\ tail' = tail /\ wi' = wi + 1 /\ order' = Append(order, v)
  BY DEF SpscWrite
<1>3. /\ Len(order') = head + wi + 1 /\ order'[head + wi + 1] = v
      /\ \A k \in 1..head + wi : order'[k] = order[k]
  BY <1>1, <1>2
<1> PICK n \in Nat : n = (head + wi) - tail
  BY <1>1
<1>4. (head' + wi') - tail' = n + 1
  BY <1>1, <1>2
<1>5. /\ FifoItems \in Seq(Places) /\ Len(FifoItems) = n
      /\ FifoItems' \in Seq(Places) /\ Len(FifoItems') = n + 1
  BY <1>1, <1>4 DEF PairAre
<1>6. ASSUME NEW i \in 1..n PROVE FifoItems'[i] = FifoItems[i]
  <2>1. FifoItems[i].val = order[tail + i] /\ FifoItems[i].ready = (tail + i <= head)
    BY <1>1 DEF PairAre
  <2>2. FifoItems'[i].val = order'[tail' + i] /\ FifoItems'[i].ready = (tail' + i <= head')
    <3>1. i \in 1..(head' + wi') - tail'
      BY <1>4
    <3> QED BY <1>1, <3>1 DEF PairAre
  <2>3. tail + i \in 1..head + wi
    BY <1>1
  <2>4. FifoItems'[i].val = FifoItems[i].val /\ FifoItems'[i].ready = FifoItems[i].ready
    BY <1>2, <1>3, <2>1, <2>2, <2>3
  <2>5. FifoItems'[i] \in Places /\ FifoItems[i] \in Places
    BY <1>5
  <2> QED BY <2>4, <2>5, PlaceEqual
<1>7. FifoItems'[n + 1] \in Fifo!Item /\ ~FifoItems'[n + 1].ready
  <2>1. n + 1 \in 1..(head' + wi') - tail'
    BY <1>4
  <2>2. FifoItems'[n + 1].val = order'[tail' + (n + 1)] /\ FifoItems'[n + 1].ready = (tail' + (n + 1) <= head')
    BY <1>1, <2>1 DEF PairAre
  <2>3. tail + (n + 1) = head + wi + 1 /\ ~(tail + (n + 1) <= head)
    BY <1>1
  <2>4. FifoItems'[n + 1].val = v /\ FifoItems'[n + 1].ready = FALSE
    <3>1. tail' + (n + 1) = head + wi + 1 /\ (tail' + (n + 1) <= head') = FALSE
      BY <1>2, <2>3
    <3> QED BY <1>3, <2>2, <3>1
  <2>5. FifoItems'[n + 1] \in Places
    BY <1>5
  <2>6. FifoItems'[n + 1] = [val |-> v, ready |-> FALSE]
    BY <2>4, <2>5 DEF Places
  <2> QED BY <2>4, <2>6 DEF Fifo!Item
<1>8. n + 1 \in n + 1..Capacity
  BY <1>1, SegmentAssumption
<1>9. \A i \in n + 1..n + 1 : i = n + 1
  OBVIOUS
<1> QED BY <1>5, <1>6, <1>7, <1>8, <1>9 DEF Fifo!Claim

(* Storing _head publishes the places written.                                *)
LEMMA SpscPublishFifo ==
  ASSUME SpscInv, SpscInv', PushPublish, FifoItems = SpscItems, FifoItems' = SpscItems'
  PROVE  Fifo!Publish
<1>1. /\ head \in Nat /\ wi \in Nat /\ wn \in Nat /\ tail \in Nat /\ tail <= head /\ wi = wn
      /\ PairAre(FifoItems, head, wi, tail, order) /\ PairAre(FifoItems', head', wi', tail', order')
  BY SpscPlaces, SpscPlacesNext DEF PushPublish, SpscInv, ProducerInv
<1>2. head' = head + wn /\ wi' = 0 /\ UNCHANGED <<tail, order>>
  BY DEF PushPublish
<1>3. (head' + wi') - tail' = (head + wi) - tail
  BY <1>1, <1>2
<1>4. ASSUME NEW i \in 1..(head + wi) - tail
      PROVE  FifoItems'[i].val = FifoItems[i].val /\ (FifoItems[i].ready => FifoItems'[i].ready)
  <2>1. FifoItems[i].val = order[tail + i] /\ FifoItems[i].ready = (tail + i <= head)
    BY <1>1 DEF PairAre
  <2>2. FifoItems'[i].val = order'[tail' + i] /\ FifoItems'[i].ready = (tail' + i <= head')
    BY <1>1, <1>3 DEF PairAre
  <2>3. tail + i <= head => tail + i <= head + wn
    BY <1>1
  <2> QED BY <1>2, <2>1, <2>2, <2>3
<1>5. Len(FifoItems) = (head + wi) - tail /\ Len(FifoItems') = (head + wi) - tail
  BY <1>1, <1>3 DEF PairAre
<1> QED BY <1>4, <1>5 DEF Fifo!Publish

(* Storing _tail takes the places read, all of them published.                *)
LEMMA SpscTakeFifo ==
  ASSUME SpscInv, SpscInv', PopPublish, rn > 0, FifoItems = SpscItems, FifoItems' = SpscItems'
  PROVE  Fifo!Take
<1>1. /\ head \in Nat /\ wi \in Nat /\ tail \in Nat /\ tail <= head /\ rn \in Nat
      /\ PairAre(FifoItems, head, wi, tail, order) /\ PairAre(FifoItems', head', wi', tail', order')
      /\ tail + rn <= head
  <2>1. rn \in Nat /\ cachedHead \in Nat /\ tail + rn <= cachedHead /\ cachedHead <= head /\ head \in Nat /\ tail \in Nat
    BY DEF PopPublish, SpscInv, SpscTypeOK, CachesAreOld, ConsumerInv
  <2> QED BY <2>1, SpscPlaces, SpscPlacesNext
<1>2. tail' = tail + rn /\ UNCHANGED <<head, wi, order>>
  BY DEF PopPublish, producer
<1> PICK n \in Nat : n = (head + wi) - tail
  BY <1>1
<1>3. (head' + wi') - tail' = n - rn
  BY <1>1, <1>2
<1>4. /\ FifoItems \in Seq(Places) /\ Len(FifoItems) = n
      /\ FifoItems' \in Seq(Places) /\ Len(FifoItems') = n - rn
  BY <1>1, <1>3 DEF PairAre
<1>5. rn \in 1..n
  BY <1>1
<1>6. ASSUME NEW i \in 1..rn PROVE FifoItems[i].ready
  <2>1. i \in 1..(head + wi) - tail /\ tail + i <= head
    BY <1>1
  <2>2. FifoItems[i].ready = (tail + i <= head)
    BY <1>1, <2>1 DEF PairAre
  <2> QED BY <2>1, <2>2
<1>7. ASSUME NEW j \in 1..n - rn PROVE FifoItems'[j] = FifoItems[rn + j]
  <2>1. rn + j \in 1..(head + wi) - tail /\ tail + (rn + j) = (tail + rn) + j /\ j \in 1..(head' + wi') - tail'
    BY <1>1, <1>3
  <2>2. FifoItems[rn + j].val = order[tail + (rn + j)] /\ FifoItems[rn + j].ready = (tail + (rn + j) <= head)
    BY <1>1, <2>1 DEF PairAre
  <2>3. FifoItems'[j].val = order'[tail' + j] /\ FifoItems'[j].ready = (tail' + j <= head')
    BY <1>1, <2>1 DEF PairAre
  <2>4. FifoItems'[j].val = FifoItems[rn + j].val /\ FifoItems'[j].ready = FifoItems[rn + j].ready
    BY <1>2, <2>1, <2>2, <2>3
  <2>5. FifoItems'[j] \in Places /\ FifoItems[rn + j] \in Places
    BY <1>4, <2>1
  <2> QED BY <2>4, <2>5, PlaceEqual
<1>8. FifoItems' = SubSeq(FifoItems, rn + 1, Len(FifoItems))
  BY <1>4, <1>5, <1>7, SuffixIs
<1> QED BY <1>4, <1>5, <1>6, <1>8 DEF Fifo!Take

(* Every step of Spsc is a step of the FIFO or leaves it alone.               *)
LEMMA SpscFifo ==
  ASSUME SpscInv, SpscInv', SpscNext, policy = "spsc", policy' = policy
  PROVE  Fifo!FifoNext \/ UNCHANGED FifoItems
<1>1. FifoItems = SpscItems /\ FifoItems' = SpscItems'
  BY DEF FifoItems
<1>2. ASSUME NEW v \in Value, SpscWrite(v) PROVE Fifo!FifoNext
  BY <1>1, <1>2, SpscWriteFifo DEF Fifo!FifoNext
<1>3. CASE PushPublish
  BY <1>1, <1>3, SpscPublishFifo DEF Fifo!FifoNext
<1>4. CASE PopPublish
  <2>1. CASE rn > 0
    BY <1>1, <1>4, <2>1, SpscTakeFifo DEF Fifo!FifoNext
  <2>2. CASE ~(rn > 0)
    <3>1. rn = 0 /\ tail \in Nat
      BY <2>2 DEF SpscInv, SpscTypeOK
    <3>2. UNCHANGED <<head, tail, wi, order>>
      BY <1>4, <3>1 DEF PopPublish, producer
    <3> QED BY <1>1, <3>2 DEF SpscItems
  <2> QED BY <2>1, <2>2
<1>5. CASE \/ \E size \in Sizes : PushStart(size) \/ PopStart(size)
           \/ PushRefresh \/ PopRefresh \/ PopRead \/ AttachProducer \/ AttachConsumer
  <2>1. UNCHANGED <<head, tail, wi, order>>
    BY <1>5 DEF PushStart, PopStart, PushRefresh, PopRefresh, PopRead, AttachProducer, AttachConsumer, PushOn, PopOn,
                segment, producer, consumer
  <2> QED BY <1>1, <2>1 DEF SpscItems
<1> QED BY <1>2, <1>3, <1>4, <1>5 DEF SpscNext, SpscPush, SpscPop

(* The FIFO is empty at first.                                                *)
LEMMA InitFifo == Init => Fifo!FifoInit
<1> SUFFICES ASSUME Init PROVE FifoItems = <<>>
  BY DEF Fifo!FifoInit
<1>1. head = 0 /\ tail = 0 /\ wi = 0
  BY DEF Init, SpscInit, SegmentInit
<1>2. CASE policy = "spsc"
  BY <1>1, <1>2 DEF FifoItems, SpscItems
<1>3. CASE policy = "mpsc"
  <2>1. cons.i = 0
    BY <1>3 DEF Init, Mpsc!IdleConsumer
  <2>2. Mpsc!Released = 0
    BY <1>1, <2>1 DEF Mpsc!Released
  <2> QED BY <1>1, <1>3, <2>2 DEF FifoItems, Mpsc!FifoItems
<1>4. CASE policy = "mpmc"
  BY <1>1, <1>4 DEF FifoItems, Mpmc!FifoItems
<1> QED BY <1>2, <1>3, <1>4, QueueAssumption DEF Init

(* Every step of the queue is a step of the FIFO or leaves it alone.          *)
LEMMA StepFifo ==
  ASSUME Capacity > 1, QueueInv, QueueInv', policy = "spsc" => SpscInv, (policy = "spsc" => SpscInv)', [Next]_vars
  PROVE  [Fifo!FifoNext]_FifoItems
<1>1. CASE UNCHANGED vars
  BY <1>1 DEF vars, segment, producer, consumer, ringVars, FifoItems, SpscItems, Mpsc!FifoItems, Mpmc!FifoItems,
              Mpsc!Released, Mpsc!Index, Mpmc!Index
<1>2. CASE policy = "spsc" /\ SpscNext /\ policy' = policy
  BY <1>2, SpscFifo
<1>3. CASE policy = "mpsc" /\ Mpsc!Next /\ policy' = policy
  BY <1>3, MpscFifo DEF QueueInv
<1>4. CASE policy = "mpmc" /\ Mpmc!Next /\ policy' = policy
  BY <1>4, MpmcFifo DEF QueueInv
<1> QED BY <1>1, <1>2, <1>3, <1>4 DEF Next

(* Every policy implements the bounded FIFO the reactor's command ring relies on: a push claims the
   next places within the capacity, publishes them later, and a pop takes only published places,
   from the front.                                                            *)
THEOREM QueueImplementsFifo ==
  ASSUME ~LateAttach, Capacity > 1, "mixed" \notin MpscUses
  PROVE  Spec => ImplementsFifo
<1>1. Init => Fifo!FifoInit
  BY InitFifo
<1>2. /\ QueueInv /\ QueueInv' /\ (policy = "spsc" => SpscInv) /\ (policy = "spsc" => SpscInv)' /\ [Next]_vars
      => [Fifo!FifoNext]_FifoItems
  BY StepFifo
<1>3. QueueInv /\ [Next]_vars => QueueInv'
  BY QueueStep
<1>4. Init => QueueInv
  BY QueueInitInv
<1> QED BY <1>1, <1>2, <1>3, <1>4, SpscPart, PTL DEF Spec, ImplementsFifo, Fifo!FifoSpec
=============================================================================
