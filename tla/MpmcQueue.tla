----------------------------- MODULE MpmcQueue -----------------------------
(***************************************************************************)
(* The Mpmc policy of queue.hpp: many producers, many consumers.  A        *)
(* consumer copies the elements, claims them by moving _tail and only then *)
(* gives the slots back; a producer of several elements therefore waits    *)
(* for each slot it has claimed.                                           *)
(***************************************************************************)
EXTENDS Ring

CONSTANT Consumers

VARIABLE cons    \* a consumer's frame: [pc, tail, size, n, i, vals]; size 0 is a single pop

vars == <<segmentVars, producerVars, taken, use, cons>>

IdleConsumer == [pc |-> "idle", tail |-> 0, size |-> 0, n |-> 0, i |-> 0, vals |-> <<>>]

Init == RingInit /\ cons = [c \in Consumers |-> IdleConsumer]

-----------------------------------------------------------------------------
(* tryPush.                                                                 *)

BatchCas(p) == BatchCasTo(p, "await")
PushPublish(p) == PushPublishTo(p, "await")

\* The write loop waits until the slot is given back.
BatchAwait(p) ==
    /\ ppc[p] = "await"
    /\ seq[Index(Ticket(p))] = Ticket(p)
    /\ ppc' = [ppc EXCEPT ![p] = "write"]
    /\ UNCHANGED <<phead, psize, pn, pi, order, segmentVars, taken, use>>

TryPush(p) ==
    \/ PushLoadSeq(p) \/ PushCas(p) \/ BatchLoadTail(p) \/ BatchCas(p)
    \/ BatchAwait(p) \/ PushWrite(p) \/ PushPublish(p)

StartPush(p) == PushLoadHead(p) \/ \E size \in Batches : BatchLoadHead(p, size)

-----------------------------------------------------------------------------
(* tryPop.                                                                  *)

Goto(c, frame) == cons' = [cons EXCEPT ![c] = frame]

PopLoadTail(c) ==
    /\ cons[c].pc = "idle"
    /\ \/ Goto(c, [cons[c] EXCEPT !.pc = "check", !.tail = tail])
       \/ \E size \in PopSizes : Goto(c, [cons[c] EXCEPT !.pc = "loadhead", !.tail = tail, !.size = size])
    /\ UNCHANGED <<segmentVars, producerVars, taken, use>>

\* slot->data for ticket k: a racing write may tear it.
Racing(k) == \E p \in Producers : ppc[p] = "write" /\ Index(Ticket(p)) = Index(k)
ReadOf(k) == {data[Index(k)]} \cup (IF Racing(k) THEN {Torn} ELSE {})

\* Load the slot's sequence: published, copy it; below, the ring is empty (TemporaryError);
\* above, another consumer was faster and the tail is loaded again.
PopCheck(c) ==
    LET f == cons[c]
        s == seq[Index(f.tail)] IN
    /\ f.pc = "check"
    /\ \/ s = f.tail + 1 /\ Goto(c, [f EXCEPT !.pc = "copy"])
       \/ s < f.tail + 1 /\ Goto(c, IdleConsumer)
       \/ s > f.tail + 1 /\ Goto(c, [f EXCEPT !.tail = tail])
    /\ UNCHANGED <<segmentVars, producerVars, taken, use>>

PopCopy(c) ==
    /\ cons[c].pc = "copy"
    /\ \E v \in ReadOf(cons[c].tail) : Goto(c, [cons[c] EXCEPT !.pc = "cas", !.n = 1, !.vals = <<v>>])
    /\ UNCHANGED <<segmentVars, producerVars, taken, use>>

\* tryPop (elements, size): how many are there...
PopLoadHead(c) ==
    LET n == Least(cons[c].size, Sub(head, cons[c].tail)) IN
    /\ cons[c].pc = "loadhead"
    /\ Goto(c, IF n = 0 THEN IdleConsumer ELSE [cons[c] EXCEPT !.pc = "collect", !.n = n, !.vals = <<>>])
    /\ UNCHANGED <<segmentVars, producerVars, taken, use>>

\* ... and copy those that are published.
PopCollect(c) ==
    LET f == cons[c]
        k == f.tail + Len(f.vals) IN
    /\ f.pc = "collect"
    /\ IF Len(f.vals) < f.n /\ seq[Index(k)] = k + 1
       THEN Goto(c, [f EXCEPT !.pc = "copy_n"])
       ELSE Goto(c, IF f.vals = <<>> THEN IdleConsumer ELSE [f EXCEPT !.pc = "cas", !.n = Len(f.vals)])
    /\ UNCHANGED <<segmentVars, producerVars, taken, use>>

PopCopyNext(c) ==
    LET f == cons[c] IN
    /\ f.pc = "copy_n"
    /\ \E v \in ReadOf(f.tail + Len(f.vals)) : Goto(c, [f EXCEPT !.pc = "collect", !.vals = Append(@, v)])
    /\ UNCHANGED <<segmentVars, producerVars, taken, use>>

\* Mutant: the tail is stored without comparing it.
PopCasBlind(c) ==
    LET f == cons[c] IN
    /\ f.pc = "cas"
    /\ tail' = f.tail + f.n
    /\ taken' = taken \cup {[ticket |-> f.tail + i - 1, val |-> f.vals[i], by |-> c] : i \in 1..f.n}
    /\ Goto(c, [f EXCEPT !.pc = "release", !.vals = <<>>])
    /\ UNCHANGED <<head, seq, data, producerVars, use>>

\* compare_exchange_weak of _tail: the copies count only if it succeeds.
PopCas(c) ==
    LET f == cons[c] IN
    /\ f.pc = "cas"
    /\ \/ /\ tail = f.tail
          /\ tail' = tail + f.n
          /\ taken' = taken \cup {[ticket |-> f.tail + i - 1, val |-> f.vals[i], by |-> c] : i \in 1..f.n}
          /\ Goto(c, [f EXCEPT !.pc = "release", !.vals = <<>>])
       \/ /\ tail # f.tail
          /\ Goto(c, [f EXCEPT !.pc = IF f.size = 0 THEN "check" ELSE "loadhead", !.tail = tail, !.vals = <<>>, !.n = 0])
          /\ UNCHANGED <<tail, taken>>
    /\ UNCHANGED <<head, seq, data, producerVars, use>>

\* The slots are given back one by one.
PopRelease(c) ==
    LET f == cons[c] IN
    /\ f.pc = "release"
    /\ seq' = [seq EXCEPT ![Index(f.tail + f.i)] = f.tail + f.i + Capacity]
    /\ Goto(c, IF f.i + 1 < f.n THEN [f EXCEPT !.i = @ + 1] ELSE IdleConsumer)
    /\ UNCHANGED <<head, tail, data, producerVars, taken, use>>

TryPop(c) == PopCheck(c) \/ PopCopy(c) \/ PopLoadHead(c) \/ PopCollect(c) \/ PopCopyNext(c) \/ PopCas(c) \/ PopRelease(c)

-----------------------------------------------------------------------------

Next ==
    \/ \E p \in Producers : (StartPush(p) \/ TryPush(p)) /\ UNCHANGED cons
    \/ \E c \in Consumers : PopLoadTail(c) \/ TryPop(c)

Spec == Init /\ [][Next]_vars

-----------------------------------------------------------------------------

(* _tail moves before the slots are given back, so _head never runs more than a lap
   ahead of it: ToWrite cannot wrap around, and pending is at most the capacity
   when read at one instant.                                                  *)
WithinCapacity == tail <= head /\ head - tail <= Capacity

(* A producer that has claimed a batch gets all its slots in the end.         *)
BatchCompletes == \A p \in Producers : (ppc[p] = "await") ~> (ppc[p] = "idle")

\* The queue as BoundedFifo sees it: the places claimed and not yet taken.
FifoItems ==
    [j \in 1..head - tail |-> [val |-> order[tail + j], ready |-> seq[Index(tail + j - 1)] = tail + j]]
=============================================================================
