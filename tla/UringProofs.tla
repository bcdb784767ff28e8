---------------------------- MODULE UringProofs ----------------------------
(***************************************************************************)
(* Proofs about the proactor over io_uring (module UringProactor), for     *)
(* every number of threads and operations, every size of the submission    *)
(* queue and of the command queue, and every policy, as long as no handler *)
(* calls stop while operations are pending (~UNestedStops; what happens    *)
(* otherwise is the finding of the run uring_nested_stop).                 *)
(*                                                                         *)
(*   UringHoldsItsPending    what is pending is in the ring exactly once   *)
(*   UringAnswersOnce        no operation is in two handlers               *)
(*   UringImplementsPromise  the backend implements AsyncOperations        *)
(*                                                                         *)
(* The inductive invariant UringInv says of the ring (RingOf) that an      *)
(* operation is in one of its three places exactly when it is pending, and *)
(* that nothing in it can cancel an operation nobody asked to end: a       *)
(* cancel entry left from an earlier flight is ahead of the entry of the   *)
(* new one, so the kernel finds nothing to cancel.  StackInv lists the     *)
(* kinds of stack the loop's thread can have, and FlightInv ties the state *)
(* of an operation to the table and the handler that runs.  What the calls *)
(* of the ring do to RingOf is proved first, of sequences and sets alone.  *)
(***************************************************************************)
EXTENDS UringProactor, SequenceTheorems, FiniteSetTheorems, TLAPS

-----------------------------------------------------------------------------
EntryType == [do : {"op", "cancel"}, op : UOps \cup {UWake}]
Completion == [op : UOps \cup {UWake, UNone}, res : {"ok", "fail", "cancelled"}]
UCommand == {c \in [type : {"submit", "cancel", "flush", "stop"}, op : UOps \cup {UNone}, flush : BOOLEAN, sync : BOOLEAN, by : UThreads] :
                c.type \in {"submit", "cancel"} => c.op \in UOps}

\* The operation o among the entries s, and among the completions c from the place lo on.
InSq(s, o) == \E i \in 1..Len(s) : s[i] = Entry("op", o)
InCq(c, lo, o) == \E i \in lo..Len(c) : c[i].op = o
\* Once in the ring if in P, and not at all if not.
HoldsOp(s, K, c, lo, o, P) ==
    /\ \A i, j \in 1..Len(s) : s[i] = Entry("op", o) /\ s[j] = Entry("op", o) => i = j
    /\ \A i, j \in lo..Len(c) : c[i].op = o /\ c[j].op = o => i = j
    /\ ~(InSq(s, o) /\ o \in K) /\ ~(InSq(s, o) /\ InCq(c, lo, o)) /\ ~(o \in K /\ InCq(c, lo, o))
    /\ o \in P <=> InSq(s, o) \/ o \in K \/ InCq(c, lo, o)
\* No cancel entry is ahead for an operation nobody asked to cancel: it is of an earlier flight.
Spared(s, K, KC, c, lo, o) ==
    /\ o \notin KC
    /\ \A i \in 1..Len(s) : s[i] = Entry("cancel", o) => o \notin K /\ \A j \in 1..Len(s) : s[j] = Entry("op", o) => i < j
    /\ \A i \in lo..Len(c) : c[i].op = o => c[i].res # "cancelled"
RingOf(s, K, KC, c, lo, P, A) ==
    /\ KC \subseteq K
    /\ \A o \in UOps : HoldsOp(s, K, c, lo, o, P) /\ (o \notin A => Spared(s, K, KC, c, lo, o))

(* What an entry of the submission queue is. *)
LEMMA EntryFacts ==
    /\ \A o, p : Entry("op", o) # Entry("cancel", p)
    /\ \A o, p, d : Entry(d, o) = Entry(d, p) => o = p
    /\ \A o \in UOps \cup {UWake}, d \in {"op", "cancel"} : Entry(d, o) \in EntryType
    /\ \A o, d : Entry(d, o).op = o /\ Entry(d, o).do = d
  BY DEF Entry, EntryType

(* A sequence cut after its first k elements. *)
LEMMA Cut ==
    ASSUME NEW S, NEW s \in Seq(S), NEW k \in 0..Len(s)
    PROVE  /\ SubSeq(s, 1, k) \in Seq(S) /\ Len(SubSeq(s, 1, k)) = k /\ \A i \in 1..k : SubSeq(s, 1, k)[i] = s[i]
           /\ SubSeq(s, k + 1, Len(s)) \in Seq(S) /\ Len(SubSeq(s, k + 1, Len(s))) = Len(s) - k
           /\ \A i \in 1..(Len(s) - k) : SubSeq(s, k + 1, Len(s))[i] = s[k + i]
  BY SubSeqProperties

(* Two sequences chained. *)
LEMMA Chain ==
    ASSUME NEW S, NEW a \in Seq(S), NEW b \in Seq(S)
    PROVE  /\ a \o b \in Seq(S) /\ Len(a \o b) = Len(a) + Len(b)
           /\ \A i \in 1..Len(a) : (a \o b)[i] = a[i]
           /\ \A i \in 1..Len(b) : (a \o b)[Len(a) + i] = b[i]
           /\ \A i \in 1..Len(a \o b) : (a \o b)[i] = IF i <= Len(a) THEN a[i] ELSE b[i - Len(a)]
  BY ConcatProperties

(* io_uring_submit of the first k entries. *)
LEMMA RingSubmits ==
    ASSUME NEW s \in Seq(EntryType), NEW k \in 0..Len(s), NEW K, NEW KC, NEW c \in Seq(Completion), NEW lo \in {1, 2}, lo <= Len(c) + 1,
           NEW P, NEW A, RingOf(s, K, KC, c, lo, P, A),
           NEW b \in Seq(Completion), \A i \in 1..Len(b) : b[i].op = UNone
    PROVE  RingOf(SubSeq(s, k + 1, Len(s)), K \cup EntryOps(SubSeq(s, 1, k)), KC \cup CancelledBy(SubSeq(s, 1, k), K), c \o b, lo, P, A)
<1>1. PICK e : e \in Seq(EntryType) /\ e = SubSeq(s, 1, k) /\ Len(e) = k /\ \A i \in 1..k : e[i] = s[i]
  <2>1. /\ SubSeq(s, 1, k) \in Seq(EntryType) /\ Len(SubSeq(s, 1, k)) = k /\ \A i \in 1..k : SubSeq(s, 1, k)[i] = s[i]
    BY Cut
  <2> QED BY <2>1, Zenon
<1>2. PICK l : l \in Seq(EntryType) /\ l = SubSeq(s, k + 1, Len(s)) /\ Len(l) = Len(s) - k /\ \A i \in 1..(Len(s) - k) : l[i] = s[k + i]
  <2>1. /\ SubSeq(s, k + 1, Len(s)) \in Seq(EntryType) /\ Len(SubSeq(s, k + 1, Len(s))) = Len(s) - k
        /\ \A i \in 1..(Len(s) - k) : SubSeq(s, k + 1, Len(s))[i] = s[k + i]
    BY Cut
  <2> QED BY <2>1, Zenon
<1>3. PICK d : d \in Seq(Completion) /\ d = c \o b /\ Len(d) = Len(c) + Len(b) /\ (\A i \in 1..Len(c) : d[i] = c[i]) /\ \A i \in 1..Len(b) : d[Len(c) + i] = b[i]
  <2>1. c \o b \in Seq(Completion) /\ Len(c \o b) = Len(c) + Len(b) /\ (\A i \in 1..Len(c) : (c \o b)[i] = c[i]) /\ \A i \in 1..Len(b) : (c \o b)[Len(c) + i] = b[i]
    BY Chain
  <2> QED BY <2>1, Zenon
<1>4. /\ Len(s) \in Nat /\ Len(c) \in Nat /\ Len(b) \in Nat /\ k \in Nat
  OBVIOUS
<1> DEFINE K1 == K \cup EntryOps(e)
           C1 == KC \cup CancelledBy(e, K)
<1>5. C1 \subseteq K1
  <2>1. CancelledBy(e, K) \subseteq K1
    <3> SUFFICES ASSUME NEW o \in CancelledBy(e, K), o \notin K PROVE o \in EntryOps(e)
      OBVIOUS
    <3> QED BY DEF CancelledBy, EntryOps
  <2> QED BY <2>1 DEF RingOf
<1>6. ASSUME NEW o \in UOps PROVE HoldsOp(l, K1, d, lo, o, P) /\ (o \notin A => Spared(l, K1, C1, d, lo, o))
  <2>1. HoldsOp(s, K, c, lo, o, P) /\ (o \notin A => Spared(s, K, KC, c, lo, o))
    BY DEF RingOf
  <2>2. o \in K1 <=> o \in K \/ \E i \in 1..k : s[i] = Entry("op", o)
    <3>1. o \in EntryOps(e) <=> \E i \in 1..k : e[i] = Entry("op", o)
      <4>1. DOMAIN e = 1..k
        BY <1>1, <1>4
      <4> QED BY <4>1 DEF EntryOps
    <3>2. (\E i \in 1..k : e[i] = Entry("op", o)) <=> \E i \in 1..k : s[i] = Entry("op", o)
      BY <1>1
    <3> QED BY <3>1, <3>2
  <2>3. InSq(l, o) <=> \E i \in (k + 1)..Len(s) : s[i] = Entry("op", o)
    <3>1. ASSUME NEW i \in (k + 1)..Len(s), s[i] = Entry("op", o) PROVE InSq(l, o)
      <4>1. i - k \in 1..Len(l) /\ l[i - k] = s[i]
        BY <1>2, <1>4
      <4> QED BY <4>1, <3>1 DEF InSq
    <3>2. ASSUME NEW i \in 1..Len(l), l[i] = Entry("op", o) PROVE k + i \in (k + 1)..Len(s) /\ s[k + i] = Entry("op", o)
      BY <1>2, <1>4, <3>2
    <3> QED BY <3>1, <3>2 DEF InSq
  <2>4. InSq(s, o) <=> InSq(l, o) \/ \E i \in 1..k : s[i] = Entry("op", o)
    BY <2>3, <1>4 DEF InSq
  <2>5. ASSUME NEW i \in lo..Len(d), d[i].op = o PROVE i \in lo..Len(c) /\ d[i] = c[i]
    <3>1. CASE i <= Len(c)
      BY <3>1, <1>3, <1>4
    <3>2. CASE i > Len(c)
      <4>1. i - Len(c) \in 1..Len(b) /\ d[i] = b[i - Len(c)]
        BY <3>2, <1>3, <1>4
      <4> QED BY <4>1, <2>5, UringAssumption
    <3> QED BY <3>1, <3>2, <1>4
  <2>6. ASSUME NEW i \in lo..Len(c) PROVE i \in lo..Len(d) /\ d[i] = c[i]
    BY <1>3, <1>4
  <2>7. InCq(d, lo, o) <=> InCq(c, lo, o)
    BY <2>5, <2>6 DEF InCq
  <2>8. \A i, j \in lo..Len(d) : d[i].op = o /\ d[j].op = o => i = j
    BY <2>5, <2>1 DEF HoldsOp
  <2>9. \A i, j \in 1..Len(s) : s[i] = Entry("op", o) /\ s[j] = Entry("op", o) => i = j
    BY <2>1 DEF HoldsOp
  <2>10. ASSUME NEW i \in 1..Len(l), NEW j \in 1..Len(l), l[i] = Entry("op", o), l[j] = Entry("op", o) PROVE i = j
    <3>1. k + i \in 1..Len(s) /\ k + j \in 1..Len(s) /\ s[k + i] = l[i] /\ s[k + j] = l[j]
      BY <1>2, <1>4
    <3>2. k + i = k + j
      BY <3>1, <2>9, <2>10
    <3> QED BY <3>2, <1>4
  <2>11. ~(InSq(l, o) /\ \E i \in 1..k : s[i] = Entry("op", o))
    BY <2>3, <2>9, <1>4
  <2>12. HoldsOp(l, K1, d, lo, o, P)
    BY <2>1, <2>2, <2>4, <2>7, <2>8, <2>10, <2>11 DEF HoldsOp
  <2>13. ASSUME o \notin A PROVE Spared(l, K1, C1, d, lo, o)
    <3>1. Spared(s, K, KC, c, lo, o)
      BY <2>13, <2>1
    <3>2. o \notin CancelledBy(e, K)
      <4> SUFFICES ASSUME NEW i \in 1..k, e[i] = Entry("cancel", o), o \in K \/ \E j \in 1..k : j < i /\ e[j] = Entry("op", o) PROVE FALSE
        BY <1>1, <1>4 DEF CancelledBy
      <4>1. i \in 1..Len(s) /\ s[i] = Entry("cancel", o)
        BY <1>1, <1>4
      <4>2. o \notin K /\ \A j \in 1..Len(s) : s[j] = Entry("op", o) => i < j
        BY <4>1, <3>1 DEF Spared
      <4>3. PICK j \in 1..k : j < i /\ e[j] = Entry("op", o)
        BY <4>2
      <4>4. j \in 1..Len(s) /\ s[j] = Entry("op", o)
        BY <4>3, <1>1, <1>4
      <4> QED BY <4>2, <4>3, <4>4, <1>4
    <3>3. ASSUME NEW i \in 1..Len(l), l[i] = Entry("cancel", o) PROVE o \notin K1 /\ \A j \in 1..Len(l) : l[j] = Entry("op", o) => i < j
      <4>1. k + i \in 1..Len(s) /\ s[k + i] = Entry("cancel", o)
        BY <3>3, <1>2, <1>4
      <4>2. o \notin K /\ \A j \in 1..Len(s) : s[j] = Entry("op", o) => k + i < j
        BY <4>1, <3>1 DEF Spared
      <4>3. o \notin K1
        BY <4>2, <2>2, <1>4
      <4>4. ASSUME NEW j \in 1..Len(l), l[j] = Entry("op", o) PROVE i < j
        <5>1. k + j \in 1..Len(s) /\ s[k + j] = Entry("op", o)
          BY <4>4, <1>2, <1>4
        <5>2. k + i < k + j
          BY <5>1, <4>2
        <5> QED BY <5>2, <1>4
      <4> QED BY <4>3, <4>4
    <3>4. \A i \in lo..Len(d) : d[i].op = o => d[i].res # "cancelled"
      BY <2>5, <3>1 DEF Spared
    <3>5. o \notin C1
      BY <3>1, <3>2 DEF Spared
    <3> QED BY <3>3, <3>4, <3>5 DEF Spared
  <2> QED BY <2>12, <2>13
<1>7. RingOf(l, K1, C1, d, lo, P, A)
  BY <1>5, <1>6 DEF RingOf
<1> QED BY <1>1, <1>2, <1>3, <1>7

(* Entries of no operation, and that cancel none but those in A. *)
LEMMA RingPrepares ==
    ASSUME NEW s \in Seq(EntryType), NEW e \in Seq(EntryType), NEW K, NEW KC, NEW c, NEW lo, NEW P, NEW A, RingOf(s, K, KC, c, lo, P, A),
           \A i \in 1..Len(e), o \in UOps : e[i] # Entry("op", o) /\ (o \notin A => e[i] # Entry("cancel", o))
    PROVE  RingOf(s \o e, K, KC, c, lo, P, A)
<1>1. PICK l : l = s \o e /\ Len(l) = Len(s) + Len(e) /\ \A i \in 1..Len(l) : l[i] = IF i <= Len(s) THEN s[i] ELSE e[i - Len(s)]
  <2>1. Len(s \o e) = Len(s) + Len(e) /\ \A i \in 1..Len(s \o e) : (s \o e)[i] = IF i <= Len(s) THEN s[i] ELSE e[i - Len(s)]
    BY Chain
  <2> QED BY <2>1, Zenon
<1>2. Len(s) \in Nat /\ Len(e) \in Nat
  OBVIOUS
<1>3. ASSUME NEW o \in UOps PROVE HoldsOp(l, K, c, lo, o, P) /\ (o \notin A => Spared(l, K, KC, c, lo, o))
  <2>1. HoldsOp(s, K, c, lo, o, P) /\ (o \notin A => Spared(s, K, KC, c, lo, o))
    BY DEF RingOf
  <2>2. ASSUME NEW i \in 1..Len(l), l[i] = Entry("op", o) \/ (o \notin A /\ l[i] = Entry("cancel", o)) PROVE i \in 1..Len(s) /\ l[i] = s[i]
    <3>1. CASE i <= Len(s)
      BY <3>1, <1>1, <1>2
    <3>2. CASE i > Len(s)
      <4>1. i - Len(s) \in 1..Len(e) /\ l[i] = e[i - Len(s)]
        BY <3>2, <1>1, <1>2
      <4> QED BY <4>1, <2>2
    <3> QED BY <3>1, <3>2, <1>1, <1>2
  <2>3. ASSUME NEW i \in 1..Len(s) PROVE i \in 1..Len(l) /\ l[i] = s[i]
    BY <1>1, <1>2
  <2>4. InSq(l, o) <=> InSq(s, o)
    BY <2>2, <2>3 DEF InSq
  <2>5. HoldsOp(l, K, c, lo, o, P)
    BY <2>1, <2>2, <2>4 DEF HoldsOp
  <2>6. ASSUME o \notin A PROVE Spared(l, K, KC, c, lo, o)
    BY <2>1, <2>2, <2>6 DEF Spared
  <2> QED BY <2>5, <2>6
<1> QED BY <1>1, <1>3 DEF RingOf

(* The entry of an operation that is not pending. *)
LEMMA RingAccepts ==
    ASSUME NEW s \in Seq(EntryType), NEW K, NEW KC, NEW c, NEW lo, NEW P, NEW A, RingOf(s, K, KC, c, lo, P, A),
           NEW p \in UOps, p \notin P
    PROVE  RingOf(s \o <<Entry("op", p)>>, K, KC, c, lo, P \cup {p}, A)
<1>1. PICK l : l = s \o <<Entry("op", p)>> /\ Len(l) = Len(s) + 1 /\ \A i \in 1..Len(l) : l[i] = IF i <= Len(s) THEN s[i] ELSE Entry("op", p)
  <2>1. <<Entry("op", p)>> \in Seq(EntryType) /\ Len(<<Entry("op", p)>>) = 1 /\ <<Entry("op", p)>>[1] = Entry("op", p)
    BY EntryFacts
  <2>2. PICK e \in Seq(EntryType) : e = <<Entry("op", p)>> /\ Len(e) = 1 /\ e[1] = Entry("op", p)
    BY <2>1, Zenon
  <2>3. Len(s \o e) = Len(s) + Len(e) /\ \A i \in 1..Len(s \o e) : (s \o e)[i] = IF i <= Len(s) THEN s[i] ELSE e[i - Len(s)]
    BY Chain
  <2>4. PICK l \in {s \o e} : Len(l) = Len(s) + 1 /\ \A i \in 1..Len(l) : l[i] = IF i <= Len(s) THEN s[i] ELSE e[i - Len(s)]
    BY <2>2, <2>3, Zenon
  <2>5. \A i \in 1..Len(l) : l[i] = IF i <= Len(s) THEN s[i] ELSE Entry("op", p)
    BY <2>2, <2>4
  <2> QED BY <2>2, <2>4, <2>5
<1>2. Len(s) \in Nat
  OBVIOUS
<1>3. ASSUME NEW o \in UOps PROVE HoldsOp(l, K, c, lo, o, P \cup {p}) /\ (o \notin A => Spared(l, K, KC, c, lo, o))
  <2>1. HoldsOp(s, K, c, lo, o, P) /\ (o \notin A => Spared(s, K, KC, c, lo, o))
    BY DEF RingOf
  <2>3. ASSUME NEW i \in 1..Len(s) PROVE i \in 1..Len(l) /\ l[i] = s[i]
    BY <1>1, <1>2
  <2>4. Len(l) \in 1..Len(l) /\ l[Len(l)] = Entry("op", p) /\ \A i \in 1..Len(l) : i \in 1..Len(s) \/ i = Len(l)
    BY <1>1, <1>2
  <2>5. CASE o # p
    <3>1. \A i \in 1..Len(l) : l[i] = Entry("op", o) => i \in 1..Len(s)
      BY <2>4, <2>5, EntryFacts
    <3>2. InSq(l, o) <=> InSq(s, o)
      BY <2>3, <3>1 DEF InSq
    <3>3. HoldsOp(l, K, c, lo, o, P \cup {p})
      BY <2>1, <2>3, <3>1, <3>2, <2>5 DEF HoldsOp
    <3>4. \A i \in 1..Len(l) : l[i] = Entry("cancel", o) => i \in 1..Len(s)
      BY <2>4, EntryFacts
    <3>5. ASSUME o \notin A PROVE Spared(l, K, KC, c, lo, o)
      BY <2>1, <2>3, <3>1, <3>4, <3>5 DEF Spared
    <3> QED BY <3>3, <3>5
  <2>6. CASE o = p
    <3>1. ~InSq(s, o) /\ o \notin K /\ ~InCq(c, lo, o)
      BY <2>1, <2>6 DEF HoldsOp
    <3>2. \A i \in 1..Len(l) : l[i] = Entry("op", o) => i = Len(l)
      BY <3>1, <2>3, <2>4 DEF InSq
    <3>3. InSq(l, o)
      BY <2>4, <2>6 DEF InSq
    <3>4. HoldsOp(l, K, c, lo, o, P \cup {p})
      BY <2>1, <3>1, <3>2, <3>3, <2>6 DEF HoldsOp
    <3>5. ASSUME o \notin A PROVE Spared(l, K, KC, c, lo, o)
      <4>1. Spared(s, K, KC, c, lo, o)
        BY <3>5, <2>1
      <4>2. ASSUME NEW i \in 1..Len(l), l[i] = Entry("cancel", o) PROVE o \notin K /\ \A j \in 1..Len(l) : l[j] = Entry("op", o) => i < j
        <5>1. i # Len(l)
          BY <4>2, <2>4, EntryFacts
        <5> QED BY <5>1, <3>1, <3>2, <1>1, <1>2
      <4> QED BY <4>1, <4>2 DEF Spared
    <3> QED BY <3>4, <3>5
  <2> QED BY <2>5, <2>6
<1> QED BY <1>1, <1>3 DEF RingOf

(* The kernel completes an operation. *)
Completes(s, K, KC, c, lo, P, A, p, r, K1, C1, d) ==
    /\ c \in Seq(Completion) /\ lo \in {1, 2} /\ lo <= Len(c) + 1 /\ RingOf(s, K, KC, c, lo, P, A)
    /\ p \in K /\ r \in Completion /\ r.op = p /\ (r.res = "cancelled" => p \in KC)
    /\ K1 = K \ {p} /\ C1 = KC \ {p} /\ d = Append(c, r)

(* An operation of the kernel moves to the completions, cancelled only if the kernel was asked. *)
LEMMA RingCompletes ==
    ASSUME NEW s, NEW K, NEW KC, NEW c, NEW lo, NEW P, NEW A, NEW p, NEW r, NEW K1, NEW C1, NEW d, Completes(s, K, KC, c, lo, P, A, p, r, K1, C1, d)
    PROVE  RingOf(s, K1, C1, d, lo, P, A)
<1> SUFFICES ASSUME c \in Seq(Completion), lo \in {1, 2}, lo <= Len(c) + 1, RingOf(s, K, KC, c, lo, P, A),
                    p \in K, r \in Completion, r.op = p, r.res = "cancelled" => p \in KC
             PROVE  RingOf(s, K \ {p}, KC \ {p}, Append(c, r), lo, P, A)
  BY DEF Completes
<1>1. d = Append(c, r) /\ Len(d) = Len(c) + 1 /\ (\A i \in 1..Len(c) : d[i] = c[i]) /\ d[Len(c) + 1] = r
  BY AppendProperties DEF Completes
<1>2. Len(c) \in Nat
  OBVIOUS
<1>3. ASSUME NEW o \in UOps PROVE HoldsOp(s, K \ {p}, d, lo, o, P) /\ (o \notin A => Spared(s, K \ {p}, KC \ {p}, d, lo, o))
  <2>1. HoldsOp(s, K, c, lo, o, P) /\ (o \notin A => Spared(s, K, KC, c, lo, o))
    BY DEF RingOf
  <2>2. \A i \in lo..Len(d) : (i \in lo..Len(c) /\ d[i] = c[i]) \/ (i = Len(d) /\ d[i] = r)
    BY <1>1, <1>2
  <2>3. \A i \in lo..Len(c) : i \in lo..Len(d) /\ d[i] = c[i]
    BY <1>1, <1>2
  <2>4. Len(d) \in lo..Len(d) /\ d[Len(d)] = r
    BY <1>1, <1>2
  <2>5. CASE o # p
    <3>1. InCq(d, lo, o) <=> InCq(c, lo, o)
      BY <2>2, <2>3, <2>5 DEF InCq
    <3>2. \A i \in lo..Len(d) : d[i].op = o => i \in lo..Len(c) /\ d[i] = c[i]
      BY <2>2, <2>5
    <3> QED BY <3>1, <3>2, <2>1, <2>5 DEF HoldsOp, Spared
  <2>6. CASE o = p
    <3>1. ~InSq(s, o) /\ ~InCq(c, lo, o) /\ o \in P
      BY <2>1, <2>6 DEF HoldsOp
    <3>2. \A i \in lo..Len(d) : d[i].op = o => i = Len(d)
      BY <3>1, <2>2 DEF InCq
    <3>3. InCq(d, lo, o)
      BY <2>4, <2>6 DEF InCq
    <3>4. HoldsOp(s, K \ {p}, d, lo, o, P)
      BY <3>1, <3>2, <3>3, <2>1, <2>6 DEF HoldsOp
    <3>5. ASSUME o \notin A PROVE Spared(s, K \ {p}, KC \ {p}, d, lo, o)
      <4>1. Spared(s, K, KC, c, lo, o)
        BY <3>5, <2>1
      <4>2. r.res # "cancelled"
        BY <4>1, <2>6 DEF Spared
      <4> QED BY <4>1, <4>2, <3>2, <2>4, <2>6 DEF Spared
    <3> QED BY <3>4, <3>5
  <2> QED BY <2>5, <2>6
<1>4. KC \ {p} \subseteq K \ {p}
  BY DEF RingOf
<1> QED BY <1>1, <1>3, <1>4 DEF RingOf

(* io_uring_cqe_seen. *)
LEMMA RingSees ==
    ASSUME NEW s, NEW K, NEW KC, NEW c \in Seq(Completion), c # <<>>, NEW P, NEW A, RingOf(s, K, KC, c, 2, P, A)
    PROVE  RingOf(s, K, KC, Tail(c), 1, P, A)
<1>1. PICK d : d = Tail(c) /\ Len(d) = Len(c) - 1 /\ \A i \in 1..Len(d) : d[i] = c[i + 1]
  <2>1. Len(Tail(c)) = Len(c) - 1 /\ \A i \in 1..Len(Tail(c)) : Tail(c)[i] = c[i + 1]
    BY HeadTailProperties
  <2> QED BY <2>1, Zenon
<1>2. Len(c) \in Nat
  OBVIOUS
<1>3. ASSUME NEW o \in UOps PROVE HoldsOp(s, K, d, 1, o, P) /\ (o \notin A => Spared(s, K, KC, d, 1, o))
  <2>1. HoldsOp(s, K, c, 2, o, P) /\ (o \notin A => Spared(s, K, KC, c, 2, o))
    BY DEF RingOf
  <2>2. \A i \in 1..Len(d) : i + 1 \in 2..Len(c) /\ d[i] = c[i + 1]
    BY <1>1, <1>2
  <2>3. \A i \in 2..Len(c) : i - 1 \in 1..Len(d) /\ d[i - 1] = c[i]
    BY <1>1, <1>2
  <2>4. InCq(d, 1, o) <=> InCq(c, 2, o)
    BY <2>2, <2>3 DEF InCq
  <2>5. ASSUME NEW i \in 1..Len(d), NEW j \in 1..Len(d), d[i].op = o, d[j].op = o PROVE i = j
    <3>1. i + 1 = j + 1
      BY <2>5, <2>2, <2>1 DEF HoldsOp
    <3> QED BY <3>1, <1>1, <1>2
  <2>6. HoldsOp(s, K, d, 1, o, P)
    BY <2>1, <2>4, <2>5 DEF HoldsOp
  <2>7. ASSUME o \notin A PROVE Spared(s, K, KC, d, 1, o)
    BY <2>1, <2>2, <2>7 DEF Spared
  <2> QED BY <2>6, <2>7
<1> QED BY <1>1, <1>3 DEF RingOf

(* The first completion is dispatched. *)
LEMMA RingDispatches ==
    ASSUME NEW s, NEW K, NEW KC, NEW c \in Seq(Completion), c # <<>>, NEW P, NEW A, RingOf(s, K, KC, c, 1, P, A)
    PROVE  /\ RingOf(s, K, KC, c, 2, P \ {c[1].op}, A)
           /\ c[1].op \in UOps => c[1].op \in P
           /\ c[1].op \in UOps /\ c[1].res = "cancelled" => c[1].op \in A
<1>1. Len(c) \in Nat /\ 1 \in 1..Len(c)
  OBVIOUS
<1>2. ASSUME NEW o \in UOps
      PROVE  /\ HoldsOp(s, K, c, 2, o, P \ {c[1].op}) /\ (o \notin A => Spared(s, K, KC, c, 2, o))
             /\ c[1].op = o => o \in P /\ (c[1].res = "cancelled" => o \in A)
  <2>1. HoldsOp(s, K, c, 1, o, P) /\ (o \notin A => Spared(s, K, KC, c, 1, o))
    BY DEF RingOf
  <2>2. \A i \in 2..Len(c) : i \in 1..Len(c) /\ i # 1
    BY <1>1
  <2>3. \A i \in 1..Len(c) : i = 1 \/ i \in 2..Len(c)
    BY <1>1
  <2>4. InCq(c, 1, o) <=> c[1].op = o \/ InCq(c, 2, o)
    BY <2>2, <2>3, <1>1 DEF InCq
  <2>5. ~(c[1].op = o /\ InCq(c, 2, o))
    BY <2>1, <2>2, <1>1 DEF InCq, HoldsOp
  <2>6. HoldsOp(s, K, c, 2, o, P \ {c[1].op})
    BY <2>1, <2>2, <2>4, <2>5 DEF HoldsOp
  <2>7. ASSUME o \notin A PROVE Spared(s, K, KC, c, 2, o) /\ (c[1].op = o => c[1].res # "cancelled")
    BY <2>1, <2>2, <2>7, <1>1 DEF Spared
  <2>8. c[1].op = o => o \in P
    BY <2>1, <2>4 DEF HoldsOp
  <2> QED BY <2>6, <2>7, <2>8
<1> QED BY <1>2 DEF RingOf

(* More operations are asked to end; one is idle again. *)
LEMMA RingAsks ==
    ASSUME NEW s, NEW K, NEW KC, NEW c, NEW lo, NEW P, NEW A, NEW B, RingOf(s, K, KC, c, lo, P, A), A \subseteq B
    PROVE  RingOf(s, K, KC, c, lo, P, B)
  BY DEF RingOf

(* An operation that is not in the ring may be taken back from those asked to end. *)
LEMMA RingRetires ==
    ASSUME NEW s, NEW K, NEW KC, NEW c, NEW lo, NEW P, NEW A, NEW p, RingOf(s, K, KC, c, lo, P, A), p \notin P
    PROVE  RingOf(s, K, KC, c, lo, P, A \ {p})
<1>1. ASSUME p \in UOps PROVE Spared(s, K, KC, c, lo, p)
  <2>1. ~InSq(s, p) /\ p \notin K /\ ~InCq(c, lo, p) /\ p \notin KC
    BY <1>1 DEF RingOf, HoldsOp
  <2> QED BY <2>1 DEF Spared, InSq, InCq
<1> QED BY <1>1 DEF RingOf

-----------------------------------------------------------------------------
\* What the loop's thread has to do: the calls under way, the innermost first.
UItem == [do : {"run", "start", "rearm", "check", "exit", "drain", "peek", "dispatch", "seen"}]
         \cup [do : {"handler"}, op : UOps, cancelled : BOOLEAN]
Is(d) == Len(ustack) = Len(d) /\ \A i \in 1..Len(d) : ustack[i].do = d[i]

Waiting == {<<>>, <<"run">>, <<"start">>, <<"rearm", "check", "exit">>, <<"check", "exit">>, <<"exit">>,
            <<"drain", "peek", "check", "exit">>, <<"peek", "check", "exit">>}
Dispatching == {<<"dispatch", "seen", "check", "exit">>}
Seeing == {<<"seen", "check", "exit">>, <<"drain", "rearm", "seen", "check", "exit">>, <<"rearm", "seen", "check", "exit">>}
Handling == {<<"handler", "seen", "check", "exit">>}
Stopping == {<<"check", "handler", "seen", "check", "exit">>}

Pend == Range(upending)
Asked == {o \in UOps : ustate[o] = "Cancelling"}
Handled == {o \in UOps : \E i \in 1..Len(ustack) : ustack[i].do = "handler" /\ ustack[i].op = o}

TableTypes == ustate \in [UOps -> {"Idle", "Submitted", "Cancelling"}] /\ uindex \in [UOps -> Nat] /\ upending \in Seq(UOps)
RingTypes == sq \in Seq(EntryType) /\ kernel \in SUBSET (UOps \cup {UWake}) /\ kcancel \in SUBSET UOps /\ cq \in Seq(Completion)
CallTypes ==
    /\ DOMAIN upc = UThreads /\ DOMAIN ucmd = UThreads /\ ucommands \in Seq(UCommand)
    /\ \A t \in UThreads : upc[t] \in {"running", "claim", "push"} => ucmd[t] \in UCommand
UTypes == TableTypes /\ RingTypes /\ CallTypes /\ ustack \in Seq(UItem)
Indexed == \A i \in 1..Len(upending) : uindex[upending[i]] = i
StackInv ==
    \/ \E d \in Waiting : Is(d)
    \/ cq # <<>> /\ \E d \in Dispatching \cup Seeing \cup Handling : Is(d)
    \/ cq # <<>> /\ upending = <<>> /\ ~urunning /\ \E d \in Stopping : Is(d)
FlightInv == \A o \in UOps : (ustate[o] = "Idle" <=> o \notin Pend /\ o \notin Handled) /\ ~(o \in Pend /\ o \in Handled)
UringInv ==
    /\ UTypes /\ Indexed /\ StackInv /\ FlightInv
    /\ RingOf(sq, kernel, kcancel, cq, FirstUnseen, Pend, Asked)

-----------------------------------------------------------------------------
(* The whole blocks of d in n. *)
LEMMA Blocks == ASSUME NEW n \in Nat, NEW d \in Nat \ {0} PROVE (n \div d) * d \in 0..n
<1>1. n \div d \in Nat /\ n % d \in Nat /\ n = d * (n \div d) + (n % d)
  OBVIOUS
<1>2. PICK q \in Nat, r \in Nat : q = n \div d /\ n = d * q + r
  BY <1>1
<1>3. d * q = q * d /\ d * q \in Nat
  OBVIOUS
<1> QED BY <1>2, <1>3

(* All of a sequence, and nothing behind it. *)
LEMMA WholeSeq == ASSUME NEW S, NEW s \in Seq(S) PROVE SubSeq(s, 1, Len(s)) = s /\ SubSeq(s, Len(s) + 1, Len(s)) = <<>>
<1>1. SubSeq(s, 1, Len(s)) \in Seq(S) /\ Len(SubSeq(s, 1, Len(s))) = Len(s) /\ \A i \in 1..Len(s) : SubSeq(s, 1, Len(s))[i] = s[i]
  BY Cut
<1>2. SubSeq(s, Len(s) + 1, Len(s)) \in Seq(S) /\ Len(SubSeq(s, Len(s) + 1, Len(s))) = 0
  BY Cut
<1>3. SubSeq(s, 1, Len(s)) = s
  BY <1>1, SeqEqual
<1> QED BY <1>2, <1>3, EmptySeq

\* The ring after a step, with what it had to dispatch.
RingNow(lo, P, A) ==
    /\ sq' \in Seq(EntryType) /\ kernel' \in SUBSET (UOps \cup {UWake}) /\ kcancel' \in SUBSET UOps /\ cq' \in Seq(Completion)
    /\ cq # <<>> => cq' # <<>>
    /\ RingOf(sq', kernel', kcancel', cq', lo, P, A)

(* io_uring_submit of a first part of the entries leaves the ring in order. *)
LEMMA SubmitRing ==
    ASSUME RingTypes, NEW all \in Seq(EntryType), NEW k \in 0..Len(all), NEW lo \in {1, 2}, lo <= Len(cq) + 1, NEW P, NEW A,
           RingOf(all, kernel, kcancel, cq, lo, P, A), RingSubmit(SubSeq(all, 1, k), SubSeq(all, k + 1, Len(all)))
    PROVE  RingNow(lo, P, A)
<1>1. PICK e : e \in Seq(EntryType) /\ e = SubSeq(all, 1, k)
  BY Cut
<1>2. SubSeq(all, k + 1, Len(all)) \in Seq(EntryType)
  BY Cut
<1>3. PICK n \in Nat : n = Cardinality({j \in DOMAIN e : e[j].do = "cancel"})
  <2>1. DOMAIN e = 1..Len(e) /\ Len(e) \in Nat
    BY <1>1
  <2>2. IsFiniteSet(1..Len(e))
    BY <2>1, FS_Interval
  <2>3. IsFiniteSet({j \in DOMAIN e : e[j].do = "cancel"})
    BY <2>1, <2>2, FS_Subset
  <2> QED BY <2>3, FS_CardinalityType
<1>4. PICK b \in Seq(Completion) : b = [i \in 1..n |-> [op |-> UNone, res |-> "ok"]] /\ \A i \in 1..Len(b) : b[i].op = UNone
  <2> DEFINE b0 == [i \in 1..n |-> [op |-> UNone, res |-> "ok"]]
  <2>1. b0 \in Seq(Completion) /\ Len(b0) = n /\ \A i \in 1..n : b0[i].op = UNone
    BY DEF Completion
  <2> QED BY <2>1
<1>5. RingOf(SubSeq(all, k + 1, Len(all)), kernel \cup EntryOps(SubSeq(all, 1, k)), kcancel \cup CancelledBy(SubSeq(all, 1, k), kernel), cq \o b, lo, P, A)
  BY <1>4, RingSubmits DEF RingTypes
<1>6. /\ sq' = SubSeq(all, k + 1, Len(all)) /\ kernel' = kernel \cup EntryOps(SubSeq(all, 1, k))
      /\ kcancel' = kcancel \cup CancelledBy(SubSeq(all, 1, k), kernel) /\ cq' = cq \o b
  BY <1>1, <1>3, <1>4 DEF RingSubmit
<1>7. cq \o b \in Seq(Completion) /\ Len(cq \o b) = Len(cq) + Len(b) /\ Len(cq) \in Nat /\ Len(b) \in Nat
  BY <1>4, Chain DEF RingTypes
<1>8. cq # <<>> => cq \o b # <<>>
  BY <1>7, EmptySeq DEF RingTypes
<1>9. EntryOps(SubSeq(all, 1, k)) \subseteq UOps \cup {UWake} /\ CancelledBy(SubSeq(all, 1, k), kernel) \subseteq UOps
  BY DEF EntryOps, CancelledBy
<1> QED BY <1>2, <1>5, <1>6, <1>7, <1>8, <1>9 DEF RingNow, RingTypes

(* io_uring_submit of all the entries. *)
LEMMA SubmitAll ==
    ASSUME RingTypes, NEW all \in Seq(EntryType), NEW lo \in {1, 2}, lo <= Len(cq) + 1, NEW P, NEW A,
           RingOf(all, kernel, kcancel, cq, lo, P, A), RingSubmit(all, <<>>)
    PROVE  RingNow(lo, P, A)
<1>1. SubSeq(all, 1, Len(all)) = all /\ SubSeq(all, Len(all) + 1, Len(all)) = <<>> /\ Len(all) \in 0..Len(all)
  BY WholeSeq
<1>2. RingSubmit(SubSeq(all, 1, Len(all)), SubSeq(all, Len(all) + 1, Len(all)))
  BY <1>1
<1> QED BY <1>1, <1>2, SubmitRing

(* getSqe and the flush, for entries that leave the ring in order. *)
LEMMA PrepareRing ==
    ASSUME RingTypes, NEW e \in Seq(EntryType), NEW flush, NEW lo \in {1, 2}, lo <= Len(cq) + 1, NEW P, NEW A,
           RingOf(sq \o e, kernel, kcancel, cq, lo, P, A), Prepare(e, flush)
    PROVE  RingNow(lo, P, A)
<1>1. PICK all : all = sq \o e /\ all \in Seq(EntryType)
  BY Chain DEF RingTypes
<1>2. CASE flush
  <2>1. RingSubmit(all, <<>>)
    BY <1>1, <1>2 DEF Prepare
  <2> QED BY <1>1, <2>1, SubmitAll
<1>3. CASE ~flush
  <2>1. PICK k : k = IF all = <<>> THEN 0 ELSE ((Len(all) - 1) \div SqEntries) * SqEntries
    OBVIOUS
  <2>2. k \in 0..Len(all)
    <3>1. CASE all = <<>>
      BY <3>1, <2>1, <1>1
    <3>2. CASE all # <<>>
      <4>1. Len(all) - 1 \in Nat
        BY <3>2, <1>1
      <4>2. k \in 0..(Len(all) - 1)
        BY <3>2, <2>1, <4>1, Blocks, UringAssumption
      <4> QED BY <4>1, <4>2
    <3> QED BY <3>1, <3>2
  <2>3. RingSubmit(SubSeq(all, 1, k), SubSeq(all, k + 1, Len(all)))
    BY <1>1, <1>3, <2>1 DEF Prepare
  <2> QED BY <1>1, <2>2, <2>3, SubmitRing
<1> QED BY <1>2, <1>3

-----------------------------------------------------------------------------
(* The stack. *)
LEMMA TopIs == ASSUME UTypes, NEW x PROVE Doing(x) <=> Len(ustack) >= 1 /\ ustack[1].do = x
<1>1. ustack \in Seq(UItem) /\ Len(ustack) \in Nat
  BY DEF UTypes
<1>2. ustack # <<>> <=> Len(ustack) >= 1
  BY <1>1, EmptySeq
<1>3. ustack # <<>> => Head(ustack) = ustack[1]
  BY <1>1
<1> QED BY <1>2, <1>3 DEF Doing

(* FirstUnseen, from the names of what is on the stack. *)
LEMMA UnseenIs ==
    ASSUME UTypes, NEW d, Is(d), Len(d) \in Nat
    PROVE  FirstUnseen = IF (\E i \in 1..Len(d) : d[i] = "seen") /\ ~(Len(d) >= 1 /\ d[1] = "dispatch") THEN 2 ELSE 1
<1>1. ustack \in Seq(UItem) /\ Len(ustack) \in Nat /\ DOMAIN ustack = 1..Len(ustack)
  BY DEF UTypes
<1>2. Len(ustack) = Len(d) /\ \A i \in 1..Len(d) : ustack[i].do = d[i]
  BY DEF Is
<1>3. (\E i \in DOMAIN ustack : ustack[i].do = "seen") <=> \E i \in 1..Len(d) : d[i] = "seen"
  BY <1>1, <1>2
<1>4. Doing("dispatch") <=> Len(d) >= 1 /\ d[1] = "dispatch"
  BY <1>1, <1>2, TopIs
<1> QED BY <1>3, <1>4 DEF FirstUnseen

(* Outside handlers no operation is being answered. *)
LEMMA NoHandler ==
    ASSUME UTypes, NEW d \in Waiting \cup Dispatching \cup Seeing, Is(d)
    PROVE  /\ Handled = {}
           /\ d \in Waiting \cup Dispatching => FirstUnseen = 1
           /\ d \in Seeing => FirstUnseen = 2
<1>1. Len(ustack) = Len(d) /\ \A i \in 1..Len(d) : ustack[i].do = d[i]
  BY DEF Is
<1>2. \A i \in 1..Len(d) : d[i] # "handler"
  BY DEF Waiting, Dispatching, Seeing
<1>3. Handled = {}
  BY <1>1, <1>2 DEF Handled
<1>4. Len(d) \in Nat
  BY DEF Waiting, Dispatching, Seeing
<1>5. CASE d \in Waiting
  <2>1. \A i \in 1..Len(d) : d[i] # "seen"
    BY <1>5 DEF Waiting
  <2>2. d \notin Seeing
    BY <1>5 DEF Waiting, Seeing
  <2> QED BY <1>3, <1>4, <2>1, <2>2, UnseenIs
<1>6. CASE d \in Dispatching
  <2>1. Len(d) >= 1 /\ d[1] = "dispatch" /\ d \notin Seeing
    BY <1>6 DEF Dispatching, Seeing
  <2> QED BY <1>3, <1>4, <2>1, UnseenIs
<1>7. CASE d \in Seeing
  <2>1. (\E i \in 1..Len(d) : d[i] = "seen") /\ d[1] # "dispatch" /\ d \notin Waiting \cup Dispatching
    <3>1. d \notin Waiting \cup Dispatching /\ d[1] # "dispatch"
      BY <1>7 DEF Seeing, Waiting, Dispatching
    <3>2. CASE d = <<"seen", "check", "exit">>
      <4>1. 1 \in 1..Len(d) /\ d[1] = "seen"
        BY <3>2
      <4> QED BY <3>1, <4>1
    <3>3. CASE d = <<"drain", "rearm", "seen", "check", "exit">>
      <4>1. 3 \in 1..Len(d) /\ d[3] = "seen"
        BY <3>3
      <4> QED BY <3>1, <4>1
    <3>4. CASE d = <<"rearm", "seen", "check", "exit">>
      <4>1. 2 \in 1..Len(d) /\ d[2] = "seen"
        BY <3>4
      <4> QED BY <3>1, <4>1
    <3> QED BY <3>2, <3>3, <3>4, <1>7 DEF Seeing
  <2> QED BY <1>3, <1>4, <2>1, UnseenIs
<1> QED BY <1>5, <1>6, <1>7

(* In a handler, and in the event loop that stop runs there, one operation is being answered. *)
LEMMA HandlerAt ==
    ASSUME UTypes, NEW d \in Handling \cup Stopping, Is(d)
    PROVE  /\ FirstUnseen = 2
           /\ \E n \in 1..Len(ustack) :
                /\ ustack[n].do = "handler" /\ ustack[n].op \in UOps /\ ustack[n].cancelled \in BOOLEAN /\ Handled = {ustack[n].op}
                /\ \A i \in 1..Len(ustack) : ustack[i].do = "handler" => i = n
                /\ d \in Handling => n = 1
                /\ d \in Stopping => n = 2
<1>1. Len(ustack) = Len(d) /\ \A i \in 1..Len(d) : ustack[i].do = d[i]
  BY DEF Is
<1>2. PICK n \in {1, 2} : n \in 1..Len(d) /\ d[n] = "handler" /\ (\A i \in 1..Len(d) : d[i] = "handler" => i = n) /\ (d \in Handling => n = 1) /\ (d \in Stopping => n = 2)
  <2>1. CASE d \in Handling
    <3>1. d \notin Stopping /\ 1 \in 1..Len(d) /\ d[1] = "handler" /\ \A i \in 1..Len(d) : d[i] = "handler" => i = 1
      <4>1. Len(d) = 4 /\ d[1] = "handler" /\ d[2] = "seen" /\ d[3] = "check" /\ d[4] = "exit"
        BY <2>1 DEF Handling
      <4>2. d \notin Stopping
        BY <4>1 DEF Stopping
      <4> QED BY <4>1, <4>2
    <3> QED BY <3>1
  <2>2. CASE d \in Stopping
    <3>1. d \notin Handling /\ 2 \in 1..Len(d) /\ d[2] = "handler" /\ \A i \in 1..Len(d) : d[i] = "handler" => i = 2
      <4>1. Len(d) = 5 /\ d[1] = "check" /\ d[2] = "handler" /\ d[3] = "seen" /\ d[4] = "check" /\ d[5] = "exit"
        BY <2>2 DEF Stopping
      <4>2. d \notin Handling
        BY <4>1 DEF Handling
      <4> QED BY <4>1, <4>2
    <3> QED BY <3>1
  <2> QED BY <2>1, <2>2
<1>3. Len(d) \in Nat /\ d[1] # "dispatch" /\ \E i \in 1..Len(d) : d[i] = "seen"
  <2>1. CASE d \in Handling
    <3>1. Len(d) \in Nat /\ d[1] # "dispatch" /\ 2 \in 1..Len(d) /\ d[2] = "seen"
      BY <2>1 DEF Handling
    <3> QED BY <3>1
  <2>2. CASE d \in Stopping
    <3>1. Len(d) \in Nat /\ d[1] # "dispatch" /\ 3 \in 1..Len(d) /\ d[3] = "seen"
      BY <2>2 DEF Stopping
    <3> QED BY <3>1
  <2> QED BY <2>1, <2>2
<1>4. FirstUnseen = 2
  BY <1>3, UnseenIs
<1>5. n \in 1..Len(ustack) /\ ustack[n].do = "handler" /\ \A i \in 1..Len(ustack) : ustack[i].do = "handler" => i = n
  BY <1>1, <1>2
<1>6. ustack[n] \in UItem
  BY <1>5 DEF UTypes
<1>7. ustack[n].op \in UOps /\ ustack[n].cancelled \in BOOLEAN
  BY <1>5, <1>6 DEF UItem
<1>8. Handled = {ustack[n].op}
  BY <1>5, <1>7 DEF Handled
<1> QED BY <1>2, <1>4, <1>5, <1>7, <1>8

(* What is under the first thing to do. *)
LEMMA StackAt ==
    ASSUME UTypes, StackInv
    PROVE  /\ Doing("run") => Is(<<"run">>)
           /\ Doing("start") => Is(<<"start">>)
           /\ Doing("exit") => Is(<<"exit">>)
           /\ Doing("rearm") => Is(<<"rearm", "check", "exit">>) \/ (Is(<<"rearm", "seen", "check", "exit">>) /\ cq # <<>>)
           /\ Doing("check") => Is(<<"check", "exit">>) \/ (upending = <<>> /\ ~urunning /\ Is(<<"check", "handler", "seen", "check", "exit">>) /\ cq # <<>>)
           /\ Doing("drain") => Is(<<"drain", "peek", "check", "exit">>) \/ (Is(<<"drain", "rearm", "seen", "check", "exit">>) /\ cq # <<>>)
           /\ Doing("peek") => Is(<<"peek", "check", "exit">>)
           /\ Doing("dispatch") => Is(<<"dispatch", "seen", "check", "exit">>) /\ cq # <<>>
           /\ Doing("seen") => Is(<<"seen", "check", "exit">>) /\ cq # <<>>
           /\ Doing("handler") => Is(<<"handler", "seen", "check", "exit">>) /\ cq # <<>>
<1>1. \A x : Doing(x) <=> Len(ustack) >= 1 /\ ustack[1].do = x
  BY TopIs
<1>2. CASE Is(<<>>)
  <2>1. Len(ustack) = 0
    BY <1>2 DEF Is
  <2> QED BY <1>1, <2>1
<1>3. CASE Is(<<"run">>)
  <2>1. Len(ustack) >= 1 /\ ustack[1].do = "run"
    BY <1>3 DEF Is
  <2> QED BY <1>1, <1>3, <2>1
<1>4. CASE Is(<<"start">>)
  <2>1. Len(ustack) >= 1 /\ ustack[1].do = "start"
    BY <1>4 DEF Is
  <2> QED BY <1>1, <1>4, <2>1
<1>5. CASE Is(<<"rearm", "check", "exit">>)
  <2>1. Len(ustack) >= 1 /\ ustack[1].do = "rearm"
    BY <1>5 DEF Is
  <2> QED BY <1>1, <1>5, <2>1
<1>6. CASE Is(<<"check", "exit">>)
  <2>1. Len(ustack) >= 1 /\ ustack[1].do = "check"
    BY <1>6 DEF Is
  <2> QED BY <1>1, <1>6, <2>1
<1>7. CASE Is(<<"exit">>)
  <2>1. Len(ustack) >= 1 /\ ustack[1].do = "exit"
    BY <1>7 DEF Is
  <2> QED BY <1>1, <1>7, <2>1
<1>8. CASE Is(<<"drain", "peek", "check", "exit">>)
  <2>1. Len(ustack) >= 1 /\ ustack[1].do = "drain"
    BY <1>8 DEF Is
  <2> QED BY <1>1, <1>8, <2>1
<1>9. CASE Is(<<"peek", "check", "exit">>)
  <2>1. Len(ustack) >= 1 /\ ustack[1].do = "peek"
    BY <1>9 DEF Is
  <2> QED BY <1>1, <1>9, <2>1
<1>10. CASE cq # <<>> /\ Is(<<"dispatch", "seen", "check", "exit">>)
  <2>1. Len(ustack) >= 1 /\ ustack[1].do = "dispatch"
    BY <1>10 DEF Is
  <2> QED BY <1>1, <1>10, <2>1
<1>11. CASE cq # <<>> /\ Is(<<"seen", "check", "exit">>)
  <2>1. Len(ustack) >= 1 /\ ustack[1].do = "seen"
    BY <1>11 DEF Is
  <2> QED BY <1>1, <1>11, <2>1
<1>12. CASE cq # <<>> /\ Is(<<"drain", "rearm", "seen", "check", "exit">>)
  <2>1. Len(ustack) >= 1 /\ ustack[1].do = "drain"
    BY <1>12 DEF Is
  <2> QED BY <1>1, <1>12, <2>1
<1>13. CASE cq # <<>> /\ Is(<<"rearm", "seen", "check", "exit">>)
  <2>1. Len(ustack) >= 1 /\ ustack[1].do = "rearm"
    BY <1>13 DEF Is
  <2> QED BY <1>1, <1>13, <2>1
<1>14. CASE cq # <<>> /\ Is(<<"handler", "seen", "check", "exit">>)
  <2>1. Len(ustack) >= 1 /\ ustack[1].do = "handler"
    BY <1>14 DEF Is
  <2> QED BY <1>1, <1>14, <2>1
<1>15. CASE cq # <<>> /\ upending = <<>> /\ ~urunning /\ Is(<<"check", "handler", "seen", "check", "exit">>)
  <2>1. Len(ustack) >= 1 /\ ustack[1].do = "check"
    BY <1>15 DEF Is
  <2> QED BY <1>1, <1>15, <2>1
<1> QED BY <1>2, <1>3, <1>4, <1>5, <1>6, <1>7, <1>8, <1>9, <1>10, <1>11, <1>12, <1>13, <1>14, <1>15 DEF StackInv, Waiting, Dispatching, Seeing, Handling, Stopping

(* What Then makes of the stack. *)
LEMMA ThenIs ==
    ASSUME UTypes, ustack # <<>>, NEW a \in Seq({"run", "start", "rearm", "check", "exit", "drain", "peek", "dispatch", "seen"}), Then(a)
    PROVE  /\ ustack' \in Seq(UItem) /\ Len(ustack') = Len(a) + Len(ustack) - 1
           /\ \A i \in 1..Len(a) : ustack'[i].do = a[i]
           /\ \A i \in 1..(Len(ustack) - 1) : ustack'[Len(a) + i] = ustack[i + 1]
<1>1. PICK s \in Seq(UItem) : s = ustack /\ s # <<>>
  BY DEF UTypes
<1>2. PICK b : b = [i \in DOMAIN a |-> [do |-> a[i]]] /\ b \in Seq(UItem) /\ Len(b) = Len(a) /\ \A i \in 1..Len(a) : b[i].do = a[i]
  <2> DEFINE b0 == [i \in 1..Len(a) |-> [do |-> a[i]]]
  <2>1. DOMAIN a = 1..Len(a) /\ Len(a) \in Nat
    OBVIOUS
  <2>2. b0 \in Seq(UItem) /\ Len(b0) = Len(a) /\ \A i \in 1..Len(a) : b0[i].do = a[i]
    BY <2>1 DEF UItem
  <2> HIDE DEF b0
  <2>3. b0 = [i \in DOMAIN a |-> [do |-> a[i]]]
    BY <2>1 DEF b0
  <2> QED BY <2>2, <2>3
<1>3. PICK t \in Seq(UItem) : t = Tail(s) /\ Len(t) = Len(s) - 1 /\ \A i \in 1..(Len(s) - 1) : t[i] = s[i + 1]
  <2>1. Tail(s) \in Seq(UItem) /\ Len(Tail(s)) = Len(s) - 1 /\ \A i \in 1..Len(Tail(s)) : Tail(s)[i] = s[i + 1]
    BY <1>1, HeadTailProperties
  <2>2. \A i \in 1..(Len(s) - 1) : Tail(s)[i] = s[i + 1]
    BY <2>1
  <2> QED BY <2>1, <2>2, Zenon
<1>4. /\ b \o t \in Seq(UItem) /\ Len(b \o t) = Len(b) + Len(t)
      /\ \A i \in 1..Len(b) : (b \o t)[i] = b[i]
      /\ \A i \in 1..Len(t) : (b \o t)[Len(b) + i] = t[i]
  BY <1>2, Chain
<1>5. ustack' = b \o t
  BY <1>1, <1>2, <1>3 DEF Then
<1>6. Len(a) \in Nat /\ Len(s) \in Nat /\ Len(s) >= 1
  BY <1>1
<1>7. \A i \in 1..Len(a) : ustack'[i].do = a[i]
  BY <1>2, <1>4, <1>5
<1>8. \A i \in 1..(Len(s) - 1) : ustack'[Len(a) + i] = s[i + 1]
  BY <1>2, <1>3, <1>4, <1>5
<1>9. Len(ustack') = Len(a) + Len(s) - 1
  BY <1>2, <1>3, <1>4, <1>5, <1>6
<1> QED BY <1>1, <1>4, <1>5, <1>7, <1>8, <1>9

Names == {"run", "start", "rearm", "check", "exit", "drain", "peek", "dispatch", "seen"}

(* The names on the stack after Then. *)
LEMMA Moves ==
    ASSUME UTypes, NEW d, Is(d), Len(d) \in Nat \ {0}, NEW a \in Seq(Names), Then(a),
           NEW e, Len(e) = Len(a) + Len(d) - 1, \A i \in 1..Len(a) : e[i] = a[i], \A i \in 1..(Len(d) - 1) : e[Len(a) + i] = d[i + 1]
    PROVE  ustack' \in Seq(UItem) /\ Is(e)'
<1>1. Len(ustack) = Len(d) /\ \A i \in 1..Len(d) : ustack[i].do = d[i]
  BY DEF Is
<1>2. ustack # <<>>
  BY <1>1
<1>3. /\ ustack' \in Seq(UItem) /\ Len(ustack') = Len(a) + Len(ustack) - 1
      /\ \A i \in 1..Len(a) : ustack'[i].do = a[i]
      /\ \A i \in 1..(Len(ustack) - 1) : ustack'[Len(a) + i] = ustack[i + 1]
  BY <1>2, ThenIs DEF Names
<1>4. PICK m \in Nat, n \in Nat : m = Len(a) /\ n = Len(d) /\ n # 0
  OBVIOUS
<1>5. ASSUME NEW i \in 1..Len(e) PROVE ustack'[i].do = e[i]
  <2>1. CASE i <= m
    BY <2>1, <1>3, <1>4
  <2>2. CASE i > m
    <3>1. PICK j \in 1..(n - 1) : i = m + j /\ j + 1 \in 1..n
      <4>1. i - m \in 1..(n - 1) /\ i = m + (i - m) /\ (i - m) + 1 \in 1..n
        BY <2>2, <1>4
      <4> QED BY <4>1
    <3>2. ustack'[m + j] = ustack[j + 1] /\ e[m + j] = d[j + 1]
      BY <3>1, <1>1, <1>3, <1>4
    <3>3. ustack[j + 1].do = d[j + 1]
      BY <3>1, <1>1, <1>4
    <3> QED BY <3>1, <3>2, <3>3
  <2> QED BY <2>1, <2>2, <1>4
<1> QED BY <1>1, <1>3, <1>5 DEF Is

-----------------------------------------------------------------------------
(* The calls of user threads leave the ring and the tables alone. *)
LEMMA Frame ==
    ASSUME UringInv, UNCHANGED <<utableVars, ringVars, ustack, urunning>>, CallTypes'
    PROVE  UringInv'
<1>1. UNCHANGED <<ustate, uindex, upending, sq, kernel, kcancel, cq, ustack, urunning>>
  BY DEF utableVars, ringVars
<1>2. UTypes'
  BY <1>1 DEF UringInv, UTypes, TableTypes, RingTypes
<1>3. Indexed' /\ StackInv' /\ Pend' = Pend /\ Asked' = Asked /\ Handled' = Handled /\ FirstUnseen' = FirstUnseen
  BY <1>1 DEF UringInv, Indexed, StackInv, Is, Pend, Asked, Handled, FirstUnseen, Doing, Range
<1>4. FlightInv'
  BY <1>1, <1>3 DEF UringInv, FlightInv
<1>5. RingOf(sq, kernel, kcancel, cq, FirstUnseen, Pend, Asked)'
  BY <1>1, <1>3 DEF UringInv
<1> QED BY <1>2, <1>3, <1>4, <1>5 DEF UringInv

(* A user thread goes on in its call. *)
LEMMA GotoTypes ==
    ASSUME CallTypes, NEW t \in UThreads, NEW there, UGoto(t, there), ucommands' \in Seq(UCommand),
           there \in {"running", "claim", "push"} => upc[t] \in {"running", "claim", "push"}
    PROVE  CallTypes'
<1>1. upc' = [upc EXCEPT ![t] = there] /\ ucmd' = [ucmd EXCEPT ![t] = IF there = "idle" THEN UNone ELSE @]
  BY DEF UGoto
<1>2. DOMAIN upc' = UThreads /\ DOMAIN ucmd' = UThreads
  BY <1>1 DEF CallTypes
<1>3. ASSUME NEW v \in UThreads, upc'[v] \in {"running", "claim", "push"} PROVE ucmd'[v] \in UCommand
  <2>1. CASE v = t
    <3>1. upc'[t] = there
      BY <1>1 DEF CallTypes
    <3>2. ucmd'[t] = ucmd[t]
      BY <3>1, <2>1, <1>3, <1>1 DEF CallTypes
    <3> QED BY <3>1, <3>2, <2>1, <1>3 DEF CallTypes
  <2>2. CASE v # t
    BY <2>2, <1>1, <1>3 DEF CallTypes
  <2> QED BY <2>1, <2>2
<1> QED BY <1>2, <1>3 DEF CallTypes

(* The steps of the calls of user threads. *)
LEMMA CallStepInv == ASSUME UringInv, NEW t \in UThreads, UCallStep(t) PROVE UringInv'
<1>1. CallTypes
  BY DEF UringInv, UTypes
<1>2. ASSUME UNCHANGED ucommands, NEW there, UGoto(t, there), there \in {"running", "claim", "push"} => upc[t] \in {"running", "claim", "push"}
      PROVE  CallTypes'
  BY <1>1, <1>2, GotoTypes DEF CallTypes
<1>3. CASE UStopCheck(t)
  <2>1. UNCHANGED <<utableVars, ringVars, ustack, urunning>> /\ UNCHANGED ucommands
    BY <1>3 DEF UStopCheck, UOutside, uqueueVars
  <2>2. CallTypes'
    BY <1>2, <1>3, <2>1 DEF UStopCheck
  <2> QED BY <2>1, <2>2, Frame
<1>4. CASE UStopClaim(t)
  <2>1. UNCHANGED <<utableVars, ringVars, ustack, urunning>> /\ UNCHANGED ucommands
    BY <1>4 DEF UStopClaim, UOutside, uqueueVars
  <2>2. CallTypes'
    BY <1>2, <1>4, <2>1 DEF UStopClaim
  <2> QED BY <2>1, <2>2, Frame
<1>5. UAfterWrite(t) \in {"idle", "thread", "wait"}
  BY DEF UAfterWrite
<1>6. CASE UPush(t)
  <2>1. UNCHANGED <<utableVars, ringVars, ustack, urunning>>
    BY <1>6 DEF UPush, UOutside
  <2>2. ucommands' \in Seq(UCommand)
    <3>1. ucmd[t] \in UCommand /\ ucommands' = Append(ucommands, ucmd[t])
      BY <1>1, <1>6 DEF UPush, CallTypes
    <3> QED BY <1>1, <3>1, AppendProperties DEF CallTypes
  <2>3. CallTypes'
    BY <1>1, <1>5, <1>6, <2>2, GotoTypes DEF UPush
  <2> QED BY <2>1, <2>3, Frame
<1>7. CASE UExchange(t)
  <2>1. UNCHANGED <<utableVars, ringVars, ustack, urunning>> /\ UNCHANGED ucommands
    BY <1>7 DEF UExchange, UOutside
  <2>2. CallTypes'
    BY <1>2, <1>5, <1>7, <2>1 DEF UExchange
  <2> QED BY <2>1, <2>2, Frame
<1>8. CASE UWrite(t)
  <2>1. UNCHANGED <<utableVars, ringVars, ustack, urunning>> /\ UNCHANGED ucommands
    BY <1>8 DEF UWrite, UOutside
  <2>2. CallTypes'
    BY <1>2, <1>5, <1>8, <2>1 DEF UWrite
  <2> QED BY <2>1, <2>2, Frame
<1>9. CASE UWaitDone(t)
  <2>1. UNCHANGED <<utableVars, ringVars, ustack, urunning>> /\ UNCHANGED ucommands
    BY <1>9 DEF UWaitDone, UOutside, uqueueVars
  <2>2. CallTypes'
    BY <1>2, <1>9, <2>1 DEF UWaitDone
  <2> QED BY <2>1, <2>2, Frame
<1>10. CASE UWaitThread(t)
  <2>1. UNCHANGED <<utableVars, ringVars, ustack, urunning>> /\ UNCHANGED ucommands
    BY <1>10 DEF UWaitThread, UOutside, uqueueVars
  <2>2. CallTypes'
    BY <1>2, <1>10, <2>1 DEF UWaitThread
  <2> QED BY <2>1, <2>2, Frame
<1> QED BY <1>3, <1>4, <1>6, <1>7, <1>8, <1>9, <1>10 DEF UCallStep

(* A user thread starts a call, whose command is a good one. *)
LEMMA StartInv ==
    ASSUME UringInv, NEW t \in UThreads, NEW type \in {"submit", "cancel", "flush", "stop"}, NEW o \in UOps \cup {UNone},
           NEW flush \in BOOLEAN, NEW sync \in BOOLEAN, type \in {"submit", "cancel"} => o \in UOps, UStart(t, type, o, flush, sync)
    PROVE  UringInv'
<1>1. CallTypes
  BY DEF UringInv, UTypes
<1>2. UNCHANGED <<utableVars, ringVars, ustack, urunning>> /\ UNCHANGED ucommands
  BY DEF UStart, uqueueVars
<1>3. PICK c \in UCommand : c = [type |-> type, op |-> o, flush |-> flush, sync |-> sync, by |-> t]
  BY DEF UCommand
<1>4. DOMAIN upc' = UThreads /\ ucmd' = [ucmd EXCEPT ![t] = c] /\ \A v \in UThreads : v # t => upc'[v] = upc[v]
  BY <1>1, <1>3 DEF UStart, CallTypes
<1>5. CallTypes'
  BY <1>1, <1>2, <1>4 DEF CallTypes
<1> QED BY <1>2, <1>5, Frame

(* submit, cancel, flush and stop of a user thread. *)
LEMMA StartStepInv == ASSUME UringInv, NEW t \in UThreads, UStartStep(t) PROVE UringInv'
<1>1. PICK sync \in USyncs :
        \/ \E o \in UOps, flush \in UFlushes : UStart(t, "submit", o, flush, sync) \/ UStart(t, "cancel", o, flush, sync)
        \/ UStart(t, "flush", UNone, FALSE, sync)
        \/ UStart(t, "stop", UNone, sync, sync)
  BY DEF UStartStep
<1>2. sync \in BOOLEAN /\ UFlushes \subseteq BOOLEAN
  BY UringAssumption
<1>3. ASSUME NEW o \in UOps, NEW flush \in UFlushes, UStart(t, "submit", o, flush, sync) PROVE UringInv'
  BY <1>2, <1>3, StartInv
<1>4. ASSUME NEW o \in UOps, NEW flush \in UFlushes, UStart(t, "cancel", o, flush, sync) PROVE UringInv'
  BY <1>2, <1>4, StartInv
<1>5. CASE UStart(t, "flush", UNone, FALSE, sync)
  BY <1>2, <1>5, StartInv
<1>6. CASE UStart(t, "stop", UNone, sync, sync)
  BY <1>2, <1>6, StartInv
<1> QED BY <1>1, <1>3, <1>4, <1>5, <1>6
(* The stack after each thing the loop's thread does. *)
LEMMA StackMoves ==
    ASSUME UTypes
    PROVE
        /\ Is(<<"run">>) /\ Then(<<"start">>) => ustack' \in Seq(UItem) /\ Is(<<"start">>)'
        /\ Is(<<"start">>) /\ Then(<<"rearm", "check", "exit">>) => ustack' \in Seq(UItem) /\ Is(<<"rearm", "check", "exit">>)'
        /\ Is(<<"start">>) /\ Then(<<"check", "exit">>) => ustack' \in Seq(UItem) /\ Is(<<"check", "exit">>)'
        /\ Is(<<"exit">>) /\ Then(<<>>) => ustack' \in Seq(UItem) /\ Is(<<>>)'
        /\ Is(<<"rearm", "check", "exit">>) /\ Then(<<>>) => ustack' \in Seq(UItem) /\ Is(<<"check", "exit">>)'
        /\ Is(<<"rearm", "seen", "check", "exit">>) /\ Then(<<>>) => ustack' \in Seq(UItem) /\ Is(<<"seen", "check", "exit">>)'
        /\ Is(<<"check", "exit">>) /\ Then(<<"dispatch", "seen", "check">>) => ustack' \in Seq(UItem) /\ Is(<<"dispatch", "seen", "check", "exit">>)'
        /\ Is(<<"check", "exit">>) /\ Then(<<"check">>) => ustack' \in Seq(UItem) /\ Is(<<"check", "exit">>)'
        /\ Is(<<"check", "exit">>) /\ Then(<<"drain", "peek", "check">>) => ustack' \in Seq(UItem) /\ Is(<<"drain", "peek", "check", "exit">>)'
        /\ Is(<<"check", "exit">>) /\ Then(<<>>) => ustack' \in Seq(UItem) /\ Is(<<"exit">>)'
        /\ Is(<<"check", "handler", "seen", "check", "exit">>) /\ Then(<<>>) => ustack' \in Seq(UItem) /\ Is(<<"handler", "seen", "check", "exit">>)'
        /\ Is(<<"drain", "peek", "check", "exit">>) /\ Then(<<>>) => ustack' \in Seq(UItem) /\ Is(<<"peek", "check", "exit">>)'
        /\ Is(<<"drain", "rearm", "seen", "check", "exit">>) /\ Then(<<>>) => ustack' \in Seq(UItem) /\ Is(<<"rearm", "seen", "check", "exit">>)'
        /\ Is(<<"peek", "check", "exit">>) /\ Then(<<"dispatch", "seen">>) => ustack' \in Seq(UItem) /\ Is(<<"dispatch", "seen", "check", "exit">>)'
        /\ Is(<<"peek", "check", "exit">>) /\ Then(<<>>) => ustack' \in Seq(UItem) /\ Is(<<"check", "exit">>)'
        /\ Is(<<"dispatch", "seen", "check", "exit">>) /\ Then(<<"drain", "rearm">>) => ustack' \in Seq(UItem) /\ Is(<<"drain", "rearm", "seen", "check", "exit">>)'
        /\ Is(<<"dispatch", "seen", "check", "exit">>) /\ Then(<<>>) => ustack' \in Seq(UItem) /\ Is(<<"seen", "check", "exit">>)'
        /\ Is(<<"seen", "check", "exit">>) /\ Then(<<"dispatch", "seen">>) => ustack' \in Seq(UItem) /\ Is(<<"dispatch", "seen", "check", "exit">>)'
        /\ Is(<<"seen", "check", "exit">>) /\ Then(<<>>) => ustack' \in Seq(UItem) /\ Is(<<"check", "exit">>)'
        /\ Is(<<"handler", "seen", "check", "exit">>) /\ Then(<<>>) => ustack' \in Seq(UItem) /\ Is(<<"seen", "check", "exit">>)'
<1>1. ASSUME Is(<<"run">>), Then(<<"start">>) PROVE ustack' \in Seq(UItem) /\ Is(<<"start">>)'
  <2>1. PICK d : d = <<"run">>
    OBVIOUS
  <2>2. PICK a : a = <<"start">>
    OBVIOUS
  <2>3. PICK e : e = <<"start">>
    OBVIOUS
  <2>4. Len(d) = 1 /\ d[1] = "run"
    BY <2>1
  <2>5. Len(a) = 1 /\ a[1] = "start" /\ a \in Seq(Names)
    BY <2>2 DEF Names
  <2>6. Len(e) = 1 /\ e[1] = "start"
    BY <2>3
  <2>7. Len(d) \in Nat \ {0} /\ Len(e) = Len(a) + Len(d) - 1 /\ (\A i \in 1..Len(a) : e[i] = a[i]) /\ \A i \in 1..(Len(d) - 1) : e[Len(a) + i] = d[i + 1]
    BY <2>4, <2>5, <2>6
  <2>8. Is(d) /\ Then(a)
    BY <1>1, <2>1, <2>2
  <2>9. ustack' \in Seq(UItem) /\ Is(e)'
    BY <2>4, <2>5, <2>7, <2>8, Moves, Zenon
  <2> QED BY <2>3, <2>9
<1>2. ASSUME Is(<<"start">>), Then(<<"rearm", "check", "exit">>) PROVE ustack' \in Seq(UItem) /\ Is(<<"rearm", "check", "exit">>)'
  <2>1. PICK d : d = <<"start">>
    OBVIOUS
  <2>2. PICK a : a = <<"rearm", "check", "exit">>
    OBVIOUS
  <2>3. PICK e : e = <<"rearm", "check", "exit">>
    OBVIOUS
  <2>4. Len(d) = 1 /\ d[1] = "start"
    BY <2>1
  <2>5. Len(a) = 3 /\ a[1] = "rearm" /\ a[2] = "check" /\ a[3] = "exit" /\ a \in Seq(Names)
    BY <2>2 DEF Names
  <2>6. Len(e) = 3 /\ e[1] = "rearm" /\ e[2] = "check" /\ e[3] = "exit"
    BY <2>3
  <2>7. Len(d) \in Nat \ {0} /\ Len(e) = Len(a) + Len(d) - 1 /\ (\A i \in 1..Len(a) : e[i] = a[i]) /\ \A i \in 1..(Len(d) - 1) : e[Len(a) + i] = d[i + 1]
    BY <2>4, <2>5, <2>6
  <2>8. Is(d) /\ Then(a)
    BY <1>2, <2>1, <2>2
  <2>9. ustack' \in Seq(UItem) /\ Is(e)'
    BY <2>4, <2>5, <2>7, <2>8, Moves, Zenon
  <2> QED BY <2>3, <2>9
<1>3. ASSUME Is(<<"start">>), Then(<<"check", "exit">>) PROVE ustack' \in Seq(UItem) /\ Is(<<"check", "exit">>)'
  <2>1. PICK d : d = <<"start">>
    OBVIOUS
  <2>2. PICK a : a = <<"check", "exit">>
    OBVIOUS
  <2>3. PICK e : e = <<"check", "exit">>
    OBVIOUS
  <2>4. Len(d) = 1 /\ d[1] = "start"
    BY <2>1
  <2>5. Len(a) = 2 /\ a[1] = "check" /\ a[2] = "exit" /\ a \in Seq(Names)
    BY <2>2 DEF Names
  <2>6. Len(e) = 2 /\ e[1] = "check" /\ e[2] = "exit"
    BY <2>3
  <2>7. Len(d) \in Nat \ {0} /\ Len(e) = Len(a) + Len(d) - 1 /\ (\A i \in 1..Len(a) : e[i] = a[i]) /\ \A i \in 1..(Len(d) - 1) : e[Len(a) + i] = d[i + 1]
    BY <2>4, <2>5, <2>6
  <2>8. Is(d) /\ Then(a)
    BY <1>3, <2>1, <2>2
  <2>9. ustack' \in Seq(UItem) /\ Is(e)'
    BY <2>4, <2>5, <2>7, <2>8, Moves, Zenon
  <2> QED BY <2>3, <2>9
<1>4. ASSUME Is(<<"exit">>), Then(<<>>) PROVE ustack' \in Seq(UItem) /\ Is(<<>>)'
  <2>1. PICK d : d = <<"exit">>
    OBVIOUS
  <2>2. PICK a : a = <<>>
    OBVIOUS
  <2>3. PICK e : e = <<>>
    OBVIOUS
  <2>4. Len(d) = 1 /\ d[1] = "exit"
    BY <2>1
  <2>5. Len(a) = 0 /\ a \in Seq(Names)
    BY <2>2 DEF Names
  <2>6. Len(e) = 0
    BY <2>3
  <2>7. Len(d) \in Nat \ {0} /\ Len(e) = Len(a) + Len(d) - 1 /\ (\A i \in 1..Len(a) : e[i] = a[i]) /\ \A i \in 1..(Len(d) - 1) : e[Len(a) + i] = d[i + 1]
    BY <2>4, <2>5, <2>6
  <2>8. Is(d) /\ Then(a)
    BY <1>4, <2>1, <2>2
  <2>9. ustack' \in Seq(UItem) /\ Is(e)'
    BY <2>4, <2>5, <2>7, <2>8, Moves, Zenon
  <2> QED BY <2>3, <2>9
<1>5. ASSUME Is(<<"rearm", "check", "exit">>), Then(<<>>) PROVE ustack' \in Seq(UItem) /\ Is(<<"check", "exit">>)'
  <2>1. PICK d : d = <<"rearm", "check", "exit">>
    OBVIOUS
  <2>2. PICK a : a = <<>>
    OBVIOUS
  <2>3. PICK e : e = <<"check", "exit">>
    OBVIOUS
  <2>4. Len(d) = 3 /\ d[1] = "rearm" /\ d[2] = "check" /\ d[3] = "exit"
    BY <2>1
  <2>5. Len(a) = 0 /\ a \in Seq(Names)
    BY <2>2 DEF Names
  <2>6. Len(e) = 2 /\ e[1] = "check" /\ e[2] = "exit"
    BY <2>3
  <2>7. Len(d) \in Nat \ {0} /\ Len(e) = Len(a) + Len(d) - 1 /\ (\A i \in 1..Len(a) : e[i] = a[i]) /\ \A i \in 1..(Len(d) - 1) : e[Len(a) + i] = d[i + 1]
    BY <2>4, <2>5, <2>6
  <2>8. Is(d) /\ Then(a)
    BY <1>5, <2>1, <2>2
  <2>9. ustack' \in Seq(UItem) /\ Is(e)'
    BY <2>4, <2>5, <2>7, <2>8, Moves, Zenon
  <2> QED BY <2>3, <2>9
<1>6. ASSUME Is(<<"rearm", "seen", "check", "exit">>), Then(<<>>) PROVE ustack' \in Seq(UItem) /\ Is(<<"seen", "check", "exit">>)'
  <2>1. PICK d : d = <<"rearm", "seen", "check", "exit">>
    OBVIOUS
  <2>2. PICK a : a = <<>>
    OBVIOUS
  <2>3. PICK e : e = <<"seen", "check", "exit">>
    OBVIOUS
  <2>4. Len(d) = 4 /\ d[1] = "rearm" /\ d[2] = "seen" /\ d[3] = "check" /\ d[4] = "exit"
    BY <2>1
  <2>5. Len(a) = 0 /\ a \in Seq(Names)
    BY <2>2 DEF Names
  <2>6. Len(e) = 3 /\ e[1] = "seen" /\ e[2] = "check" /\ e[3] = "exit"
    BY <2>3
  <2>7. Len(d) \in Nat \ {0} /\ Len(e) = Len(a) + Len(d) - 1 /\ (\A i \in 1..Len(a) : e[i] = a[i]) /\ \A i \in 1..(Len(d) - 1) : e[Len(a) + i] = d[i + 1]
    BY <2>4, <2>5, <2>6
  <2>8. Is(d) /\ Then(a)
    BY <1>6, <2>1, <2>2
  <2>9. ustack' \in Seq(UItem) /\ Is(e)'
    BY <2>4, <2>5, <2>7, <2>8, Moves, Zenon
  <2> QED BY <2>3, <2>9
<1>7. ASSUME Is(<<"check", "exit">>), Then(<<"dispatch", "seen", "check">>) PROVE ustack' \in Seq(UItem) /\ Is(<<"dispatch", "seen", "check", "exit">>)'
  <2>1. PICK d : d = <<"check", "exit">>
    OBVIOUS
  <2>2. PICK a : a = <<"dispatch", "seen", "check">>
    OBVIOUS
  <2>3. PICK e : e = <<"dispatch", "seen", "check", "exit">>
    OBVIOUS
  <2>4. Len(d) = 2 /\ d[1] = "check" /\ d[2] = "exit"
    BY <2>1
  <2>5. Len(a) = 3 /\ a[1] = "dispatch" /\ a[2] = "seen" /\ a[3] = "check" /\ a \in Seq(Names)
    BY <2>2 DEF Names
  <2>6. Len(e) = 4 /\ e[1] = "dispatch" /\ e[2] = "seen" /\ e[3] = "check" /\ e[4] = "exit"
    BY <2>3
  <2>7. Len(d) \in Nat \ {0} /\ Len(e) = Len(a) + Len(d) - 1 /\ (\A i \in 1..Len(a) : e[i] = a[i]) /\ \A i \in 1..(Len(d) - 1) : e[Len(a) + i] = d[i + 1]
    BY <2>4, <2>5, <2>6
  <2>8. Is(d) /\ Then(a)
    BY <1>7, <2>1, <2>2
  <2>9. ustack' \in Seq(UItem) /\ Is(e)'
    BY <2>4, <2>5, <2>7, <2>8, Moves, Zenon
  <2> QED BY <2>3, <2>9
<1>8. ASSUME Is(<<"check", "exit">>), Then(<<"check">>) PROVE ustack' \in Seq(UItem) /\ Is(<<"check", "exit">>)'
  <2>1. PICK d : d = <<"check", "exit">>
    OBVIOUS
  <2>2. PICK a : a = <<"check">>
    OBVIOUS
  <2>3. PICK e : e = <<"check", "exit">>
    OBVIOUS
  <2>4. Len(d) = 2 /\ d[1] = "check" /\ d[2] = "exit"
    BY <2>1
  <2>5. Len(a) = 1 /\ a[1] = "check" /\ a \in Seq(Names)
    BY <2>2 DEF Names
  <2>6. Len(e) = 2 /\ e[1] = "check" /\ e[2] = "exit"
    BY <2>3
  <2>7. Len(d) \in Nat \ {0} /\ Len(e) = Len(a) + Len(d) - 1 /\ (\A i \in 1..Len(a) : e[i] = a[i]) /\ \A i \in 1..(Len(d) - 1) : e[Len(a) + i] = d[i + 1]
    BY <2>4, <2>5, <2>6
  <2>8. Is(d) /\ Then(a)
    BY <1>8, <2>1, <2>2
  <2>9. ustack' \in Seq(UItem) /\ Is(e)'
    BY <2>4, <2>5, <2>7, <2>8, Moves, Zenon
  <2> QED BY <2>3, <2>9
<1>9. ASSUME Is(<<"check", "exit">>), Then(<<"drain", "peek", "check">>) PROVE ustack' \in Seq(UItem) /\ Is(<<"drain", "peek", "check", "exit">>)'
  <2>1. PICK d : d = <<"check", "exit">>
    OBVIOUS
  <2>2. PICK a : a = <<"drain", "peek", "check">>
    OBVIOUS
  <2>3. PICK e : e = <<"drain", "peek", "check", "exit">>
    OBVIOUS
  <2>4. Len(d) = 2 /\ d[1] = "check" /\ d[2] = "exit"
    BY <2>1
  <2>5. Len(a) = 3 /\ a[1] = "drain" /\ a[2] = "peek" /\ a[3] = "check" /\ a \in Seq(Names)
    BY <2>2 DEF Names
  <2>6. Len(e) = 4 /\ e[1] = "drain" /\ e[2] = "peek" /\ e[3] = "check" /\ e[4] = "exit"
    BY <2>3
  <2>7. Len(d) \in Nat \ {0} /\ Len(e) = Len(a) + Len(d) - 1 /\ (\A i \in 1..Len(a) : e[i] = a[i]) /\ \A i \in 1..(Len(d) - 1) : e[Len(a) + i] = d[i + 1]
    BY <2>4, <2>5, <2>6
  <2>8. Is(d) /\ Then(a)
    BY <1>9, <2>1, <2>2
  <2>9. ustack' \in Seq(UItem) /\ Is(e)'
    BY <2>4, <2>5, <2>7, <2>8, Moves, Zenon
  <2> QED BY <2>3, <2>9
<1>10. ASSUME Is(<<"check", "exit">>), Then(<<>>) PROVE ustack' \in Seq(UItem) /\ Is(<<"exit">>)'
  <2>1. PICK d : d = <<"check", "exit">>
    OBVIOUS
  <2>2. PICK a : a = <<>>
    OBVIOUS
  <2>3. PICK e : e = <<"exit">>
    OBVIOUS
  <2>4. Len(d) = 2 /\ d[1] = "check" /\ d[2] = "exit"
    BY <2>1
  <2>5. Len(a) = 0 /\ a \in Seq(Names)
    BY <2>2 DEF Names
  <2>6. Len(e) = 1 /\ e[1] = "exit"
    BY <2>3
  <2>7. Len(d) \in Nat \ {0} /\ Len(e) = Len(a) + Len(d) - 1 /\ (\A i \in 1..Len(a) : e[i] = a[i]) /\ \A i \in 1..(Len(d) - 1) : e[Len(a) + i] = d[i + 1]
    BY <2>4, <2>5, <2>6
  <2>8. Is(d) /\ Then(a)
    BY <1>10, <2>1, <2>2
  <2>9. ustack' \in Seq(UItem) /\ Is(e)'
    BY <2>4, <2>5, <2>7, <2>8, Moves, Zenon
  <2> QED BY <2>3, <2>9
<1>11. ASSUME Is(<<"check", "handler", "seen", "check", "exit">>), Then(<<>>) PROVE ustack' \in Seq(UItem) /\ Is(<<"handler", "seen", "check", "exit">>)'
  <2>1. PICK d : d = <<"check", "handler", "seen", "check", "exit">>
    OBVIOUS
  <2>2. PICK a : a = <<>>
    OBVIOUS
  <2>3. PICK e : e = <<"handler", "seen", "check", "exit">>
    OBVIOUS
  <2>4. Len(d) = 5 /\ d[1] = "check" /\ d[2] = "handler" /\ d[3] = "seen" /\ d[4] = "check" /\ d[5] = "exit"
    BY <2>1
  <2>5. Len(a) = 0 /\ a \in Seq(Names)
    BY <2>2 DEF Names
  <2>6. Len(e) = 4 /\ e[1] = "handler" /\ e[2] = "seen" /\ e[3] = "check" /\ e[4] = "exit"
    BY <2>3
  <2>7. Len(d) \in Nat \ {0} /\ Len(e) = Len(a) + Len(d) - 1 /\ (\A i \in 1..Len(a) : e[i] = a[i]) /\ \A i \in 1..(Len(d) - 1) : e[Len(a) + i] = d[i + 1]
    BY <2>4, <2>5, <2>6
  <2>8. Is(d) /\ Then(a)
    BY <1>11, <2>1, <2>2
  <2>9. ustack' \in Seq(UItem) /\ Is(e)'
    BY <2>4, <2>5, <2>7, <2>8, Moves, Zenon
  <2> QED BY <2>3, <2>9
<1>12. ASSUME Is(<<"drain", "peek", "check", "exit">>), Then(<<>>) PROVE ustack' \in Seq(UItem) /\ Is(<<"peek", "check", "exit">>)'
  <2>1. PICK d : d = <<"drain", "peek", "check", "exit">>
    OBVIOUS
  <2>2. PICK a : a = <<>>
    OBVIOUS
  <2>3. PICK e : e = <<"peek", "check", "exit">>
    OBVIOUS
  <2>4. Len(d) = 4 /\ d[1] = "drain" /\ d[2] = "peek" /\ d[3] = "check" /\ d[4] = "exit"
    BY <2>1
  <2>5. Len(a) = 0 /\ a \in Seq(Names)
    BY <2>2 DEF Names
  <2>6. Len(e) = 3 /\ e[1] = "peek" /\ e[2] = "check" /\ e[3] = "exit"
    BY <2>3
  <2>7. Len(d) \in Nat \ {0} /\ Len(e) = Len(a) + Len(d) - 1 /\ (\A i \in 1..Len(a) : e[i] = a[i]) /\ \A i \in 1..(Len(d) - 1) : e[Len(a) + i] = d[i + 1]
    BY <2>4, <2>5, <2>6
  <2>8. Is(d) /\ Then(a)
    BY <1>12, <2>1, <2>2
  <2>9. ustack' \in Seq(UItem) /\ Is(e)'
    BY <2>4, <2>5, <2>7, <2>8, Moves, Zenon
  <2> QED BY <2>3, <2>9
<1>13. ASSUME Is(<<"drain", "rearm", "seen", "check", "exit">>), Then(<<>>) PROVE ustack' \in Seq(UItem) /\ Is(<<"rearm", "seen", "check", "exit">>)'
  <2>1. PICK d : d = <<"drain", "rearm", "seen", "check", "exit">>
    OBVIOUS
  <2>2. PICK a : a = <<>>
    OBVIOUS
  <2>3. PICK e : e = <<"rearm", "seen", "check", "exit">>
    OBVIOUS
  <2>4. Len(d) = 5 /\ d[1] = "drain" /\ d[2] = "rearm" /\ d[3] = "seen" /\ d[4] = "check" /\ d[5] = "exit"
    BY <2>1
  <2>5. Len(a) = 0 /\ a \in Seq(Names)
    BY <2>2 DEF Names
  <2>6. Len(e) = 4 /\ e[1] = "rearm" /\ e[2] = "seen" /\ e[3] = "check" /\ e[4] = "exit"
    BY <2>3
  <2>7. Len(d) \in Nat \ {0} /\ Len(e) = Len(a) + Len(d) - 1 /\ (\A i \in 1..Len(a) : e[i] = a[i]) /\ \A i \in 1..(Len(d) - 1) : e[Len(a) + i] = d[i + 1]
    BY <2>4, <2>5, <2>6
  <2>8. Is(d) /\ Then(a)
    BY <1>13, <2>1, <2>2
  <2>9. ustack' \in Seq(UItem) /\ Is(e)'
    BY <2>4, <2>5, <2>7, <2>8, Moves, Zenon
  <2> QED BY <2>3, <2>9
<1>14. ASSUME Is(<<"peek", "check", "exit">>), Then(<<"dispatch", "seen">>) PROVE ustack' \in Seq(UItem) /\ Is(<<"dispatch", "seen", "check", "exit">>)'
  <2>1. PICK d : d = <<"peek", "check", "exit">>
    OBVIOUS
  <2>2. PICK a : a = <<"dispatch", "seen">>
    OBVIOUS
  <2>3. PICK e : e = <<"dispatch", "seen", "check", "exit">>
    OBVIOUS
  <2>4. Len(d) = 3 /\ d[1] = "peek" /\ d[2] = "check" /\ d[3] = "exit"
    BY <2>1
  <2>5. Len(a) = 2 /\ a[1] = "dispatch" /\ a[2] = "seen" /\ a \in Seq(Names)
    BY <2>2 DEF Names
  <2>6. Len(e) = 4 /\ e[1] = "dispatch" /\ e[2] = "seen" /\ e[3] = "check" /\ e[4] = "exit"
    BY <2>3
  <2>7. Len(d) \in Nat \ {0} /\ Len(e) = Len(a) + Len(d) - 1 /\ (\A i \in 1..Len(a) : e[i] = a[i]) /\ \A i \in 1..(Len(d) - 1) : e[Len(a) + i] = d[i + 1]
    BY <2>4, <2>5, <2>6
  <2>8. Is(d) /\ Then(a)
    BY <1>14, <2>1, <2>2
  <2>9. ustack' \in Seq(UItem) /\ Is(e)'
    BY <2>4, <2>5, <2>7, <2>8, Moves, Zenon
  <2> QED BY <2>3, <2>9
<1>15. ASSUME Is(<<"peek", "check", "exit">>), Then(<<>>) PROVE ustack' \in Seq(UItem) /\ Is(<<"check", "exit">>)'
  <2>1. PICK d : d = <<"peek", "check", "exit">>
    OBVIOUS
  <2>2. PICK a : a = <<>>
    OBVIOUS
  <2>3. PICK e : e = <<"check", "exit">>
    OBVIOUS
  <2>4. Len(d) = 3 /\ d[1] = "peek" /\ d[2] = "check" /\ d[3] = "exit"
    BY <2>1
  <2>5. Len(a) = 0 /\ a \in Seq(Names)
    BY <2>2 DEF Names
  <2>6. Len(e) = 2 /\ e[1] = "check" /\ e[2] = "exit"
    BY <2>3
  <2>7. Len(d) \in Nat \ {0} /\ Len(e) = Len(a) + Len(d) - 1 /\ (\A i \in 1..Len(a) : e[i] = a[i]) /\ \A i \in 1..(Len(d) - 1) : e[Len(a) + i] = d[i + 1]
    BY <2>4, <2>5, <2>6
  <2>8. Is(d) /\ Then(a)
    BY <1>15, <2>1, <2>2
  <2>9. ustack' \in Seq(UItem) /\ Is(e)'
    BY <2>4, <2>5, <2>7, <2>8, Moves, Zenon
  <2> QED BY <2>3, <2>9
<1>16. ASSUME Is(<<"dispatch", "seen", "check", "exit">>), Then(<<"drain", "rearm">>) PROVE ustack' \in Seq(UItem) /\ Is(<<"drain", "rearm", "seen", "check", "exit">>)'
  <2>1. PICK d : d = <<"dispatch", "seen", "check", "exit">>
    OBVIOUS
  <2>2. PICK a : a = <<"drain", "rearm">>
    OBVIOUS
  <2>3. PICK e : e = <<"drain", "rearm", "seen", "check", "exit">>
    OBVIOUS
  <2>4. Len(d) = 4 /\ d[1] = "dispatch" /\ d[2] = "seen" /\ d[3] = "check" /\ d[4] = "exit"
    BY <2>1
  <2>5. Len(a) = 2 /\ a[1] = "drain" /\ a[2] = "rearm" /\ a \in Seq(Names)
    BY <2>2 DEF Names
  <2>6. Len(e) = 5 /\ e[1] = "drain" /\ e[2] = "rearm" /\ e[3] = "seen" /\ e[4] = "check" /\ e[5] = "exit"
    BY <2>3
  <2>7. Len(d) \in Nat \ {0} /\ Len(e) = Len(a) + Len(d) - 1 /\ (\A i \in 1..Len(a) : e[i] = a[i]) /\ \A i \in 1..(Len(d) - 1) : e[Len(a) + i] = d[i + 1]
    BY <2>4, <2>5, <2>6
  <2>8. Is(d) /\ Then(a)
    BY <1>16, <2>1, <2>2
  <2>9. ustack' \in Seq(UItem) /\ Is(e)'
    BY <2>4, <2>5, <2>7, <2>8, Moves, Zenon
  <2> QED BY <2>3, <2>9
<1>17. ASSUME Is(<<"dispatch", "seen", "check", "exit">>), Then(<<>>) PROVE ustack' \in Seq(UItem) /\ Is(<<"seen", "check", "exit">>)'
  <2>1. PICK d : d = <<"dispatch", "seen", "check", "exit">>
    OBVIOUS
  <2>2. PICK a : a = <<>>
    OBVIOUS
  <2>3. PICK e : e = <<"seen", "check", "exit">>
    OBVIOUS
  <2>4. Len(d) = 4 /\ d[1] = "dispatch" /\ d[2] = "seen" /\ d[3] = "check" /\ d[4] = "exit"
    BY <2>1
  <2>5. Len(a) = 0 /\ a \in Seq(Names)
    BY <2>2 DEF Names
  <2>6. Len(e) = 3 /\ e[1] = "seen" /\ e[2] = "check" /\ e[3] = "exit"
    BY <2>3
  <2>7. Len(d) \in Nat \ {0} /\ Len(e) = Len(a) + Len(d) - 1 /\ (\A i \in 1..Len(a) : e[i] = a[i]) /\ \A i \in 1..(Len(d) - 1) : e[Len(a) + i] = d[i + 1]
    BY <2>4, <2>5, <2>6
  <2>8. Is(d) /\ Then(a)
    BY <1>17, <2>1, <2>2
  <2>9. ustack' \in Seq(UItem) /\ Is(e)'
    BY <2>4, <2>5, <2>7, <2>8, Moves, Zenon
  <2> QED BY <2>3, <2>9
<1>18. ASSUME Is(<<"seen", "check", "exit">>), Then(<<"dispatch", "seen">>) PROVE ustack' \in Seq(UItem) /\ Is(<<"dispatch", "seen", "check", "exit">>)'
  <2>1. PICK d : d = <<"seen", "check", "exit">>
    OBVIOUS
  <2>2. PICK a : a = <<"dispatch", "seen">>
    OBVIOUS
  <2>3. PICK e : e = <<"dispatch", "seen", "check", "exit">>
    OBVIOUS
  <2>4. Len(d) = 3 /\ d[1] = "seen" /\ d[2] = "check" /\ d[3] = "exit"
    BY <2>1
  <2>5. Len(a) = 2 /\ a[1] = "dispatch" /\ a[2] = "seen" /\ a \in Seq(Names)
    BY <2>2 DEF Names
  <2>6. Len(e) = 4 /\ e[1] = "dispatch" /\ e[2] = "seen" /\ e[3] = "check" /\ e[4] = "exit"
    BY <2>3
  <2>7. Len(d) \in Nat \ {0} /\ Len(e) = Len(a) + Len(d) - 1 /\ (\A i \in 1..Len(a) : e[i] = a[i]) /\ \A i \in 1..(Len(d) - 1) : e[Len(a) + i] = d[i + 1]
    BY <2>4, <2>5, <2>6
  <2>8. Is(d) /\ Then(a)
    BY <1>18, <2>1, <2>2
  <2>9. ustack' \in Seq(UItem) /\ Is(e)'
    BY <2>4, <2>5, <2>7, <2>8, Moves, Zenon
  <2> QED BY <2>3, <2>9
<1>19. ASSUME Is(<<"seen", "check", "exit">>), Then(<<>>) PROVE ustack' \in Seq(UItem) /\ Is(<<"check", "exit">>)'
  <2>1. PICK d : d = <<"seen", "check", "exit">>
    OBVIOUS
  <2>2. PICK a : a = <<>>
    OBVIOUS
  <2>3. PICK e : e = <<"check", "exit">>
    OBVIOUS
  <2>4. Len(d) = 3 /\ d[1] = "seen" /\ d[2] = "check" /\ d[3] = "exit"
    BY <2>1
  <2>5. Len(a) = 0 /\ a \in Seq(Names)
    BY <2>2 DEF Names
  <2>6. Len(e) = 2 /\ e[1] = "check" /\ e[2] = "exit"
    BY <2>3
  <2>7. Len(d) \in Nat \ {0} /\ Len(e) = Len(a) + Len(d) - 1 /\ (\A i \in 1..Len(a) : e[i] = a[i]) /\ \A i \in 1..(Len(d) - 1) : e[Len(a) + i] = d[i + 1]
    BY <2>4, <2>5, <2>6
  <2>8. Is(d) /\ Then(a)
    BY <1>19, <2>1, <2>2
  <2>9. ustack' \in Seq(UItem) /\ Is(e)'
    BY <2>4, <2>5, <2>7, <2>8, Moves, Zenon
  <2> QED BY <2>3, <2>9
<1>20. ASSUME Is(<<"handler", "seen", "check", "exit">>), Then(<<>>) PROVE ustack' \in Seq(UItem) /\ Is(<<"seen", "check", "exit">>)'
  <2>1. PICK d : d = <<"handler", "seen", "check", "exit">>
    OBVIOUS
  <2>2. PICK a : a = <<>>
    OBVIOUS
  <2>3. PICK e : e = <<"seen", "check", "exit">>
    OBVIOUS
  <2>4. Len(d) = 4 /\ d[1] = "handler" /\ d[2] = "seen" /\ d[3] = "check" /\ d[4] = "exit"
    BY <2>1
  <2>5. Len(a) = 0 /\ a \in Seq(Names)
    BY <2>2 DEF Names
  <2>6. Len(e) = 3 /\ e[1] = "seen" /\ e[2] = "check" /\ e[3] = "exit"
    BY <2>3
  <2>7. Len(d) \in Nat \ {0} /\ Len(e) = Len(a) + Len(d) - 1 /\ (\A i \in 1..Len(a) : e[i] = a[i]) /\ \A i \in 1..(Len(d) - 1) : e[Len(a) + i] = d[i + 1]
    BY <2>4, <2>5, <2>6
  <2>8. Is(d) /\ Then(a)
    BY <1>20, <2>1, <2>2
  <2>9. ustack' \in Seq(UItem) /\ Is(e)'
    BY <2>4, <2>5, <2>7, <2>8, Moves, Zenon
  <2> QED BY <2>3, <2>9
<1> QED BY <1>1, <1>2, <1>3, <1>4, <1>5, <1>6, <1>7, <1>8, <1>9, <1>10, <1>11, <1>12, <1>13, <1>14, <1>15, <1>16, <1>17, <1>18, <1>19, <1>20

-----------------------------------------------------------------------------
(* The state after a step of the loop, from its parts. *)
LEMMA NoHandlerNext ==
    (\A d \in Waiting \cup Dispatching \cup Seeing : UTypes /\ Is(d) =>
           /\ Handled = {}
           /\ d \in Waiting \cup Dispatching => FirstUnseen = 1
           /\ d \in Seeing => FirstUnseen = 2)'
<1>1. \A d \in Waiting \cup Dispatching \cup Seeing : UTypes /\ Is(d) =>
           /\ Handled = {}
           /\ d \in Waiting \cup Dispatching => FirstUnseen = 1
           /\ d \in Seeing => FirstUnseen = 2
  BY NoHandler
<1> QED BY <1>1, PTL

(* The same of a handler. *)
LEMMA HandlerNext ==
    (\A d \in Handling : UTypes /\ Is(d) => FirstUnseen = 2 /\ Handled = {ustack[1].op})'
<1>1. \A d \in Handling : UTypes /\ Is(d) => FirstUnseen = 2 /\ Handled = {ustack[1].op}
  BY HandlerAt
<1> QED BY <1>1, PTL

(* A step outside handlers that leaves the table of operations alone. *)
LEMMA Turns ==
    ASSUME UringInv, UNCHANGED utableVars, CallTypes', RingTypes', ustack' \in Seq(UItem),
           NEW d \in Waiting \cup Dispatching \cup Seeing, Is(d), NEW e \in Waiting \cup Dispatching \cup Seeing, Is(e)',
           e \in Waiting \/ cq' # <<>>, NEW lo, lo = IF e \in Seeing THEN 2 ELSE 1, RingOf(sq', kernel', kcancel', cq', lo, Pend, Asked)
    PROVE  UringInv'
<1>1. ustate' = ustate /\ uindex' = uindex /\ upending' = upending
  BY DEF utableVars
<1>2. UTypes'
  BY <1>1 DEF UringInv, UTypes, TableTypes
<1>3. Pend' = Pend /\ Asked' = Asked /\ Indexed'
  BY <1>1 DEF UringInv, Pend, Asked, Indexed, Range
<1>4. Handled = {}
  BY NoHandler DEF UringInv
<1>5. Handled' = {} /\ FirstUnseen' = lo
  BY <1>2, NoHandlerNext
<1>6. FlightInv'
  BY <1>1, <1>3, <1>4, <1>5 DEF UringInv, FlightInv
<1>7. StackInv'
  BY DEF StackInv
<1>8. RingOf(sq, kernel, kcancel, cq, FirstUnseen, Pend, Asked)'
  BY <1>3, <1>5
<1> QED BY <1>2, <1>3, <1>6, <1>7, <1>8 DEF UringInv

(* The first completion is there when it is looked at. *)
LEMMA LoFits == ASSUME UringInv PROVE FirstUnseen \in {1, 2} /\ FirstUnseen <= Len(cq) + 1
<1>1. cq \in Seq(Completion) /\ Len(cq) \in Nat
  BY DEF UringInv, UTypes, RingTypes
<1>2. CASE \E d \in Waiting : Is(d)
  BY <1>1, <1>2, NoHandler DEF UringInv
<1>3. CASE cq # <<>>
  <2>1. Len(cq) >= 1
    BY <1>1, <1>3, EmptySeq
  <2> QED BY <1>1, <2>1 DEF FirstUnseen
<1> QED BY <1>2, <1>3 DEF UringInv, StackInv

(* A step that leaves the stack alone. *)
LEMMA Stays ==
    ASSUME UringInv, UNCHANGED ustack, TableTypes', RingTypes', CallTypes', Indexed', cq # <<>> => cq' # <<>>,
           UNCHANGED <<upending, urunning>> \/ ~Doing("check"),
           \A o \in UOps : (ustate'[o] = "Idle" <=> o \notin Pend' /\ o \notin Handled) /\ ~(o \in Pend' /\ o \in Handled),
           RingOf(sq', kernel', kcancel', cq', FirstUnseen, Pend', Asked')
    PROVE  UringInv'
<1>1. UTypes'
  BY DEF UringInv, UTypes
<1>2. Handled' = Handled /\ FirstUnseen' = FirstUnseen
  BY DEF Handled, FirstUnseen, Doing
<1>3. FlightInv'
  BY <1>2 DEF FlightInv
<1>4. \A d : Is(d) => Is(d)'
  BY DEF Is
<1>5. CASE \E d \in Stopping : Is(d)
  <2>1. Is(<<"check", "handler", "seen", "check", "exit">>)
    BY <1>5 DEF Stopping
  <2>2. Len(ustack) >= 1 /\ ustack[1].do = "check"
    BY <2>1 DEF Is
  <2>3. Doing("check")
    BY <2>2, TopIs DEF UringInv
  <2>4. StackInv'
    BY <2>3, <1>4, <1>5 DEF UringInv, StackInv
  <2> QED BY <1>1, <1>2, <1>3, <2>4 DEF UringInv
<1>6. CASE ~\E d \in Stopping : Is(d)
  <2>1. StackInv'
    BY <1>4, <1>6 DEF UringInv, StackInv
  <2> QED BY <1>1, <1>2, <1>3, <2>1 DEF UringInv
<1> QED BY <1>5, <1>6

(* The proactor starts in order. *)
LEMMA InitInv == UringInit => UringInv
<1> SUFFICES ASSUME UringInit PROVE UringInv
  OBVIOUS
<1>1. ustack = <<[do |-> "run"]>> /\ ustate = [o \in UOps |-> "Idle"] /\ uindex = [o \in UOps |-> 0] /\ upending = <<>> /\ ucommands = <<>>
      /\ sq = <<>> /\ kernel = {} /\ kcancel = {} /\ cq = <<>> /\ upc = [t \in UThreads |-> "idle"] /\ ucmd = [t \in UThreads |-> UNone]
  BY DEF UringInit
<1>2. TableTypes /\ RingTypes
  BY <1>1 DEF TableTypes, RingTypes
<1>3. CallTypes
  BY <1>1 DEF CallTypes
<1>4. ustack \in Seq(UItem) /\ Len(ustack) = 1 /\ ustack[1].do = "run"
  BY <1>1 DEF UItem
<1>5. UTypes
  BY <1>2, <1>3, <1>4 DEF UTypes
<1>6. Is(<<"run">>) /\ <<"run">> \in Waiting
  BY <1>4 DEF Is, Waiting
<1>7. Handled = {} /\ FirstUnseen = 1
  BY <1>5, <1>6, NoHandler
<1>8. Pend = {} /\ Asked = {} /\ Indexed
  BY <1>1 DEF Pend, Asked, Indexed, Range
<1>9. FlightInv
  BY <1>1, <1>7, <1>8 DEF FlightInv
<1>10. RingOf(sq, kernel, kcancel, cq, 1, {}, {})
  BY <1>1 DEF RingOf, HoldsOp, Spared, InSq, InCq
<1>11. StackInv
  BY <1>6 DEF StackInv
<1> QED BY <1>5, <1>7, <1>8, <1>9, <1>10, <1>11 DEF UringInv

(* The kernel completes an operation. *)
LEMMA KernelInv == ASSUME UringInv, UKernelStep PROVE UringInv'
<1>1. PICK o \in kernel, res \in {"ok", "fail", "cancelled"} : KernelComplete(o, res)
  BY DEF UKernelStep
<1>2. /\ sq' = sq /\ kernel' = kernel \ {o} /\ kcancel' = kcancel \ {o} /\ cq' = Append(cq, [op |-> o, res |-> res])
      /\ UNCHANGED <<ustate, uindex, upending, upc, ucmd, ucommands, ustack, urunning>> /\ (res = "cancelled" => o \in kcancel)
  BY <1>1 DEF KernelComplete, utableVars, ucallVars
<1>3. RingTypes /\ TableTypes /\ CallTypes
  BY DEF UringInv, UTypes
<1>4. PICK r \in Completion : r = [op |-> o, res |-> res] /\ r.op = o /\ r.res = res
  <2>1. o \in UOps \cup {UWake}
    BY <1>1, <1>3 DEF RingTypes
  <2>2. [op |-> o, res |-> res] \in Completion
    BY <1>1, <2>1 DEF Completion
  <2> QED BY <2>2
<1>5. cq' \in Seq(Completion) /\ cq' # <<>>
  BY <1>2, <1>3, <1>4 DEF RingTypes
<1>6. TableTypes' /\ CallTypes'
  BY <1>2, <1>3 DEF TableTypes, CallTypes
<1>7. RingTypes'
  BY <1>2, <1>3, <1>5 DEF RingTypes
<1>8. RingOf(sq, kernel \ {o}, kcancel \ {o}, Append(cq, r), FirstUnseen, Pend, Asked)
  <2>1. cq \in Seq(Completion) /\ FirstUnseen \in {1, 2} /\ FirstUnseen <= Len(cq) + 1 /\ RingOf(sq, kernel, kcancel, cq, FirstUnseen, Pend, Asked)
    BY <1>3, LoFits DEF UringInv, RingTypes
  <2>2. r.res = "cancelled" => o \in kcancel
    BY <1>2, <1>4
  <2>3. PICK s, K, KC, c, lo, P, A : s = sq /\ K = kernel /\ KC = kcancel /\ c = cq /\ lo = FirstUnseen /\ P = Pend /\ A = Asked
    OBVIOUS
  <2>4. o \in K /\ c \in Seq(Completion) /\ lo \in {1, 2} /\ lo <= Len(c) + 1 /\ RingOf(s, K, KC, c, lo, P, A) /\ (r.res = "cancelled" => o \in KC)
    BY <1>1, <2>1, <2>2, <2>3
  <2>5. PICK K1, C1, d : K1 = K \ {o} /\ C1 = KC \ {o} /\ d = Append(c, r)
    OBVIOUS
  <2>6. RingOf(s, K1, C1, d, lo, P, A)
    <3>1. Completes(s, K, KC, c, lo, P, A, o, r, K1, C1, d)
      BY <1>4, <2>4, <2>5 DEF Completes
    <3> QED BY <3>1, RingCompletes, Zenon
  <2> QED BY <2>3, <2>5, <2>6
<1>9. Pend' = Pend /\ Asked' = Asked /\ Indexed'
  BY <1>2 DEF UringInv, Pend, Asked, Indexed, Range
<1>10. RingOf(sq', kernel', kcancel', cq', FirstUnseen, Pend', Asked')
  BY <1>2, <1>4, <1>8, <1>9
<1>11. \A p \in UOps : (ustate'[p] = "Idle" <=> p \notin Pend' /\ p \notin Handled) /\ ~(p \in Pend' /\ p \in Handled)
  BY <1>2, <1>9 DEF UringInv, FlightInv
<1> QED BY <1>2, <1>5, <1>6, <1>7, <1>9, <1>10, <1>11, Stays

-----------------------------------------------------------------------------
(* Steps of the loop outside the handlers. *)
LEMMA CallsStay == ASSUME CallTypes, UNCHANGED <<upc, ucmd, ucommands>> PROVE CallTypes'
  BY DEF CallTypes

(* The kinds of stack, by name. *)
LEMMA ShapeFacts ==
    /\ <<>> \in Waiting /\ <<"run">> \in Waiting /\ <<"start">> \in Waiting /\ <<"rearm", "check", "exit">> \in Waiting /\ <<"check", "exit">> \in Waiting
    /\ <<"exit">> \in Waiting /\ <<"drain", "peek", "check", "exit">> \in Waiting /\ <<"peek", "check", "exit">> \in Waiting
    /\ <<"dispatch", "seen", "check", "exit">> \in Dispatching
    /\ <<"seen", "check", "exit">> \in Seeing /\ <<"drain", "rearm", "seen", "check", "exit">> \in Seeing /\ <<"rearm", "seen", "check", "exit">> \in Seeing
    /\ <<"handler", "seen", "check", "exit">> \in Handling
    /\ <<"check", "handler", "seen", "check", "exit">> \in Stopping
    /\ \A d \in Waiting \cup Dispatching : d \notin Seeing
<1>1. \A d \in Waiting \cup Dispatching : d \notin Seeing
  <2> SUFFICES ASSUME NEW d \in Waiting \cup Dispatching PROVE d \notin Seeing
    OBVIOUS
  <2>1. CASE d \in Waiting
    <3>1. ASSUME NEW i \in 1..Len(d) PROVE d[i] # "seen"
      BY <2>1 DEF Waiting
    <3>2. ASSUME d \in Seeing PROVE FALSE
      <4>1. \E i \in 1..Len(d) : d[i] = "seen"
        <5>1. CASE d = <<"seen", "check", "exit">>
          <6>1. 1 \in 1..Len(d) /\ d[1] = "seen"
            BY <5>1
          <6> QED BY <6>1
        <5>2. CASE d = <<"drain", "rearm", "seen", "check", "exit">>
          <6>1. 3 \in 1..Len(d) /\ d[3] = "seen"
            BY <5>2
          <6> QED BY <6>1
        <5>3. CASE d = <<"rearm", "seen", "check", "exit">>
          <6>1. 2 \in 1..Len(d) /\ d[2] = "seen"
            BY <5>3
          <6> QED BY <6>1
        <5> QED BY <5>1, <5>2, <5>3, <3>2 DEF Seeing
      <4> QED BY <4>1, <3>1
    <3> QED BY <3>2
  <2>2. CASE d \in Dispatching
    <3>1. d[1] = "dispatch"
      BY <2>2 DEF Dispatching
    <3>2. ASSUME d \in Seeing PROVE d[1] # "dispatch"
      BY <3>2 DEF Seeing
    <3> QED BY <3>1, <3>2
  <2> QED BY <2>1, <2>2
<1> QED BY <1>1 DEF Waiting, Dispatching, Seeing, Handling, Stopping

(* A step outside handlers that leaves the ring alone too. *)
LEMMA Moved ==
    ASSUME UringInv, UNCHANGED <<utableVars, ringVars, upc, ucmd, ucommands>>, ustack' \in Seq(UItem),
           NEW d \in Waiting \cup Seeing, Is(d), NEW e \in Waiting \cup Dispatching \cup Seeing, Is(e)',
           e \in Waiting \/ cq # <<>>, d \in Seeing <=> e \in Seeing
    PROVE  UringInv'
<1>1. sq' = sq /\ kernel' = kernel /\ kcancel' = kcancel /\ cq' = cq
  BY DEF ringVars
<1>2. UTypes /\ CallTypes' /\ RingTypes'
  BY <1>1, CallsStay DEF UringInv, UTypes, RingTypes
<1>3. PICK lo : lo = IF e \in Seeing THEN 2 ELSE 1
  OBVIOUS
<1>4. FirstUnseen = lo
  BY <1>2, <1>3, NoHandler, ShapeFacts
<1>5. RingOf(sq', kernel', kcancel', cq', lo, Pend, Asked)
  BY <1>1, <1>4 DEF UringInv
<1>6. e \in Waiting \/ cq' # <<>>
  BY <1>1
<1> QED BY <1>2, <1>3, <1>5, <1>6, Turns

(* run, and the end of the drain. *)
LEMMA RunInv == ASSUME UringInv, URunEnter \/ URunStart \/ URunExit \/ UDrainEnds PROVE UringInv'
<1>1. UTypes /\ StackInv
  BY DEF UringInv
<1>2. CASE URunEnter
  <2>1. UNCHANGED <<utableVars, ringVars, upc, ucmd, ucommands>> /\ Doing("run") /\ Then(<<"start">>)
    BY <1>2 DEF URunEnter, ucallVars, uqueueVars
  <2>2. Is(<<"run">>)
    BY <1>1, <2>1, StackAt
  <2>3. ustack' \in Seq(UItem) /\ Is(<<"start">>)'
    BY <1>1, <2>1, <2>2, StackMoves
  <2> QED BY <2>1, <2>2, <2>3, Moved, ShapeFacts
<1>3. CASE URunStart
  <2>1. UNCHANGED <<utableVars, ringVars, upc, ucmd, ucommands>> /\ Doing("start") /\ (Then(<<"rearm", "check", "exit">>) \/ Then(<<"check", "exit">>))
    BY <1>3 DEF URunStart, ucallVars, uqueueVars
  <2>2. Is(<<"start">>)
    BY <1>1, <2>1, StackAt
  <2>3. ustack' \in Seq(UItem) /\ (Is(<<"rearm", "check", "exit">>)' \/ Is(<<"check", "exit">>)')
    BY <1>1, <2>1, <2>2, StackMoves
  <2> QED BY <2>1, <2>2, <2>3, Moved, ShapeFacts
<1>4. CASE URunExit
  <2>1. UNCHANGED <<utableVars, ringVars, upc, ucmd, ucommands>> /\ Doing("exit") /\ Then(<<>>)
    BY <1>4 DEF URunExit, ucallVars, uqueueVars
  <2>2. Is(<<"exit">>)
    BY <1>1, <2>1, StackAt
  <2>3. ustack' \in Seq(UItem) /\ Is(<<>>)'
    BY <1>1, <2>1, <2>2, StackMoves
  <2> QED BY <2>1, <2>2, <2>3, Moved, ShapeFacts
<1>5. CASE UDrainEnds
  <2>1. UNCHANGED <<utableVars, ringVars, upc, ucmd, ucommands>> /\ Doing("drain") /\ Then(<<>>)
    BY <1>5 DEF UDrainEnds, ucallVars, uqueueVars
  <2>2. CASE Is(<<"drain", "peek", "check", "exit">>)
    <3>1. ustack' \in Seq(UItem) /\ Is(<<"peek", "check", "exit">>)'
      BY <1>1, <2>1, <2>2, StackMoves
    <3> QED BY <2>1, <2>2, <3>1, Moved, ShapeFacts
  <2>3. CASE Is(<<"drain", "rearm", "seen", "check", "exit">>) /\ cq # <<>>
    <3>1. ustack' \in Seq(UItem) /\ Is(<<"rearm", "seen", "check", "exit">>)'
      BY <1>1, <2>1, <2>3, StackMoves
    <3> QED BY <2>1, <2>3, <3>1, Moved, ShapeFacts
  <2> QED BY <1>1, <2>1, <2>2, <2>3, StackAt
<1> QED BY <1>2, <1>3, <1>4, <1>5

(* A step outside handlers that submits what is prepared. *)
LEMMA MovedRing ==
    ASSUME UringInv, UNCHANGED <<utableVars, upc, ucmd, ucommands>>, ustack' \in Seq(UItem), RingNow(FirstUnseen, Pend, Asked),
           NEW d \in Waiting \cup Seeing, Is(d), NEW e \in Waiting \cup Dispatching \cup Seeing, Is(e)',
           e \in Waiting \/ cq' # <<>>, d \in Seeing <=> e \in Seeing
    PROVE  UringInv'
<1>1. UTypes /\ CallTypes' /\ RingTypes'
  BY CallsStay DEF UringInv, UTypes, RingTypes, RingNow
<1>2. PICK lo : lo = IF e \in Seeing THEN 2 ELSE 1
  OBVIOUS
<1>3. FirstUnseen = lo
  BY <1>1, <1>2, NoHandler, ShapeFacts
<1>4. RingOf(sq', kernel', kcancel', cq', lo, Pend, Asked)
  BY <1>3 DEF RingNow
<1> QED BY <1>1, <1>2, <1>4, Turns

(* The ring is left alone. *)
LEMMA KeepRing == ASSUME UringInv, UNCHANGED ringVars PROVE RingNow(FirstUnseen, Pend, Asked)
  BY DEF UringInv, UTypes, RingTypes, ringVars, RingNow

(* All that is prepared is submitted. *)
LEMMA FlushRing == ASSUME UringInv, RingSubmit(sq, <<>>) PROVE RingNow(FirstUnseen, Pend, Asked)
<1>1. RingTypes /\ sq \in Seq(EntryType) /\ RingOf(sq, kernel, kcancel, cq, FirstUnseen, Pend, Asked)
  BY DEF UringInv, UTypes, RingTypes
<1> QED BY <1>1, LoFits, SubmitAll

(* The read of the eventfd is prepared, and all is submitted: it is no operation of a user. *)
LEMMA WakeRing == ASSUME UringInv, RingSubmit(Append(sq, Entry("op", UWake)), <<>>) PROVE RingNow(FirstUnseen, Pend, Asked)
<1>1. RingTypes /\ sq \in Seq(EntryType) /\ RingOf(sq, kernel, kcancel, cq, FirstUnseen, Pend, Asked)
  BY DEF UringInv, UTypes, RingTypes
<1>2. PICK w \in EntryType : w = Entry("op", UWake)
  BY EntryFacts
<1>3. PICK e \in Seq(EntryType) : e = <<w>> /\ Len(e) = 1 /\ e[1] = w
  <2>1. <<w>> \in Seq(EntryType) /\ Len(<<w>>) = 1 /\ <<w>>[1] = w
    OBVIOUS
  <2> QED BY <2>1, Zenon
<1>4. ASSUME NEW i \in 1..Len(e), NEW o \in UOps PROVE e[i] # Entry("op", o) /\ e[i] # Entry("cancel", o)
  <2>1. e[i] = w /\ o # UWake
    BY <1>3, UringAssumption
  <2> QED BY <1>2, <2>1, EntryFacts
<1>5. RingOf(sq \o e, kernel, kcancel, cq, FirstUnseen, Pend, Asked)
  BY <1>1, <1>4, RingPrepares
<1>6. PICK all \in Seq(EntryType) : all = Append(sq, w) /\ all = sq \o e
  <2>1. Append(sq, w) \in Seq(EntryType) /\ Append(sq, w) = sq \o <<w>>
    BY <1>1
  <2> QED BY <2>1, <1>3
<1>7. RingSubmit(all, <<>>)
  BY <1>2, <1>6
<1> QED BY <1>1, <1>5, <1>6, <1>7, LoFits, SubmitAll

(* rearmWakeup. *)
LEMMA RearmInv == ASSUME UringInv, RearmWakeup PROVE UringInv'
<1>1. UTypes /\ StackInv
  BY DEF UringInv
<1>2. UNCHANGED <<utableVars, upc, ucmd, ucommands>> /\ Doing("rearm") /\ Then(<<>>)
  BY DEF RearmWakeup, ucallVars, uqueueVars
<1>3. RingNow(FirstUnseen, Pend, Asked)
  BY KeepRing, WakeRing DEF RearmWakeup
<1>4. CASE Is(<<"rearm", "check", "exit">>)
  <2>1. ustack' \in Seq(UItem) /\ Is(<<"check", "exit">>)'
    BY <1>1, <1>2, <1>4, StackMoves
  <2> QED BY <1>2, <1>3, <1>4, <2>1, MovedRing, ShapeFacts
<1>5. CASE Is(<<"rearm", "seen", "check", "exit">>) /\ cq # <<>>
  <2>1. ustack' \in Seq(UItem) /\ Is(<<"seen", "check", "exit">>)'
    BY <1>1, <1>2, <1>5, StackMoves
  <2>2. cq' # <<>>
    BY <1>3, <1>5 DEF RingNow
  <2> QED BY <1>2, <1>3, <1>5, <2>1, <2>2, MovedRing, ShapeFacts
<1> QED BY <1>1, <1>2, <1>4, <1>5, StackAt

(* What PeekCqe puts on the stack. *)
LEMMA Nexts ==
    /\ <<>> \o <<"check">> = <<"check">> /\ <<"dispatch", "seen">> \o <<"check">> = <<"dispatch", "seen", "check">>
    /\ <<>> \o <<>> = <<>> /\ <<"dispatch", "seen">> \o <<>> = <<"dispatch", "seen">>
<1>1. <<"check">> \in Seq(Names) /\ <<"dispatch", "seen">> \in Seq(Names) /\ <<"dispatch", "seen", "check">> \in Seq(Names) /\ <<>> \in Seq(Names)
  BY DEF Names
<1>2. <<>> \o <<"check">> = <<"check">> /\ <<>> \o <<>> = <<>> /\ <<"dispatch", "seen">> \o <<>> = <<"dispatch", "seen">>
  BY <1>1, ConcatEmptySeq
<1>3. PICK a \in Seq(Names), b \in Seq(Names), c \in Seq(Names) : a = <<"dispatch", "seen">> /\ b = <<"check">> /\ c = <<"dispatch", "seen", "check">>
  BY <1>1
<1>4. Len(a) = 2 /\ a[1] = "dispatch" /\ a[2] = "seen" /\ Len(b) = 1 /\ b[1] = "check" /\ Len(c) = 3 /\ c[1] = "dispatch" /\ c[2] = "seen" /\ c[3] = "check"
  BY <1>3
<1>5. /\ a \o b \in Seq(Names) /\ Len(a \o b) = Len(a) + Len(b)
      /\ \A i \in 1..Len(a) : (a \o b)[i] = a[i]
      /\ \A i \in 1..Len(b) : (a \o b)[Len(a) + i] = b[i]
  BY Chain
<1>6. Len(a \o b) = 3 /\ (a \o b)[1] = "dispatch" /\ (a \o b)[2] = "seen" /\ (a \o b)[2 + 1] = "check"
  BY <1>4, <1>5
<1>7. Len(a \o b) = Len(c) /\ \A i \in 1..Len(c) : (a \o b)[i] = c[i]
  BY <1>4, <1>6
<1>8. a \o b = c
  BY <1>5, <1>7, SeqEqual
<1> QED BY <1>2, <1>3, <1>8

(* io_uring_peek_cqe takes nothing from the ring. *)
LEMMA PeekRing == ASSUME UringInv, NEW submit, NEW next, PeekCqe(submit, next) PROVE RingNow(FirstUnseen, Pend, Asked)
  BY KeepRing, FlushRing DEF PeekCqe

(* The event loop looks for a completion. *)
LEMMA CheckPeeks == ASSUME UringInv, UNCHANGED <<utableVars, upc, ucmd, ucommands>>, NEW submit, PeekCqe(submit, <<"check">>), Is(<<"check", "exit">>) PROVE UringInv'
<1>1. UTypes /\ RingNow(FirstUnseen, Pend, Asked)
  BY PeekRing DEF UringInv
<1>2. CASE cq' = <<>>
  <2>1. Then(<<"check">>)
    BY <1>2, Nexts DEF PeekCqe
  <2>2. ustack' \in Seq(UItem) /\ Is(<<"check", "exit">>)'
    BY <1>1, <2>1, StackMoves
  <2> QED BY <1>1, <2>2, MovedRing, ShapeFacts
<1>3. CASE cq' # <<>>
  <2>1. Then(<<"dispatch", "seen", "check">>)
    BY <1>3, Nexts DEF PeekCqe
  <2>2. ustack' \in Seq(UItem) /\ Is(<<"dispatch", "seen", "check", "exit">>)'
    BY <1>1, <2>1, StackMoves
  <2> QED BY <1>1, <1>3, <2>2, MovedRing, ShapeFacts
<1> QED BY <1>2, <1>3

(* The spinning event loop looks for a completion. *)
LEMMA PeekInv == ASSUME UringInv, UPeek PROVE UringInv'
<1>1. UTypes /\ StackInv
  BY DEF UringInv
<1>2. UNCHANGED <<utableVars, upc, ucmd, ucommands>> /\ Doing("peek") /\ PeekCqe(upolicy = "sqpoll", <<>>)
  BY DEF UPeek, ucallVars, uqueueVars
<1>3. RingNow(FirstUnseen, Pend, Asked)
  BY <1>2, PeekRing
<1>4. Is(<<"peek", "check", "exit">>)
  BY <1>1, <1>2, StackAt
<1>5. CASE cq' = <<>>
  <2>1. Then(<<>>)
    BY <1>2, <1>5, Nexts DEF PeekCqe
  <2>2. ustack' \in Seq(UItem) /\ Is(<<"check", "exit">>)'
    BY <1>1, <1>4, <2>1, StackMoves
  <2> QED BY <1>2, <1>3, <1>4, <2>2, MovedRing, ShapeFacts
<1>6. CASE cq' # <<>>
  <2>1. Then(<<"dispatch", "seen">>)
    BY <1>2, <1>6, Nexts DEF PeekCqe
  <2>2. ustack' \in Seq(UItem) /\ Is(<<"dispatch", "seen", "check", "exit">>)'
    BY <1>1, <1>4, <2>1, StackMoves
  <2> QED BY <1>2, <1>3, <1>4, <1>6, <2>2, MovedRing, ShapeFacts
<1> QED BY <1>5, <1>6

(* The condition of the event loop, also of the one that stop runs in a handler: nothing is pending then, and it ends at once. *)
LEMMA CheckInv == ASSUME UringInv, ULoopCheck PROVE UringInv'
<1>1. UTypes /\ StackInv
  BY DEF UringInv
<1>2. UNCHANGED <<utableVars, upc, ucmd, ucommands>> /\ Doing("check")
  BY DEF ULoopCheck, ucallVars, uqueueVars
<1>3. CASE Is(<<"check", "exit">>)
  <2>1. ASSUME NEW submit, PeekCqe(submit, <<"check">>) PROVE UringInv'
    BY <1>2, <1>3, <2>1, CheckPeeks
  <2>2. CASE Then(<<"drain", "peek", "check">>) /\ UNCHANGED ringVars
    <3>1. ustack' \in Seq(UItem) /\ Is(<<"drain", "peek", "check", "exit">>)'
      BY <1>1, <1>3, <2>2, StackMoves
    <3> QED BY <1>2, <1>3, <2>2, <3>1, Moved, ShapeFacts
  <2>3. CASE Then(<<>>) /\ UNCHANGED ringVars
    <3>1. ustack' \in Seq(UItem) /\ Is(<<"exit">>)'
      BY <1>1, <1>3, <2>3, StackMoves
    <3> QED BY <1>2, <1>3, <2>3, <3>1, Moved, ShapeFacts
  <2> QED BY <2>1, <2>2, <2>3 DEF ULoopCheck
<1>4. CASE upending = <<>> /\ ~urunning /\ Is(<<"check", "handler", "seen", "check", "exit">>) /\ cq # <<>>
  <2>1. Then(<<>>) /\ sq' = sq /\ kernel' = kernel /\ kcancel' = kcancel /\ cq' = cq /\ ustate' = ustate /\ uindex' = uindex /\ upending' = upending
    BY <1>2, <1>4 DEF ULoopCheck, ringVars, utableVars
  <2>2. ustack' \in Seq(UItem) /\ Is(<<"handler", "seen", "check", "exit">>)'
    BY <1>1, <1>4, <2>1, StackMoves
  <2>3. UTypes'
    BY <1>1, <1>2, <2>1, <2>2, CallsStay DEF UTypes, TableTypes, RingTypes
  <2>4. FirstUnseen = 2 /\ Handled = {ustack[2].op}
    BY <1>1, <1>4, HandlerAt, ShapeFacts
  <2>5. FirstUnseen' = 2 /\ Handled' = {ustack'[1].op}
    BY <2>2, <2>3, HandlerNext, ShapeFacts
  <2>6. Len(ustack) = 5
    BY <1>4 DEF Is
  <2>7. ustack # <<>> /\ <<>> \in Seq(Names) /\ Len(<<>>) = 0
    BY <2>6
  <2>8. \A i \in 1..(Len(ustack) - 1) : ustack'[Len(<<>>) + i] = ustack[i + 1]
    BY <1>1, <2>1, <2>7, ThenIs DEF Names
  <2>9. ustack'[1] = ustack[2]
    BY <2>6, <2>7, <2>8
  <2>10. Pend' = Pend /\ Asked' = Asked /\ Indexed' /\ Handled' = Handled /\ FirstUnseen' = FirstUnseen
    BY <2>1, <2>4, <2>5, <2>9 DEF UringInv, Pend, Asked, Indexed, Range
  <2>11. FlightInv' /\ RingOf(sq, kernel, kcancel, cq, FirstUnseen, Pend, Asked)'
    BY <2>1, <2>10 DEF UringInv, FlightInv
  <2>12. StackInv'
    BY <1>4, <2>1, <2>2, ShapeFacts DEF StackInv
  <2> QED BY <2>3, <2>10, <2>11, <2>12 DEF UringInv
<1> QED BY <1>1, <1>2, <1>3, <1>4, StackAt

(* io_uring_cqe_seen: the completion it drops is the one that was dispatched. *)
LEMMA SeenInv == ASSUME UringInv, USeen PROVE UringInv'
<1>1. UTypes /\ StackInv
  BY DEF UringInv
<1>2. UNCHANGED <<utableVars, upc, ucmd, ucommands, sq, kernel, kcancel>> /\ Doing("seen")
  BY DEF USeen, ucallVars, uqueueVars
<1>3. Is(<<"seen", "check", "exit">>) /\ cq # <<>>
  BY <1>1, <1>2, StackAt
<1>4. cq \in Seq(Completion) /\ Len(cq) \in Nat
  BY <1>1 DEF UTypes, RingTypes
<1>5. FirstUnseen = 2
  BY <1>1, <1>3, NoHandler, ShapeFacts
<1>6. RingOf(sq, kernel, kcancel, Tail(cq), 1, Pend, Asked)
  BY <1>3, <1>4, <1>5, RingSees DEF UringInv
<1>7. cq' = Tail(cq) /\ Then(IF Len(cq) > 1 THEN <<"dispatch", "seen">> ELSE <<>>)
  BY <1>3 DEF USeen
<1>8. RingTypes' /\ CallTypes'
  BY <1>1, <1>2, <1>3, <1>4, <1>7, CallsStay DEF UTypes, RingTypes
<1>9. RingOf(sq', kernel', kcancel', cq', 1, Pend, Asked)
  BY <1>2, <1>6, <1>7
<1>10. CASE Len(cq) > 1
  <2>1. ustack' \in Seq(UItem) /\ Is(<<"dispatch", "seen", "check", "exit">>)'
    BY <1>1, <1>3, <1>7, <1>10, StackMoves
  <2>2. cq' # <<>>
    BY <1>3, <1>4, <1>7, <1>10
  <2> QED BY <1>2, <1>3, <1>8, <1>9, <2>1, <2>2, Turns, ShapeFacts
<1>11. CASE ~(Len(cq) > 1)
  <2>1. ustack' \in Seq(UItem) /\ Is(<<"check", "exit">>)'
    BY <1>1, <1>3, <1>7, <1>11, StackMoves
  <2> QED BY <1>2, <1>3, <1>8, <1>9, <2>1, Turns, ShapeFacts
<1> QED BY <1>10, <1>11

DropsTo(u, x, k, v, y) ==
    /\ u \in Seq(UOps) /\ x \in [UOps -> Nat] /\ (\A i \in 1..Len(u) : x[u[i]] = i) /\ k \in 1..Len(u)
    /\ v = Front([u EXCEPT ![k] = Last(u)]) /\ y = [x EXCEPT ![Last(u)] = k]

(* endOperation: the others keep their places in _pendingOps, or are told the new one. *)
LEMMA Drops ==
    ASSUME NEW u, NEW x, NEW k, NEW v, NEW y, DropsTo(u, x, k, v, y)
    PROVE  /\ v \in Seq(UOps) /\ y \in [UOps -> Nat] /\ \A i \in 1..Len(v) : y[v[i]] = i
           /\ Range(v) = Range(u) \ {u[k]}
<1>1. PICK n \in Nat : n = Len(u) /\ n >= 1 /\ DOMAIN u = 1..n /\ k \in 1..n /\ (\A i \in 1..n : u[i] \in UOps) /\ \A i \in 1..n : x[u[i]] = i
  BY DEF DropsTo
<1>2. PICK z : z = Last(u) /\ z = u[n] /\ z \in UOps
  BY <1>1 DEF Last
<1>3. PICK w \in Seq(UOps) : w = [u EXCEPT ![k] = z] /\ Len(w) = n /\ w[k] = z /\ \A i \in 1..n : i # k => w[i] = u[i]
  <2>1. [u EXCEPT ![k] = z] \in Seq(UOps) /\ Len([u EXCEPT ![k] = z]) = n
    BY <1>1, <1>2 DEF DropsTo
  <2>2. [u EXCEPT ![k] = z][k] = z /\ \A i \in 1..n : i # k => [u EXCEPT ![k] = z][i] = u[i]
    BY <1>1, <1>2
  <2> QED BY <2>1, <2>2, Zenon
<1>4. v = SubSeq(w, 1, n - 1)
  BY <1>2, <1>3 DEF Front, DropsTo
<1>5. v \in Seq(UOps) /\ Len(v) = n - 1 /\ DOMAIN v = 1..(n - 1) /\ \A i \in 1..(n - 1) : v[i] = w[i]
  <2>1. n - 1 \in 0..Len(w)
    BY <1>1, <1>3
  <2>2. SubSeq(w, 1, n - 1) \in Seq(UOps) /\ Len(SubSeq(w, 1, n - 1)) = n - 1 /\ \A i \in 1..(n - 1) : SubSeq(w, 1, n - 1)[i] = w[i]
    BY <2>1, Cut
  <2>3. v \in Seq(UOps) /\ Len(v) = n - 1 /\ \A i \in 1..(n - 1) : v[i] = w[i]
    BY <1>4, <2>2, Zenon
  <2> QED BY <2>3
<1>6. y \in [UOps -> Nat] /\ y[z] = k /\ \A o \in UOps : o # z => y[o] = x[o]
  BY <1>1, <1>2 DEF DropsTo
<1>7. \A i, j \in 1..n : u[i] = u[j] => i = j
  BY <1>1
<1>8. ASSUME NEW i \in 1..(n - 1) PROVE y[v[i]] = i /\ v[i] # u[k] /\ \E j \in 1..n : v[i] = u[j]
  <2>1. i \in 1..n /\ i # n /\ v[i] = w[i]
    BY <1>1, <1>5
  <2>2. CASE i = k
    <3>1. v[i] = z
      BY <1>3, <2>1, <2>2
    <3>2. n \in 1..n /\ u[n] # u[k]
      BY <1>1, <1>7, <2>1, <2>2
    <3> QED BY <3>1, <3>2, <1>2, <1>6, <2>2
  <2>3. CASE i # k
    <3>1. v[i] = u[i]
      BY <1>3, <2>1, <2>3
    <3>2. n \in 1..n /\ u[i] # u[n] /\ u[i] # u[k]
      BY <1>1, <1>7, <2>1, <2>3
    <3>3. u[i] \in UOps /\ x[u[i]] = i
      BY <1>1, <2>1
    <3> QED BY <3>1, <3>2, <3>3, <1>2, <1>6, <2>1
  <2> QED BY <2>2, <2>3
<1>9. ASSUME NEW i \in 1..n, i # k PROVE \E j \in 1..(n - 1) : v[j] = u[i]
  <2>3. CASE i = n
    <3>1. k \in 1..(n - 1)
      BY <1>1, <1>9, <2>3
    <3>2. v[k] = u[n]
      BY <3>1, <1>2, <1>3, <1>5
    <3> QED BY <3>1, <3>2, <2>3
  <2>4. CASE i # n
    <3>1. i \in 1..(n - 1)
      BY <1>1, <2>4
    <3>2. v[i] = u[i]
      BY <3>1, <1>3, <1>5, <1>9
    <3> QED BY <3>1, <3>2
  <2> QED BY <2>3, <2>4
<1>10. ASSUME NEW o PROVE o \in Range(v) <=> o \in Range(u) /\ o # u[k]
  <2>1. o \in Range(v) <=> \E i \in 1..(n - 1) : v[i] = o
    BY <1>5 DEF Range
  <2>2. o \in Range(u) <=> \E i \in 1..n : u[i] = o
    BY <1>1 DEF Range
  <2> QED BY <1>8, <1>9, <2>1, <2>2
<1>11. Len(v) = n - 1 /\ \A i \in 1..(n - 1) : y[v[i]] = i
  BY <1>5, <1>8
<1> QED BY <1>5, <1>6, <1>10, <1>11

(* dispatchCqe. *)
LEMMA Pushed ==
    ASSUME NEW s \in Seq(UItem), NEW h \in UItem
    PROVE  /\ <<h>> \o s \in Seq(UItem) /\ Len(<<h>> \o s) = Len(s) + 1 /\ (<<h>> \o s)[1] = h
           /\ \A i \in 1..Len(s) : (<<h>> \o s)[1 + i] = s[i]
<1>1. PICK a \in Seq(UItem) : a = <<h>> /\ Len(a) = 1 /\ a[1] = h
  <2>1. <<h>> \in Seq(UItem) /\ Len(<<h>>) = 1 /\ <<h>>[1] = h
    OBVIOUS
  <2> QED BY <2>1, Zenon
<1>2. /\ a \o s \in Seq(UItem) /\ Len(a \o s) = Len(a) + Len(s)
      /\ \A i \in 1..Len(a) : (a \o s)[i] = a[i]
      /\ \A i \in 1..Len(s) : (a \o s)[Len(a) + i] = s[i]
  BY Chain
<1>3. Len(a \o s) = Len(s) + 1 /\ (a \o s)[1] = h /\ \A i \in 1..Len(s) : (a \o s)[1 + i] = s[i]
  BY <1>1, <1>2
<1> QED BY <1>1, <1>2, <1>3, Zenon

Pushes(h) == ustack' = <<h>> \o Tail(ustack)

(* The handler takes the place of the dispatch. *)
LEMMA PushHandler ==
    ASSUME UTypes, Is(<<"dispatch", "seen", "check", "exit">>), NEW h \in UItem, h.do = "handler", Pushes(h)
    PROVE  ustack' \in Seq(UItem) /\ Is(<<"handler", "seen", "check", "exit">>)' /\ ustack'[1] = h
<1>1. PICK s \in Seq(UItem) : s = ustack /\ Len(s) = 4 /\ s[1].do = "dispatch" /\ s[2].do = "seen" /\ s[3].do = "check" /\ s[4].do = "exit"
  BY DEF UTypes, Is
<1>2. PICK t \in Seq(UItem) : t = Tail(s) /\ Len(t) = 3 /\ t[1] = s[2] /\ t[2] = s[3] /\ t[3] = s[4]
  <2>1. s # <<>>
    BY <1>1
  <2>2. Tail(s) \in Seq(UItem) /\ Len(Tail(s)) = Len(s) - 1 /\ \A i \in 1..Len(Tail(s)) : Tail(s)[i] = s[i + 1]
    BY <2>1, HeadTailProperties
  <2>3. PICK t \in Seq(UItem) : t = Tail(s) /\ Len(t) = Len(s) - 1 /\ \A i \in 1..Len(t) : t[i] = s[i + 1]
    BY <2>2, Zenon
  <2>4. Len(t) = 3
    BY <1>1, <2>3
  <2>5. t[1] = s[1 + 1] /\ t[2] = s[2 + 1] /\ t[3] = s[3 + 1]
    <3>1. \A i \in 1..3 : t[i] = s[i + 1]
      BY <2>3, <2>4, Zenon
    <3> QED BY <3>1
  <2>6. t[1] = s[2] /\ t[2] = s[3] /\ t[3] = s[4]
    BY <2>5
  <2> QED BY <2>3, <2>4, <2>6
<1>3. PICK v : v = <<h>> \o t /\ v \in Seq(UItem) /\ Len(v) = Len(t) + 1 /\ v[1] = h /\ \A i \in 1..Len(t) : v[1 + i] = t[i]
  <2>1. <<h>> \o t \in Seq(UItem) /\ Len(<<h>> \o t) = Len(t) + 1 /\ (<<h>> \o t)[1] = h /\ \A i \in 1..Len(t) : (<<h>> \o t)[1 + i] = t[i]
    BY Pushed
  <2> QED BY <2>1, Zenon
<1>4. Len(v) = 4 /\ v[1 + 1] = t[1] /\ v[1 + 2] = t[2] /\ v[1 + 3] = t[3]
  BY <1>2, <1>3
<1>5. Len(v) = 4 /\ v[1].do = "handler" /\ v[2].do = "seen" /\ v[3].do = "check" /\ v[4].do = "exit"
  BY <1>1, <1>2, <1>3, <1>4
<1>6. ustack' = v
  BY <1>1, <1>2, <1>3 DEF Pushes
<1>7. Is(<<"handler", "seen", "check", "exit">>)'
  BY <1>5, <1>6 DEF Is
<1> QED BY <1>3, <1>6, <1>7

(* An operation whose index leads to it is one of _pendingOps. *)
LEMMA PendingIs == ASSUME UringInv, NEW o \in UOps PROVE InPending(o) <=> o \in Pend
<1>1. upending \in Seq(UOps) /\ DOMAIN upending = 1..Len(upending)
  BY DEF UringInv, UTypes, TableTypes
<1> QED BY <1>1 DEF UringInv, Indexed, InPending, Pend, Range

(* The completion that is dispatched, and what the ring holds of it. *)
LEMMA FirstCompletion ==
    ASSUME UringInv, Doing("dispatch")
    PROVE  /\ Is(<<"dispatch", "seen", "check", "exit">>) /\ cq # <<>> /\ Head(cq) = cq[1] /\ cq[1] \in Completion
           /\ RingOf(sq, kernel, kcancel, cq, 2, Pend \ {cq[1].op}, Asked)
           /\ cq[1].op \in UOps => cq[1].op \in Pend /\ ustate[cq[1].op] # "Idle"
           /\ cq[1].op \in UOps /\ cq[1].res = "cancelled" => cq[1].op \in Asked
<1>1. UTypes /\ StackInv /\ FlightInv
  BY DEF UringInv
<1>2. Is(<<"dispatch", "seen", "check", "exit">>) /\ cq # <<>>
  BY <1>1, StackAt
<1>3. cq \in Seq(Completion)
  BY <1>1 DEF UTypes, RingTypes
<1>4. FirstUnseen = 1
  BY <1>1, <1>2, NoHandler, ShapeFacts
<1>5. RingOf(sq, kernel, kcancel, cq, 1, Pend, Asked)
  BY <1>4 DEF UringInv
<1>6. Head(cq) = cq[1] /\ cq[1] \in Completion
  BY <1>2, <1>3
<1>7. PICK s, K, KC, c, P, A : s = sq /\ K = kernel /\ KC = kcancel /\ c = cq /\ P = Pend /\ A = Asked
  OBVIOUS
<1>8. c \in Seq(Completion) /\ c # <<>> /\ RingOf(s, K, KC, c, 1, P, A)
  BY <1>2, <1>3, <1>5, <1>7
<1>9. /\ RingOf(s, K, KC, c, 2, P \ {c[1].op}, A)
      /\ c[1].op \in UOps => c[1].op \in P
      /\ c[1].op \in UOps /\ c[1].res = "cancelled" => c[1].op \in A
  BY <1>8, RingDispatches
<1> QED BY <1>1, <1>2, <1>6, <1>7, <1>9 DEF FlightInv

(* dispatchCqe: the completion of an operation finds it pending, and the handler starts. *)
LEMMA DispatchInv == ASSUME UringInv, DispatchCqe PROVE UringInv'
<1>1. UTypes /\ FlightInv /\ UNCHANGED <<upc, ucmd, ucommands, ustate, sq, kernel, kcancel, cq>> /\ Doing("dispatch")
  BY DEF UringInv, DispatchCqe, ucallVars, ringVars
<1>2. PICK c \in Completion : c = cq[1]
  BY <1>1, FirstCompletion
<1>3. /\ Is(<<"dispatch", "seen", "check", "exit">>) /\ cq # <<>> /\ Head(cq) = c
      /\ RingOf(sq, kernel, kcancel, cq, 2, Pend \ {c.op}, Asked)
      /\ c.op \in UOps => c.op \in Pend /\ ustate[c.op] # "Idle"
  BY <1>1, <1>2, FirstCompletion
<1>4. Handled = {}
  BY <1>1, <1>3, NoHandler, ShapeFacts
<1>5. Pend \subseteq UOps /\ c.op \in UOps \cup {UWake, UNone} /\ CallTypes' /\ RingTypes'
  BY <1>1, CallsStay DEF UTypes, TableTypes, RingTypes, Pend, Range, Completion
<1>6. CASE c.op \notin UOps
  <2>1. UNCHANGED utableVars /\ (Then(<<"drain", "rearm">>) \/ Then(<<>>))
    BY <1>1, <1>3, <1>5, <1>6 DEF DispatchCqe, utableVars
  <2>2. ustack' \in Seq(UItem) /\ (Is(<<"drain", "rearm", "seen", "check", "exit">>)' \/ Is(<<"seen", "check", "exit">>)')
    BY <1>1, <1>3, <2>1, StackMoves
  <2>3. Pend \ {c.op} = Pend
    BY <1>5, <1>6
  <2>4. RingOf(sq', kernel', kcancel', cq', 2, Pend, Asked) /\ cq' # <<>>
    BY <1>1, <1>3, <2>3
  <2> QED BY <1>3, <1>5, <2>1, <2>2, <2>4, Turns, ShapeFacts
<1>7. CASE c.op \in UOps
  <2>1. DropPending(c.op) /\ ustack' = <<[do |-> "handler", op |-> c.op, cancelled |-> IsCancelled(c)]>> \o Tail(ustack)
    BY <1>3, <1>7, UringAssumption DEF DispatchCqe
  <2>2. PICK h \in UItem : h = [do |-> "handler", op |-> c.op, cancelled |-> IsCancelled(c)] /\ h.do = "handler" /\ h.op = c.op
    <3>1. IsCancelled(c) \in BOOLEAN
      BY DEF IsCancelled
    <3>2. [do |-> "handler", op |-> c.op, cancelled |-> IsCancelled(c)] \in UItem
      BY <1>7, <3>1 DEF UItem
    <3> QED BY <3>2
  <2>3. ustack' \in Seq(UItem) /\ Is(<<"handler", "seen", "check", "exit">>)' /\ ustack'[1] = h
    BY <1>1, <1>3, <2>1, <2>2, PushHandler DEF Pushes
  <2>4. InPending(c.op)
    BY <1>3, <1>7, PendingIs
  <2>5. PICK u, x, k, v, y : u = upending /\ x = uindex /\ k = uindex[c.op] /\ v = upending' /\ y = uindex'
    OBVIOUS
  <2>6. DropsTo(u, x, k, v, y) /\ u[k] = c.op
    BY <1>1, <2>1, <2>4, <2>5 DEF DropPending, InPending, DropsTo, UringInv, UTypes, TableTypes, Indexed
  <2>7. v \in Seq(UOps) /\ y \in [UOps -> Nat] /\ (\A i \in 1..Len(v) : y[v[i]] = i) /\ Range(v) = Range(u) \ {c.op}
    BY <2>6, Drops
  <2>8. TableTypes' /\ Indexed' /\ Pend' = Pend \ {c.op} /\ Asked' = Asked
    BY <1>1, <2>5, <2>7 DEF UTypes, TableTypes, Indexed, Pend, Asked
  <2>9. UTypes'
    BY <1>5, <2>3, <2>8 DEF UTypes
  <2>10. FirstUnseen' = 2 /\ Handled' = {c.op}
    BY <2>2, <2>3, <2>9, HandlerNext, ShapeFacts
  <2>11. FlightInv'
    BY <1>1, <1>3, <1>4, <1>7, <2>8, <2>10 DEF FlightInv
  <2>12. RingOf(sq, kernel, kcancel, cq, FirstUnseen, Pend, Asked)'
    BY <1>1, <1>3, <2>8, <2>10
  <2>13. StackInv'
    BY <1>1, <1>3, <2>3, ShapeFacts DEF StackInv
  <2> QED BY <2>8, <2>9, <2>11, <2>12, <2>13 DEF UringInv
<1> QED BY <1>6, <1>7

(* The handler returns, and the operation may be submitted again. *)
LEMMA ReturnInv == ASSUME UringInv, UHandlerReturns PROVE UringInv'
<1>1. UTypes /\ StackInv /\ FlightInv /\ UNCHANGED <<upc, ucmd, ucommands, uindex, upending, sq, kernel, kcancel, cq>> /\ Doing("handler") /\ Then(<<>>)
  BY DEF UringInv, UHandlerReturns, ucallVars, uqueueVars, ringVars
<1>2. Is(<<"handler", "seen", "check", "exit">>) /\ cq # <<>>
  BY <1>1, StackAt
<1>3. PICK p \in UOps : p = ustack[1].op /\ Handled = {p} /\ FirstUnseen = 2
  BY <1>1, <1>2, HandlerAt, ShapeFacts
<1>4. ustate' = [ustate EXCEPT ![p] = "Idle"]
  <2>1. Head(ustack) = ustack[1]
    BY <1>1, TopIs DEF UTypes
  <2> QED BY <1>3, <2>1 DEF UHandlerReturns
<1>5. ustack' \in Seq(UItem) /\ Is(<<"seen", "check", "exit">>)'
  BY <1>1, <1>2, StackMoves
<1>6. TableTypes' /\ RingTypes' /\ CallTypes'
  BY <1>1, <1>4, CallsStay DEF UTypes, TableTypes, RingTypes
<1>7. UTypes'
  BY <1>5, <1>6 DEF UTypes
<1>8. Handled' = {} /\ FirstUnseen' = 2
  BY <1>5, <1>7, NoHandlerNext, ShapeFacts
<1>9. Pend' = Pend /\ Indexed'
  BY <1>1 DEF UringInv, Pend, Indexed, Range
<1>10. Asked' = Asked \ {p}
  BY <1>1, <1>4 DEF Asked, UTypes, TableTypes
<1>11. p \notin Pend
  BY <1>1, <1>3 DEF FlightInv
<1>12. FlightInv'
  BY <1>1, <1>3, <1>4, <1>8, <1>9, <1>11 DEF FlightInv, UTypes, TableTypes
<1>13. RingOf(sq, kernel, kcancel, cq, 2, Pend, Asked \ {p})
  <2>1. PICK s, K, KC, c, P, A : s = sq /\ K = kernel /\ KC = kcancel /\ c = cq /\ P = Pend /\ A = Asked
    OBVIOUS
  <2>2. RingOf(s, K, KC, c, 2, P, A) /\ p \notin P
    BY <1>3, <1>11, <2>1 DEF UringInv
  <2>3. RingOf(s, K, KC, c, 2, P, A \ {p})
    BY <2>2, RingRetires
  <2> QED BY <2>1, <2>3
<1>14. RingOf(sq, kernel, kcancel, cq, FirstUnseen, Pend, Asked)'
  BY <1>1, <1>8, <1>9, <1>10, <1>13
<1>15. StackInv'
  BY <1>1, <1>2, <1>5, ShapeFacts DEF StackInv
<1> QED BY <1>7, <1>9, <1>12, <1>14, <1>15 DEF UringInv

-----------------------------------------------------------------------------
(* submitOperation, cancelOperation and cancelAllOperations. *)
EntersTo(u, x, o, v, y) ==
    /\ u \in Seq(UOps) /\ x \in [UOps -> Nat] /\ (\A i \in 1..Len(u) : x[u[i]] = i) /\ o \in UOps /\ o \notin Range(u)
    /\ v = Append(u, o) /\ y = [x EXCEPT ![o] = Len(u) + 1]

(* submitOperation: the operation is the last of _pendingOps. *)
LEMMA Enters ==
    ASSUME NEW u, NEW x, NEW o, NEW v, NEW y, EntersTo(u, x, o, v, y)
    PROVE  /\ v \in Seq(UOps) /\ y \in [UOps -> Nat] /\ \A i \in 1..Len(v) : y[v[i]] = i
           /\ Range(v) = Range(u) \cup {o}
<1>1. PICK n \in Nat : n = Len(u) /\ DOMAIN u = 1..n /\ (\A i \in 1..n : u[i] \in UOps) /\ \A i \in 1..n : x[u[i]] = i
  BY DEF EntersTo
<1>2. v \in Seq(UOps) /\ Len(v) = n + 1 /\ (\A i \in 1..n : v[i] = u[i]) /\ v[n + 1] = o
  BY <1>1, AppendProperties DEF EntersTo
<1>3. DOMAIN v = 1..(n + 1)
  BY <1>2
<1>4. y \in [UOps -> Nat] /\ y[o] = n + 1 /\ \A p \in UOps : p # o => y[p] = x[p]
  BY <1>1 DEF EntersTo
<1>5. \A i \in 1..n : u[i] # o
  BY <1>1 DEF EntersTo, Range
<1>6. ASSUME NEW i \in 1..(n + 1) PROVE y[v[i]] = i
  <2>1. CASE i = n + 1
    BY <2>1, <1>2, <1>4
  <2>2. CASE i # n + 1
    <3>1. i \in 1..n
      BY <2>2
    <3>2. v[i] = u[i] /\ u[i] \in UOps /\ u[i] # o /\ x[u[i]] = i
      BY <3>1, <1>1, <1>2, <1>5
    <3> QED BY <3>2, <1>4
  <2> QED BY <2>1, <2>2
<1>7. ASSUME NEW p PROVE p \in Range(v) <=> p \in Range(u) \/ p = o
  <2>1. p \in Range(v) <=> \E i \in 1..(n + 1) : v[i] = p
    BY <1>3 DEF Range
  <2>2. p \in Range(u) <=> \E i \in 1..n : u[i] = p
    BY <1>1 DEF Range
  <2>3. \A i \in 1..(n + 1) : i \in 1..n \/ i = n + 1
    OBVIOUS
  <2>4. \A i \in 1..n : i \in 1..(n + 1)
    OBVIOUS
  <2>5. n + 1 \in 1..(n + 1)
    OBVIOUS
  <2> QED BY <2>1, <2>2, <2>3, <2>4, <2>5, <1>2
<1>8. Len(v) = n + 1 /\ \A i \in 1..(n + 1) : y[v[i]] = i
  BY <1>2, <1>6
<1> QED BY <1>2, <1>4, <1>7, <1>8

(* A step that leaves the stack and the table alone. *)
LEMMA UnchangedStays ==
    ASSUME UringInv, UNCHANGED <<ustack, utableVars>>, CallTypes', ~Doing("check"), RingNow(FirstUnseen, Pend, Asked)
    PROVE  UringInv'
<1>1. ustate' = ustate /\ uindex' = uindex /\ upending' = upending
  BY DEF utableVars
<1>2. TableTypes' /\ Indexed' /\ Pend' = Pend /\ Asked' = Asked
  BY <1>1 DEF UringInv, UTypes, TableTypes, Indexed, Pend, Asked, Range
<1>3. RingTypes' /\ (cq # <<>> => cq' # <<>>) /\ RingOf(sq', kernel', kcancel', cq', FirstUnseen, Pend', Asked')
  BY <1>2 DEF RingNow, RingTypes
<1>4. \A o \in UOps : (ustate'[o] = "Idle" <=> o \notin Pend' /\ o \notin Handled) /\ ~(o \in Pend' /\ o \in Handled)
  BY <1>1, <1>2 DEF UringInv, FlightInv
<1> QED BY <1>2, <1>3, <1>4, Stays

(* submitOperation, of a command or of a handler. *)
LEMMA SubmitsInv ==
    ASSUME UringInv, UNCHANGED ustack, CallTypes', ~Doing("check"), NEW o \in UOps, NEW flush, USubmitOperation(o, flush)
    PROVE  UringInv'
<1>1. UTypes /\ TableTypes /\ RingTypes /\ FlightInv /\ Indexed /\ RingOf(sq, kernel, kcancel, cq, FirstUnseen, Pend, Asked)
  BY DEF UringInv, UTypes
<1>2. CASE ustate[o] # "Idle"
  <2>1. UNCHANGED <<utableVars, ringVars>>
    BY <1>2 DEF USubmitOperation, USubmitFails
  <2> QED BY <2>1, KeepRing, UnchangedStays
<1>3. CASE ustate[o] = "Idle"
  <2>1. o \notin Pend /\ o \notin Handled
    BY <1>1, <1>3 DEF FlightInv
  <2>2. /\ ustate' = [ustate EXCEPT ![o] = "Submitted"] /\ uindex' = [uindex EXCEPT ![o] = Len(upending) + 1]
        /\ upending' = Append(upending, o) /\ Prepare(<<Entry("op", o)>>, flush)
    BY <1>3 DEF USubmitOperation, USubmitFails
  <2>3. PICK u, x, v, y : u = upending /\ x = uindex /\ v = upending' /\ y = uindex'
    OBVIOUS
  <2>4. EntersTo(u, x, o, v, y)
    BY <1>1, <2>1, <2>2, <2>3 DEF EntersTo, TableTypes, Indexed, Pend
  <2>5. v \in Seq(UOps) /\ y \in [UOps -> Nat] /\ (\A i \in 1..Len(v) : y[v[i]] = i) /\ Range(v) = Range(u) \cup {o}
    BY <2>4, Enters
  <2>6. TableTypes' /\ Indexed' /\ Pend' = Pend \cup {o}
    BY <1>1, <2>2, <2>3, <2>5 DEF TableTypes, Indexed, Pend
  <2>7. Asked' = Asked
    BY <1>1, <1>3, <2>2 DEF Asked, TableTypes
  <2>8. PICK e \in Seq(EntryType) : e = <<Entry("op", o)>>
    <3>1. <<Entry("op", o)>> \in Seq(EntryType)
      BY EntryFacts
    <3> QED BY <3>1
  <2>9. RingOf(sq \o e, kernel, kcancel, cq, FirstUnseen, Pend \cup {o}, Asked)
    <3>1. PICK s, K, KC, c, lo, P, A : s = sq /\ K = kernel /\ KC = kcancel /\ c = cq /\ lo = FirstUnseen /\ P = Pend /\ A = Asked
      OBVIOUS
    <3>2. s \in Seq(EntryType) /\ RingOf(s, K, KC, c, lo, P, A) /\ o \notin P
      BY <1>1, <2>1, <3>1 DEF RingTypes
    <3>3. RingOf(s \o <<Entry("op", o)>>, K, KC, c, lo, P \cup {o}, A)
      BY <3>2, RingAccepts
    <3> QED BY <2>8, <3>1, <3>3
  <2>10. RingNow(FirstUnseen, Pend \cup {o}, Asked)
    BY <1>1, <2>2, <2>8, <2>9, LoFits, PrepareRing
  <2>11. RingTypes' /\ (cq # <<>> => cq' # <<>>) /\ RingOf(sq', kernel', kcancel', cq', FirstUnseen, Pend', Asked')
    BY <2>6, <2>7, <2>10 DEF RingNow, RingTypes
  <2>12. ASSUME NEW p \in UOps PROVE (ustate'[p] = "Idle" <=> p \notin Pend' /\ p \notin Handled) /\ ~(p \in Pend' /\ p \in Handled)
    <3>1. CASE p = o
      BY <3>1, <1>1, <2>1, <2>2, <2>6 DEF TableTypes
    <3>2. CASE p # o
      BY <3>2, <1>1, <2>2, <2>6 DEF TableTypes, FlightInv
    <3> QED BY <3>1, <3>2
  <2> QED BY <2>6, <2>11, <2>12, Stays
<1> QED BY <1>2, <1>3

(* Entries that cancel operations, which are then asked to end. *)
CancelsOnly(e) == \A i \in 1..Len(e) : \E o \in UOps : e[i] = Entry("cancel", o) /\ ustate'[o] = "Cancelling"
AsksSome ==
    /\ ustate' \in [UOps -> {"Idle", "Submitted", "Cancelling"}]
    /\ \A o \in UOps : (ustate'[o] = "Idle" <=> ustate[o] = "Idle") /\ (ustate[o] = "Cancelling" => ustate'[o] = "Cancelling")

(* The ring with the cancel entries. *)
LEMMA AskRing ==
    ASSUME UringInv, NEW e \in Seq(EntryType), NEW flush, Prepare(e, flush), AsksSome, CancelsOnly(e)
    PROVE  RingNow(FirstUnseen, Pend, Asked')
<1>1. RingTypes /\ sq \in Seq(EntryType) /\ RingOf(sq, kernel, kcancel, cq, FirstUnseen, Pend, Asked)
  BY DEF UringInv, UTypes, RingTypes
<1>2. Asked \subseteq Asked'
  BY DEF Asked, AsksSome
<1>3. ASSUME NEW i \in 1..Len(e), NEW o \in UOps PROVE e[i] # Entry("op", o) /\ (o \notin Asked' => e[i] # Entry("cancel", o))
  <2>1. PICK p \in UOps : e[i] = Entry("cancel", p) /\ p \in Asked'
    BY DEF CancelsOnly, Asked
  <2> QED BY <2>1, EntryFacts
<1>4. PICK s, K, KC, c, lo, P, A, B : s = sq /\ K = kernel /\ KC = kcancel /\ c = cq /\ lo = FirstUnseen /\ P = Pend /\ A = Asked /\ B = Asked'
  OBVIOUS
<1>5. s \in Seq(EntryType) /\ RingOf(s, K, KC, c, lo, P, A) /\ A \subseteq B
  BY <1>1, <1>2, <1>4
<1>6. RingOf(s, K, KC, c, lo, P, B)
  BY <1>5, RingAsks
<1>7. \A i \in 1..Len(e), o \in UOps : e[i] # Entry("op", o) /\ (o \notin B => e[i] # Entry("cancel", o))
  BY <1>3, <1>4
<1>8. RingOf(s \o e, K, KC, c, lo, P, B)
  BY <1>5, <1>6, <1>7, RingPrepares
<1>9. RingOf(sq \o e, kernel, kcancel, cq, lo, P, B) /\ lo \in {1, 2} /\ lo <= Len(cq) + 1
  BY <1>4, <1>8, LoFits
<1>10. RingNow(lo, P, B)
  BY <1>1, <1>9, PrepareRing
<1> QED BY <1>4, <1>10

(* Operations are asked to end. *)
LEMMA AsksInv ==
    ASSUME UringInv, UNCHANGED <<ustack, uindex, upending>>, CallTypes', ~Doing("check"),
           NEW e \in Seq(EntryType), NEW flush, Prepare(e, flush), AsksSome, CancelsOnly(e)
    PROVE  UringInv'
<1>1. Pend' = Pend /\ Indexed' /\ TableTypes'
  BY DEF UringInv, UTypes, TableTypes, Pend, Indexed, Range, AsksSome
<1>2. RingNow(FirstUnseen, Pend, Asked')
  BY AskRing
<1>3. RingTypes' /\ (cq # <<>> => cq' # <<>>) /\ RingOf(sq', kernel', kcancel', cq', FirstUnseen, Pend', Asked')
  BY <1>1, <1>2 DEF RingNow, RingTypes
<1>4. \A o \in UOps : (ustate'[o] = "Idle" <=> o \notin Pend' /\ o \notin Handled) /\ ~(o \in Pend' /\ o \in Handled)
  BY <1>1 DEF UringInv, FlightInv, AsksSome
<1> QED BY <1>1, <1>3, <1>4, Stays

(* cancelOperation, of a command or of a handler. *)
LEMMA CancelsInv ==
    ASSUME UringInv, UNCHANGED ustack, CallTypes', ~Doing("check"), NEW o \in UOps, NEW flush, UCancelOperation(o, flush)
    PROVE  UringInv'
<1>1. TableTypes
  BY DEF UringInv, UTypes
<1>2. CASE UCancelFails(o)
  <2>1. UNCHANGED <<utableVars, ringVars>>
    BY <1>2 DEF UCancelOperation, utableVars
  <2> QED BY <2>1, KeepRing, UnchangedStays
<1>3. CASE ~UCancelFails(o)
  <2>1. ustate' = [ustate EXCEPT ![o] = "Cancelling"] /\ Prepare(<<Entry("cancel", o)>>, flush) /\ UNCHANGED <<uindex, upending>> /\ ustate[o] = "Submitted"
    BY <1>3 DEF UCancelOperation, UCancelFails
  <2>2. PICK e \in Seq(EntryType) : e = <<Entry("cancel", o)>> /\ Len(e) = 1 /\ e[1] = Entry("cancel", o)
    <3>1. <<Entry("cancel", o)>> \in Seq(EntryType) /\ Len(<<Entry("cancel", o)>>) = 1 /\ <<Entry("cancel", o)>>[1] = Entry("cancel", o)
      BY EntryFacts
    <3> QED BY <3>1, Zenon
  <2>3. AsksSome
    BY <1>1, <2>1 DEF AsksSome, TableTypes
  <2>4. ustate'[o] = "Cancelling"
    BY <1>1, <2>1 DEF TableTypes
  <2>5. CancelsOnly(e)
    BY <2>2, <2>4 DEF CancelsOnly
  <2>6. Prepare(e, flush)
    BY <2>1, <2>2
  <2> QED BY <2>1, <2>3, <2>5, <2>6, AsksInv
<1> QED BY <1>2, <1>3

(* cancelAllOperations asks every operation that is submitted. *)
LEMMA CancelAllEntries ==
    ASSUME UringInv, NEW flush, UCancelAll(flush)
    PROVE  /\ UNCHANGED <<uindex, upending>> /\ AsksSome
           /\ \E e \in Seq(EntryType) : Prepare(e, flush) /\ CancelsOnly(e)
           /\ upending = <<>> => ustate' = ustate
           /\ \A o \in UOps : ustate'[o] # ustate[o] => ustate[o] = "Submitted" /\ ustate'[o] = "Cancelling" /\ o \in Pend
<1>1. PICK u, st, S : u = upending /\ st = ustate /\ S = {i \in DOMAIN u : st[u[i]] = "Submitted"}
  OBVIOUS
<1>2. u \in Seq(UOps) /\ st \in [UOps -> {"Idle", "Submitted", "Cancelling"}] /\ DOMAIN u = 1..Len(u) /\ Len(u) \in Nat
  BY <1>1 DEF UringInv, UTypes, TableTypes
<1>3. PICK p \in SetToSeqs(S) :
        /\ ustate' = [o \in UOps |-> IF \E i \in DOMAIN p : u[p[i]] = o THEN "Cancelling" ELSE st[o]]
        /\ Prepare([i \in DOMAIN p |-> Entry("cancel", u[p[i]])], flush)
  <2>1. PICK p \in SetToSeqs({i \in DOMAIN upending : ustate[upending[i]] = "Submitted"}) :
        /\ ustate' = [o \in UOps |-> IF \E i \in DOMAIN p : upending[p[i]] = o THEN "Cancelling" ELSE ustate[o]]
        /\ Prepare([i \in DOMAIN p |-> Entry("cancel", upending[p[i]])], flush)
    BY DEF UCancelAll
  <2>2. S = {i \in DOMAIN upending : ustate[upending[i]] = "Submitted"}
    BY <1>1
  <2>3. ustate' = [o \in UOps |-> IF \E i \in DOMAIN p : u[p[i]] = o THEN "Cancelling" ELSE st[o]]
    BY <1>1, <2>1
  <2>4. [i \in DOMAIN p |-> Entry("cancel", upending[p[i]])] = [i \in DOMAIN p |-> Entry("cancel", u[p[i]])]
    BY <1>1
  <2>5. p \in SetToSeqs(S)
    BY <2>1, <2>2
  <2>6. Prepare([i \in DOMAIN p |-> Entry("cancel", u[p[i]])], flush)
    BY <2>1, <2>4
  <2> QED BY <2>3, <2>5, <2>6
<1>4. PICK n \in Nat : p \in [1..n -> S]
  <2>1. IsFiniteSet(1..Len(u))
    BY <1>2, FS_Interval
  <2>2. S \subseteq 1..Len(u)
    BY <1>1, <1>2
  <2>3. Cardinality(S) \in Nat
    BY <2>1, <2>2, FS_Subset, FS_CardinalityType
  <2> QED BY <1>3, <2>3 DEF SetToSeqs
<1>5. DOMAIN p = 1..n /\ \A i \in 1..n : p[i] \in S /\ u[p[i]] \in UOps /\ st[u[p[i]]] = "Submitted"
  BY <1>1, <1>2, <1>4
<1>6. PICK e : e = [i \in 1..n |-> Entry("cancel", u[p[i]])]
  OBVIOUS
<1>7. e \in Seq(EntryType) /\ Len(e) = n /\ \A i \in 1..n : e[i] = Entry("cancel", u[p[i]])
  <2>1. \A i \in 1..n : Entry("cancel", u[p[i]]) \in EntryType
    BY <1>5, EntryFacts
  <2> QED BY <1>6, <2>1
<1>8. Prepare(e, flush)
  BY <1>3, <1>5, <1>6
<1>9. \A o \in UOps : ustate'[o] = IF \E i \in 1..n : u[p[i]] = o THEN "Cancelling" ELSE st[o]
  BY <1>3, <1>5
<1>10. CancelsOnly(e)
  BY <1>5, <1>7, <1>9 DEF CancelsOnly
<1>11. ustate' \in [UOps -> {"Idle", "Submitted", "Cancelling"}]
  BY <1>2, <1>3
<1>12. AsksSome
  BY <1>1, <1>5, <1>9, <1>11 DEF AsksSome
<1>13. ASSUME upending = <<>> PROVE ustate' = ustate
  <2>1. S = {}
    BY <1>1, <1>13
  <2>2. \A o \in UOps : ustate'[o] = ustate[o]
    BY <1>1, <1>5, <1>9, <2>1
  <2> QED BY <1>1, <1>2, <1>11, <2>2
<1>14. \A o \in UOps : ustate'[o] # ustate[o] => ustate[o] = "Submitted" /\ ustate'[o] = "Cancelling" /\ o \in Pend
  <2>1. \A i \in 1..n : u[p[i]] \in Pend
    BY <1>1, <1>5 DEF Pend, Range
  <2> QED BY <1>1, <1>5, <1>9, <2>1
<1> QED BY <1>7, <1>8, <1>10, <1>12, <1>13, <1>14 DEF UCancelAll

(* The thread does one thing. *)
LEMMA DoingOne == ASSUME NEW x, NEW y, Doing(x), x # y PROVE ~Doing(y)
  BY DEF Doing

(* cancelAllOperations, of a stop command. *)
LEMMA CancelAllInv ==
    ASSUME UringInv, UNCHANGED ustack, CallTypes', ~Doing("check"), NEW flush, UCancelAll(flush)
    PROVE  UringInv'
<1>1. UNCHANGED <<uindex, upending>> /\ AsksSome
  BY CancelAllEntries
<1>2. PICK e \in Seq(EntryType) : Prepare(e, flush) /\ CancelsOnly(e)
  BY CancelAllEntries
<1> QED BY <1>1, <1>2, AsksInv

(* processCommand. *)
LEMMA DrainInv == ASSUME UringInv, UDrain PROVE UringInv'
<1>1. Doing("drain") /\ ucommands # <<>> /\ UNCHANGED <<upc, ucmd, ustack>> /\ ucommands' = Tail(ucommands)
  BY DEF UDrain
<1>2. ~Doing("check")
  BY <1>1, DoingOne
<1>3. ucommands \in Seq(UCommand) /\ CallTypes
  BY DEF UringInv, UTypes, CallTypes
<1>4. ucommands' \in Seq(UCommand)
  BY <1>1, <1>3
<1>5. CallTypes'
  BY <1>1, <1>3, <1>4 DEF CallTypes
<1>6. PICK c \in UCommand : c = Head(ucommands)
  BY <1>1, <1>3
<1>7. /\ c.type \in {"submit", "cancel", "flush", "stop"} /\ (c.type \in {"submit", "cancel"} => c.op \in UOps)
      /\ CASE c.type = "submit" -> USubmitOperation(c.op, c.flush) /\ UNCHANGED urunning
           [] c.type = "cancel" -> UCancelOperation(c.op, c.flush) /\ UNCHANGED urunning
           [] c.type = "flush" -> RingSubmit(sq, <<>>) /\ UNCHANGED <<utableVars, urunning>>
           [] c.type = "stop" -> UCancelAll(c.sync) /\ urunning' = FALSE
  BY <1>6 DEF UDrain, UCommand
<1>8. CASE c.type = "submit"
  <2>1. USubmitOperation(c.op, c.flush) /\ c.op \in UOps
    BY <1>7, <1>8
  <2> QED BY <1>1, <1>2, <1>5, <2>1, SubmitsInv
<1>9. CASE c.type = "cancel"
  <2>1. UCancelOperation(c.op, c.flush) /\ c.op \in UOps
    BY <1>7, <1>9
  <2> QED BY <1>1, <1>2, <1>5, <2>1, CancelsInv
<1>10. CASE c.type = "flush"
  <2>1. RingSubmit(sq, <<>>) /\ UNCHANGED utableVars
    BY <1>7, <1>10
  <2> QED BY <1>1, <1>2, <1>5, <2>1, FlushRing, UnchangedStays
<1>11. CASE c.type = "stop"
  <2>1. UCancelAll(c.sync)
    BY <1>7, <1>11
  <2> QED BY <1>1, <1>2, <1>5, <2>1, CancelAllInv
<1> QED BY <1>7, <1>8, <1>9, <1>10, <1>11

(* The same of the event loop in a handler. *)
LEMMA StopNext ==
    (\A d \in Stopping : UTypes /\ Is(d) => FirstUnseen = 2 /\ Handled = {ustack[2].op})'
<1>1. \A d \in Stopping : UTypes /\ Is(d) => FirstUnseen = 2 /\ Handled = {ustack[2].op}
  BY HandlerAt
<1> QED BY <1>1, PTL

(* stop in a handler starts an event loop there. *)
LEMMA PushCheck ==
    ASSUME UTypes, Is(<<"handler", "seen", "check", "exit">>), ustack' = <<[do |-> "check"]>> \o ustack
    PROVE  ustack' \in Seq(UItem) /\ Is(<<"check", "handler", "seen", "check", "exit">>)' /\ ustack'[2] = ustack[1]
<1>1. PICK s \in Seq(UItem) : s = ustack /\ Len(s) = 4 /\ s[1].do = "handler" /\ s[2].do = "seen" /\ s[3].do = "check" /\ s[4].do = "exit"
  BY DEF UTypes, Is
<1>2. PICK h \in UItem : h = [do |-> "check"] /\ h.do = "check"
  <2>1. [do |-> "check"] \in UItem
    BY DEF UItem
  <2> QED BY <2>1
<1>3. PICK v : v = <<h>> \o s /\ v \in Seq(UItem) /\ Len(v) = Len(s) + 1 /\ v[1] = h /\ \A i \in 1..Len(s) : v[1 + i] = s[i]
  <2>1. <<h>> \o s \in Seq(UItem) /\ Len(<<h>> \o s) = Len(s) + 1 /\ (<<h>> \o s)[1] = h /\ \A i \in 1..Len(s) : (<<h>> \o s)[1 + i] = s[i]
    BY Pushed
  <2> QED BY <2>1, Zenon
<1>4. Len(v) = 5 /\ v[1 + 1] = s[1] /\ v[1 + 2] = s[2] /\ v[1 + 3] = s[3] /\ v[1 + 4] = s[4]
  BY <1>1, <1>3
<1>5. Len(v) = 5 /\ v[1].do = "check" /\ v[2] = s[1] /\ v[2].do = "handler" /\ v[3].do = "seen" /\ v[4].do = "check" /\ v[5].do = "exit"
  BY <1>1, <1>2, <1>3, <1>4
<1>6. ustack' = v
  BY <1>1, <1>2, <1>3
<1>7. Is(<<"check", "handler", "seen", "check", "exit">>)'
  BY <1>5, <1>6 DEF Is
<1> QED BY <1>1, <1>3, <1>5, <1>6, <1>7

(* The calls of handlers; stop only with nothing pending. *)
LEMMA HandlerStepInv == ASSUME ~UNestedStops, UringInv, UHandlerStep PROVE UringInv'
<1>1. UTypes /\ StackInv /\ FlightInv /\ CallTypes
  BY DEF UringInv, UTypes
<1>2. ASSUME NEW o \in UOps, NEW flush, UHandlerSubmits(o, flush) PROVE UringInv'
  <2>1. Doing("handler") /\ UNCHANGED <<upc, ucmd, ucommands, ustack>> /\ USubmitOperation(o, flush)
    BY <1>2 DEF UHandlerSubmits, HandlerCall, uqueueVars
  <2>2. ~Doing("check") /\ CallTypes'
    BY <1>1, <2>1, DoingOne, CallsStay
  <2> QED BY <2>1, <2>2, SubmitsInv
<1>3. ASSUME NEW o \in UOps, NEW flush, UHandlerCancels(o, flush) PROVE UringInv'
  <2>1. Doing("handler") /\ UNCHANGED <<upc, ucmd, ucommands, ustack>> /\ UCancelOperation(o, flush)
    BY <1>3 DEF UHandlerCancels, HandlerCall, uqueueVars
  <2>2. ~Doing("check") /\ CallTypes'
    BY <1>1, <2>1, DoingOne, CallsStay
  <2> QED BY <2>1, <2>2, CancelsInv
<1>4. CASE UHandlerStops
  <2>1. Doing("handler") /\ UNCHANGED <<upc, ucmd, ucommands>> /\ upending = <<>> /\ urunning' = FALSE /\ UCancelAll(FALSE) /\ ustack' = <<[do |-> "check"]>> \o ustack
    BY <1>4 DEF UHandlerStops, HandlerCall, uqueueVars
  <2>2. Is(<<"handler", "seen", "check", "exit">>) /\ cq # <<>>
    BY <1>1, <2>1, StackAt
  <2>3. ustack' \in Seq(UItem) /\ Is(<<"check", "handler", "seen", "check", "exit">>)' /\ ustack'[2] = ustack[1]
    BY <1>1, <2>1, <2>2, PushCheck
  <2>4. UNCHANGED <<uindex, upending, ustate>> /\ AsksSome
    BY <2>1, CancelAllEntries
  <2>5. PICK e \in Seq(EntryType) : Prepare(e, FALSE) /\ CancelsOnly(e)
    BY <2>1, CancelAllEntries
  <2>6. RingNow(FirstUnseen, Pend, Asked')
    BY <2>4, <2>5, AskRing
  <2>7. Pend' = Pend /\ Asked' = Asked /\ Indexed' /\ TableTypes'
    BY <1>1, <2>4 DEF UringInv, Pend, Asked, Indexed, Range, UTypes, TableTypes
  <2>8. CallTypes' /\ RingTypes'
    BY <1>1, <2>1, <2>6, CallsStay DEF RingNow, RingTypes
  <2>9. UTypes'
    BY <2>3, <2>7, <2>8 DEF UTypes
  <2>10. FirstUnseen = 2 /\ Handled = {ustack[1].op}
    BY <1>1, <2>2, HandlerAt, ShapeFacts
  <2>11. FirstUnseen' = 2 /\ Handled' = {ustack'[2].op}
    BY <2>3, <2>9, StopNext, ShapeFacts
  <2>12. FlightInv'
    BY <1>1, <2>3, <2>4, <2>7, <2>10, <2>11 DEF FlightInv
  <2>13. RingOf(sq, kernel, kcancel, cq, FirstUnseen, Pend, Asked)'
    BY <2>6, <2>7, <2>10, <2>11 DEF RingNow
  <2>14. upending' = <<>> /\ cq' # <<>>
    BY <2>1, <2>2, <2>4, <2>6 DEF RingNow
  <2>15. StackInv'
    BY <2>1, <2>3, <2>14, ShapeFacts DEF StackInv
  <2> QED BY <2>7, <2>9, <2>12, <2>13, <2>15 DEF UringInv
<1> QED BY <1>2, <1>3, <1>4 DEF UHandlerStep

-----------------------------------------------------------------------------
(* Every step keeps the invariant. *)
LEMMA UringStepInv == ASSUME ~UNestedStops, UringInv, [UringNext]_uringVars PROVE UringInv'
<1>1. CASE UringNext
  <2>1. ASSUME NEW t \in UThreads, UCallStep(t) PROVE UringInv'
    BY <2>1, CallStepInv
  <2>2. ASSUME NEW t \in UThreads, UStartStep(t) PROVE UringInv'
    BY <2>2, StartStepInv
  <2>3. CASE ULoopStep
    BY <2>3, RunInv, RearmInv, CheckInv, PeekInv, SeenInv, DispatchInv, ReturnInv, DrainInv DEF ULoopStep
  <2>4. CASE UHandlerStep
    BY <2>4, HandlerStepInv
  <2>5. CASE UKernelStep
    BY <2>5, KernelInv
  <2> QED BY <1>1, <2>1, <2>2, <2>3, <2>4, <2>5 DEF UringNext
<1>2. CASE UNCHANGED uringVars
  <2>1. UNCHANGED <<utableVars, ringVars, ustack, urunning>> /\ UNCHANGED <<upc, ucmd, ucommands>>
    BY <1>2 DEF uringVars, ucallVars, uqueueVars
  <2>2. CallTypes'
    BY <2>1, CallsStay DEF UringInv, UTypes
  <2> QED BY <2>1, <2>2, Frame
<1> QED BY <1>1, <1>2

(* A set with at most one element. *)
LEMMA CountSome ==
    ASSUME NEW S, NEW T, IsFiniteSet(T), S \subseteq T, \A x, y \in S : x = y
    PROVE  Cardinality(S) = IF S = {} THEN 0 ELSE 1
<1>1. CASE S = {}
  BY <1>1, FS_EmptySet
<1>2. CASE S # {}
  <2>1. PICK x : S = {x}
    BY <1>2
  <2> QED BY <1>2, <2>1, FS_Singleton
<1> QED BY <1>1, <1>2

(* The invariant gives UringHoldsPending. *)
LEMMA HoldsPending == ASSUME UringInv PROVE UringHoldsPending
<1>1. upending \in Seq(UOps) /\ DOMAIN upending = 1..Len(upending) /\ sq \in Seq(EntryType) /\ DOMAIN sq = 1..Len(sq) /\ Len(sq) \in Nat /\ Len(cq) \in Nat
  BY DEF UringInv, UTypes, TableTypes, RingTypes
<1>2. \A i \in DOMAIN upending : uindex[upending[i]] = i
  BY <1>1 DEF UringInv, Indexed
<1>3. ASSUME NEW o \in UOps
      PROVE  Cardinality({i \in DOMAIN sq : sq[i] = Entry("op", o)}) + Cardinality(kernel \cap {o}) + Cardinality({i \in FirstUnseen..Len(cq) : cq[i].op = o})
             = IF InPending(o) THEN 1 ELSE 0
  <2>1. HoldsOp(sq, kernel, cq, FirstUnseen, o, Pend)
    BY DEF UringInv, RingOf
  <2>2. FirstUnseen \in {1, 2}
    BY LoFits
  <2>3. PICK S, K, C : S = {i \in DOMAIN sq : sq[i] = Entry("op", o)} /\ K = kernel \cap {o} /\ C = {i \in FirstUnseen..Len(cq) : cq[i].op = o}
    OBVIOUS
  <2>4. (S # {} <=> InSq(sq, o)) /\ (\A i, j \in S : i = j) /\ S \subseteq 1..Len(sq)
    BY <1>1, <2>1, <2>3 DEF HoldsOp, InSq
  <2>5. (C # {} <=> InCq(cq, FirstUnseen, o)) /\ (\A i, j \in C : i = j) /\ C \subseteq FirstUnseen..Len(cq)
    BY <2>1, <2>3 DEF HoldsOp, InCq
  <2>6. (K # {} <=> o \in kernel) /\ (\A i, j \in K : i = j) /\ K \subseteq {o}
    BY <2>3
  <2>7. IsFiniteSet(1..Len(sq)) /\ IsFiniteSet(FirstUnseen..Len(cq)) /\ IsFiniteSet({o})
    <3>1. IsFiniteSet(1..Len(sq)) /\ IsFiniteSet(FirstUnseen..Len(cq))
      BY <1>1, <2>2, FS_Interval
    <3> QED BY <3>1, FS_Singleton
  <2>8. Cardinality(S) = IF S = {} THEN 0 ELSE 1
    BY <2>4, <2>7, CountSome
  <2>9. Cardinality(C) = IF C = {} THEN 0 ELSE 1
    BY <2>5, <2>7, CountSome
  <2>10. Cardinality(K) = IF K = {} THEN 0 ELSE 1
    BY <2>6, <2>7, CountSome
  <2>11. InPending(o) <=> S # {} \/ K # {} \/ C # {}
    BY <2>1, <2>4, <2>5, <2>6, PendingIs DEF HoldsOp
  <2>12. ~(S # {} /\ K # {}) /\ ~(S # {} /\ C # {}) /\ ~(K # {} /\ C # {})
    BY <2>1, <2>4, <2>5, <2>6 DEF HoldsOp
  <2>13. Cardinality(S) + Cardinality(K) + Cardinality(C) = IF InPending(o) THEN 1 ELSE 0
    BY <2>8, <2>9, <2>10, <2>11, <2>12
  <2> QED BY <2>3, <2>13
<1> QED BY <1>2, <1>3 DEF UringHoldsPending

(* As long as no handler stops the proactor while operations are pending, what is pending is in
   the ring once, and the ring holds nothing else. *)
THEOREM UringHoldsItsPending == ASSUME ~UNestedStops PROVE UringSpec => []UringHoldsPending
<1>1. UringInit => UringInv
  BY InitInv
<1>2. UringInv /\ [UringNext]_uringVars => UringInv'
  BY UringStepInv
<1>3. UringInv => UringHoldsPending
  BY HoldsPending
<1> QED BY <1>1, <1>2, <1>3, PTL DEF UringSpec

(* At most one handler is on the stack. *)
LEMMA OneHandler ==
    ASSUME UringInv
    PROVE  \A i, j \in 1..Len(ustack) : ustack[i].do = "handler" /\ ustack[j].do = "handler" => i = j
<1>1. UTypes
  BY DEF UringInv
<1>2. PICK d \in Waiting \cup Dispatching \cup Seeing \cup Handling \cup Stopping : Is(d)
  BY DEF UringInv, StackInv
<1>3. CASE d \in Handling \cup Stopping
  BY <1>1, <1>2, <1>3, HandlerAt
<1>4. CASE d \in Waiting \cup Dispatching \cup Seeing
  <2>1. \A i \in 1..Len(d) : d[i] # "handler"
    BY <1>4 DEF Waiting, Dispatching, Seeing
  <2> QED BY <1>2, <2>1 DEF Is
<1> QED BY <1>2, <1>3, <1>4

(* No operation is in two handlers: dispatchCqe takes it from _pendingOps before it calls the handler, and
   the next completion is only looked at when the handler has returned. *)
THEOREM UringAnswersOnce == ASSUME ~UNestedStops PROVE UringSpec => []UringOneCallback
<1>1. UringInit => UringInv
  BY InitInv
<1>2. UringInv /\ [UringNext]_uringVars => UringInv'
  BY UringStepInv
<1>3. UringInv => UringOneCallback
  <2> SUFFICES ASSUME UringInv PROVE UringOneCallback
    OBVIOUS
  <2>1. DOMAIN ustack = 1..Len(ustack)
    BY DEF UringInv, UTypes
  <2> QED BY <2>1, OneHandler DEF UringOneCallback
<1> QED BY <1>1, <1>2, <1>3, PTL DEF UringSpec

-----------------------------------------------------------------------------
(* The promise: the phase of an operation is read off its state and the handler that runs. *)
HandlerCancelled == \E i \in 1..Len(ustack) : ustack[i].do = "handler" /\ ustack[i].cancelled
PhasesAre == \A o \in UOps :
    UPhase(o) = IF ustate[o] = "Idle" THEN "idle" ELSE IF o \notin Handled THEN "flight" ELSE IF HandlerCancelled THEN "cancel" ELSE "complete"
SameHandlers == Handled' = Handled /\ (HandlerCancelled' <=> HandlerCancelled)

(* The phase of an operation. *)
LEMMA UPhaseRead == UringInv => PhasesAre
<1> SUFFICES ASSUME UringInv, NEW o \in UOps
             PROVE  UPhase(o) = IF ustate[o] = "Idle" THEN "idle" ELSE IF o \notin Handled THEN "flight" ELSE IF HandlerCancelled THEN "cancel" ELSE "complete"
  BY DEF PhasesAre
<1>1. DOMAIN ustack = 1..Len(ustack)
  BY DEF UringInv, UTypes
<1>2. PICK S : S = {i \in DOMAIN ustack : ustack[i].do = "handler" /\ ustack[i].op = o}
  OBVIOUS
<1>3. UPhase(o) = IF ustate[o] = "Idle" THEN "idle" ELSE IF S = {} THEN "flight" ELSE IF ustack[CHOOSE i \in S : TRUE].cancelled THEN "cancel" ELSE "complete"
  BY <1>2 DEF UPhase
<1>4. S = {} <=> o \notin Handled
  BY <1>1, <1>2 DEF Handled
<1>5. ASSUME NEW n \in S PROVE ustack[n].cancelled <=> HandlerCancelled
  <2>1. n \in 1..Len(ustack) /\ ustack[n].do = "handler"
    BY <1>1, <1>2, <1>5
  <2> QED BY <2>1, OneHandler DEF HandlerCancelled
<1>6. CASE S = {}
  BY <1>3, <1>4, <1>6
<1>7. CASE S # {}
  <2>1. (CHOOSE i \in S : TRUE) \in S
    BY <1>7
  <2>2. ustack[CHOOSE i \in S : TRUE].cancelled <=> HandlerCancelled
    BY <1>5, <2>1
  <2> QED BY <1>3, <1>4, <1>7, <2>2
<1> QED BY <1>6, <1>7

(* The phase of an operation after a step. *)
LEMMA UPhaseReadNext == UringInv' => PhasesAre'
  BY UPhaseRead, PTL

(* The phase changes with the state and the handler only. *)
LEMMA SameUPhase ==
    ASSUME PhasesAre, PhasesAre', SameHandlers, NEW o \in UOps, ustate'[o] = "Idle" <=> ustate[o] = "Idle"
    PROVE  UPhase(o)' = UPhase(o)
  BY DEF PhasesAre, SameHandlers

(* The steps of the promise, from the phases before and after. *)
LEMMA UPromiseSteps ==
  ASSUME NEW o \in UOps, \A p \in UOps \ {o} : UPhase(p)' = UPhase(p)
  PROVE  /\ UPhase(o) = "idle" /\ UPhase(o)' = "flight" /\ Asked' = Asked => UPromise!OpNext
         /\ UPhase(o) = "flight" /\ UPhase(o)' = "complete" /\ Asked' = Asked => UPromise!OpNext
         /\ UPhase(o) = "flight" /\ UPhase(o)' = "cancel" /\ o \in Asked /\ Asked' = Asked => UPromise!OpNext
         /\ UPhase(o) \in {"complete", "cancel"} /\ UPhase(o)' = "idle" /\ Asked' = Asked \ {o} => UPromise!OpNext
<1>1. ASSUME NEW v, UPhase(o)' = v PROVE [p \in UOps |-> UPhase(p)]' = [[p \in UOps |-> UPhase(p)] EXCEPT ![o] = v]
  BY <1>1
<1>2. [p \in UOps |-> UPhase(p)][o] = UPhase(o)
  OBVIOUS
<1>3. ASSUME UPhase(o) = "idle", UPhase(o)' = "flight", Asked' = Asked PROVE UPromise!Accept(o)
  BY <1>1, <1>2, <1>3 DEF UPromise!Accept, Asked
<1>4. ASSUME UPhase(o) = "flight", UPhase(o)' = "complete", Asked' = Asked PROVE UPromise!Complete(o)
  BY <1>1, <1>2, <1>4 DEF UPromise!Complete, Asked
<1>5. ASSUME UPhase(o) = "flight", UPhase(o)' = "cancel", o \in Asked, Asked' = Asked PROVE UPromise!Cancel(o)
  BY <1>1, <1>2, <1>5 DEF UPromise!Cancel, Asked
<1>6. ASSUME UPhase(o) \in {"complete", "cancel"}, UPhase(o)' = "idle", Asked' = Asked \ {o} PROVE UPromise!Retire(o)
  BY <1>1, <1>2, <1>6 DEF UPromise!Retire, Asked
<1> QED BY <1>3, <1>4, <1>5, <1>6 DEF UPromise!OpNext

(* Operations in flight are asked to end; with none, nothing happens. *)
LEMMA UPromiseAsk ==
  ASSUME \A p \in UOps : UPhase(p)' = UPhase(p), NEW os \in SUBSET UOps, \A o \in os : UPhase(o) = "flight", Asked' = Asked \cup os
  PROVE  UPromise!OpNext
<1>1. [p \in UOps |-> UPhase(p)]' = [p \in UOps |-> UPhase(p)]
  OBVIOUS
<1>2. os \subseteq {o \in UOps : [p \in UOps |-> UPhase(p)][o] = "flight"}
  OBVIOUS
<1>3. UPromise!Ask(os)
  BY <1>1, <1>2 DEF UPromise!Ask, Asked
<1> QED BY <1>3 DEF UPromise!OpNext

UKept == UPromise!OpNext \/ UNCHANGED UPromise!opVars

(* Nothing happens to the operations. *)
LEMMA UStutters == ASSUME UringInv, UringInv', SameHandlers, UNCHANGED ustate PROVE UKept
<1>1. \A p \in UOps : UPhase(p)' = UPhase(p)
  BY UPhaseRead, UPhaseReadNext, SameUPhase
<1>2. [p \in UOps |-> UPhase(p)]' = [p \in UOps |-> UPhase(p)]
  BY <1>1
<1>3. UNCHANGED UPromise!opVars
  BY <1>2 DEF UPromise!opVars
<1> QED BY <1>3 DEF UKept

(* With the stack the handlers are the same. *)
LEMMA StackKept == UNCHANGED ustack => SameHandlers
  BY DEF SameHandlers, Handled, HandlerCancelled

(* What is put on the stack outside handlers is no handler. *)
LEMMA ThenKept ==
    ASSUME UTypes, NEW a \in Seq(Names), Then(a), NEW x, Doing(x), x # "handler"
    PROVE  SameHandlers
<1>1. ustack # <<>> /\ Len(ustack) \in Nat /\ Len(ustack) >= 1 /\ ustack[1].do = x
  BY TopIs DEF UTypes, Doing
<1>2. /\ Len(ustack') = Len(a) + Len(ustack) - 1 /\ \A i \in 1..Len(a) : ustack'[i].do = a[i]
      /\ \A i \in 1..(Len(ustack) - 1) : ustack'[Len(a) + i] = ustack[i + 1]
  BY <1>1, ThenIs DEF Names
<1>0. PICK s, t : s = ustack /\ t = ustack'
  OBVIOUS
<1>3. PICK m \in Nat, n \in Nat : m = Len(a) /\ n = Len(ustack) /\ n >= 1
  BY <1>1
<1>4. /\ Len(s) = n /\ Len(t) = m + n - 1 /\ (\A i \in 1..m : t[i].do # "handler") /\ s[1].do # "handler"
      /\ \A i \in 1..(n - 1) : t[m + i] = s[i + 1]
  <2>1. \A i \in 1..Len(a) : a[i] # "handler"
    BY DEF Names
  <2> QED BY <1>0, <1>1, <1>2, <1>3, <2>1
<1>5. ASSUME NEW i \in 1..n, s[i].do = "handler" PROVE \E j \in 1..(m + n - 1) : t[j] = s[i]
  <2>1. i - 1 \in 1..(n - 1) /\ m + (i - 1) \in 1..(m + n - 1) /\ (i - 1) + 1 = i
    BY <1>4, <1>5
  <2>2. t[m + (i - 1)] = s[i]
    BY <1>4, <2>1
  <2> QED BY <2>1, <2>2
<1>6. ASSUME NEW i \in 1..(m + n - 1), t[i].do = "handler" PROVE \E j \in 1..n : t[i] = s[j]
  <2>1. i > m
    BY <1>4, <1>6
  <2>2. i - m \in 1..(n - 1) /\ (i - m) + 1 \in 1..n /\ m + (i - m) = i
    BY <2>1
  <2>3. t[i] = s[(i - m) + 1]
    BY <1>4, <2>2
  <2> QED BY <2>2, <2>3
<1>7. Handled' = Handled
  <2>1. ASSUME NEW o PROVE (\E i \in 1..Len(t) : t[i].do = "handler" /\ t[i].op = o) <=> (\E i \in 1..Len(s) : s[i].do = "handler" /\ s[i].op = o)
    BY <1>4, <1>5, <1>6
  <2>2. \A o \in UOps : o \in Handled' <=> o \in Handled
    BY <1>0, <2>1 DEF Handled
  <2>3. Handled' \subseteq UOps /\ Handled \subseteq UOps
    BY DEF Handled
  <2> QED BY <2>2, <2>3, Zenon
<1>8. HandlerCancelled' <=> HandlerCancelled
  <2>1. (\E i \in 1..Len(t) : t[i].do = "handler" /\ t[i].cancelled) <=> (\E i \in 1..Len(s) : s[i].do = "handler" /\ s[i].cancelled)
    BY <1>4, <1>5, <1>6
  <2> QED BY <1>0, <2>1 DEF HandlerCancelled
<1> QED BY <1>7, <1>8 DEF SameHandlers

(* A step of the loop outside handlers is none of the promise. *)
LEMMA ThenStutters ==
    ASSUME UringInv, UringInv', NEW a \in Seq(Names), Then(a), NEW x, Doing(x), x # "handler", UNCHANGED ustate
    PROVE  UKept
<1>1. SameHandlers
  BY ThenKept DEF UringInv
<1> QED BY <1>1, UStutters

(* What the loop puts on the stack. *)
LEMMA NamesFacts ==
    /\ <<>> \in Seq(Names) /\ <<"start">> \in Seq(Names) /\ <<"rearm", "check", "exit">> \in Seq(Names) /\ <<"check", "exit">> \in Seq(Names)
    /\ <<"check">> \in Seq(Names) /\ <<"dispatch", "seen", "check">> \in Seq(Names) /\ <<"drain", "peek", "check">> \in Seq(Names)
    /\ <<"dispatch", "seen">> \in Seq(Names) /\ <<"drain", "rearm">> \in Seq(Names)
  BY DEF Names

(* Nor is one that looks for a completion. *)
LEMMA PeekStutters ==
    ASSUME UringInv, UringInv', NEW submit, NEW next \in {<<>>, <<"check">>}, PeekCqe(submit, next), NEW x, Doing(x), x # "handler", UNCHANGED ustate
    PROVE  UKept
<1>1. PICK a \in Seq(Names) : Then(a)
  <2>1. CASE next = <<>>
    BY <2>1, Nexts, NamesFacts DEF PeekCqe
  <2>2. CASE next = <<"check">>
    BY <2>2, Nexts, NamesFacts DEF PeekCqe
  <2> QED BY <2>1, <2>2
<1> QED BY <1>1, ThenStutters

(* submitOperation accepts, cancelOperation and cancelAllOperations ask. *)
LEMMA USubmitKeeps == ASSUME UringInv, UringInv', UNCHANGED ustack, NEW o \in UOps, NEW flush, USubmitOperation(o, flush) PROVE UKept
<1>0. PhasesAre /\ PhasesAre' /\ SameHandlers /\ TableTypes /\ FlightInv
  BY UPhaseRead, UPhaseReadNext, StackKept DEF UringInv, UTypes
<1>1. CASE ustate[o] # "Idle"
  <2>1. UNCHANGED ustate
    BY <1>1 DEF USubmitOperation, USubmitFails, utableVars
  <2> QED BY <1>0, <2>1, UStutters
<1>2. CASE ustate[o] = "Idle"
  <2>1. ustate' = [ustate EXCEPT ![o] = "Submitted"]
    BY <1>2 DEF USubmitOperation, USubmitFails
  <2>2. \A p \in UOps : ustate'[p] = IF p = o THEN "Submitted" ELSE ustate[p]
    BY <1>0, <2>1 DEF TableTypes
  <2>3. \A p \in UOps \ {o} : UPhase(p)' = UPhase(p)
    BY <1>0, <2>2, SameUPhase
  <2>4. o \notin Handled /\ o \notin Handled'
    BY <1>0, <1>2 DEF FlightInv, SameHandlers
  <2>5. UPhase(o) = "idle"
    BY <1>0, <1>2 DEF PhasesAre
  <2>6. UPhase(o)' = "flight"
    BY <1>0, <2>2, <2>4 DEF PhasesAre
  <2>7. Asked' = Asked
    BY <1>2, <2>2 DEF Asked
  <2> QED BY <2>3, <2>5, <2>6, <2>7, UPromiseSteps DEF UKept
<1> QED BY <1>1, <1>2

(* Pending operations are asked to end. *)
LEMMA UAskKeeps ==
    ASSUME UringInv, UringInv', SameHandlers,
           \A o \in UOps : ustate'[o] # ustate[o] => ustate[o] = "Submitted" /\ ustate'[o] = "Cancelling" /\ o \in Pend
    PROVE  UKept
<1>0. PhasesAre /\ PhasesAre' /\ FlightInv
  BY UPhaseRead, UPhaseReadNext DEF UringInv
<1>1. \A p \in UOps : UPhase(p)' = UPhase(p)
  BY <1>0, SameUPhase
<1>2. PICK os : os = {o \in UOps : ustate'[o] # ustate[o]}
  OBVIOUS
<1>3. Asked' = Asked \cup os
  BY <1>2 DEF Asked
<1>4. ASSUME NEW o \in os PROVE UPhase(o) = "flight"
  <2>1. o \in UOps /\ ustate[o] = "Submitted" /\ o \notin Handled
    BY <1>0, <1>2, <1>4 DEF FlightInv
  <2> QED BY <1>0, <2>1 DEF PhasesAre
<1>5. os \in SUBSET UOps
  BY <1>2
<1> QED BY <1>1, <1>3, <1>4, <1>5, UPromiseAsk DEF UKept

(* cancelOperation asks, or does nothing. *)
LEMMA UCancelKeeps == ASSUME UringInv, UringInv', UNCHANGED ustack, NEW o \in UOps, NEW flush, UCancelOperation(o, flush) PROVE UKept
<1>1. TableTypes /\ SameHandlers
  BY StackKept DEF UringInv, UTypes
<1>2. CASE UCancelFails(o)
  <2>1. UNCHANGED ustate
    BY <1>2 DEF UCancelOperation
  <2> QED BY <1>1, <2>1, UStutters
<1>3. CASE ~UCancelFails(o)
  <2>1. ustate' = [ustate EXCEPT ![o] = "Cancelling"] /\ ustate[o] = "Submitted" /\ InPending(o)
    BY <1>3 DEF UCancelOperation, UCancelFails
  <2>2. o \in Pend
    BY <2>1, PendingIs
  <2>3. \A p \in UOps : ustate'[p] # ustate[p] => p = o /\ ustate'[p] = "Cancelling"
    BY <1>1, <2>1 DEF TableTypes
  <2> QED BY <1>1, <2>1, <2>2, <2>3, UAskKeeps
<1> QED BY <1>2, <1>3

(* cancelAllOperations asks what is submitted. *)
LEMMA UCancelAllKeeps == ASSUME UringInv, UringInv', SameHandlers, NEW flush, UCancelAll(flush) PROVE UKept
<1>1. \A o \in UOps : ustate'[o] # ustate[o] => ustate[o] = "Submitted" /\ ustate'[o] = "Cancelling" /\ o \in Pend
  BY CancelAllEntries
<1> QED BY <1>1, UAskKeeps

(* dispatchCqe answers an operation in flight; onCancel only if it was asked to end. *)
LEMMA UDispatchKeeps == ASSUME UringInv, UringInv', DispatchCqe PROVE UKept
<1>0. PhasesAre /\ PhasesAre' /\ UTypes /\ UTypes' /\ FlightInv
  BY UPhaseRead, UPhaseReadNext DEF UringInv
<1>1. UNCHANGED <<ustate, cq>> /\ Doing("dispatch") /\ Asked' = Asked
  BY DEF DispatchCqe, ringVars, Asked
<1>2. PICK c \in Completion : c = cq[1]
  BY <1>1, FirstCompletion
<1>3. /\ Is(<<"dispatch", "seen", "check", "exit">>) /\ Head(cq) = c
      /\ c.op \in UOps => c.op \in Pend /\ ustate[c.op] # "Idle"
      /\ c.op \in UOps /\ c.res = "cancelled" => c.op \in Asked
  BY <1>1, <1>2, FirstCompletion
<1>4. CASE c.op \notin UOps
  <2>1. c.op \in UOps \cup {UWake, UNone}
    BY DEF Completion
  <2>2. Then(<<"drain", "rearm">>) \/ Then(<<>>)
    BY <1>3, <1>4, <2>1 DEF DispatchCqe
  <2> QED BY <1>1, <2>2, ThenStutters, NamesFacts
<1>5. CASE c.op \in UOps
  <2>1. ustack' = <<[do |-> "handler", op |-> c.op, cancelled |-> IsCancelled(c)]>> \o Tail(ustack)
    BY <1>3, <1>5, UringAssumption DEF DispatchCqe
  <2>2. PICK h \in UItem : h = [do |-> "handler", op |-> c.op, cancelled |-> IsCancelled(c)] /\ h.do = "handler" /\ h.op = c.op /\ h.cancelled = IsCancelled(c)
    <3>1. IsCancelled(c) \in BOOLEAN
      BY DEF IsCancelled
    <3>2. [do |-> "handler", op |-> c.op, cancelled |-> IsCancelled(c)] \in UItem
      BY <1>5, <3>1 DEF UItem
    <3> QED BY <3>2
  <2>3. Is(<<"handler", "seen", "check", "exit">>)' /\ ustack'[1] = h
    BY <1>0, <1>3, <2>1, <2>2, PushHandler DEF Pushes
  <2>4. Handled' = {c.op}
    BY <1>0, <2>2, <2>3, HandlerNext, ShapeFacts
  <2>5. Handled = {}
    BY <1>0, <1>3, NoHandler, ShapeFacts
  <2>6. HandlerCancelled' <=> IsCancelled(c)
    <3>1. 1 \in 1..Len(ustack') /\ \A i \in 1..Len(ustack') : ustack'[i].do = "handler" => i = 1
      <4>1. Len(ustack') = 4 /\ ustack'[2].do = "seen" /\ ustack'[3].do = "check" /\ ustack'[4].do = "exit"
        BY <2>3 DEF Is
      <4> QED BY <4>1
    <3> QED BY <2>2, <2>3, <3>1 DEF HandlerCancelled
  <2>7. \A p \in UOps \ {c.op} : UPhase(p)' = UPhase(p)
    BY <1>0, <1>1, <2>4, <2>5 DEF PhasesAre
  <2>8. UPhase(c.op) = "flight"
    BY <1>0, <1>3, <1>5, <2>5 DEF PhasesAre
  <2>9. CASE IsCancelled(c)
    <3>1. UPhase(c.op)' = "cancel"
      BY <1>0, <1>1, <1>3, <1>5, <2>4, <2>6, <2>9 DEF PhasesAre
    <3>2. c.op \in Asked
      BY <1>3, <1>5, <2>9 DEF IsCancelled, Asked
    <3> QED BY <1>1, <1>5, <2>7, <2>8, <3>1, <3>2, UPromiseSteps DEF UKept
  <2>10. CASE ~IsCancelled(c)
    <3>1. UPhase(c.op)' = "complete"
      BY <1>0, <1>1, <1>3, <1>5, <2>4, <2>6, <2>10 DEF PhasesAre
    <3> QED BY <1>1, <1>5, <2>7, <2>8, <3>1, UPromiseSteps DEF UKept
  <2> QED BY <2>9, <2>10
<1> QED BY <1>4, <1>5

(* When the handler has returned the operation is not in flight any more. *)
LEMMA UReturnKeeps == ASSUME UringInv, UringInv', UHandlerReturns PROVE UKept
<1>0. PhasesAre /\ PhasesAre' /\ UTypes /\ UTypes' /\ StackInv /\ FlightInv
  BY UPhaseRead, UPhaseReadNext DEF UringInv
<1>1. Doing("handler") /\ Then(<<>>)
  BY DEF UHandlerReturns
<1>2. Is(<<"handler", "seen", "check", "exit">>)
  BY <1>0, <1>1, StackAt
<1>3. PICK p \in UOps : p = ustack[1].op /\ Handled = {p}
  BY <1>0, <1>2, HandlerAt, ShapeFacts
<1>4. ustate' = [ustate EXCEPT ![p] = "Idle"]
  <2>1. Head(ustack) = ustack[1]
    BY <1>0, <1>1, TopIs DEF UTypes
  <2> QED BY <1>3, <2>1 DEF UHandlerReturns
<1>5. \A o \in UOps : ustate'[o] = IF o = p THEN "Idle" ELSE ustate[o]
  BY <1>0, <1>4 DEF UTypes, TableTypes
<1>6. Is(<<"seen", "check", "exit">>)'
  BY <1>0, <1>1, <1>2, StackMoves
<1>7. Handled' = {}
  BY <1>0, <1>6, NoHandlerNext, ShapeFacts
<1>8. \A o \in UOps \ {p} : UPhase(o)' = UPhase(o)
  BY <1>0, <1>3, <1>5, <1>7 DEF PhasesAre
<1>9. ustate[p] # "Idle"
  BY <1>0, <1>3 DEF FlightInv
<1>10. UPhase(p) \in {"complete", "cancel"}
  BY <1>0, <1>3, <1>9 DEF PhasesAre
<1>11. UPhase(p)' = "idle"
  BY <1>0, <1>5 DEF PhasesAre
<1>12. Asked' = Asked \ {p}
  BY <1>5 DEF Asked
<1> QED BY <1>8, <1>10, <1>11, <1>12, UPromiseSteps DEF UKept

(* Every step is one of the promise's, or leaves the operations where they are. *)
LEMMA UKeepsStep == ASSUME ~UNestedStops, UringInv, UringInv', [UringNext]_uringVars PROVE UKept
<1>1. ASSUME UNCHANGED <<ustate, ustack>> PROVE UKept
  BY <1>1, StackKept, UStutters
<1>2. ASSUME NEW t \in UThreads, UCallStep(t) PROVE UKept
  BY <1>1, <1>2 DEF UCallStep, UStopCheck, UStopClaim, UPush, UExchange, UWrite, UWaitDone, UWaitThread, UOutside, utableVars
<1>3. ASSUME NEW t \in UThreads, UStartStep(t) PROVE UKept
  BY <1>1, <1>3 DEF UStartStep, UStart, utableVars
<1>4. CASE UKernelStep
  BY <1>1, <1>4 DEF UKernelStep, KernelComplete, utableVars
<1>5. CASE UNCHANGED uringVars
  BY <1>1, <1>5 DEF uringVars, utableVars
<1>6. CASE URunEnter \/ URunStart \/ URunExit \/ RearmWakeup \/ UDrainEnds
  <2>1. UNCHANGED ustate
    BY <1>6 DEF URunEnter, URunStart, URunExit, RearmWakeup, UDrainEnds, utableVars
  <2>2. PICK a \in Seq(Names) : Then(a)
    BY <1>6, NamesFacts DEF URunEnter, URunStart, URunExit, RearmWakeup, UDrainEnds
  <2>3. PICK x \in {"run", "start", "exit", "rearm", "drain"} : Doing(x)
    BY <1>6 DEF URunEnter, URunStart, URunExit, RearmWakeup, UDrainEnds
  <2> QED BY <2>1, <2>2, <2>3, ThenStutters
<1>7. CASE ULoopCheck
  <2>1. UNCHANGED ustate /\ Doing("check")
    BY <1>7 DEF ULoopCheck, utableVars
  <2>2. ASSUME NEW submit, PeekCqe(submit, <<"check">>) PROVE UKept
    BY <2>1, <2>2, PeekStutters
  <2>3. CASE Then(<<"drain", "peek", "check">>) \/ Then(<<>>)
    BY <2>1, <2>3, ThenStutters, NamesFacts
  <2> QED BY <1>7, <2>2, <2>3 DEF ULoopCheck
<1>8. CASE UPeek
  BY <1>8, PeekStutters DEF UPeek, utableVars
<1>9. CASE USeen
  <2>1. UNCHANGED ustate /\ Doing("seen")
    BY <1>9 DEF USeen, utableVars
  <2>2. cq # <<>>
    BY <2>1, StackAt DEF UringInv
  <2>3. Then(<<"dispatch", "seen">>) \/ Then(<<>>)
    BY <1>9, <2>2 DEF USeen
  <2> QED BY <2>1, <2>3, ThenStutters, NamesFacts
<1>10. CASE DispatchCqe
  BY <1>10, UDispatchKeeps
<1>11. CASE UHandlerReturns
  BY <1>11, UReturnKeeps
<1>12. CASE UDrain
  <2>1. UNCHANGED ustack /\ SameHandlers /\ ucommands # <<>>
    BY <1>12, StackKept DEF UDrain
  <2>2. PICK c \in UCommand : c = Head(ucommands)
    BY <2>1 DEF UringInv, UTypes, CallTypes
  <2>3. /\ c.type \in {"submit", "cancel", "flush", "stop"} /\ (c.type \in {"submit", "cancel"} => c.op \in UOps)
        /\ CASE c.type = "submit" -> USubmitOperation(c.op, c.flush) /\ UNCHANGED urunning
             [] c.type = "cancel" -> UCancelOperation(c.op, c.flush) /\ UNCHANGED urunning
             [] c.type = "flush" -> RingSubmit(sq, <<>>) /\ UNCHANGED <<utableVars, urunning>>
             [] c.type = "stop" -> UCancelAll(c.sync) /\ urunning' = FALSE
    BY <1>12, <2>2 DEF UDrain, UCommand
  <2>4. CASE c.type = "submit"
    <3>1. USubmitOperation(c.op, c.flush) /\ c.op \in UOps
      BY <2>3, <2>4
    <3> QED BY <2>1, <3>1, USubmitKeeps
  <2>5. CASE c.type = "cancel"
    <3>1. UCancelOperation(c.op, c.flush) /\ c.op \in UOps
      BY <2>3, <2>5
    <3> QED BY <2>1, <3>1, UCancelKeeps
  <2>6. CASE c.type = "flush"
    <3>1. UNCHANGED ustate
      BY <2>3, <2>6 DEF utableVars
    <3> QED BY <1>1, <2>1, <3>1
  <2>7. CASE c.type = "stop"
    <3>1. UCancelAll(c.sync)
      BY <2>3, <2>7
    <3> QED BY <2>1, <3>1, UCancelAllKeeps
  <2> QED BY <2>3, <2>4, <2>5, <2>6, <2>7
<1>13. ASSUME NEW o \in UOps, NEW flush, UHandlerSubmits(o, flush) PROVE UKept
  BY <1>13, USubmitKeeps DEF UHandlerSubmits
<1>14. ASSUME NEW o \in UOps, NEW flush, UHandlerCancels(o, flush) PROVE UKept
  BY <1>14, UCancelKeeps DEF UHandlerCancels
<1>15. CASE UHandlerStops
  <2>1. Doing("handler") /\ upending = <<>> /\ UCancelAll(FALSE) /\ ustack' = <<[do |-> "check"]>> \o ustack
    BY <1>15 DEF UHandlerStops, HandlerCall
  <2>2. UTypes /\ Is(<<"handler", "seen", "check", "exit">>)
    BY <2>1, StackAt DEF UringInv
  <2>3. Is(<<"check", "handler", "seen", "check", "exit">>)' /\ ustack'[2] = ustack[1]
    BY <2>1, <2>2, PushCheck
  <2>4. Handled = {ustack[1].op} /\ Handled' = {ustack'[2].op}
    BY <2>2, <2>3, HandlerAt, StopNext, ShapeFacts DEF UringInv
  <2>5. HandlerCancelled <=> ustack[1].cancelled
    <3>1. Len(ustack) = 4 /\ ustack[1].do = "handler" /\ ustack[2].do = "seen" /\ ustack[3].do = "check" /\ ustack[4].do = "exit"
      BY <2>2 DEF Is
    <3> QED BY <3>1 DEF HandlerCancelled
  <2>6. HandlerCancelled' <=> ustack'[2].cancelled
    <3>1. Len(ustack') = 5 /\ ustack'[1].do = "check" /\ ustack'[2].do = "handler" /\ ustack'[3].do = "seen" /\ ustack'[4].do = "check" /\ ustack'[5].do = "exit"
      BY <2>3 DEF Is
    <3> QED BY <3>1 DEF HandlerCancelled
  <2>7. SameHandlers
    BY <2>3, <2>4, <2>5, <2>6 DEF SameHandlers
  <2> QED BY <2>1, <2>7, UCancelAllKeeps
<1> QED BY <1>2, <1>3, <1>4, <1>5, <1>6, <1>7, <1>8, <1>9, <1>10, <1>11, <1>12, <1>13, <1>14, <1>15 DEF UringNext, ULoopStep, UHandlerStep

(* The io_uring backend implements AsyncOperations as long as no handler stops the proactor while
   operations are pending: processCommand and the handlers' calls accept and ask, dispatchCqe answers
   exactly once, with onCancel only when the operation was cancelled, and every other step leaves the
   operations where they are. *)
THEOREM UringImplementsPromise == ASSUME ~UNestedStops PROVE UringSpec => UringKeepsPromise
<1>1. UringInit => UPromise!OpInit
  <2> SUFFICES ASSUME UringInit PROVE UPromise!OpInit
    OBVIOUS
  <2>1. \A o \in UOps : UPhase(o) = "idle" /\ ustate[o] = "Idle"
    BY DEF UringInit, UPhase
  <2>2. [o \in UOps |-> UPhase(o)] = [o \in UOps |-> "idle"]
    BY <2>1
  <2>3. {o \in UOps : ustate[o] = "Cancelling"} = {}
    BY <2>1
  <2> QED BY <2>2, <2>3 DEF UPromise!OpInit
<1>2. UringInit => UringInv
  BY InitInv
<1>3. UringInv /\ [UringNext]_uringVars => UringInv'
  BY UringStepInv
<1>4. UringInv /\ UringInv' /\ [UringNext]_uringVars => [UPromise!OpNext]_(UPromise!opVars)
  BY UKeepsStep DEF UKept
<1> QED BY <1>1, <1>2, <1>3, <1>4, PTL DEF UringSpec, UringKeepsPromise, UPromise!OpSpec
=============================================================================
