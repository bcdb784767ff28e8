--------------------------- MODULE ProactorProofs ---------------------------
(***************************************************************************)
(* Proofs about the proactor over epoll (module Proactor), for every       *)
(* number of threads, operations and descriptors, whatever descriptors     *)
(* report and whatever handlers call.                                      *)
(*                                                                         *)
(*   OperationsAreSafe     every operation in flight is in the table of    *)
(*                         its direction or waits for one callback, and    *)
(*                         stop leaves none behind                         *)
(*   EventsAreMatched      epoll watches what the tables ask for           *)
(*   ProactorKeepsPromise  the backend implements AsyncOperations          *)
(*                                                                         *)
(* The inductive invariant has four parts.  OpsInv is about the operations *)
(* and the stack of the loop's thread: an operation has at most one        *)
(* callback on the stack, has one exactly when it is in flight and in no   *)
(* table, and readCommands is only ever at the bottom.  WatchInv is about  *)
(* epoll's list, UserInv about the calls of user threads (every command    *)
(* but stop names an operation), WakeInv about the eventfd: at most one of *)
(* a writer on its way, a counter that is set and a flag about to be       *)
(* cleared.                                                                *)
(*                                                                         *)
(* The stack is reasoned about through the set of its items: Items, and    *)
(* Answering for the callbacks an operation still has there.  Upon says    *)
(* that a step only pushes items of the harmless kinds.                    *)
(***************************************************************************)
EXTENDS Proactor, SequenceTheorems, FiniteSetTheorems, TLAPS

CbDo == {"call", "handler", "return"}
LoopPc == {"off", "run", "top", "wait", "commands", "dispatch", "exit", "ended", "crashed"}

-----------------------------------------------------------------------------
(***************************************************************************)
(* The stack of the loop's thread, as the set of its items.                *)
(***************************************************************************)
Items(s) == {s[i] : i \in 1..Len(s)}
Answering(I, o) == \E x \in I : x.do \in CbDo /\ x.op = o

(* Two callbacks on the stack are those of two operations.                    *)
Apart(s) == \A i, j \in 1..Len(s) : s[i].do \in CbDo /\ s[j].do \in CbDo /\ s[i].op = s[j].op => i = j

(* readCommands is entered from the event loop only.                          *)
AtBottom == {"read", "clear", "drain"}
Bottom(s) == \A i \in 1..Len(s) : s[i].do \in AtBottom => i = Len(s)

StackOK(s) == s \in Seq(Item) /\ Apart(s) /\ Bottom(s)

-----------------------------------------------------------------------------
(***************************************************************************)
(* The operations.                                                         *)
(***************************************************************************)
Held(o) == Slot(o) = o

TablesTyped ==
    /\ reads \in [Fds -> (Ops \ Writes) \cup {None}] /\ writes \in [Fds -> Writes \cup {None}]
    /\ \A f \in Fds : /\ reads[f] # None => OpFd[reads[f]] = f
                      /\ writes[f] # None => OpFd[writes[f]] = f

OpsTyped == state \in [Ops -> {"Idle", "Submitted", "Cancelling"}] /\ young \subseteq Ops /\ asked \subseteq Ops

HeldSubmitted == \A o \in Ops : Held(o) => state[o] = "Submitted"

(* In flight and in no table: the callback is still to come or runs.          *)
Accounted == \A o \in Ops : Answering(Items(stack), o) <=> (state[o] # "Idle" /\ ~Held(o))

CancelledAsked == \A x \in Items(stack) : x.do \in CbDo /\ x.cancelled => x.op \in asked

(* cancelAllOperations, nested or not, leaves nothing behind it but what callbacks submit. *)
Swept == \A x \in Items(stack) : x.do = "cancelAll" => \A o \in Ops : Held(o) /\ OpFd[o] < x.fd => o \in young

OpsInv ==
    /\ TablesTyped /\ OpsTyped /\ HeldSubmitted
    /\ StackOK(stack) /\ Accounted /\ CancelledAsked /\ Swept
    /\ loop \in LoopPc /\ (loop # "dispatch" => stack = <<>>)

(* The descriptors: what the reactor knows of them.                           *)
WatchInv ==
    /\ interest \in [Fds -> SUBSET {"in", "out", "rdhup"}]
    /\ handlers \subseteq Pollable \cup {Wakeup} /\ deleted \subseteq Pollable
    /\ WatchedAsAsked /\ NullNeedsOtherDirection

(* Commands of user threads.                                                  *)
GoodCommand == {c \in Command : c.type # "stop" => c.op \in Ops}

UserInv ==
    /\ pc \in [Threads -> UserPc] /\ cmd \in [Threads -> GoodCommand \cup {None}]
    /\ \A t \in Threads : pc[t] # "idle" => cmd[t] \in GoodCommand
    /\ done \in [Threads -> BOOLEAN] /\ errc \in [Threads -> BOOLEAN]
    /\ calls \in 0..MaxCalls /\ stopping \in BOOLEAN /\ threadSet \in BOOLEAN /\ running \in BOOLEAN
    /\ commands \in Seq(GoodCommand) /\ Len(commands) <= QueueSize
    /\ rcommands \in Seq({"watch", "stop"})

(* The wakeup: one of a writer, the counter, the event in hand and the flag about to be cleared. *)
WakeInv ==
    /\ notified \in BOOLEAN /\ wakeup \in 0..1
    /\ \A e \in batch : e.fd \in Fds \cup {Wakeup} /\ e.events \subseteq Kinds \cup {"in"}
    /\ \A d, e \in batch : d.fd = Wakeup /\ e.fd = Wakeup => d = e
    /\ wakeup = 1 => notified
    /\ \A t \in Threads : pc[t] = "write" => notified /\ wakeup = 0
    /\ \A t, u \in Threads : pc[t] = "write" /\ pc[u] = "write" => t = u
    /\ \A e \in batch : e.fd = Wakeup => wakeup = 1
    /\ \A x \in Items(stack) : /\ x.do = "read" => wakeup = 1
                               /\ x.do = "clear" => notified /\ wakeup = 0 /\ \A t \in Threads : pc[t] # "write"
                               /\ x.do \in {"read", "clear"} => \A e \in batch : e.fd # Wakeup

-----------------------------------------------------------------------------
(***************************************************************************)
(* What pushing and popping an item does to the stack.                     *)
(***************************************************************************)

(* An item before a stack.                                                    *)
LEMMA ConsSeq ==
  ASSUME NEW x \in Item, NEW s \in Seq(Item)
  PROVE  /\ <<x>> \o s \in Seq(Item) /\ Len(<<x>> \o s) = Len(s) + 1
         /\ (<<x>> \o s)[1] = x /\ \A i \in 1..Len(s) : (<<x>> \o s)[i + 1] = s[i]
         /\ Items(<<x>> \o s) = {x} \cup Items(s)
<1>1. <<x>> \in Seq(Item) /\ Len(<<x>>) = 1 /\ <<x>>[1] = x
  OBVIOUS
<1>2. /\ <<x>> \o s \in Seq(Item) /\ Len(<<x>> \o s) = Len(s) + 1
      /\ \A i \in 1..Len(s) + 1 : (<<x>> \o s)[i] = IF i <= 1 THEN <<x>>[i] ELSE s[i - 1]
  BY <1>1, ConcatProperties
<1> PICK c \in Seq(Item) : c = <<x>> \o s
  BY <1>2
<1>3. Len(s) \in Nat
  OBVIOUS
<1>4. c[1] = x /\ \A i \in 1..Len(s) : c[i + 1] = s[i]
  <2>1. c[1] = x
    BY <1>1, <1>2, <1>3
  <2>2. ASSUME NEW i \in 1..Len(s) PROVE c[i + 1] = s[i]
    <3>1. i + 1 \in 1..Len(s) + 1 /\ ~(i + 1 <= 1) /\ (i + 1) - 1 = i
      BY <1>3
    <3> QED BY <1>2, <3>1
  <2> QED BY <2>1, <2>2
<1>5. Items(c) = {x} \cup Items(s)
  <2>1. \A i \in 1..Len(s) : i + 1 \in 1..Len(c)
    BY <1>2, <1>3
  <2>2. \A j \in 1..Len(c) : j = 1 \/ (j - 1 \in 1..Len(s) /\ (j - 1) + 1 = j)
    BY <1>2, <1>3
  <2>3. 1 \in 1..Len(c)
    BY <1>2, <1>3
  <2> QED BY <1>4, <2>1, <2>2, <2>3 DEF Items
<1> QED BY <1>2, <1>4, <1>5

(* A stack that is not empty.                                                 *)
LEMMA PopSeq ==
  ASSUME NEW s \in Seq(Item), s # <<>>
  PROVE  /\ Head(s) \in Item /\ Tail(s) \in Seq(Item) /\ s = <<Head(s)>> \o Tail(s)
         /\ Items(s) = {Head(s)} \cup Items(Tail(s))
<1>1. /\ Head(s) \in Item /\ Tail(s) \in Seq(Item) /\ Len(Tail(s)) = Len(s) - 1 /\ Len(s) \in Nat /\ Len(s) > 0
      /\ Head(s) = s[1] /\ \A i \in 1..Len(Tail(s)) : Tail(s)[i] = s[i + 1]
  OBVIOUS
<1> PICK h \in Item, r \in Seq(Item) : h = Head(s) /\ r = Tail(s)
  BY <1>1
<1>2. s = <<h>> \o r
  <2> PICK c \in Seq(Item) : c = <<h>> \o r
    BY ConsSeq
  <2>1. Len(c) = Len(s) /\ c[1] = s[1] /\ \A i \in 1..Len(r) : c[i + 1] = s[i + 1]
    BY <1>1, ConsSeq
  <2>2. ASSUME NEW j \in 1..Len(s) PROVE c[j] = s[j]
    <3>1. CASE j # 1
      <4>1. j - 1 \in 1..Len(r) /\ (j - 1) + 1 = j
        BY <1>1, <3>1
      <4> QED BY <2>1, <4>1
    <3> QED BY <2>1, <3>1
  <2> QED BY <2>1, <2>2, SeqEqual
<1> QED BY <1>2, ConsSeq

(* The stack stays well formed when an item is pushed.                        *)
LEMMA PushOK ==
  ASSUME NEW s, StackOK(s), NEW x \in Item, x.do \notin AtBottom,
         x.do \in CbDo => ~Answering(Items(s), x.op)
  PROVE  StackOK(<<x>> \o s) /\ Items(<<x>> \o s) = {x} \cup Items(s)
<1>1. s \in Seq(Item) /\ Apart(s) /\ Bottom(s)
  BY DEF StackOK
<1> PICK c : c = <<x>> \o s
  OBVIOUS
<1>2. /\ c \in Seq(Item) /\ Len(c) = Len(s) + 1 /\ c[1] = x
      /\ \A i \in 1..Len(s) : c[i + 1] = s[i]
      /\ Items(c) = {x} \cup Items(s)
  BY <1>1, ConsSeq
<1>3. Len(s) \in Nat
  BY <1>1
<1>4. \A j \in 1..Len(c) : j = 1 \/ (j - 1 \in 1..Len(s) /\ c[j] = s[j - 1])
  <2> SUFFICES ASSUME NEW j \in 1..Len(c), j # 1 PROVE j - 1 \in 1..Len(s) /\ c[j] = s[j - 1]
    OBVIOUS
  <2>1. j - 1 \in 1..Len(s) /\ (j - 1) + 1 = j
    BY <1>2, <1>3
  <2> QED BY <1>2, <2>1
<1>5. \A i \in 1..Len(s) : s[i].do \in CbDo /\ x.do \in CbDo => s[i].op # x.op
  BY DEF Answering, Items
<1>6. Apart(c)
  <2> SUFFICES ASSUME NEW i \in 1..Len(c), NEW j \in 1..Len(c), c[i].do \in CbDo, c[j].do \in CbDo, c[i].op = c[j].op
               PROVE  i = j
    BY DEF Apart
  <2>1. CASE i = 1 \/ j = 1
    BY <2>1, <1>2, <1>4, <1>5
  <2>2. CASE i # 1 /\ j # 1
    <3>1. i - 1 \in 1..Len(s) /\ j - 1 \in 1..Len(s) /\ c[i] = s[i - 1] /\ c[j] = s[j - 1]
      BY <1>4, <2>2
    <3>2. i - 1 = j - 1
      BY <1>1, <3>1 DEF Apart
    <3> QED BY <3>2, <1>2, <1>3
  <2> QED BY <2>1, <2>2
<1>7. Bottom(c)
  <2> SUFFICES ASSUME NEW i \in 1..Len(c), c[i].do \in AtBottom PROVE i = Len(c)
    BY DEF Bottom
  <2>1. i - 1 \in 1..Len(s) /\ c[i] = s[i - 1]
    BY <1>2, <1>4
  <2>2. i - 1 = Len(s)
    BY <1>1, <2>1 DEF Bottom
  <2> QED BY <1>2, <1>3, <2>2
<1> QED BY <1>2, <1>6, <1>7 DEF StackOK

(* The stack stays well formed when its first item is popped.                 *)
LEMMA PopOK ==
  ASSUME NEW s, StackOK(s), s # <<>>
  PROVE  /\ Head(s) \in Item /\ StackOK(Tail(s)) /\ s = <<Head(s)>> \o Tail(s)
         /\ Items(s) = {Head(s)} \cup Items(Tail(s))
         /\ Head(s).do \in CbDo => ~Answering(Items(Tail(s)), Head(s).op)
         /\ Head(s).do \in AtBottom => Tail(s) = <<>>
<1>1. s \in Seq(Item) /\ Apart(s) /\ Bottom(s)
  BY DEF StackOK
<1> PICK h, r : h = Head(s) /\ r = Tail(s)
  OBVIOUS
<1>2. h \in Item /\ r \in Seq(Item) /\ s = <<h>> \o r /\ Items(s) = {h} \cup Items(r)
  BY <1>1, PopSeq
<1>3. Len(s) = Len(r) + 1 /\ s[1] = h /\ \A i \in 1..Len(r) : s[i + 1] = r[i]
  BY <1>2, ConsSeq
<1>4. Len(r) \in Nat /\ 1 \in 1..Len(s) /\ \A i \in 1..Len(r) : i + 1 \in 1..Len(s)
  BY <1>2, <1>3
<1>5. Apart(r)
  <2> SUFFICES ASSUME NEW i \in 1..Len(r), NEW j \in 1..Len(r), r[i].do \in CbDo, r[j].do \in CbDo, r[i].op = r[j].op
               PROVE  i = j
    BY DEF Apart
  <2>1. i + 1 = j + 1
    BY <1>1, <1>3, <1>4 DEF Apart
  <2> QED BY <2>1
<1>6. Bottom(r)
  <2> SUFFICES ASSUME NEW i \in 1..Len(r), r[i].do \in AtBottom PROVE i = Len(r)
    BY DEF Bottom
  <2>1. i + 1 = Len(s)
    BY <1>1, <1>3, <1>4 DEF Bottom
  <2> QED BY <2>1, <1>3, <1>4
<1>7. h.do \in CbDo => ~Answering(Items(r), h.op)
  <2> SUFFICES ASSUME h.do \in CbDo, NEW i \in 1..Len(r), r[i].do \in CbDo, r[i].op = h.op PROVE FALSE
    BY DEF Answering, Items
  <2>1. i + 1 = 1
    BY <1>1, <1>3, <1>4 DEF Apart
  <2> QED BY <2>1, <1>4
<1>8. h.do \in AtBottom => r = <<>>
  <2> SUFFICES ASSUME h.do \in AtBottom PROVE r = <<>>
    OBVIOUS
  <2>1. 1 = Len(s)
    BY <1>1, <1>3, <1>4 DEF Bottom
  <2>2. Len(r) = 0
    BY <2>1, <1>3, <1>4
  <2> QED BY <2>2, <1>2, EmptySeq
<1> QED BY <1>2, <1>5, <1>6, <1>7, <1>8 DEF StackOK

(* The empty stack, and a stack of one item.                                  *)
LEMMA EmptyOK == StackOK(<<>>) /\ Items(<<>>) = {}
<1>1. <<>> \in Seq(Item) /\ Len(<<>>) = 0
  OBVIOUS
<1>2. 1..Len(<<>>) = {}
  BY <1>1
<1> QED BY <1>1, <1>2 DEF StackOK, Apart, Bottom, Items

(* One item alone.                                                            *)
LEMMA OneOK == ASSUME NEW x \in Item PROVE StackOK(<<x>>) /\ Items(<<x>>) = {x}
<1>1. <<x>> \in Seq(Item) /\ Len(<<x>>) = 1 /\ <<x>>[1] = x
  OBVIOUS
<1>2. 1..Len(<<x>>) = {1}
  BY <1>1
<1> PICK c : c = <<x>>
  OBVIOUS
<1>3. c \in Seq(Item) /\ Len(c) = 1 /\ c[1] = x /\ 1..Len(c) = {1}
  BY <1>1, <1>2
<1>4. StackOK(c) /\ Items(c) = {x}
  BY <1>3 DEF StackOK, Apart, Bottom, Items
<1> QED BY <1>4

(* Concatenation with nothing, and of three.                                  *)
LEMMA ConcatFacts ==
  ASSUME NEW s \in Seq(Item)
  PROVE  /\ <<>> \o s = s
         /\ \A x, y \in Item : (<<x>> \o <<y>>) \o s = <<x>> \o (<<y>> \o s)
         /\ \A p, q \in Seq(Item) : (p \o q) \o s = p \o (q \o s)
<1>1. <<>> \o s = s
  BY ConcatEmptySeq
<1>2. ASSUME NEW x \in Item, NEW y \in Item PROVE (<<x>> \o <<y>>) \o s = <<x>> \o (<<y>> \o s)
  <2>1. <<x>> \in Seq(Item) /\ <<y>> \in Seq(Item)
    OBVIOUS
  <2> QED BY <2>1, ConcatAssociative
<1>3. ASSUME NEW p \in Seq(Item), NEW q \in Seq(Item) PROVE (p \o q) \o s = p \o (q \o s)
  BY ConcatAssociative
<1> QED BY <1>1, <1>2, <1>3

(* The kinds of items.                                                        *)
LEMMA ItemFacts ==
  /\ \A x \in Item : /\ x.do \in CbDo => x.op \in Ops /\ x.cancelled \in BOOLEAN
                                       /\ x = [do |-> x.do, op |-> x.op, cancelled |-> x.cancelled]
                     /\ x.do = "cancelAll" => x.fd \in 0..MaxFd + 1
                     /\ x.do = "ack" => x.by \in Threads /\ x.err \in BOOLEAN
                     /\ x.do \in CbDo \cup AtBottom \cup {"cancelAll", "stop", "ack"}
  /\ \A d \in CbDo, o \in Ops, c \in BOOLEAN : [do |-> d, op |-> o, cancelled |-> c] \in Item
  /\ \A f \in 0..MaxFd + 1 : [do |-> "cancelAll", fd |-> f] \in Item
  /\ \A t \in Threads, e \in BOOLEAN : [do |-> "ack", by |-> t, err |-> e] \in Item
  /\ \A d \in {"read", "clear", "drain", "stop"} : [do |-> d] \in Item
<1>1. ASSUME NEW x \in Item
      PROVE  /\ x.do \in CbDo => x.op \in Ops /\ x.cancelled \in BOOLEAN
                               /\ x = [do |-> x.do, op |-> x.op, cancelled |-> x.cancelled]
             /\ x.do = "cancelAll" => x.fd \in 0..MaxFd + 1
             /\ x.do = "ack" => x.by \in Threads /\ x.err \in BOOLEAN
             /\ x.do \in CbDo \cup AtBottom \cup {"cancelAll", "stop", "ack"}
  <2>1. CASE x \in [do : {"call", "handler", "return"}, op : Ops, cancelled : BOOLEAN]
    BY <2>1 DEF CbDo
  <2>2. CASE x \in [do : {"cancelAll"}, fd : 0..MaxFd + 1]
    BY <2>2 DEF CbDo
  <2>3. CASE x \in [do : {"read", "clear", "drain", "stop"}]
    BY <2>3 DEF CbDo, AtBottom
  <2>4. CASE x \in [do : {"ack"}, by : Threads, err : BOOLEAN]
    BY <2>4 DEF CbDo
  <2> QED BY <2>1, <2>2, <2>3, <2>4 DEF Item
<1>2. \A d \in CbDo, o \in Ops, c \in BOOLEAN : [do |-> d, op |-> o, cancelled |-> c] \in Item
  BY DEF Item, CbDo
<1>3. \A f \in 0..MaxFd + 1 : [do |-> "cancelAll", fd |-> f] \in Item
  BY DEF Item
<1>4. \A t \in Threads, e \in BOOLEAN : [do |-> "ack", by |-> t, err |-> e] \in Item
  BY DEF Item
<1>5. \A d \in {"read", "clear", "drain", "stop"} : [do |-> d] \in Item
  BY DEF Item
<1> QED BY <1>1, <1>2, <1>3, <1>4, <1>5

-----------------------------------------------------------------------------
(***************************************************************************)
(* Submission, cancellation and completion of operations.                  *)
(***************************************************************************)

(* The place of an operation is the one of its descriptor and direction.      *)
LEMMA SlotFacts ==
  ASSUME TablesTyped, NEW o \in Ops
  PROVE  /\ OpFd[o] \in Fds /\ o # None
         /\ o \in Writes => Slot(o) = writes[OpFd[o]]
         /\ o \notin Writes => Slot(o) = reads[OpFd[o]]
         /\ Slot(o) \in Ops \cup {None}
         /\ Slot(o) # None => Held(Slot(o))
<1>1. OpFd[o] \in Fds /\ o # None /\ Writes \subseteq Ops /\ None \notin Ops
  BY ProactorAssumption
<1>2. /\ o \in Writes => Slot(o) = writes[OpFd[o]]
      /\ o \notin Writes => Slot(o) = reads[OpFd[o]]
  BY DEF Slot
<1>3. /\ writes[OpFd[o]] \in Writes \cup {None} /\ reads[OpFd[o]] \in (Ops \ Writes) \cup {None}
      /\ writes[OpFd[o]] # None => OpFd[writes[OpFd[o]]] = OpFd[o]
      /\ reads[OpFd[o]] # None => OpFd[reads[OpFd[o]]] = OpFd[o]
  BY <1>1 DEF TablesTyped
<1> QED BY <1>1, <1>2, <1>3 DEF Held, Slot

(* Whoever is in a table is held.                                             *)
LEMMA TableHeld ==
  ASSUME TablesTyped, NEW f \in Fds
  PROVE  /\ reads[f] # None => reads[f] \in Ops /\ reads[f] \notin Writes /\ Held(reads[f]) /\ OpFd[reads[f]] = f
         /\ writes[f] # None => writes[f] \in Ops /\ writes[f] \in Writes /\ Held(writes[f]) /\ OpFd[writes[f]] = f
BY ProactorAssumption DEF TablesTyped, Held, Slot

(* An operation leaves its place.                                             *)
LEMMA PlaceNone ==
  ASSUME TablesTyped, NEW o \in Ops, Held(o), Place(o, None)
  PROVE  TablesTyped' /\ \A p \in Ops : Held(p)' <=> Held(p) /\ p # o
<1>1. OpFd[o] \in Fds /\ o # None /\ Writes \subseteq Ops /\ None \notin Ops /\ OpFd \in [Ops -> Fds]
  BY ProactorAssumption
<1>2. CASE o \in Writes
  <2>1. reads' = reads /\ writes' = [writes EXCEPT ![OpFd[o]] = None]
    BY <1>2 DEF Place
  <2>2. writes[OpFd[o]] = o
    BY <1>2 DEF Held, Slot
  <2>3. writes' \in [Fds -> Writes \cup {None}] /\ \A f \in Fds : writes'[f] = IF f = OpFd[o] THEN None ELSE writes[f]
    BY <2>1, <1>1 DEF TablesTyped
  <2>4. TablesTyped'
    BY <2>1, <2>3 DEF TablesTyped
  <2>5. ASSUME NEW p \in Ops PROVE Held(p)' <=> Held(p) /\ p # o
    BY <1>1, <1>2, <2>1, <2>2, <2>3 DEF Held, Slot
  <2> QED BY <2>4, <2>5
<1>3. CASE o \notin Writes
  <2>1. writes' = writes /\ reads' = [reads EXCEPT ![OpFd[o]] = None]
    BY <1>3 DEF Place
  <2>2. reads[OpFd[o]] = o
    BY <1>3 DEF Held, Slot
  <2>3. reads' \in [Fds -> (Ops \ Writes) \cup {None}] /\ \A f \in Fds : reads'[f] = IF f = OpFd[o] THEN None ELSE reads[f]
    BY <2>1, <1>1 DEF TablesTyped
  <2>4. TablesTyped'
    BY <2>1, <2>3 DEF TablesTyped
  <2>5. ASSUME NEW p \in Ops PROVE Held(p)' <=> Held(p) /\ p # o
    BY <1>1, <1>3, <2>1, <2>2, <2>3 DEF Held, Slot
  <2> QED BY <2>4, <2>5
<1> QED BY <1>2, <1>3

(* An operation takes its place, which was empty.                             *)
LEMMA PlaceSelf ==
  ASSUME TablesTyped, NEW o \in Ops, Slot(o) = None, Place(o, o)
  PROVE  TablesTyped' /\ \A p \in Ops : Held(p)' <=> Held(p) \/ p = o
<1>1. OpFd[o] \in Fds /\ o # None /\ Writes \subseteq Ops /\ None \notin Ops /\ OpFd \in [Ops -> Fds]
  BY ProactorAssumption
<1>2. CASE o \in Writes
  <2>1. reads' = reads /\ writes' = [writes EXCEPT ![OpFd[o]] = o]
    BY <1>2 DEF Place
  <2>2. writes[OpFd[o]] = None
    BY <1>2 DEF Slot
  <2>3. writes' \in [Fds -> Writes \cup {None}] /\ \A f \in Fds : writes'[f] = IF f = OpFd[o] THEN o ELSE writes[f]
    BY <2>1, <1>1, <1>2 DEF TablesTyped
  <2>4. TablesTyped'
    BY <2>1, <2>3 DEF TablesTyped
  <2>5. ASSUME NEW p \in Ops PROVE Held(p)' <=> Held(p) \/ p = o
    BY <1>1, <1>2, <2>1, <2>2, <2>3 DEF Held, Slot
  <2> QED BY <2>4, <2>5
<1>3. CASE o \notin Writes
  <2>1. writes' = writes /\ reads' = [reads EXCEPT ![OpFd[o]] = o]
    BY <1>3 DEF Place
  <2>2. reads[OpFd[o]] = None
    BY <1>3 DEF Slot
  <2>3. reads' \in [Fds -> (Ops \ Writes) \cup {None}] /\ \A f \in Fds : reads'[f] = IF f = OpFd[o] THEN o ELSE reads[f]
    BY <2>1, <1>1, <1>3 DEF TablesTyped
  <2>4. TablesTyped'
    BY <2>1, <2>3 DEF TablesTyped
  <2>5. ASSUME NEW p \in Ops PROVE Held(p)' <=> Held(p) \/ p = o
    BY <1>1, <1>3, <2>1, <2>2, <2>3 DEF Held, Slot
  <2> QED BY <2>4, <2>5
<1> QED BY <1>2, <1>3

(* Both operations of a descriptor leave their places.                        *)
LEMMA PlacesEmptied ==
  ASSUME TablesTyped, NEW f \in Fds,
         reads' = [reads EXCEPT ![f] = None], writes' = [writes EXCEPT ![f] = None]
  PROVE  /\ TablesTyped'
         /\ \A p \in Ops : Held(p)' <=> Held(p) /\ p \notin {reads[f], writes[f]}
         /\ \A p \in Ops : OpFd[p] = f => ~Held(p)'
<1>1. Writes \subseteq Ops /\ None \notin Ops /\ OpFd \in [Ops -> Fds]
  BY ProactorAssumption
<1>2. /\ reads' \in [Fds -> (Ops \ Writes) \cup {None}] /\ writes' \in [Fds -> Writes \cup {None}]
      /\ \A g \in Fds : reads'[g] = (IF g = f THEN None ELSE reads[g]) /\ writes'[g] = (IF g = f THEN None ELSE writes[g])
  BY DEF TablesTyped
<1>3. TablesTyped'
  BY <1>2 DEF TablesTyped
<1>4. ASSUME NEW p \in Ops PROVE (Held(p)' <=> Held(p) /\ p \notin {reads[f], writes[f]}) /\ (OpFd[p] = f => ~Held(p)')
  <2>1. OpFd[p] \in Fds
    BY <1>1
  <2>2. (reads[f] = p => OpFd[p] = f) /\ (writes[f] = p => OpFd[p] = f) /\ (reads[f] = p => p \notin Writes) /\ (writes[f] = p => p \in Writes)
    BY <1>1 DEF TablesTyped
  <2> QED BY <1>1, <1>2, <2>1, <2>2 DEF Held, Slot
<1> QED BY <1>3, <1>4

(* A step of the loop's thread in which the operations os, which were in their tables, go to their
   callbacks; with os empty, a step that changes the rest of the stack only.   *)
LEMMA Transfer ==
  ASSUME OpsInv, NEW os \in SUBSET Ops, \A o \in os : Held(o),
         TablesTyped', \A p \in Ops : Held(p)' <=> Held(p) /\ p \notin os,
         state' \in [Ops -> {"Idle", "Submitted", "Cancelling"}],
         \A p \in Ops : state'[p] = "Idle" <=> state[p] = "Idle",
         \A p \in Ops \ os : state'[p] = state[p],
         asked' \subseteq Ops, UNCHANGED young,
         StackOK(stack'), loop' \in LoopPc, loop' # "dispatch" => stack' = <<>>,
         \A p \in Ops : Answering(Items(stack'), p) <=> Answering(Items(stack), p) \/ p \in os,
         \A x \in Items(stack') : x.do \in CbDo /\ x.cancelled => x.op \in asked',
         \A x \in Items(stack') : x.do = "cancelAll" =>
            \/ x.fd = 0 \/ x \in Items(stack)
            \/ \A p \in Ops : Held(p)' /\ OpFd[p] < x.fd => p \in young
  PROVE  OpsInv'
<1>1. OpsTyped' /\ HeldSubmitted'
  BY DEF OpsInv, OpsTyped, HeldSubmitted
<1>2. Accounted'
  <2> SUFFICES ASSUME NEW p \in Ops PROVE Answering(Items(stack'), p) <=> (state'[p] # "Idle" /\ ~Held(p)')
    BY DEF Accounted
  <2>1. Answering(Items(stack), p) <=> (state[p] # "Idle" /\ ~Held(p))
    BY DEF OpsInv, Accounted
  <2>2. p \in os => Held(p) /\ state[p] # "Idle"
    BY DEF OpsInv, HeldSubmitted
  <2> QED BY <2>1, <2>2
<1>3. CancelledAsked'
  BY DEF CancelledAsked
<1>4. Swept'
  <2> SUFFICES ASSUME NEW x \in Items(stack'), x.do = "cancelAll", NEW p \in Ops, Held(p)', OpFd[p] < x.fd
               PROVE  p \in young'
    BY DEF Swept
  <2>1. CASE x.fd = 0
    <3>1. OpFd[p] \in Nat
      BY ProactorAssumption DEF Fds
    <3> QED BY <2>1, <3>1
  <2>2. CASE x \in Items(stack)
    BY <2>2 DEF OpsInv, Swept
  <2> QED BY <2>1, <2>2
<1> QED BY <1>1, <1>2, <1>3, <1>4 DEF OpsInv

(* A stack with the same callbacks as the present one, and cancelAllOperations where it is or at its start. *)
SameCalls(c) ==
    /\ StackOK(c)
    /\ \A p \in Ops : Answering(Items(c), p) <=> Answering(Items(stack), p)
    /\ \A x \in Items(c) : /\ x.do \in CbDo /\ x.cancelled => x.op \in asked
                           /\ x.do = "cancelAll" => x.fd = 0 \/ x \in Items(stack)

(* The present stack.                                                         *)
LEMMA SameStack == OpsInv => SameCalls(stack)
BY DEF OpsInv, SameCalls, CancelledAsked

(* The first item, if it is no callback, may go.                              *)
LEMMA SamePop ==
  ASSUME OpsInv, stack # <<>>, Head(stack).do \notin CbDo
  PROVE  SameCalls(Tail(stack))
<1>1. StackOK(stack) /\ CancelledAsked
  BY DEF OpsInv
<1>2. StackOK(Tail(stack)) /\ Items(stack) = {Head(stack)} \cup Items(Tail(stack))
  BY <1>1, PopOK
<1>3. \A p \in Ops : Answering(Items(Tail(stack)), p) <=> Answering(Items(stack), p)
  BY <1>2 DEF Answering
<1> QED BY <1>1, <1>2, <1>3 DEF SameCalls, CancelledAsked

(* A callback goes from one of its stages to another.                         *)
LEMMA SameRename ==
  ASSUME OpsInv, stack # <<>>, Head(stack).do \in CbDo, NEW d \in CbDo
  PROVE  /\ SameCalls(<<[Head(stack) EXCEPT !.do = d]>> \o Tail(stack))
         /\ Items(<<[Head(stack) EXCEPT !.do = d]>> \o Tail(stack)) = {[Head(stack) EXCEPT !.do = d]} \cup Items(Tail(stack))
<1>1. StackOK(stack) /\ CancelledAsked
  BY DEF OpsInv
<1> PICK h, r : h = Head(stack) /\ r = Tail(stack)
  OBVIOUS
<1>2. h \in Item /\ StackOK(r) /\ Items(stack) = {h} \cup Items(r) /\ ~Answering(Items(r), h.op)
  BY <1>1, PopOK
<1>3. h = [do |-> h.do, op |-> h.op, cancelled |-> h.cancelled] /\ h.op \in Ops /\ h.cancelled \in BOOLEAN
  BY <1>2, ItemFacts
<1> DEFINE x == [h EXCEPT !.do = d]
<1>4. x.do = d /\ x.op = h.op /\ x.cancelled = h.cancelled /\ x = [do |-> d, op |-> h.op, cancelled |-> h.cancelled]
  BY <1>3
<1>5. x \in Item /\ x.do \notin AtBottom /\ x.do # "cancelAll"
  <2>1. x \in Item
    BY <1>3, <1>4, ItemFacts
  <2> QED BY <2>1, <1>4 DEF CbDo, AtBottom
<1> HIDE DEF x
<1> PICK c : c = <<x>> \o r
  OBVIOUS
<1>6. StackOK(c) /\ Items(c) = {x} \cup Items(r)
  BY <1>2, <1>4, <1>5, PushOK
<1>7. \A p \in Ops : Answering(Items(c), p) <=> Answering(Items(stack), p)
  BY <1>2, <1>4, <1>6 DEF Answering
<1>8. \A y \in Items(c) : /\ y.do \in CbDo /\ y.cancelled => y.op \in asked
                          /\ y.do = "cancelAll" => y \in Items(stack)
  BY <1>1, <1>2, <1>4, <1>5, <1>6 DEF CancelledAsked
<1>9. SameCalls(c) /\ Items(c) = {x} \cup Items(r)
  BY <1>6, <1>7, <1>8 DEF SameCalls
<1> QED BY <1>9 DEF x

(* What a command or a handler adds: an acknowledgement, the reactor's stop, a cancelAllOperations. *)
LEMMA SamePush ==
  ASSUME NEW c, SameCalls(c), NEW x \in Item, x.do \in {"ack", "stop"} \/ (x.do = "cancelAll" /\ x.fd = 0)
  PROVE  SameCalls(<<x>> \o c)
<1>1. x.do \notin AtBottom /\ x.do \notin CbDo
  BY DEF AtBottom, CbDo
<1> PICK d : d = <<x>> \o c
  OBVIOUS
<1>2. StackOK(d) /\ Items(d) = {x} \cup Items(c)
  BY <1>1, PushOK DEF SameCalls
<1>3. \A p \in Ops : Answering(Items(d), p) <=> Answering(Items(stack), p)
  BY <1>1, <1>2 DEF SameCalls, Answering
<1>4. \A y \in Items(d) : /\ y.do \in CbDo /\ y.cancelled => y.op \in asked
                          /\ y.do = "cancelAll" => y.fd = 0 \/ y \in Items(stack)
  BY <1>1, <1>2 DEF SameCalls
<1>5. SameCalls(d)
  BY <1>2, <1>3, <1>4 DEF SameCalls
<1> QED BY <1>5

(* readCommands goes on from one of its stages to the next.                   *)
LEMMA SameBottom ==
  ASSUME OpsInv, stack # <<>>, Head(stack).do \in AtBottom, NEW d \in AtBottom
  PROVE  SameCalls(<<[do |-> d]>> \o Tail(stack)) /\ <<[do |-> d]>> \o Tail(stack) = <<[do |-> d]>>
<1>1. StackOK(stack)
  BY DEF OpsInv
<1>2. Tail(stack) = <<>> /\ Items(stack) = {Head(stack)} \cup Items(Tail(stack)) /\ Items(<<>>) = {}
  BY <1>1, PopOK, EmptyOK
<1> PICK x : x = [do |-> d]
  OBVIOUS
<1>3. x \in Item /\ x.do = d /\ x.do \notin CbDo /\ x.do # "cancelAll" /\ Head(stack).do \notin CbDo
  BY ItemFacts DEF AtBottom, CbDo
<1>4. <<x>> \o Tail(stack) = <<x>>
  <2>1. <<x>> \in Seq(Item)
    BY <1>3
  <2> QED BY <1>2, <2>1, ConcatEmptySeq
<1>5. StackOK(<<x>>) /\ Items(<<x>>) = {x}
  BY <1>3, OneOK
<1>6. SameCalls(<<x>>)
  BY <1>2, <1>3, <1>5 DEF SameCalls, Answering
<1> QED BY <1>4, <1>6

(* A step that leaves the tables alone.                                       *)
LEMMA QuietInv ==
  ASSUME OpsInv, UNCHANGED tableVars, SameCalls(stack'), loop' \in LoopPc, loop' # "dispatch" => stack' = <<>>
  PROVE  OpsInv'
<1>1. TablesTyped' /\ \A p \in Ops : Held(p)' <=> Held(p)
  BY DEF tableVars, OpsInv, TablesTyped, Held, Slot
<1>2. asked' \subseteq Ops /\ asked' = asked /\ young' = young /\ state' = state
      /\ state' \in [Ops -> {"Idle", "Submitted", "Cancelling"}]
  BY DEF tableVars, OpsInv, OpsTyped
<1>3. {} \in SUBSET Ops
  OBVIOUS
<1> QED BY <1>1, <1>2, <1>3, Transfer DEF SameCalls

(* submitOperation, from a command or a handler.                              *)
LEMMA SubmitInv ==
  ASSUME OpsInv, NEW o \in Ops, NEW refused, SubmitOperation(o, refused), SameCalls(stack'), loop = "dispatch", UNCHANGED loop
  PROVE  OpsInv'
<1>1. CASE Rejected(o, refused)
  BY <1>1, QuietInv DEF SubmitOperation, OpsInv
<1>2. CASE ~Rejected(o, refused)
  <2>1. /\ Place(o, o) /\ state' = [state EXCEPT ![o] = "Submitted"] /\ UNCHANGED asked
        /\ young' = (IF CancellingAll(stack) THEN young \cup {o} ELSE young)
    BY <1>2 DEF SubmitOperation
  <2>2. state[o] = "Idle" /\ Slot(o) = None
    BY <1>2 DEF Rejected
  <2>3. TablesTyped' /\ \A p \in Ops : Held(p)' <=> Held(p) \/ p = o
    BY <2>1, <2>2, PlaceSelf DEF OpsInv
  <2>4. state' \in [Ops -> {"Idle", "Submitted", "Cancelling"}] /\ \A p \in Ops : state'[p] = IF p = o THEN "Submitted" ELSE state[p]
    BY <2>1 DEF OpsInv, OpsTyped
  <2>5. OpsTyped' /\ HeldSubmitted'
    BY <2>1, <2>3, <2>4 DEF OpsInv, OpsTyped, HeldSubmitted
  <2>6. Accounted'
    <3> SUFFICES ASSUME NEW p \in Ops PROVE Answering(Items(stack'), p) <=> (state'[p] # "Idle" /\ ~Held(p)')
      BY DEF Accounted
    <3>1. Answering(Items(stack'), p) <=> (state[p] # "Idle" /\ ~Held(p))
      BY DEF OpsInv, Accounted, SameCalls
    <3> QED BY <2>2, <2>3, <2>4, <3>1
  <2>7. CancelledAsked'
    BY <2>1 DEF SameCalls, CancelledAsked
  <2>8. Swept'
    <3> SUFFICES ASSUME NEW x \in Items(stack'), x.do = "cancelAll", NEW p \in Ops, Held(p)', OpFd[p] < x.fd
                 PROVE  p \in young'
      BY DEF Swept
    <3>1. x \in Items(stack)
      <4>1. OpFd[p] \in Nat
        BY ProactorAssumption DEF Fds
      <4> QED BY <4>1 DEF SameCalls
    <3>2. CancellingAll(stack)
      <4>1. stack \in Seq(Item)
        BY DEF OpsInv, StackOK
      <4> QED BY <3>1, <4>1 DEF Items, CancellingAll
    <3>3. Held(p) => p \in young
      BY <3>1 DEF OpsInv, Swept
    <3> QED BY <2>1, <2>3, <3>2, <3>3
  <2> QED BY <2>3, <2>5, <2>6, <2>7, <2>8 DEF OpsInv, SameCalls
<1> QED BY <1>1, <1>2

(* The callback that goes on the stack when an operation leaves its table.    *)
LEMMA CallFacts ==
  ASSUME NEW o \in Ops, NEW cancelled \in BOOLEAN
  PROVE  \E x \in Item : /\ Call(o, cancelled) = <<x>> /\ x.do = "call" /\ x.op = o /\ x.cancelled = cancelled
                         /\ x.do \in CbDo /\ x.do \notin AtBottom /\ x.do # "cancelAll"
<1> PICK x : x = [do |-> "call", op |-> o, cancelled |-> cancelled]
  OBVIOUS
<1>1. x \in Item /\ x.do = "call" /\ x.op = o /\ x.cancelled = cancelled
  BY ItemFacts DEF CbDo
<1>2. Call(o, cancelled) = <<x>>
  BY ProactorAssumption DEF Call
<1>3. "call" \in CbDo /\ "call" \notin AtBottom
  BY DEF CbDo, AtBottom
<1> QED BY <1>1, <1>2, <1>3

(* cancelOperation, from a command or a handler.                              *)
LEMMA CancelInv ==
  ASSUME OpsInv, NEW o \in Ops, NEW rest, SameCalls(rest), CancelOperation(o, rest), loop = "dispatch", UNCHANGED loop
  PROVE  OpsInv'
<1>1. CASE CancelRejected(o)
  BY <1>1, QuietInv DEF CancelOperation, OpsInv
<1>2. CASE ~CancelRejected(o)
  <2>1. /\ Place(o, None) /\ state' = [state EXCEPT ![o] = "Cancelling"] /\ asked' = asked \cup {o}
        /\ stack' = Call(o, TRUE) \o rest /\ UNCHANGED young
    BY <1>2 DEF CancelOperation
  <2>2. state[o] = "Submitted" /\ Held(o)
    BY <1>2 DEF CancelRejected, Held
  <2>3. TablesTyped' /\ \A p \in Ops : Held(p)' <=> Held(p) /\ p \notin {o}
    BY <2>1, <2>2, PlaceNone DEF OpsInv
  <2>4. state' \in [Ops -> {"Idle", "Submitted", "Cancelling"}] /\ \A p \in Ops : state'[p] = IF p = o THEN "Cancelling" ELSE state[p]
    BY <2>1 DEF OpsInv, OpsTyped
  <2>5. asked' \subseteq Ops
    BY <2>1 DEF OpsInv, OpsTyped
  <2>6. PICK x \in Item : /\ Call(o, TRUE) = <<x>> /\ x.do = "call" /\ x.op = o /\ x.cancelled = TRUE
                          /\ x.do \in CbDo /\ x.do \notin AtBottom /\ x.do # "cancelAll"
    BY CallFacts
  <2>7. ~Answering(Items(rest), o)
    BY <2>2 DEF OpsInv, Accounted, SameCalls
  <2>8. StackOK(stack') /\ Items(stack') = {x} \cup Items(rest)
    BY <2>1, <2>6, <2>7, PushOK DEF SameCalls
  <2>9. \A p \in Ops : Answering(Items(stack'), p) <=> Answering(Items(stack), p) \/ p \in {o}
    <3>1. \A p \in Ops : Answering(Items(stack'), p) <=> Answering(Items(rest), p) \/ p = o
      BY <2>6, <2>8 DEF Answering
    <3> QED BY <3>1 DEF SameCalls
  <2>10. \A y \in Items(stack') : /\ y.do \in CbDo /\ y.cancelled => y.op \in asked'
                                  /\ y.do = "cancelAll" => y.fd = 0 \/ y \in Items(stack)
    BY <2>1, <2>6, <2>8 DEF SameCalls
  <2>11. {o} \in SUBSET Ops /\ loop' \in LoopPc /\ loop' = "dispatch" /\ \A q \in {o} : Held(q)
    BY <2>2 DEF OpsInv
  <2>12. \A p \in Ops : state'[p] = "Idle" <=> state[p] = "Idle"
    BY <2>2, <2>4
  <2>13. \A p \in Ops \ {o} : state'[p] = state[p]
    BY <2>4
  <2> HIDE DEF Held, StackOK, Items, Answering, TablesTyped, OpsInv
  <2> QED BY <2>1, <2>3, <2>4, <2>5, <2>8, <2>9, <2>10, <2>11, <2>12, <2>13, Transfer, Zenon
<1> QED BY <1>1, <1>2

(* What goes on the stack for an operation that leaves its table: nothing if there is none. *)
IsCall(q, o) ==
    /\ o = None => q = <<>>
    /\ o # None => \E x \in Item : q = <<x>> /\ x.do = "call" /\ x.op = o

(* Call gives that.                                                           *)
LEMMA CallIs ==
  ASSUME NEW o \in Ops \cup {None}
  PROVE  IsCall(Call(o, TRUE), o) /\ IsCall(Call(o, FALSE), o)
<1>1. CASE o = None
  BY <1>1 DEF IsCall, Call
<1>2. CASE o # None
  <2>1. o \in Ops
    BY <1>2
  <2>2. \E x \in Item : Call(o, TRUE) = <<x>> /\ x.do = "call" /\ x.op = o
    BY <2>1, CallFacts
  <2>3. \E x \in Item : Call(o, FALSE) = <<x>> /\ x.do = "call" /\ x.op = o
    BY <2>1, CallFacts
  <2> QED BY <1>2, <2>2, <2>3 DEF IsCall
<1> QED BY <1>1, <1>2

MayPush(o, q, s, c) ==
    o \in Ops \cup {None} /\ IsCall(q, o) /\ StackOK(s) /\ (o # None => ~Answering(Items(s), o)) /\ c = q \o s

Pushed(o, q, s, c) ==
    /\ StackOK(c)
    /\ \A p \in Ops : Answering(Items(c), p) <=> Answering(Items(s), p) \/ p = o
    /\ \A y \in Items(c) : y \in Items(s) \/ (o # None /\ q = <<y>> /\ y.do = "call" /\ y.op = o)

(* The callback of an operation, or nothing, before a stack that has none of that operation. *)
LEMMA CallPush == ASSUME NEW o, NEW q, NEW s, NEW c, MayPush(o, q, s, c) PROVE Pushed(o, q, s, c)
<1>0. o \in Ops \cup {None} /\ IsCall(q, o) /\ StackOK(s) /\ (o # None => ~Answering(Items(s), o)) /\ c = q \o s
  BY DEF MayPush
<1>1. s \in Seq(Item) /\ None \notin Ops
  BY <1>0, ProactorAssumption DEF StackOK
<1>2. CASE o = None
  <2>1. c = s
    BY <1>0, <1>1, <1>2, ConcatFacts DEF IsCall
  <2> QED BY <1>0, <1>1, <1>2, <2>1 DEF Pushed
<1>3. CASE o # None
  <2>1. PICK x \in Item : q = <<x>> /\ x.do = "call" /\ x.op = o
    BY <1>0, <1>3 DEF IsCall
  <2>2. x.do \in CbDo /\ x.do \notin AtBottom
    BY <2>1 DEF CbDo, AtBottom
  <2>3. StackOK(c) /\ Items(c) = {x} \cup Items(s)
    BY <1>0, <1>3, <2>1, <2>2, PushOK
  <2>4. \A p \in Ops : Answering(Items(c), p) <=> Answering(Items(s), p) \/ p = o
    BY <2>1, <2>2, <2>3 DEF Answering
  <2>5. \A y \in Items(c) : y \in Items(s) \/ (o # None /\ q = <<y>> /\ y.do = "call" /\ y.op = o)
    BY <1>3, <2>1, <2>3
  <2> QED BY <2>3, <2>4, <2>5 DEF Pushed
<1> QED BY <1>2, <1>3

MayEmpty(f, qa, qb, rest, os) ==
    /\ IsCall(qa, reads[f]) /\ IsCall(qb, writes[f]) /\ StackOK(rest)
    /\ \A p \in Ops : Answering(Items(rest), p) <=> Answering(Items(stack), p)
    /\ reads' = [reads EXCEPT ![f] = None] /\ writes' = [writes EXCEPT ![f] = None]
    /\ stack' = qa \o qb \o rest /\ os = {reads[f], writes[f]} \ {None}

Emptied(f, qa, qb, rest, os) ==
    /\ os \in SUBSET Ops /\ \A o \in os : Held(o)
    /\ TablesTyped' /\ \A p \in Ops : Held(p)' <=> Held(p) /\ p \notin os
    /\ \A p \in Ops : OpFd[p] = f => ~Held(p)'
    /\ StackOK(stack')
    /\ \A p \in Ops : Answering(Items(stack'), p) <=> Answering(Items(stack), p) \/ p \in os
    /\ \A y \in Items(stack') : y \in Items(rest) \/ (y.do = "call" /\ y.op \in os /\ (qa = <<y>> \/ qb = <<y>>))

(* cancelAllOperations, onClose and onError for one descriptor: what leaves the tables goes on the stack. *)
LEMMA EmptyStack ==
  ASSUME OpsInv, NEW f \in Fds, NEW qa, NEW qb, NEW rest, NEW os, MayEmpty(f, qa, qb, rest, os)
  PROVE  Emptied(f, qa, qb, rest, os)
<1>0. /\ IsCall(qa, reads[f]) /\ IsCall(qb, writes[f]) /\ StackOK(rest)
      /\ \A p \in Ops : Answering(Items(rest), p) <=> Answering(Items(stack), p)
      /\ reads' = [reads EXCEPT ![f] = None] /\ writes' = [writes EXCEPT ![f] = None]
      /\ stack' = qa \o qb \o rest /\ os = {reads[f], writes[f]} \ {None}
  BY DEF MayEmpty
<1>1. TablesTyped /\ None \notin Ops
  BY ProactorAssumption DEF OpsInv
<1>2. /\ reads[f] # None => reads[f] \in Ops /\ reads[f] \notin Writes /\ Held(reads[f])
      /\ writes[f] # None => writes[f] \in Ops /\ writes[f] \in Writes /\ Held(writes[f])
  BY <1>1, TableHeld
<1>4. /\ TablesTyped' /\ \A p \in Ops : OpFd[p] = f => ~Held(p)'
      /\ \A p \in Ops : Held(p)' <=> Held(p) /\ p \notin {reads[f], writes[f]}
  BY <1>0, <1>1, PlacesEmptied
<1> PICK a, b : a = reads[f] /\ b = writes[f]
  OBVIOUS
<1>5. a \in Ops \cup {None} /\ b \in Ops \cup {None} /\ (a # None => a # b) /\ IsCall(qa, a) /\ IsCall(qb, b)
  BY <1>0, <1>2
<1>6. /\ a # None => ~Answering(Items(rest), a)
      /\ b # None => ~Answering(Items(rest), b)
  BY <1>0, <1>2 DEF OpsInv, Accounted
<1> PICK s : s = qb \o rest
  OBVIOUS
<1>7. /\ StackOK(s) /\ \A p \in Ops : Answering(Items(s), p) <=> Answering(Items(rest), p) \/ p = b
      /\ \A y \in Items(s) : y \in Items(rest) \/ (b # None /\ qb = <<y>> /\ y.do = "call" /\ y.op = b)
  <2>1. MayPush(b, qb, rest, s)
    BY <1>0, <1>5, <1>6 DEF MayPush
  <2>2. Pushed(b, qb, rest, s)
    BY <2>1, CallPush, Zenon
  <2> QED BY <2>2 DEF Pushed
<1>8. a # None => ~Answering(Items(s), a)
  BY <1>5, <1>6, <1>7
<1> PICK c : c = qa \o s
  OBVIOUS
<1>9. /\ StackOK(c) /\ \A p \in Ops : Answering(Items(c), p) <=> Answering(Items(s), p) \/ p = a
      /\ \A y \in Items(c) : y \in Items(s) \/ (a # None /\ qa = <<y>> /\ y.do = "call" /\ y.op = a)
  <2>1. MayPush(a, qa, s, c)
    BY <1>5, <1>7, <1>8 DEF MayPush
  <2>2. Pushed(a, qa, s, c)
    BY <2>1, CallPush, Zenon
  <2> QED BY <2>2 DEF Pushed
<1>10. stack' = c
  <2>1. ASSUME NEW q, NEW o, IsCall(q, o) PROVE q \in Seq(Item)
    <3>1. CASE o = None
      BY <2>1, <3>1 DEF IsCall
    <3>2. CASE o # None
      <4>1. PICK x \in Item : q = <<x>>
        BY <2>1, <3>2 DEF IsCall
      <4> QED BY <4>1
    <3> QED BY <3>1, <3>2
  <2>2. rest \in Seq(Item) /\ qa \in Seq(Item) /\ qb \in Seq(Item)
    <3>1. qa \in Seq(Item) /\ qb \in Seq(Item)
      BY <1>5, <2>1, Zenon
    <3> QED BY <1>0, <3>1 DEF StackOK
  <2>3. (qa \o qb) \o rest = qa \o (qb \o rest)
    BY <2>2, ConcatAssociative
  <2> QED BY <1>0, <2>3
<1>11. StackOK(stack')
  BY <1>9, <1>10
<1>12. \A p \in Ops : Answering(Items(stack'), p) <=> Answering(Items(stack), p) \/ p \in os
  BY <1>0, <1>1, <1>7, <1>9, <1>10
<1>13. \A y \in Items(stack') : y \in Items(rest) \/ (y.do = "call" /\ y.op \in os /\ (qa = <<y>> \/ qb = <<y>>))
  BY <1>0, <1>7, <1>9, <1>10
<1>14. os \in SUBSET Ops /\ \A o \in os : Held(o)
  BY <1>0, <1>2
<1>15. \A p \in Ops : Held(p)' <=> Held(p) /\ p \notin os
  BY <1>0, <1>1, <1>4
<1> QED BY <1>4, <1>11, <1>12, <1>13, <1>14, <1>15 DEF Emptied

EmptiedTo(f, rest, os) ==
    /\ StackOK(rest) /\ \A p \in Ops : Answering(Items(rest), p) <=> Answering(Items(stack), p)
    /\ os = {reads[f], writes[f]} \ {None}

TablesEmptied(f, rest, os) ==
    /\ os \in SUBSET Ops /\ \A o \in os : Held(o)
    /\ TablesTyped' /\ \A p \in Ops : Held(p)' <=> Held(p) /\ p \notin os
    /\ \A p \in Ops : OpFd[p] = f => ~Held(p)'
    /\ StackOK(stack') /\ UNCHANGED state
    /\ \A p \in Ops : Answering(Items(stack'), p) <=> Answering(Items(stack), p) \/ p \in os
    /\ \A y \in Items(stack') :
          y \in Items(rest) \/ (y.do = "call" /\ y.op \in os /\ (Empty(f, FALSE, rest) => ~y.cancelled))

(* The same for Empty as it stands, with what it cancels.                     *)
LEMMA EmptyFacts ==
  ASSUME OpsInv, NEW f \in Fds, NEW rest, NEW os, EmptiedTo(f, rest, os),
         Empty(f, TRUE, rest) \/ Empty(f, FALSE, rest)
  PROVE  TablesEmptied(f, rest, os)
<1>0. /\ StackOK(rest) /\ \A p \in Ops : Answering(Items(rest), p) <=> Answering(Items(stack), p)
      /\ os = {reads[f], writes[f]} \ {None}
  BY DEF EmptiedTo
<1>1. reads[f] \in Ops \cup {None} /\ writes[f] \in Ops \cup {None}
  BY ProactorAssumption DEF OpsInv, TablesTyped
<1>2. PICK qa, qb : /\ IsCall(qa, reads[f]) /\ IsCall(qb, writes[f]) /\ stack' = qa \o qb \o rest
                    /\ Empty(f, FALSE, rest) => qa = Call(reads[f], FALSE) /\ qb = Call(writes[f], FALSE)
  <2>1. CASE Empty(f, FALSE, rest)
    BY <2>1, <1>1, CallIs DEF Empty
  <2>2. CASE ~Empty(f, FALSE, rest)
    <3>1. stack' = Call(reads[f], TRUE) \o Call(writes[f], TRUE) \o rest
      BY <2>2 DEF Empty
    <3> QED BY <2>2, <3>1, <1>1, CallIs
  <2> QED BY <2>1, <2>2
<1>3. reads' = [reads EXCEPT ![f] = None] /\ writes' = [writes EXCEPT ![f] = None] /\ UNCHANGED state
  BY DEF Empty
<1>4. /\ os \in SUBSET Ops /\ \A o \in os : Held(o)
      /\ TablesTyped' /\ \A p \in Ops : Held(p)' <=> Held(p) /\ p \notin os
      /\ \A p \in Ops : OpFd[p] = f => ~Held(p)'
      /\ StackOK(stack')
      /\ \A p \in Ops : Answering(Items(stack'), p) <=> Answering(Items(stack), p) \/ p \in os
      /\ \A y \in Items(stack') : y \in Items(rest) \/ (y.do = "call" /\ y.op \in os /\ (qa = <<y>> \/ qb = <<y>>))
  <2>1. MayEmpty(f, qa, qb, rest, os)
    BY <1>0, <1>2, <1>3 DEF MayEmpty
  <2>2. Emptied(f, qa, qb, rest, os)
    BY <2>1, EmptyStack, Zenon
  <2> QED BY <2>2 DEF Emptied
<1>5. ASSUME NEW y, qa = <<y>> \/ qb = <<y>>, Empty(f, FALSE, rest) PROVE ~y.cancelled
  <2>1. PICK o \in Ops \cup {None} : Call(o, FALSE) = <<y>>
    BY <1>1, <1>2, <1>5
  <2>2. o # None
    BY <2>1 DEF Call
  <2>3. y = [do |-> "call", op |-> o, cancelled |-> FALSE]
    BY <2>1, <2>2 DEF Call
  <2> QED BY <2>3
<1> QED BY <1>3, <1>4, <1>5 DEF TablesEmptied

(* onClose and onError.                                                       *)
LEMMA CloseInv ==
  ASSUME OpsInv, NEW f \in Fds, stack = <<>>, Empty(f, FALSE, <<>>), UNCHANGED <<young, asked, loop>>, loop = "dispatch"
  PROVE  OpsInv'
<1> PICK os : os = {reads[f], writes[f]} \ {None}
  OBVIOUS
<1> PICK rest : rest = <<>>
  OBVIOUS
<1>1. StackOK(rest) /\ Items(rest) = {} /\ Items(stack) = {} /\ Empty(f, FALSE, rest)
  BY EmptyOK
<1>2. \A p \in Ops : Answering(Items(rest), p) <=> Answering(Items(stack), p)
  BY <1>1
<1>3. /\ os \in SUBSET Ops /\ \A o \in os : Held(o)
      /\ TablesTyped' /\ \A p \in Ops : Held(p)' <=> Held(p) /\ p \notin os
      /\ StackOK(stack') /\ UNCHANGED state
      /\ \A p \in Ops : Answering(Items(stack'), p) <=> Answering(Items(stack), p) \/ p \in os
      /\ \A y \in Items(stack') : y \in Items(rest) \/ (y.do = "call" /\ y.op \in os /\ (Empty(f, FALSE, rest) => ~y.cancelled))
  <2>1. EmptiedTo(f, rest, os)
    BY <1>1, <1>2 DEF EmptiedTo
  <2>2. TablesEmptied(f, rest, os)
    BY <1>1, <2>1, EmptyFacts
  <2> QED BY <2>2 DEF TablesEmptied
<1>4. state' \in [Ops -> {"Idle", "Submitted", "Cancelling"}] /\ asked' \subseteq Ops /\ loop' \in LoopPc
  BY <1>3 DEF OpsInv, OpsTyped
<1>5. \A y \in Items(stack') : ~y.cancelled /\ y.do # "cancelAll"
  BY <1>1, <1>3
<1> QED BY <1>3, <1>4, <1>5, Transfer

(* cancelAllOperations: a descriptor, or the end.                             *)
LEMMA CancelAllInv == ASSUME OpsInv, CancelAllOperations PROVE OpsInv'
<1>1. loop = "dispatch" /\ loop' = loop /\ stack # <<>> /\ Head(stack).do = "cancelAll"
  BY DEF CancelAllOperations, Doing
<1> PICK h, r : h = Head(stack) /\ r = Tail(stack)
  OBVIOUS
<1>2. StackOK(stack) /\ MaxFd \in Nat
  BY ProactorAssumption DEF OpsInv
<1>3. h \in Item /\ StackOK(r) /\ Items(stack) = {h} \cup Items(r) /\ h.fd \in 0..MaxFd + 1 /\ h.do = "cancelAll"
  BY <1>1, <1>2, PopOK, ItemFacts
<1>4. h.do \notin CbDo
  BY <1>3 DEF CbDo
<1>5. SameCalls(r)
  BY <1>1, <1>4, SamePop
<1>6. CASE h.fd > MaxFd
  <2>1. stack' = r /\ young' = (IF CancellingAll(r) THEN young ELSE {}) /\ UNCHANGED <<reads, writes, state, asked>>
    BY <1>6 DEF CancelAllOperations, Rest
  <2>2. CASE CancellingAll(r)
    BY <1>1, <1>5, <2>1, <2>2, QuietInv DEF tableVars, OpsInv
  <2>3. CASE ~CancellingAll(r)
    <3>1. \A x \in Items(r) : x.do # "cancelAll"
      <4>1. r \in Seq(Item)
        BY <1>3 DEF StackOK
      <4>2. DOMAIN r = 1..Len(r)
        BY <4>1, LenProperties
      <4> QED BY <2>3, <4>2 DEF CancellingAll, Items
    <3>2. TablesTyped' /\ HeldSubmitted'
      BY <2>1 DEF OpsInv, TablesTyped, HeldSubmitted, Held, Slot
    <3>3. \A p \in Ops : Held(p)' <=> Held(p)
      BY <2>1 DEF Held, Slot
    <3>4. OpsTyped'
      BY <2>1, <2>3 DEF OpsInv, OpsTyped
    <3>5. Accounted'
      BY <1>5, <2>1, <3>3 DEF OpsInv, Accounted, SameCalls
    <3>6. CancelledAsked' /\ Swept'
      BY <1>5, <2>1, <3>1 DEF SameCalls, CancelledAsked, Swept
    <3> QED BY <1>1, <1>3, <2>1, <3>2, <3>4, <3>5, <3>6 DEF OpsInv
  <2> QED BY <2>2, <2>3
<1>7. CASE ~(h.fd > MaxFd)
  <2> PICK f \in Fds : f = h.fd
    BY <1>2, <1>3, <1>7 DEF Fds
  <2> PICK x : x = [do |-> "cancelAll", fd |-> f + 1]
    OBVIOUS
  <2> PICK rest : rest = <<x>> \o r
    OBVIOUS
  <2> PICK os : os = {reads[f], writes[f]} \ {None}
    OBVIOUS
  <2>1. Empty(f, TRUE, rest) /\ asked' = asked \cup os /\ UNCHANGED young
    BY <1>7 DEF CancelAllOperations, Rest
  <2>2. x \in Item /\ x.do = "cancelAll" /\ x.fd = f + 1 /\ x.do \notin CbDo /\ x.do \notin AtBottom
    <3>1. f + 1 \in 0..MaxFd + 1
      BY <1>2 DEF Fds
    <3> QED BY <3>1, ItemFacts DEF CbDo, AtBottom
  <2>3. StackOK(rest) /\ Items(rest) = {x} \cup Items(r)
    BY <1>3, <2>2, PushOK
  <2>4. \A p \in Ops : Answering(Items(rest), p) <=> Answering(Items(stack), p)
    BY <1>3, <1>4, <2>2, <2>3 DEF Answering
  <2>5. /\ os \in SUBSET Ops /\ \A o \in os : Held(o)
        /\ TablesTyped' /\ \A p \in Ops : Held(p)' <=> Held(p) /\ p \notin os
        /\ \A p \in Ops : OpFd[p] = f => ~Held(p)'
        /\ StackOK(stack') /\ UNCHANGED state
        /\ \A p \in Ops : Answering(Items(stack'), p) <=> Answering(Items(stack), p) \/ p \in os
        /\ \A y \in Items(stack') : y \in Items(rest) \/ (y.do = "call" /\ y.op \in os /\ (Empty(f, FALSE, rest) => ~y.cancelled))
    <3>1. EmptiedTo(f, rest, os)
      BY <2>3, <2>4 DEF EmptiedTo
    <3>2. TablesEmptied(f, rest, os)
      BY <2>1, <3>1, EmptyFacts
    <3> QED BY <3>2 DEF TablesEmptied
  <2>6. state' = state /\ state' \in [Ops -> {"Idle", "Submitted", "Cancelling"}] /\ asked' \subseteq Ops /\ loop' \in LoopPc
    BY <1>1, <2>1, <2>5 DEF OpsInv, OpsTyped
  <2>7. \A y \in Items(stack') : y.do \in CbDo /\ y.cancelled => y.op \in asked'
    BY <1>5, <2>1, <2>2, <2>3, <2>5 DEF SameCalls
  <2>8. \A p \in Ops : Held(p)' /\ OpFd[p] < x.fd => p \in young
    <3> SUFFICES ASSUME NEW p \in Ops, Held(p)', OpFd[p] < x.fd PROVE p \in young
      OBVIOUS
    <3>1. OpFd[p] \in Nat /\ f \in Nat /\ OpFd[p] # f /\ Held(p)
      BY <2>5, ProactorAssumption DEF Fds
    <3>2. OpFd[p] < h.fd
      BY <2>2, <3>1
    <3> QED BY <1>3, <3>1, <3>2 DEF OpsInv, Swept
  <2>9. \A y \in Items(stack') : y.do = "cancelAll" =>
            \/ y.fd = 0 \/ y \in Items(stack)
            \/ \A p \in Ops : Held(p)' /\ OpFd[p] < y.fd => p \in young
    BY <1>3, <2>3, <2>5, <2>8
  <2> QED BY <1>1, <2>1, <2>5, <2>6, <2>7, <2>9, Transfer
<1> QED BY <1>6, <1>7

(* onReadable and onWriteable: the operation leaves its table for its callback; one that is missing stops the loop. *)
LEMMA EndInv ==
  ASSUME OpsInv, NEW f \in Fds, NEW o, o = reads[f] \/ o = writes[f],
         stack = <<>>, loop = "dispatch", EndOperation(o, f)
  PROVE  OpsInv'
<1>0. Items(stack) = {} /\ StackOK(stack)
  BY EmptyOK
<1>1. CASE o = None
  <2>1. loop' = "crashed" /\ UNCHANGED tableVars /\ stack' = stack
    BY <1>1 DEF EndOperation
  <2>2. SameCalls(stack') /\ loop' \in LoopPc
    BY <2>1, SameStack DEF LoopPc
  <2> QED BY <2>1, <2>2, QuietInv
<1>2. CASE o # None
  <2>1. o \in Ops /\ Held(o)
    BY <1>2, TableHeld DEF OpsInv
  <2>2. Place(o, None) /\ stack' = Call(o, FALSE) /\ UNCHANGED <<state, young, asked, loop>>
    BY <1>2 DEF EndOperation
  <2>3. TablesTyped' /\ \A p \in Ops : Held(p)' <=> Held(p) /\ p \notin {o}
    BY <2>1, <2>2, PlaceNone DEF OpsInv
  <2>4. PICK x \in Item : /\ stack' = <<x>> /\ x.do = "call" /\ x.op = o /\ x.cancelled = FALSE
                          /\ x.do \in CbDo /\ x.do \notin AtBottom /\ x.do # "cancelAll"
    BY <2>1, <2>2, CallFacts
  <2>5. StackOK(stack') /\ Items(stack') = {x}
    BY <2>4, OneOK
  <2>6. \A p \in Ops : Answering(Items(stack'), p) <=> Answering(Items(stack), p) \/ p \in {o}
    BY <1>0, <2>4, <2>5 DEF Answering
  <2>7. \A y \in Items(stack') : ~y.cancelled /\ y.do # "cancelAll"
    BY <2>4, <2>5
  <2>8. /\ state' = state /\ state' \in [Ops -> {"Idle", "Submitted", "Cancelling"}] /\ asked' \subseteq Ops /\ loop' \in LoopPc
        /\ loop' = "dispatch" /\ {o} \in SUBSET Ops /\ \A q \in {o} : Held(q)
    BY <2>1, <2>2 DEF OpsInv, OpsTyped
  <2> HIDE DEF Held, StackOK, Items, Answering, TablesTyped, OpsInv
  <2> QED BY <2>2, <2>3, <2>5, <2>6, <2>7, <2>8, Transfer, Zenon
<1> QED BY <1>1, <1>2

(* An event of the batch.                                                     *)
LEMMA EventInv ==
  ASSUME OpsInv, NEW e, e.fd \in Fds \cup {Wakeup}, DispatchEvent(e)
  PROVE  OpsInv'
<1>1. loop = "dispatch" /\ stack = <<>>
  BY DEF DispatchEvent
<1>2. CASE e.fd = Wakeup /\ stack' = <<[do |-> "read"]>> /\ UNCHANGED <<tableVars, loop>>
  <2> PICK x : x = [do |-> "read"]
    OBVIOUS
  <2>1. x \in Item /\ x.do = "read" /\ x.do \notin CbDo /\ x.do # "cancelAll"
    BY ItemFacts DEF CbDo
  <2>2. stack' = <<x>> /\ StackOK(stack') /\ Items(stack') = {x} /\ Items(stack) = {}
    BY <1>1, <1>2, <2>1, OneOK, EmptyOK
  <2>3. SameCalls(stack')
    BY <2>1, <2>2 DEF SameCalls, Answering
  <2> QED BY <1>1, <1>2, <2>3, QuietInv DEF OpsInv
<1>3. CASE e.fd # Wakeup /\ OnEvent(e.fd, e.events)
  <2> PICK f \in Fds : f = e.fd
    BY <1>3
  <2>1. CASE Empty(f, FALSE, <<>>) /\ UNCHANGED <<young, asked, loop>>
    BY <1>1, <2>1, CloseInv
  <2>2. CASE EndOperation(reads[f], f)
    BY <1>1, <2>2, EndInv
  <2>3. CASE EndOperation(writes[f], f)
    BY <1>1, <2>3, EndInv
  <2> QED BY <1>3, <2>1, <2>2, <2>3 DEF OnEvent
<1>4. CASE UNCHANGED <<tableVars, loop, stack>>
  BY <1>1, <1>4, QuietInv, SameStack DEF OpsInv
<1> QED BY <1>2, <1>3, <1>4 DEF DispatchEvent

(* A callback has returned: its operation may be submitted again.             *)
LEMMA ReturnInv == ASSUME OpsInv, HandlerReturns PROVE OpsInv'
<1>1. loop = "dispatch" /\ loop' = loop /\ stack # <<>> /\ Head(stack).do \in CbDo
  BY DEF HandlerReturns, Doing, CbDo
<1> PICK h, r : h = Head(stack) /\ r = Tail(stack)
  OBVIOUS
<1>2. StackOK(stack)
  BY DEF OpsInv
<1>3. /\ h \in Item /\ StackOK(r) /\ Items(stack) = {h} \cup Items(r)
      /\ ~Answering(Items(r), h.op) /\ h.op \in Ops
  BY <1>1, <1>2, PopOK, ItemFacts
<1>4. /\ state' = [state EXCEPT ![h.op] = "Idle"] /\ asked' = asked \ {h.op} /\ stack' = r
      /\ UNCHANGED <<reads, writes, young>>
  BY DEF HandlerReturns, Rest
<1>5. TablesTyped' /\ \A p \in Ops : Held(p)' <=> Held(p)
  BY <1>4 DEF OpsInv, TablesTyped, Held, Slot
<1>6. state' \in [Ops -> {"Idle", "Submitted", "Cancelling"}] /\ \A p \in Ops : state'[p] = IF p = h.op THEN "Idle" ELSE state[p]
  BY <1>3, <1>4 DEF OpsInv, OpsTyped
<1>7. Answering(Items(stack), h.op)
  BY <1>1, <1>3 DEF Answering
<1>8. ~Held(h.op)
  BY <1>3, <1>7 DEF OpsInv, Accounted
<1>9. OpsTyped' /\ HeldSubmitted'
  BY <1>4, <1>5, <1>6, <1>8 DEF OpsInv, OpsTyped, HeldSubmitted
<1>10. \A p \in Ops : Answering(Items(r), p) <=> Answering(Items(stack), p) /\ p # h.op
  BY <1>3 DEF Answering
<1>11. Accounted'
  BY <1>4, <1>5, <1>6, <1>10 DEF OpsInv, Accounted
<1>12. CancelledAsked'
  <2> SUFFICES ASSUME NEW x \in Items(r), x.do \in CbDo, x.cancelled PROVE x.op \in asked'
    BY <1>4 DEF CancelledAsked
  <2>1. x.op \in asked
    BY <1>3 DEF OpsInv, CancelledAsked
  <2>2. x.op # h.op
    BY <1>3 DEF Answering
  <2> QED BY <1>4, <2>1, <2>2
<1>13. Swept'
  BY <1>3, <1>4, <1>5 DEF OpsInv, Swept
<1> QED BY <1>1, <1>3, <1>4, <1>5, <1>9, <1>11, <1>12, <1>13 DEF OpsInv

(* What a handler calls.                                                      *)
LEMMA HandlerInv ==
  ASSUME OpsInv, HandlerStep
  PROVE  OpsInv'
<1>1. Doing("handler") /\ loop' = loop
  BY DEF HandlerStep, HandlerSubmits, HandlerCancels, HandlerStops
<1>2. loop = "dispatch" /\ stack # <<>> /\ Head(stack).do \in CbDo /\ "return" \in CbDo
  BY <1>1 DEF Doing, CbDo
<1>3. SameCalls(Called)
  BY <1>2, SameRename DEF Called, Rest
<1>4. ASSUME NEW o \in Ops, NEW refused \in BOOLEAN, HandlerSubmits(o, refused) PROVE OpsInv'
  <2>1. SubmitOperation(o, refused) /\ stack' = Called
    BY <1>4 DEF HandlerSubmits
  <2> QED BY <1>1, <1>2, <1>3, <2>1, SubmitInv
<1>5. ASSUME NEW o \in Ops, HandlerCancels(o) PROVE OpsInv'
  <2>1. CancelOperation(o, Called)
    BY <1>5 DEF HandlerCancels
  <2> QED BY <1>1, <1>2, <1>3, <2>1, CancelInv
<1>6. ASSUME HandlerStops PROVE OpsInv'
  <2> PICK x, y : x = [do |-> "stop"] /\ y = [do |-> "cancelAll", fd |-> 0]
    OBVIOUS
  <2>1. x \in Item /\ x.do = "stop" /\ y \in Item /\ y.do = "cancelAll" /\ y.fd = 0
    <3>1. 0 \in 0..MaxFd + 1
      BY ProactorAssumption
    <3> QED BY <3>1, ItemFacts
  <2> PICK c : c = <<x>> \o Called
    OBVIOUS
  <2>2. SameCalls(c)
    BY <1>3, <2>1, SamePush
  <2> PICK d : d = <<y>> \o c
    OBVIOUS
  <2>3. SameCalls(d)
    BY <2>1, <2>2, SamePush
  <2>4. stack' = d
    <3>1. Called \in Seq(Item)
      BY <1>3 DEF SameCalls, StackOK
    <3>2. (<<y>> \o <<x>>) \o Called = <<y>> \o (<<x>> \o Called)
      BY <2>1, <3>1, ConcatFacts
    <3> QED BY <1>6, <3>2 DEF HandlerStops, CancelAllBegin
  <2>5. UNCHANGED tableVars
    BY <1>6 DEF HandlerStops
  <2> QED BY <1>1, <1>2, <2>3, <2>4, <2>5, QuietInv DEF OpsInv
<1> QED BY <1>4, <1>5, <1>6 DEF HandlerStep

(* The acknowledgement of a command.                                          *)
LEMMA SameAck ==
  ASSUME NEW c \in GoodCommand, NEW err, err \in BOOLEAN, NEW s, SameCalls(s)
  PROVE  SameCalls(Ack(c, err) \o s)
<1>1. CASE c.sync
  <2> PICK x : x = [do |-> "ack", by |-> c.by, err |-> err]
    OBVIOUS
  <2>1. x \in Item /\ x.do = "ack"
    <3>1. c.by \in Threads
      BY DEF GoodCommand, Command
    <3> QED BY <3>1, ItemFacts
  <2>2. Ack(c, err) = <<x>>
    BY <1>1 DEF Ack
  <2>3. SameCalls(<<x>> \o s)
    BY <2>1, SamePush
  <2> QED BY <2>2, <2>3
<1>2. CASE ~c.sync
  <2>1. Ack(c, err) = <<>> /\ s \in Seq(Item)
    BY <1>2 DEF Ack, SameCalls, StackOK
  <2>2. Ack(c, err) \o s = s
    BY <2>1, ConcatFacts
  <2> QED BY <2>2
<1> QED BY <1>1, <1>2

(* processCommand.                                                            *)
LEMMA CommandInv ==
  ASSUME OpsInv, UserInv, NEW refused \in BOOLEAN, ProcessCommand(refused)
  PROVE  OpsInv'
<1>1. loop = "dispatch" /\ loop' = loop /\ SameCalls(stack)
  BY SameStack DEF ProcessCommand, Doing
<1> PICK c : c = Head(commands)
  OBVIOUS
<1>2. c \in GoodCommand
  BY DEF ProcessCommand, UserInv
<1>3. CASE c.type = "submit" /\ stack' = Ack(c, SubmitFails(c.op, refused)) \o stack /\ SubmitOperation(c.op, refused)
  <2>1. c.op \in Ops
    BY <1>2, <1>3 DEF GoodCommand
  <2> PICK o \in Ops : o = c.op
    BY <2>1
  <2>2. SubmitFails(c.op, refused) \in BOOLEAN
    BY Zenon DEF SubmitFails, Rejected
  <2>3. SameCalls(stack')
    BY <1>1, <1>2, <1>3, <2>2, SameAck
  <2> QED BY <1>1, <1>3, <2>3, SubmitInv
<1>4. CASE c.type = "cancel" /\ CancelOperation(c.op, Ack(c, CancelFails(c.op)) \o stack)
  <2>1. c.op \in Ops
    BY <1>2, <1>4 DEF GoodCommand
  <2> PICK o \in Ops : o = c.op
    BY <2>1
  <2>2. CancelFails(c.op) \in BOOLEAN
    BY Zenon DEF CancelFails, CancelRejected
  <2> PICK rest : rest = Ack(c, CancelFails(c.op)) \o stack
    OBVIOUS
  <2>3. SameCalls(rest)
    BY <1>1, <1>2, <2>2, SameAck
  <2> QED BY <1>1, <1>4, <2>3, CancelInv
<1>5. CASE c.type = "stop" /\ stack' = CancelAllBegin \o Ack(c, FALSE) \o stack /\ UNCHANGED tableVars
  <2> PICK y : y = [do |-> "cancelAll", fd |-> 0]
    OBVIOUS
  <2>1. y \in Item /\ y.do = "cancelAll" /\ y.fd = 0
    <3>1. 0 \in 0..MaxFd + 1
      BY ProactorAssumption
    <3> QED BY <3>1, ItemFacts
  <2> PICK a, rest : a = Ack(c, FALSE) /\ rest = Ack(c, FALSE) \o stack
    OBVIOUS
  <2>2. SameCalls(rest)
    BY <1>1, <1>2, SameAck
  <2>3. SameCalls(<<y>> \o rest)
    BY <2>1, <2>2, SamePush
  <2>4. stack' = <<y>> \o rest
    <3>1. a \in Seq(Item)
      <4>1. c.by \in Threads
        BY <1>2 DEF GoodCommand, Command
      <4>2. [do |-> "ack", by |-> c.by, err |-> FALSE] \in Item
        BY <4>1, ItemFacts
      <4> QED BY <4>2 DEF Ack
    <3>2. <<y>> \in Seq(Item) /\ stack \in Seq(Item)
      BY <2>1 DEF OpsInv, StackOK
    <3> PICK q \in Seq(Item) : q = <<y>>
      BY <3>2
    <3>3. PICK b \in Seq(Item), s \in Seq(Item) : b = a /\ s = stack
      BY <3>1, <3>2
    <3>4. (q \o b) \o s = q \o (b \o s)
      BY ConcatAssociative
    <3>5. (q \o a) \o stack = q \o (a \o stack)
      BY <3>3, <3>4
    <3> QED BY <1>5, <3>5 DEF CancelAllBegin
  <2> QED BY <1>1, <1>5, <2>3, <2>4, QuietInv DEF OpsInv
<1> QED BY <1>3, <1>4, <1>5 DEF ProcessCommand

(* Steps of the loop's thread that only pop the stack or change the head of it. *)
LEMMA StackStepInv ==
  ASSUME OpsInv, DispatchOperation \/ StopRunning \/ ReadWakeup \/ ClearNotified \/ DrainEnds \/ Acknowledge
  PROVE  OpsInv'
<1>1. loop = "dispatch" /\ loop' = loop /\ stack # <<>> /\ UNCHANGED tableVars
  BY DEF DispatchOperation, StopRunning, ReadWakeup, ClearNotified, DrainEnds, Acknowledge, Doing
<1>2. SameCalls(stack')
  <2>1. CASE DispatchOperation
    <3>1. Head(stack).do \in CbDo /\ "handler" \in CbDo /\ stack' = <<[Head(stack) EXCEPT !.do = "handler"]>> \o Tail(stack)
      BY <2>1 DEF DispatchOperation, Doing, CbDo, Rest
    <3>2. SameCalls(<<[Head(stack) EXCEPT !.do = "handler"]>> \o Tail(stack))
      BY <1>1, <3>1, SameRename
    <3> QED BY <3>1, <3>2
  <2>2. CASE StopRunning \/ DrainEnds \/ Acknowledge
    <3>1. Head(stack).do \notin CbDo /\ stack' = Tail(stack)
      BY <2>2 DEF StopRunning, DrainEnds, Acknowledge, Doing, CbDo, Rest
    <3> QED BY <1>1, <3>1, SamePop
  <2>3. CASE ReadWakeup
    <3>1. Head(stack).do \in AtBottom /\ "clear" \in AtBottom /\ stack' = <<[do |-> "clear"]>> \o Tail(stack)
      BY <2>3 DEF ReadWakeup, Doing, AtBottom, Rest
    <3> QED BY <1>1, <3>1, SameBottom
  <2>4. CASE ClearNotified
    <3>1. Head(stack).do \in AtBottom /\ "drain" \in AtBottom /\ stack' = <<[do |-> "drain"]>> \o Tail(stack)
      BY <2>4 DEF ClearNotified, Doing, AtBottom, Rest
    <3> QED BY <1>1, <3>1, SameBottom
  <2> QED BY <2>1, <2>2, <2>3, <2>4
<1> QED BY <1>1, <1>2, QuietInv DEF OpsInv

(* The rest of the loop, and the user threads.                                *)
LEMMA OutsideInv ==
  ASSUME OpsInv,
         \/ RunEnter \/ RunStart \/ CheckRunning \/ RunExit \/ EpollWait \/ ReactorCommand \/ Purge
         \/ \E t \in Threads : CallStep(t) \/ StartStep(t)
         \/ UNCHANGED vars
  PROVE  OpsInv'
<1>1. UNCHANGED <<tableVars, stack>> /\ loop' \in LoopPc /\ (loop' # "dispatch" => stack' = <<>>)
  <2>1. CASE \/ RunEnter \/ RunStart \/ CheckRunning \/ RunExit \/ EpollWait \/ ReactorCommand \/ Purge
    <3>1. UNCHANGED <<tableVars, stack>>
      BY <2>1 DEF RunEnter, RunStart, CheckRunning, RunExit, EpollWait, ReactorCommand, Purge, Elsewhere
    <3>2. stack = <<>>
      BY <2>1 DEF RunEnter, RunStart, CheckRunning, RunExit, EpollWait, ReactorCommand, Purge, OpsInv
    <3>3. loop' \in LoopPc
      BY <2>1 DEF RunEnter, RunStart, CheckRunning, RunExit, EpollWait, ReactorCommand, Purge, OpsInv, LoopPc
    <3> QED BY <3>1, <3>2, <3>3
  <2>2. ASSUME NEW t \in Threads, CallStep(t) PROVE UNCHANGED <<tableVars, stack, loop>>
    BY <2>2 DEF CallStep, StopCheck, StopClaim, StopWaitLoop, StopReset, StopReactor, StopWaitThread, Push, Exchange, Write,
                WaitDone, Outside
  <2>3. ASSUME NEW t \in Threads, StartStep(t) PROVE UNCHANGED <<tableVars, stack, loop>>
    BY <2>3 DEF StartStep, Submit, Cancel, Stop, Start
  <2>4. CASE UNCHANGED vars
    BY <2>4 DEF vars, OpsInv
  <2> QED BY <2>1, <2>2, <2>3, <2>4 DEF OpsInv
<1> QED BY <1>1, QuietInv, SameStack

(* Every step preserves the invariant of the operations.                      *)
LEMMA OpsStep ==
  ASSUME OpsInv, UserInv, WakeInv, [Next]_vars
  PROVE  OpsInv'
<1>1. ASSUME NEW e \in batch, DispatchEvent(e) PROVE OpsInv'
  <2>1. e.fd \in Fds \cup {Wakeup}
    BY DEF WakeInv
  <2> QED BY <1>1, <2>1, EventInv
<1>2. ASSUME NEW refused \in BOOLEAN, ProcessCommand(refused) PROVE OpsInv'
  BY <1>2, CommandInv
<1>3. CASE HandlerStep
  BY <1>3, HandlerInv
<1>4. CASE CancelAllOperations
  BY <1>4, CancelAllInv
<1>5. CASE HandlerReturns
  BY <1>5, ReturnInv
<1>6. CASE DispatchOperation \/ StopRunning \/ ReadWakeup \/ ClearNotified \/ DrainEnds \/ Acknowledge
  BY <1>6, StackStepInv
<1>7. CASE \/ RunEnter \/ RunStart \/ CheckRunning \/ RunExit \/ EpollWait \/ ReactorCommand \/ Purge
           \/ \E t \in Threads : CallStep(t) \/ StartStep(t)
           \/ UNCHANGED vars
  BY <1>7, OutsideInv
<1> QED BY <1>1, <1>2, <1>3, <1>4, <1>5, <1>6, <1>7 DEF Next, LoopStep

(* Initially nothing is in flight.                                            *)
LEMMA OpsInit == Init => OpsInv
<1> SUFFICES ASSUME Init PROVE OpsInv
  OBVIOUS
<1>1. None \notin Ops /\ OpFd \in [Ops -> Fds] /\ Writes \subseteq Ops
  BY ProactorAssumption
<1>2. StackOK(stack) /\ Items(stack) = {}
  BY EmptyOK DEF Init
<1>3. TablesTyped /\ OpsTyped
  BY DEF Init, TablesTyped, OpsTyped
<1>4. \A o \in Ops : ~Held(o) /\ state[o] = "Idle"
  BY <1>1 DEF Init, Held, Slot
<1> QED BY <1>2, <1>3, <1>4 DEF Init, OpsInv, HeldSubmitted, Accounted, CancelledAsked, Swept, Answering, LoopPc

-----------------------------------------------------------------------------
(***************************************************************************)
(* What the reactor watches.                                               *)
(***************************************************************************)
Watching ==
    /\ interest \in [Fds -> SUBSET {"in", "out", "rdhup"}]
    /\ handlers \subseteq Pollable \cup {Wakeup} /\ deleted \subseteq Pollable
    /\ WatchedAsAsked

(* A descriptor is asked for when it has an operation.                        *)
LEMMA MaskFacts ==
  ASSUME NEW r, NEW w
  PROVE  Mask(r, w) \in SUBSET {"in", "out", "rdhup"} /\ (Mask(r, w) = {} <=> r = None /\ w = None)
BY DEF Mask

(* The operations of one descriptor change, and it is armed for what they are now. *)
LEMMA RearmWatch ==
  ASSUME Watching, TablesTyped, NEW f \in Fds,
         \A g \in Fds \ {f} : reads'[g] = reads[g] /\ writes'[g] = writes[g],
         Rearm(f, reads'[f], writes'[f])
  PROVE  Watching'
<1>1. Pollable \subseteq Fds /\ Wakeup \notin Fds
  BY ProactorAssumption
<1>2. CASE f \notin Pollable
  <2>1. UNCHANGED <<interest, handlers, deleted>>
    BY <1>2 DEF Rearm, DelHandler, AddHandler, reactorVars
  <2> QED BY <1>1, <1>2, <2>1 DEF Watching, WatchedAsAsked
<1>3. CASE f \in Pollable
  <2> PICK r, w : r = reads'[f] /\ w = writes'[f]
    OBVIOUS
  <2> PICK m : m = Mask(r, w)
    OBVIOUS
  <2>0. m \in SUBSET {"in", "out", "rdhup"} /\ (m = {} <=> r = None /\ w = None)
    BY MaskFacts
  <2>1. /\ interest' = [interest EXCEPT ![f] = m]
        /\ handlers' \subseteq handlers \cup {f} /\ handlers \subseteq handlers'
        /\ deleted' \subseteq deleted \cup {f} /\ deleted \subseteq deleted' \cup {f}
        /\ m # {} => f \in handlers' \ deleted'
        /\ m = {} => f \in deleted'
    <3>1. CASE r = None /\ w = None
      <4>1. interest' = [interest EXCEPT ![f] = {}] /\ deleted' = deleted \cup {f} /\ handlers' = handlers
        BY <1>3, <3>1 DEF Rearm, DelHandler
      <4> QED BY <2>0, <3>1, <4>1
    <3>2. CASE ~(r = None /\ w = None)
      <4>1. interest' = [interest EXCEPT ![f] = m] /\ handlers' = handlers \cup {f} /\ deleted' = deleted \ {f}
        BY <1>3, <3>2 DEF Rearm, AddHandler
      <4> QED BY <2>0, <3>2, <4>1
    <3> QED BY <3>1, <3>2
  <2>2. interest' \in [Fds -> SUBSET {"in", "out", "rdhup"}] /\ \A g \in Fds : interest'[g] = IF g = f THEN m ELSE interest[g]
    BY <2>0, <2>1 DEF Watching
  <2>3. handlers' \subseteq Pollable \cup {Wakeup} /\ deleted' \subseteq Pollable
    BY <1>3, <2>1 DEF Watching
  <2>4. WatchedAsAsked'
    <3> SUFFICES ASSUME NEW g \in Pollable
                 PROVE  interest'[g] = Mask(reads'[g], writes'[g]) /\ (interest'[g] # {} <=> g \in handlers' \ deleted')
      BY DEF WatchedAsAsked, Mask
    <3>1. CASE g = f
      BY <1>1, <2>1, <2>2, <3>1
    <3>2. CASE g # f
      <4>1. g \in Fds /\ interest'[g] = interest[g] /\ reads'[g] = reads[g] /\ writes'[g] = writes[g]
        BY <1>1, <2>2, <3>2
      <4>2. interest[g] = Mask(reads[g], writes[g]) /\ (interest[g] # {} <=> g \in handlers \ deleted)
        BY DEF Watching, WatchedAsAsked
      <4>3. g \in handlers' \ deleted' <=> g \in handlers \ deleted
        BY <2>1, <3>2
      <4> QED BY <4>1, <4>2, <4>3
    <3> QED BY <3>1, <3>2
  <2> QED BY <2>2, <2>3, <2>4 DEF Watching
<1> QED BY <1>2, <1>3

(* Nothing changes.                                                           *)
LEMMA SameWatch == Watching /\ UNCHANGED <<tableVars, reactorVars>> => Watching'
BY DEF Watching, WatchedAsAsked, Mask, tableVars, reactorVars

(* The place of one operation changes.                                        *)
LEMMA PlaceOthers ==
  ASSUME TablesTyped, NEW o \in Ops, NEW v, Place(o, v)
  PROVE  /\ OpFd[o] \in Fds
         /\ \A g \in Fds \ {OpFd[o]} : reads'[g] = reads[g] /\ writes'[g] = writes[g]
         /\ v # None => ~(reads'[OpFd[o]] = None /\ writes'[OpFd[o]] = None)
BY ProactorAssumption DEF TablesTyped, Place

(* submitOperation.                                                           *)
LEMMA SubmitWatch ==
  ASSUME Watching, TablesTyped, NEW o \in Ops, NEW refused, SubmitOperation(o, refused)
  PROVE  Watching'
<1>1. CASE Rejected(o, refused)
  BY <1>1, SameWatch DEF SubmitOperation
<1>2. CASE ~Rejected(o, refused)
  <2>1. Place(o, o) /\ AddHandler(OpFd[o], reads'[OpFd[o]], writes'[OpFd[o]])
    BY <1>2 DEF SubmitOperation
  <2>2. o # None
    BY ProactorAssumption
  <2>3. /\ OpFd[o] \in Fds
        /\ \A g \in Fds \ {OpFd[o]} : reads'[g] = reads[g] /\ writes'[g] = writes[g]
        /\ ~(reads'[OpFd[o]] = None /\ writes'[OpFd[o]] = None)
    BY <2>1, <2>2, PlaceOthers
  <2>4. Rearm(OpFd[o], reads'[OpFd[o]], writes'[OpFd[o]])
    BY <2>1, <2>3 DEF Rearm
  <2> QED BY <2>3, <2>4, RearmWatch
<1> QED BY <1>1, <1>2

(* cancelOperation.                                                           *)
LEMMA CancelWatch ==
  ASSUME Watching, TablesTyped, NEW o \in Ops, NEW rest, CancelOperation(o, rest)
  PROVE  Watching'
<1>1. CASE CancelRejected(o)
  BY <1>1, SameWatch DEF CancelOperation
<1>2. CASE ~CancelRejected(o)
  <2>1. Place(o, None) /\ Rearm(OpFd[o], reads'[OpFd[o]], writes'[OpFd[o]])
    BY <1>2 DEF CancelOperation
  <2>2. OpFd[o] \in Fds /\ \A g \in Fds \ {OpFd[o]} : reads'[g] = reads[g] /\ writes'[g] = writes[g]
    BY <2>1, PlaceOthers
  <2> QED BY <2>1, <2>2, RearmWatch
<1> QED BY <1>1, <1>2

(* Both operations of a descriptor leave.                                     *)
LEMMA EmptyWatch ==
  ASSUME Watching, TablesTyped, NEW f \in Fds,
         reads' = [reads EXCEPT ![f] = None], writes' = [writes EXCEPT ![f] = None],
         IF reads[f] # None \/ writes[f] # None THEN DelHandler(f) ELSE UNCHANGED reactorVars
  PROVE  Watching'
<1>1. reads'[f] = None /\ writes'[f] = None /\ \A g \in Fds \ {f} : reads'[g] = reads[g] /\ writes'[g] = writes[g]
  BY DEF TablesTyped
<1>2. CASE reads[f] # None \/ writes[f] # None
  <2>1. Rearm(f, reads'[f], writes'[f])
    BY <1>1, <1>2 DEF Rearm
  <2> QED BY <1>1, <2>1, RearmWatch
<1>3. CASE ~(reads[f] # None \/ writes[f] # None)
  <2>1. UNCHANGED <<interest, handlers, deleted>> /\ \A g \in Fds : reads'[g] = reads[g] /\ writes'[g] = writes[g]
    BY <1>1, <1>3 DEF reactorVars
  <2>2. Pollable \subseteq Fds
    BY ProactorAssumption
  <2> QED BY <2>1, <2>2 DEF Watching, WatchedAsAsked
<1> QED BY <1>2, <1>3

(* The handler of an event is called for a descriptor that is watched, so for one that has an operation. *)
LEMMA EndWatch ==
  ASSUME OpsInv, Watching, NEW f \in Fds, f \in handlers \ deleted, NEW o, o = reads[f] \/ o = writes[f],
         loop = "dispatch", EndOperation(o, f)
  PROVE  Watching' /\ NullNeedsOtherDirection'
<1>1. CASE o = None
  <2>1. loop' = "crashed" /\ UNCHANGED <<tableVars, reactorVars>>
    BY <1>1 DEF EndOperation
  <2>2. f \in Pollable
    BY ProactorAssumption DEF Watching
  <2>3. interest[f] # {} /\ interest[f] = Mask(reads[f], writes[f])
    BY <2>2 DEF Watching, WatchedAsAsked
  <2>4. (reads[f] = None) # (writes[f] = None)
    BY <1>1, <2>3, MaskFacts
  <2>5. (reads'[f] = None) # (writes'[f] = None)
    BY <2>1, <2>4 DEF tableVars
  <2> QED BY <2>1, <2>2, <2>5, SameWatch DEF NullNeedsOtherDirection
<1>2. CASE o # None
  <2>1. o \in Ops /\ OpFd[o] = f /\ TablesTyped
    BY <1>2, TableHeld DEF OpsInv
  <2>2. Place(o, None) /\ Rearm(f, reads'[f], writes'[f]) /\ loop' = loop
    BY <1>2 DEF EndOperation
  <2>3. \A g \in Fds \ {f} : reads'[g] = reads[g] /\ writes'[g] = writes[g]
    BY <2>1, <2>2, PlaceOthers
  <2>4. Watching'
    BY <2>1, <2>2, <2>3, RearmWatch
  <2> QED BY <2>2, <2>4 DEF NullNeedsOtherDirection
<1> QED BY <1>1, <1>2

(* An event of the batch.                                                     *)
LEMMA EventWatch ==
  ASSUME OpsInv, Watching, NEW e, e.fd \in Fds \cup {Wakeup}, DispatchEvent(e)
  PROVE  Watching' /\ NullNeedsOtherDirection'
<1>1. loop = "dispatch" /\ TablesTyped
  BY DEF DispatchEvent, OpsInv
<1>2. CASE UNCHANGED <<tableVars, reactorVars, loop>>
  BY <1>1, <1>2, SameWatch DEF NullNeedsOtherDirection
<1>3. CASE e.fd # Wakeup /\ e.fd \in handlers \ deleted /\ OnEvent(e.fd, e.events)
  <2> PICK f \in Fds : f = e.fd
    BY <1>3
  <2>1. CASE Empty(f, FALSE, <<>>) /\ UNCHANGED <<young, asked, loop>>
    <3>1. Watching'
      BY <1>1, <2>1, EmptyWatch DEF Empty
    <3> QED BY <1>1, <2>1, <3>1 DEF NullNeedsOtherDirection
  <2>2. CASE EndOperation(reads[f], f)
    BY <1>1, <1>3, <2>2, EndWatch
  <2>3. CASE EndOperation(writes[f], f)
    BY <1>1, <1>3, <2>3, EndWatch
  <2> QED BY <1>3, <2>1, <2>2, <2>3 DEF OnEvent
<1> QED BY <1>2, <1>3 DEF DispatchEvent

(* Every step preserves the invariant of the descriptors.                     *)
LEMMA WatchStep ==
  ASSUME OpsInv, UserInv, WakeInv, WatchInv, [Next]_vars
  PROVE  WatchInv'
<1>0. Watching /\ NullNeedsOtherDirection /\ TablesTyped
  BY DEF WatchInv, Watching, OpsInv
<1> SUFFICES Watching' /\ NullNeedsOtherDirection'
  BY DEF WatchInv, Watching
<1>1. CASE UNCHANGED <<tableVars, reactorVars, loop>>
  BY <1>0, <1>1, SameWatch DEF NullNeedsOtherDirection, tableVars
<1>2. CASE UNCHANGED <<tableVars, reactorVars>> /\ loop' # "crashed"
  BY <1>0, <1>2, SameWatch DEF NullNeedsOtherDirection
<1>3. ASSUME NEW t \in Threads, CallStep(t) \/ StartStep(t) PROVE UNCHANGED <<tableVars, reactorVars, loop>>
  <2>1. CASE CallStep(t)
    BY <2>1 DEF CallStep, StopCheck, StopClaim, StopWaitLoop, StopReset, StopReactor, StopWaitThread, Push, Exchange, Write,
                WaitDone, Outside
  <2>2. CASE StartStep(t)
    BY <2>2 DEF StartStep, Submit, Cancel, Stop, Start
  <2> QED BY <1>3, <2>1, <2>2
<1>4. ASSUME RunEnter \/ RunStart \/ CheckRunning \/ RunExit \/ EpollWait
      PROVE  UNCHANGED <<tableVars, reactorVars>> /\ loop' # "crashed"
  BY <1>4 DEF RunEnter, RunStart, CheckRunning, RunExit, EpollWait, Elsewhere
<1>5. ASSUME DispatchOperation \/ StopRunning \/ ReadWakeup \/ ClearNotified \/ DrainEnds \/ Acknowledge \/ HandlerStops
      PROVE  UNCHANGED <<tableVars, reactorVars, loop>>
  BY <1>5 DEF DispatchOperation, StopRunning, ReadWakeup, ClearNotified, DrainEnds, Acknowledge, HandlerStops
<1>6. CASE HandlerReturns
  <2>1. UNCHANGED <<reads, writes, interest, handlers, deleted, loop>>
    BY <1>6 DEF HandlerReturns, reactorVars
  <2> QED BY <1>0, <2>1 DEF Watching, WatchedAsAsked, Mask, NullNeedsOtherDirection
<1>7. CASE ReactorCommand
  <2>1. UNCHANGED <<reads, writes, interest, deleted>> /\ handlers \subseteq handlers' /\ handlers' \subseteq handlers \cup {Wakeup}
    BY <1>7 DEF ReactorCommand, Elsewhere, tableVars
  <2>2. loop' # "crashed" /\ Pollable \subseteq Fds /\ Wakeup \notin Fds
    BY <1>7, ProactorAssumption DEF ReactorCommand
  <2> QED BY <1>0, <2>1, <2>2 DEF Watching, WatchedAsAsked, Mask, NullNeedsOtherDirection
<1>8. CASE Purge
  <2>1. UNCHANGED <<reads, writes, interest>> /\ handlers' = handlers \ deleted /\ deleted' = {} /\ loop' = "top"
    BY <1>8 DEF Purge, Elsewhere, tableVars
  <2> QED BY <1>0, <2>1 DEF Watching, WatchedAsAsked, Mask, NullNeedsOtherDirection
<1>9. ASSUME NEW e \in batch, DispatchEvent(e) PROVE Watching' /\ NullNeedsOtherDirection'
  <2>1. e.fd \in Fds \cup {Wakeup}
    BY DEF WakeInv
  <2> QED BY <1>0, <1>9, <2>1, EventWatch
<1>10. CASE CancelAllOperations
  <2>1. loop = "dispatch" /\ loop' = loop /\ stack # <<>> /\ Head(stack).do = "cancelAll"
    BY <1>10 DEF CancelAllOperations, Doing
  <2> PICK f : f = Head(stack).fd
    OBVIOUS
  <2>2. f \in 0..MaxFd + 1 /\ MaxFd \in Nat
    <3>1. Head(stack) \in Item
      BY <2>1, PopOK DEF OpsInv
    <3> QED BY <2>1, <3>1, ItemFacts, ProactorAssumption
  <2>3. CASE f > MaxFd
    <3>1. UNCHANGED <<reads, writes, interest, handlers, deleted>>
      BY <1>10, <2>3 DEF CancelAllOperations, reactorVars
    <3> QED BY <1>0, <2>1, <3>1 DEF Watching, WatchedAsAsked, Mask, NullNeedsOtherDirection
  <2>4. CASE ~(f > MaxFd)
    <3>1. f \in Fds
      BY <2>2, <2>4 DEF Fds
    <3>2. /\ reads' = [reads EXCEPT ![f] = None] /\ writes' = [writes EXCEPT ![f] = None]
          /\ IF reads[f] # None \/ writes[f] # None THEN DelHandler(f) ELSE UNCHANGED reactorVars
      BY <1>10, <2>4 DEF CancelAllOperations, Empty
    <3>3. Watching'
      BY <1>0, <3>1, <3>2, EmptyWatch
    <3> QED BY <2>1, <3>3 DEF NullNeedsOtherDirection
  <2> QED BY <2>3, <2>4
<1>11. ASSUME NEW refused \in BOOLEAN, ProcessCommand(refused) PROVE Watching' /\ NullNeedsOtherDirection'
  <2>1. loop = "dispatch" /\ loop' = loop
    BY <1>11 DEF ProcessCommand, Doing
  <2> PICK c : c = Head(commands)
    OBVIOUS
  <2>2. c \in GoodCommand
    BY <1>11 DEF ProcessCommand, UserInv
  <2>3. CASE c.type = "submit" /\ SubmitOperation(c.op, refused)
    <3>1. c.op \in Ops
      BY <2>2, <2>3 DEF GoodCommand
    <3>2. Watching'
      BY <1>0, <2>3, <3>1, SubmitWatch
    <3> QED BY <2>1, <3>2 DEF NullNeedsOtherDirection
  <2>4. CASE c.type = "cancel" /\ CancelOperation(c.op, Ack(c, CancelFails(c.op)) \o stack)
    <3>1. c.op \in Ops
      BY <2>2, <2>4 DEF GoodCommand
    <3> PICK rest : rest = Ack(c, CancelFails(c.op)) \o stack
      OBVIOUS
    <3>2. Watching'
      BY <1>0, <2>4, <3>1, CancelWatch
    <3> QED BY <2>1, <3>2 DEF NullNeedsOtherDirection
  <2>5. CASE UNCHANGED <<tableVars, reactorVars>>
    BY <1>2, <2>1, <2>5
  <2> QED BY <1>11, <2>3, <2>4, <2>5 DEF ProcessCommand
<1>12. ASSUME NEW o \in Ops, NEW refused \in BOOLEAN, HandlerSubmits(o, refused) PROVE Watching' /\ NullNeedsOtherDirection'
  <2>1. loop = "dispatch" /\ loop' = loop /\ SubmitOperation(o, refused)
    BY <1>12 DEF HandlerSubmits, Doing
  <2>2. Watching'
    BY <1>0, <2>1, SubmitWatch
  <2> QED BY <2>1, <2>2 DEF NullNeedsOtherDirection
<1>13. ASSUME NEW o \in Ops, HandlerCancels(o) PROVE Watching' /\ NullNeedsOtherDirection'
  <2>1. loop = "dispatch" /\ loop' = loop /\ CancelOperation(o, Called)
    BY <1>13 DEF HandlerCancels, Doing
  <2>2. Watching'
    BY <1>0, <2>1, CancelWatch
  <2> QED BY <2>1, <2>2 DEF NullNeedsOtherDirection
<1>14. CASE UNCHANGED vars
  BY <1>1, <1>14 DEF vars
<1> QED BY <1>1, <1>2, <1>3, <1>4, <1>5, <1>6, <1>7, <1>8, <1>9, <1>10, <1>11, <1>12, <1>13, <1>14 DEF Next, LoopStep, HandlerStep

(* Initially nothing is watched.                                              *)
LEMMA WatchInit == Init => WatchInv
<1> SUFFICES ASSUME Init PROVE WatchInv
  OBVIOUS
<1>1. \A f \in Fds : interest[f] = {} /\ reads[f] = None /\ writes[f] = None
  BY DEF Init
<1>2. Pollable \subseteq Fds
  BY ProactorAssumption
<1> QED BY <1>1, <1>2, MaskFacts DEF Init, WatchInv, WatchedAsAsked, NullNeedsOtherDirection

-----------------------------------------------------------------------------
(***************************************************************************)
(* The calls of user threads.                                              *)
(***************************************************************************)
UserCalls ==
    /\ pc \in [Threads -> UserPc] /\ cmd \in [Threads -> GoodCommand \cup {None}]
    /\ \A t \in Threads : pc[t] # "idle" => cmd[t] \in GoodCommand
    /\ done \in [Threads -> BOOLEAN] /\ errc \in [Threads -> BOOLEAN] /\ calls \in 0..MaxCalls

UserShared ==
    /\ stopping \in BOOLEAN /\ threadSet \in BOOLEAN /\ running \in BOOLEAN
    /\ commands \in Seq(GoodCommand) /\ Len(commands) <= QueueSize
    /\ rcommands \in Seq({"watch", "stop"})

(* A call goes on.                                                            *)
LEMMA GotoCalls ==
  ASSUME UserCalls, NEW t \in Threads, pc[t] # "idle", NEW there \in UserPc, Goto(t, there)
  PROVE  UserCalls'
BY DEF UserCalls, Goto

(* A call returns.                                                            *)
LEMMA ReturnCalls ==
  ASSUME UserCalls, NEW t \in Threads, Return(t)
  PROVE  UserCalls'
<1>1. /\ pc' = [pc EXCEPT ![t] = "idle"] /\ cmd' = [cmd EXCEPT ![t] = None]
      /\ done' = [done EXCEPT ![t] = FALSE] /\ errc' = [errc EXCEPT ![t] = FALSE] /\ calls' = calls
  BY DEF Return
<1>2. done' \in [Threads -> BOOLEAN] /\ errc' \in [Threads -> BOOLEAN]
  BY <1>1 DEF UserCalls
<1>3. "idle" \in UserPc
  BY DEF UserPc
<1>4. pc' \in [Threads -> UserPc] /\ cmd' \in [Threads -> GoodCommand \cup {None}]
  BY <1>1, <1>3 DEF UserCalls
<1>5. \A u \in Threads : pc'[u] # "idle" => cmd'[u] \in GoodCommand
  BY <1>1 DEF UserCalls
<1> QED BY <1>1, <1>2, <1>4, <1>5 DEF UserCalls

(* A call begins.                                                             *)
LEMMA StartUser ==
  ASSUME UserCalls, UserShared, NEW t \in Threads, StartStep(t)
  PROVE  UserCalls' /\ UserShared'
<1>1. ASSUME NEW type, NEW o, NEW sync \in BOOLEAN, NEW there \in UserPc, Start(t, type, o, sync, there),
             \/ type \in {"submit", "cancel"} /\ o \in Ops
             \/ type = "stop" /\ o = None
      PROVE  UserCalls' /\ UserShared'
  <2> PICK c : c = [type |-> type, op |-> o, sync |-> sync, by |-> t]
    OBVIOUS
  <2>1. c \in GoodCommand
    BY <1>1 DEF GoodCommand, Command
  <2>2. pc' = [pc EXCEPT ![t] = there] /\ cmd' = [cmd EXCEPT ![t] = c] /\ calls < MaxCalls /\ calls' = calls + 1
        /\ UNCHANGED <<done, errc>>
    BY <1>1 DEF Start
  <2>3. UNCHANGED <<stopping, commands, threadSet, running, rcommands>>
    BY <1>1 DEF Start, queueVars
  <2>4. calls' \in 0..MaxCalls
    BY <2>2, ProactorAssumption DEF UserCalls
  <2>5. pc' \in [Threads -> UserPc] /\ cmd' \in [Threads -> GoodCommand \cup {None}]
    BY <2>1, <2>2 DEF UserCalls
  <2>6. \A u \in Threads : pc'[u] # "idle" => cmd'[u] \in GoodCommand
    BY <2>1, <2>2 DEF UserCalls
  <2>7. UserCalls'
    BY <2>2, <2>4, <2>5, <2>6 DEF UserCalls
  <2>8. UserShared'
    BY <2>3 DEF UserShared
  <2> QED BY <2>7, <2>8
<1>2. "push" \in UserPc /\ "running" \in UserPc
  BY DEF UserPc
<1>3. PICK sync \in BOOLEAN : (\E o \in Ops : Submit(t, o, sync) \/ Cancel(t, o, sync)) \/ Stop(t, sync)
  BY DEF StartStep
<1>4. ASSUME NEW o \in Ops, Submit(t, o, sync) PROVE UserCalls' /\ UserShared'
  BY <1>1, <1>2, <1>4 DEF Submit
<1>5. ASSUME NEW o \in Ops, Cancel(t, o, sync) PROVE UserCalls' /\ UserShared'
  BY <1>1, <1>2, <1>5 DEF Cancel
<1>6. CASE Stop(t, sync)
  BY <1>1, <1>2, <1>6 DEF Stop
<1> QED BY <1>3, <1>4, <1>5, <1>6

(* A call in progress.                                                        *)
LEMMA CallUser ==
  ASSUME UserCalls, UserShared, NEW t \in Threads, CallStep(t)
  PROVE  UserCalls' /\ UserShared'
<1>1. /\ pc[t] # "idle"
      /\ Return(t) \/ \E there \in UserPc : Goto(t, there)
  <2>1. {"idle", "push", "exchange", "write", "wait", "running", "stopping", "waitloop", "reset", "reactor", "waitthread"} \subseteq UserPc
    BY DEF UserPc
  <2>2. CASE StopCheck(t) \/ StopClaim(t)
    BY <2>1, <2>2 DEF StopCheck, StopClaim
  <2>3. CASE StopWaitLoop(t) \/ StopReset(t) \/ StopReactor(t) \/ StopWaitThread(t)
    BY <2>1, <2>3 DEF StopWaitLoop, StopReset, StopReactor, StopWaitThread
  <2>4. CASE Push(t) \/ Exchange(t) \/ Write(t) \/ WaitDone(t)
    BY <2>1, <2>4 DEF Push, Exchange, Write, WaitDone, AfterWrite
  <2> QED BY <2>2, <2>3, <2>4 DEF CallStep
<1>2. UserCalls'
  BY <1>1, GotoCalls, ReturnCalls
<1>3. cmd[t] \in GoodCommand
  BY <1>1 DEF UserCalls
<1>4. UserShared'
  <2>1. UNCHANGED <<threadSet, running>>
    BY DEF CallStep, StopCheck, StopClaim, StopWaitLoop, StopReset, StopReactor, StopWaitThread, Push, Exchange, Write, WaitDone, Outside
  <2>2. CASE Push(t)
    <3>1. commands' = Append(commands, cmd[t]) /\ Len(commands) < QueueSize /\ UNCHANGED <<stopping, rcommands>>
      BY <2>2 DEF Push
    <3>2. commands' \in Seq(GoodCommand) /\ Len(commands') = Len(commands) + 1
      BY <1>3, <3>1 DEF UserShared
    <3>3. Len(commands') <= QueueSize
      BY <3>1, <3>2, ProactorAssumption DEF UserShared
    <3> QED BY <2>1, <3>1, <3>2, <3>3 DEF UserShared
  <2>3. CASE StopReactor(t)
    <3>1. rcommands' = Append(rcommands, "stop") /\ UNCHANGED <<stopping, commands>>
      BY <2>3 DEF StopReactor, queueVars
    <3>2. rcommands' \in Seq({"watch", "stop"})
      BY <3>1 DEF UserShared
    <3> QED BY <2>1, <3>1, <3>2 DEF UserShared
  <2>4. CASE ~Push(t) /\ ~StopReactor(t)
    <3>1. UNCHANGED <<commands, rcommands>> /\ (stopping' = stopping \/ stopping' = TRUE \/ stopping' = FALSE)
      BY <2>4 DEF CallStep, StopCheck, StopClaim, StopWaitLoop, StopReset, StopWaitThread, Exchange, Write, WaitDone, queueVars
    <3>2. stopping' \in BOOLEAN
      BY <3>1, Zenon DEF UserShared
    <3> QED BY <2>1, <3>1, <3>2 DEF UserShared
  <2> QED BY <2>2, <2>3, <2>4
<1> QED BY <1>2, <1>4

(* Every step preserves the invariant of the calls.                           *)
LEMMA UserStep ==
  ASSUME OpsInv, UserInv, [Next]_vars
  PROVE  UserInv'
<1>0. UserCalls /\ UserShared
  BY DEF UserInv, UserCalls, UserShared
<1> SUFFICES UserCalls' /\ UserShared'
  BY DEF UserInv, UserCalls, UserShared
<1>1. ASSUME NEW t \in Threads, CallStep(t) \/ StartStep(t) PROVE UserCalls' /\ UserShared'
  BY <1>0, <1>1, StartUser, CallUser
<1>2. ASSUME UNCHANGED <<pc, cmd, done, errc, calls>> PROVE UserCalls'
  BY <1>0, <1>2 DEF UserCalls
<1>3. ASSUME UNCHANGED <<stopping, threadSet, running, commands, rcommands>> PROVE UserShared'
  BY <1>0, <1>3 DEF UserShared
<1>4. CASE \/ CancelAllOperations \/ DispatchOperation \/ HandlerReturns \/ ReadWakeup \/ ClearNotified \/ DrainEnds
           \/ EpollWait \/ Purge \/ CheckRunning
  <2>1. UNCHANGED <<pc, cmd, done, errc, calls, stopping, threadSet, running, commands, rcommands>>
    BY <1>4 DEF CancelAllOperations, DispatchOperation, HandlerReturns, ReadWakeup, ClearNotified, DrainEnds, EpollWait, Purge,
                CheckRunning, LoopOnly, Elsewhere, queueVars
  <2> QED BY <1>2, <1>3, <2>1
<1>5. ASSUME HandlerStep \/ \E e \in batch : DispatchEvent(e)
      PROVE  UNCHANGED <<pc, cmd, done, errc, calls, stopping, threadSet, running, commands, rcommands>>
  BY <1>5 DEF HandlerStep, HandlerSubmits, HandlerCancels, HandlerStops, DispatchEvent, LoopOnly, queueVars
<1>6. CASE StopRunning \/ RunEnter \/ RunStart \/ RunExit
  <2>1. UNCHANGED <<pc, cmd, done, errc, calls, stopping, commands, rcommands>>
    BY <1>6 DEF StopRunning, RunEnter, RunStart, RunExit, LoopOnly, Elsewhere, queueVars
  <2>2. (running' = running \/ running' = TRUE \/ running' = FALSE) /\ (threadSet' = threadSet \/ threadSet' = TRUE \/ threadSet' = FALSE)
    BY <1>6 DEF StopRunning, RunEnter, RunStart, RunExit, LoopOnly
  <2>3. running' \in BOOLEAN /\ threadSet' \in BOOLEAN
    BY <1>0, <2>2, Zenon DEF UserShared
  <2> QED BY <1>0, <1>2, <2>1, <2>3 DEF UserShared
<1>7. CASE ReactorCommand
  <2>1. UNCHANGED <<pc, cmd, done, errc, calls, stopping, commands, threadSet>>
    BY <1>7 DEF ReactorCommand, Elsewhere, queueVars
  <2>2. running' = running \/ running' = FALSE
    BY <1>7 DEF ReactorCommand
  <2>3. running' \in BOOLEAN
    BY <1>0, <2>2, Zenon DEF UserShared
  <2>4. rcommands' = rcommands \/ (rcommands # <<>> /\ rcommands' = Tail(rcommands))
    BY <1>7 DEF ReactorCommand
  <2>5. rcommands' \in Seq({"watch", "stop"})
    BY <1>0, <2>4 DEF UserShared
  <2> QED BY <1>0, <1>2, <2>1, <2>3, <2>5 DEF UserShared
<1>8. ASSUME NEW refused \in BOOLEAN, ProcessCommand(refused) PROVE UserCalls' /\ UserShared'
  <2>1. UNCHANGED <<pc, cmd, done, errc, calls, stopping, threadSet, running, rcommands>>
    BY <1>8 DEF ProcessCommand, LoopOnly
  <2>2. commands # <<>> /\ commands' = Tail(commands)
    BY <1>8 DEF ProcessCommand
  <2>3. commands' \in Seq(GoodCommand) /\ Len(commands') <= QueueSize
    BY <1>0, <2>2, ProactorAssumption DEF UserShared
  <2> QED BY <1>0, <1>2, <2>1, <2>3 DEF UserShared
<1>9. CASE Acknowledge
  <2>1. UNCHANGED <<pc, cmd, calls, stopping, threadSet, running, commands, rcommands>>
    BY <1>9 DEF Acknowledge, LoopOnly, queueVars
  <2> PICK h : h = Head(stack)
    OBVIOUS
  <2>2. h \in Item /\ h.do = "ack"
    BY <1>9, PopOK DEF Acknowledge, Doing, OpsInv
  <2>3. h.by \in Threads /\ h.err \in BOOLEAN
    BY <2>2, ItemFacts
  <2>4. done' = [done EXCEPT ![h.by] = TRUE] /\ errc' = [errc EXCEPT ![h.by] = h.err]
    BY <1>9 DEF Acknowledge
  <2>5. done' \in [Threads -> BOOLEAN]
    BY <1>0, <2>3, <2>4 DEF UserCalls
  <2>6. errc' \in [Threads -> BOOLEAN]
    BY <1>0, <2>3, <2>4 DEF UserCalls
  <2> QED BY <1>0, <1>3, <2>1, <2>5, <2>6 DEF UserCalls
<1>10. CASE UNCHANGED vars
  BY <1>2, <1>3, <1>10 DEF vars, userVars, queueVars
<1> QED BY <1>1, <1>2, <1>3, <1>4, <1>5, <1>6, <1>7, <1>8, <1>9, <1>10 DEF Next, LoopStep

(* Initially no call is made.                                                 *)
LEMMA UserInit == Init => UserInv
<1> SUFFICES ASSUME Init PROVE UserInv
  OBVIOUS
<1>1. "idle" \in UserPc /\ MaxCalls \in Nat /\ QueueSize \in Nat
  BY ProactorAssumption DEF UserPc
<1>2. done \in [Threads -> BOOLEAN] /\ errc \in [Threads -> BOOLEAN]
  BY DEF Init
<1>3. pc \in [Threads -> UserPc] /\ cmd \in [Threads -> GoodCommand \cup {None}] /\ \A t \in Threads : pc[t] = "idle"
  BY <1>1 DEF Init
<1>4. commands \in Seq(GoodCommand) /\ Len(commands) = 0 /\ rcommands \in Seq({"watch", "stop"})
  BY DEF Init
<1>5. calls \in 0..MaxCalls /\ Len(commands) <= QueueSize
  BY <1>1, <1>4 DEF Init
<1>6. stopping \in BOOLEAN /\ threadSet \in BOOLEAN /\ running \in BOOLEAN
  BY DEF Init
<1> QED BY <1>2, <1>3, <1>4, <1>5, <1>6 DEF UserInv

-----------------------------------------------------------------------------
(***************************************************************************)
(* The wakeup.                                                             *)
(***************************************************************************)

(* What a step puts on the stack is neither a part of readCommands nor a callback that runs... *)
Plain(p) == p \in Seq(Item) /\ \A x \in Items(p) : x.do \in {"call", "cancelAll", "stop", "ack"}

(* ... and what it leaves there was there before.                             *)
Below(s) == s \in Seq(Item) /\ \A x \in Items(s) : x.do \in {"read", "clear"} => x \in Items(stack)

(* The items of two stacks, one upon the other.                               *)
LEMMA ItemsConcat ==
  ASSUME NEW p \in Seq(Item), NEW q \in Seq(Item)
  PROVE  p \o q \in Seq(Item) /\ Items(p \o q) = Items(p) \cup Items(q)
<1>1. /\ p \o q \in Seq(Item) /\ Len(p \o q) = Len(p) + Len(q)
      /\ \A i \in 1..Len(p) + Len(q) : (p \o q)[i] = IF i <= Len(p) THEN p[i] ELSE q[i - Len(p)]
  BY ConcatProperties
<1>2. Len(p) \in Nat /\ Len(q) \in Nat
  OBVIOUS
<1> PICK c \in Seq(Item) : c = p \o q
  BY <1>1
<1>3. ASSUME NEW i \in 1..Len(c) PROVE c[i] \in Items(p) \cup Items(q)
  <2>1. CASE i <= Len(p)
    BY <1>1, <1>2, <2>1 DEF Items
  <2>2. CASE ~(i <= Len(p))
    <3>1. i - Len(p) \in 1..Len(q)
      BY <1>1, <1>2, <2>2
    <3> QED BY <1>1, <2>2, <3>1 DEF Items
  <2> QED BY <2>1, <2>2
<1>4. ASSUME NEW i \in 1..Len(p) PROVE p[i] \in Items(c)
  <2>1. i \in 1..Len(c) /\ c[i] = p[i]
    BY <1>1, <1>2
  <2> QED BY <2>1 DEF Items
<1>5. ASSUME NEW i \in 1..Len(q) PROVE q[i] \in Items(c)
  <2>1. i + Len(p) \in 1..Len(c) /\ ~(i + Len(p) <= Len(p)) /\ (i + Len(p)) - Len(p) = i
    BY <1>1, <1>2
  <2>2. c[i + Len(p)] = q[i]
    BY <1>1, <2>1
  <2> QED BY <2>1, <2>2 DEF Items
<1>6. Items(c) \subseteq Items(p) \cup Items(q)
  <2> SUFFICES ASSUME NEW x \in Items(c) PROVE x \in Items(p) \cup Items(q)
    OBVIOUS
  <2>1. PICK i \in 1..Len(c) : x = c[i]
    BY DEF Items
  <2> QED BY <1>3, <2>1
<1>7. Items(p) \subseteq Items(c)
  <2> SUFFICES ASSUME NEW x \in Items(p) PROVE x \in Items(c)
    OBVIOUS
  <2>1. PICK i \in 1..Len(p) : x = p[i]
    BY DEF Items
  <2> QED BY <1>4, <2>1
<1>8. Items(q) \subseteq Items(c)
  <2> SUFFICES ASSUME NEW x \in Items(q) PROVE x \in Items(c)
    OBVIOUS
  <2>1. PICK i \in 1..Len(q) : x = q[i]
    BY DEF Items
  <2> QED BY <1>5, <2>1
<1>9. Items(c) = Items(p) \cup Items(q)
  BY <1>6, <1>7, <1>8
<1> QED BY <1>1, <1>9

(* Plain upon plain, and plain upon the rest.                                 *)
LEMMA PlainConcat ==
  /\ \A p, q : Plain(p) /\ Plain(q) => Plain(p \o q)
  /\ \A p, q : Plain(p) /\ Below(q) => Below(p \o q)
<1>1. ASSUME NEW p, NEW q, Plain(p), Plain(q) PROVE Plain(p \o q)
  BY <1>1, ItemsConcat DEF Plain
<1>2. ASSUME NEW p, NEW q, Plain(p), Below(q) PROVE Below(p \o q)
  BY <1>2, ItemsConcat DEF Plain, Below
<1> QED BY <1>1, <1>2

(* What is plain.                                                             *)
LEMMA PlainFacts ==
  /\ Plain(<<>>)
  /\ \A x \in Item : x.do \in {"call", "cancelAll", "stop", "ack"} => Plain(<<x>>)
  /\ Plain(CancelAllBegin) /\ Plain(<<[do |-> "stop"]>>)
  /\ \A c \in GoodCommand, e \in BOOLEAN : Plain(Ack(c, e))
  /\ \A o \in Ops \cup {None}, c \in BOOLEAN : Plain(Call(o, c))
<1>1. Plain(<<>>)
  BY EmptyOK DEF Plain, StackOK
<1>2. ASSUME NEW x \in Item, x.do \in {"call", "cancelAll", "stop", "ack"} PROVE Plain(<<x>>)
  BY <1>2, OneOK DEF Plain, StackOK
<1>3. Plain(CancelAllBegin)
  <2>1. 0 \in 0..MaxFd + 1
    BY ProactorAssumption
  <2> PICK x : x = [do |-> "cancelAll", fd |-> 0]
    OBVIOUS
  <2>2. x \in Item /\ x.do \in {"call", "cancelAll", "stop", "ack"}
    BY <2>1, ItemFacts
  <2>3. Plain(<<x>>)
    BY <1>2, <2>2
  <2> QED BY <2>3 DEF CancelAllBegin
<1>4. Plain(<<[do |-> "stop"]>>)
  <2> PICK x : x = [do |-> "stop"]
    OBVIOUS
  <2>1. x \in Item /\ x.do \in {"call", "cancelAll", "stop", "ack"}
    BY ItemFacts
  <2>2. Plain(<<x>>)
    BY <1>2, <2>1
  <2> QED BY <2>2
<1>5. ASSUME NEW c \in GoodCommand, NEW e \in BOOLEAN PROVE Plain(Ack(c, e))
  <2> PICK x : x = [do |-> "ack", by |-> c.by, err |-> e]
    OBVIOUS
  <2>1. x \in Item /\ x.do \in {"call", "cancelAll", "stop", "ack"}
    <3>1. c.by \in Threads
      BY DEF GoodCommand, Command
    <3> QED BY <3>1, ItemFacts
  <2>2. Plain(<<x>>)
    BY <1>2, <2>1
  <2> QED BY <1>1, <2>2 DEF Ack
<1>6. ASSUME NEW o \in Ops \cup {None}, NEW c \in BOOLEAN PROVE Plain(Call(o, c))
  <2>1. CASE o = None
    BY <1>1, <2>1 DEF Call
  <2>2. CASE o # None
    <3>1. PICK x \in Item : Call(o, c) = <<x>> /\ x.do = "call"
      BY <2>2, CallFacts
    <3>2. Plain(<<x>>)
      BY <1>2, <3>1
    <3> QED BY <3>1, <3>2
  <2> QED BY <2>1, <2>2
<1> QED BY <1>1, <1>2, <1>3, <1>4, <1>5, <1>6

(* What is below.                                                             *)
LEMMA BelowFacts ==
  ASSUME OpsInv
  PROVE  /\ Below(stack)
         /\ stack # <<>> => Below(Tail(stack))
         /\ stack # <<>> /\ Head(stack).do \in CbDo =>
               \A d \in CbDo : Below(<<[Head(stack) EXCEPT !.do = d]>> \o Tail(stack))
<1>1. StackOK(stack) /\ stack \in Seq(Item)
  BY DEF OpsInv, StackOK
<1>2. Below(stack)
  BY <1>1 DEF Below
<1>3. ASSUME stack # <<>> PROVE Below(Tail(stack))
  BY <1>1, <1>3, PopOK DEF Below, StackOK
<1>4. ASSUME stack # <<>>, Head(stack).do \in CbDo, NEW d \in CbDo
      PROVE  Below(<<[Head(stack) EXCEPT !.do = d]>> \o Tail(stack))
  <2> PICK h, r : h = Head(stack) /\ r = Tail(stack)
    OBVIOUS
  <2>1. h \in Item /\ h.do \in CbDo /\ Below(r)
    BY <1>1, <1>3, <1>4, PopOK
  <2>2. h = [do |-> h.do, op |-> h.op, cancelled |-> h.cancelled] /\ h.op \in Ops /\ h.cancelled \in BOOLEAN
    BY <2>1, ItemFacts
  <2> PICK x : x = [do |-> d, op |-> h.op, cancelled |-> h.cancelled]
    OBVIOUS
  <2>3. x = [h EXCEPT !.do = d]
    BY <2>2
  <2>4. x \in Item /\ x.do \notin AtBottom
    BY <2>2, ItemFacts DEF CbDo, AtBottom
  <2> PICK c : c = <<x>> \o r
    OBVIOUS
  <2>5. c \in Seq(Item) /\ Items(c) = {x} \cup Items(r)
    BY <2>1, <2>4, ConsSeq DEF Below
  <2>6. Below(c)
    BY <2>1, <2>4, <2>5 DEF Below, AtBottom
  <2> QED BY <2>3, <2>6
<1> QED BY <1>2, <1>3, <1>4

(* A step of the loop's thread that neither reads nor clears.                 *)
LEMMA QuietWake ==
  ASSUME WakeInv, UNCHANGED <<pc, notified, wakeup>>, batch' \subseteq batch, Below(stack')
  PROVE  WakeInv'
BY DEF WakeInv, Below

(* What a step puts on the stack s.                                           *)
Upon(c, s) == \E p : Plain(p) /\ c = p \o s

(* It is below what was below.                                                *)
LEMMA UponBelow == ASSUME NEW c, NEW s, Upon(c, s), Below(s) PROVE Below(c)
BY PlainConcat, Zenon DEF Upon

(* Nothing, and more of the same.                                             *)
LEMMA UponFacts ==
  /\ \A s \in Seq(Item) : Upon(s, s)
  /\ \A p, s : Plain(p) => Upon(p \o s, s)
  /\ \A p, c, s : s \in Seq(Item) /\ Plain(p) /\ Upon(c, p \o s) => Upon(c, s)
<1>1. ASSUME NEW s \in Seq(Item) PROVE Upon(s, s)
  <2>1. Plain(<<>>) /\ s = <<>> \o s
    BY PlainFacts, ConcatFacts
  <2> QED BY <2>1, Zenon DEF Upon
<1>2. ASSUME NEW p, NEW s, Plain(p) PROVE Upon(p \o s, s)
  BY <1>2 DEF Upon
<1>3. ASSUME NEW p, NEW c, NEW s \in Seq(Item), Plain(p), Upon(c, p \o s) PROVE Upon(c, s)
  <2>1. PICK q : Plain(q) /\ c = q \o (p \o s)
    BY <1>3 DEF Upon
  <2>2. (q \o p) \o s = q \o (p \o s)
    BY <1>3, <2>1, ConcatFacts DEF Plain
  <2>3. Plain(q \o p)
    BY <1>3, <2>1, PlainConcat, Zenon
  <2> QED BY <2>1, <2>2, <2>3 DEF Upon
<1> QED BY <1>1, <1>2, <1>3

(* cancelOperation on a stack.                                                *)
LEMMA CancelUpon ==
  ASSUME NEW o \in Ops, NEW rest \in Seq(Item), CancelOperation(o, rest)
  PROVE  Upon(stack', rest)
<1>1. CASE CancelRejected(o)
  BY <1>1, UponFacts DEF CancelOperation
<1>2. CASE ~CancelRejected(o)
  <2>1. stack' = Call(o, TRUE) \o rest
    BY <1>2 DEF CancelOperation
  <2> PICK q : q = Call(o, TRUE)
    OBVIOUS
  <2>2. Plain(q)
    BY PlainFacts
  <2> QED BY <2>1, <2>2, UponFacts
<1> QED BY <1>1, <1>2

(* Both operations of a descriptor get their callbacks.                       *)
LEMMA EmptyUpon ==
  ASSUME OpsInv, NEW f \in Fds, NEW rest, Empty(f, TRUE, rest) \/ Empty(f, FALSE, rest)
  PROVE  Upon(stack', rest)
<1>1. reads[f] \in Ops \cup {None} /\ writes[f] \in Ops \cup {None}
  BY ProactorAssumption DEF OpsInv, TablesTyped
<1>2. PICK p, q : stack' = (p \o q) \o rest /\ Plain(p) /\ Plain(q)
  <2>1. CASE Empty(f, TRUE, rest)
    <3>1. stack' = (Call(reads[f], TRUE) \o Call(writes[f], TRUE)) \o rest
      BY <2>1 DEF Empty
    <3>2. Plain(Call(reads[f], TRUE)) /\ Plain(Call(writes[f], TRUE))
      BY <1>1, PlainFacts
    <3> QED BY <3>1, <3>2
  <2>2. CASE Empty(f, FALSE, rest)
    <3>1. stack' = (Call(reads[f], FALSE) \o Call(writes[f], FALSE)) \o rest
      BY <2>2 DEF Empty
    <3>2. Plain(Call(reads[f], FALSE)) /\ Plain(Call(writes[f], FALSE))
      BY <1>1, PlainFacts
    <3> QED BY <3>1, <3>2
  <2> QED BY <2>1, <2>2
<1>3. Plain(p \o q)
  BY <1>2, PlainConcat, Zenon
<1> QED BY <1>2, <1>3, UponFacts, Zenon

(* cancelAllOperations.                                                       *)
LEMMA CancelAllUpon == ASSUME OpsInv, CancelAllOperations PROVE Upon(stack', Tail(stack))
<1>1. stack # <<>> /\ Head(stack).do = "cancelAll"
  BY DEF CancelAllOperations, Doing
<1> PICK h, r : h = Head(stack) /\ r = Tail(stack)
  OBVIOUS
<1>2. h \in Item /\ h.fd \in 0..MaxFd + 1 /\ MaxFd \in Nat /\ r \in Seq(Item)
  <2>1. h \in Item /\ r \in Seq(Item)
    BY <1>1, PopOK DEF OpsInv, StackOK
  <2> QED BY <1>1, <2>1, ItemFacts, ProactorAssumption
<1>3. CASE h.fd > MaxFd
  BY <1>2, <1>3, UponFacts DEF CancelAllOperations, Rest
<1>4. CASE ~(h.fd > MaxFd)
  <2> PICK f \in Fds : f = h.fd
    BY <1>2, <1>4 DEF Fds
  <2> PICK x : x = [do |-> "cancelAll", fd |-> f + 1]
    OBVIOUS
  <2>1. x \in Item /\ x.do = "cancelAll"
    <3>1. f + 1 \in 0..MaxFd + 1
      BY <1>2 DEF Fds
    <3> QED BY <3>1, ItemFacts
  <2> PICK q, rest : q = <<x>> /\ rest = <<x>> \o r
    OBVIOUS
  <2>2. Plain(q)
    BY <2>1, PlainFacts
  <2>3. Empty(f, TRUE, rest)
    BY <1>4 DEF CancelAllOperations, Rest
  <2>4. Upon(stack', q \o r)
    BY <2>3, EmptyUpon
  <2> QED BY <1>2, <2>2, <2>4, UponFacts, Zenon
<1> QED BY <1>3, <1>4

(* processCommand.                                                            *)
LEMMA CommandUpon ==
  ASSUME OpsInv, UserInv, NEW refused \in BOOLEAN, ProcessCommand(refused)
  PROVE  Upon(stack', stack)
<1> PICK c : c = Head(commands)
  OBVIOUS
<1>1. c \in GoodCommand /\ stack \in Seq(Item)
  BY DEF ProcessCommand, UserInv, OpsInv, StackOK
<1>2. ASSUME NEW e, e \in BOOLEAN PROVE Plain(Ack(c, e))
  BY <1>1, <1>2, PlainFacts
<1>3. CASE stack' = Ack(c, SubmitFails(c.op, refused)) \o stack
  <2>1. SubmitFails(c.op, refused) \in BOOLEAN
    BY Zenon DEF SubmitFails, Rejected
  <2> PICK q : q = Ack(c, SubmitFails(c.op, refused))
    OBVIOUS
  <2>2. Plain(q)
    BY <1>2, <2>1
  <2> QED BY <1>3, <2>2, UponFacts
<1>4. CASE c.type = "cancel" /\ CancelOperation(c.op, Ack(c, CancelFails(c.op)) \o stack)
  <2>1. c.op \in Ops
    BY <1>1, <1>4 DEF GoodCommand
  <2>2. CancelFails(c.op) \in BOOLEAN
    BY Zenon DEF CancelFails, CancelRejected
  <2> PICK q, rest : q = Ack(c, CancelFails(c.op)) /\ rest = Ack(c, CancelFails(c.op)) \o stack
    OBVIOUS
  <2>3. Plain(q)
    BY <1>2, <2>2
  <2>4. q \in Seq(Item) /\ rest = q \o stack
    BY <2>3 DEF Plain
  <2>5. rest \in Seq(Item)
    BY <1>1, <2>4, ItemsConcat
  <2>6. Upon(stack', q \o stack)
    BY <1>4, <2>1, <2>4, <2>5, CancelUpon
  <2> QED BY <1>1, <2>3, <2>6, UponFacts, Zenon
<1>5. CASE stack' = (CancelAllBegin \o Ack(c, FALSE)) \o stack
  <2>1. Plain(CancelAllBegin) /\ Plain(Ack(c, FALSE))
    BY <1>2, PlainFacts
  <2>2. Plain(CancelAllBegin \o Ack(c, FALSE))
    BY <2>1, PlainConcat, Zenon
  <2> QED BY <1>5, <2>2, UponFacts, Zenon
<1> QED BY <1>3, <1>4, <1>5 DEF ProcessCommand

(* A handler runs.                                                            *)
LEMMA HandlerRuns ==
  ASSUME OpsInv, HandlerStep
  PROVE  stack # <<>> /\ Head(stack).do = "handler" /\ Called \in Seq(Item) /\ Below(Called)
<1>1. stack # <<>> /\ Head(stack).do = "handler" /\ Head(stack).do \in CbDo /\ "return" \in CbDo
  BY DEF HandlerStep, HandlerSubmits, HandlerCancels, HandlerStops, Doing, CbDo
<1>2. Below(Called)
  BY <1>1, BelowFacts DEF Called, Rest
<1> QED BY <1>1, <1>2 DEF Below

(* What a handler calls.                                                      *)
LEMMA HandlerUpon == ASSUME OpsInv, HandlerStep PROVE Upon(stack', Called)
<1>1. Called \in Seq(Item)
  BY HandlerRuns
<1>2. ASSUME NEW o \in Ops, NEW refused \in BOOLEAN, HandlerSubmits(o, refused) PROVE Upon(stack', Called)
  <2>1. stack' = Called
    BY <1>2 DEF HandlerSubmits
  <2> QED BY <1>1, <2>1, UponFacts, Zenon
<1>3. ASSUME NEW o \in Ops, HandlerCancels(o) PROVE Upon(stack', Called)
  <2>1. CancelOperation(o, Called)
    BY <1>3 DEF HandlerCancels
  <2> QED BY <1>1, <2>1, CancelUpon
<1>4. CASE HandlerStops
  <2>1. stack' = (CancelAllBegin \o <<[do |-> "stop"]>>) \o Called
    BY <1>4 DEF HandlerStops
  <2>2. Plain(CancelAllBegin) /\ Plain(<<[do |-> "stop"]>>)
    BY PlainFacts
  <2>3. Plain(CancelAllBegin \o <<[do |-> "stop"]>>)
    BY <2>2, PlainConcat, Zenon
  <2> QED BY <2>1, <2>3, UponFacts, Zenon
<1> QED BY <1>2, <1>3, <1>4 DEF HandlerStep

(* An event that is not the wakeup.                                           *)
LEMMA EventPlain ==
  ASSUME OpsInv, NEW e, e.fd \in Fds, DispatchEvent(e)
  PROVE  Plain(stack')
<1>1. e.fd # Wakeup /\ Plain(<<>>) /\ stack = <<>>
  BY ProactorAssumption, PlainFacts DEF DispatchEvent
<1> PICK f \in Fds : f = e.fd
  OBVIOUS
<1>2. ASSUME NEW o, o = reads[f] \/ o = writes[f], EndOperation(o, f) PROVE Plain(stack')
  <2>1. CASE o = None
    BY <1>1, <1>2, <2>1 DEF EndOperation
  <2>2. CASE o # None
    <3>1. o \in Ops
      BY <1>2, <2>2, TableHeld DEF OpsInv
    <3>2. stack' = Call(o, FALSE)
      BY <1>2, <2>2 DEF EndOperation
    <3> QED BY <3>1, <3>2, PlainFacts
  <2> QED BY <2>1, <2>2
<1>3. CASE Empty(f, FALSE, <<>>)
  <2> PICK rest : rest = <<>>
    OBVIOUS
  <2>1. Plain(rest) /\ Empty(f, FALSE, rest)
    BY <1>1, <1>3
  <2>2. Upon(stack', rest)
    BY <2>1, EmptyUpon
  <2> QED BY <2>1, <2>2, PlainConcat, Zenon DEF Upon
<1>4. CASE stack' = stack
  BY <1>1, <1>4
<1> QED BY <1>1, <1>2, <1>3, <1>4 DEF DispatchEvent, OnEvent

(* A thread that writes the wakeup, and the steps before it.                  *)
LEMMA CallWake ==
  ASSUME UserInv, WakeInv, NEW t \in Threads, CallStep(t) \/ StartStep(t)
  PROVE  WakeInv'
<1>0. pc \in [Threads -> UserPc]
  BY DEF UserInv
<1>1. ASSUME NEW p, p # "write", pc' = [pc EXCEPT ![t] = p], pc[t] # "write", UNCHANGED <<wakeup, batch, stack>>,
             notified' = notified \/ notified' = TRUE
      PROVE  WakeInv'
  <2>1. \A u \in Threads : pc'[u] = "write" <=> pc[u] = "write"
    BY <1>0, <1>1
  <2>2. notified' \in BOOLEAN /\ (notified => notified')
    <3>1. notified \in BOOLEAN
      BY DEF WakeInv
    <3>2. CASE notified' = notified
      BY <3>1, <3>2
    <3>3. CASE notified' = TRUE
      BY <3>3
    <3> QED BY <1>1, <3>2, <3>3
  <2> QED BY <1>1, <2>1, <2>2 DEF WakeInv
<1>2. CASE StartStep(t)
  <2>1. UNCHANGED <<notified, wakeup, batch, stack>> /\ pc[t] # "write" /\ \E p \in {"push", "running"} : pc' = [pc EXCEPT ![t] = p]
    BY <1>2 DEF StartStep, Submit, Cancel, Stop, Start, queueVars
  <2> QED BY <1>1, <2>1
<1>3. CASE Exchange(t)
  <2>1. notified' = TRUE /\ UNCHANGED <<wakeup, batch, stack>> /\ pc[t] # "write"
    BY <1>3 DEF Exchange, Outside
  <2>2. CASE notified
    <3>1. \E p \in {"wait", "reactor", "idle"} : pc' = [pc EXCEPT ![t] = p]
      BY <1>3, <2>2 DEF Exchange, AfterWrite, Goto, Return
    <3> QED BY <1>1, <2>1, <3>1
  <2>3. CASE ~notified
    <3>1. pc' = [pc EXCEPT ![t] = "write"]
      BY <1>3, <2>3 DEF Exchange, Goto
    <3>2. wakeup = 0 /\ \A u \in Threads : pc[u] # "write"
      BY <2>3 DEF WakeInv
    <3>3. \A u \in Threads : pc'[u] = "write" <=> u = t
      BY <1>0, <3>1, <3>2
    <3>4. \A x \in Items(stack) : x.do # "clear" /\ x.do # "read"
      BY <2>3 DEF WakeInv
    <3> QED BY <2>1, <3>2, <3>3, <3>4 DEF WakeInv
  <2> QED BY <2>2, <2>3
<1>4. CASE Write(t)
  <2>1. wakeup' = wakeup + 1 /\ pc[t] = "write" /\ UNCHANGED <<notified, batch, stack>>
    BY <1>4 DEF Write, Outside
  <2>2. wakeup = 0 /\ notified
    BY <2>1 DEF WakeInv
  <2>3. \E p \in {"wait", "reactor", "idle"} : pc' = [pc EXCEPT ![t] = p]
    BY <1>4 DEF Write, AfterWrite, Goto, Return
  <2>4. \A u \in Threads : pc'[u] # "write"
    BY <1>0, <2>1, <2>3 DEF WakeInv
  <2>5. wakeup' = 1 /\ \A x \in Items(stack) : x.do # "clear" /\ x.do # "read"
    BY <2>1, <2>2 DEF WakeInv
  <2> QED BY <2>1, <2>2, <2>4, <2>5 DEF WakeInv
<1>5. CASE StopCheck(t) \/ StopClaim(t) \/ StopWaitLoop(t) \/ StopReset(t) \/ StopReactor(t) \/ StopWaitThread(t) \/ Push(t) \/ WaitDone(t)
  <2>1. UNCHANGED <<notified, wakeup, batch, stack>> /\ pc[t] # "write"
    BY <1>5 DEF StopCheck, StopClaim, StopWaitLoop, StopReset, StopReactor, StopWaitThread, Push, WaitDone, Outside, queueVars
  <2>2. \E p \in UserPc \ {"write"} : pc' = [pc EXCEPT ![t] = p]
    <3>1. UserPc \ {"write"} = {"idle", "push", "exchange", "wait", "running", "stopping", "waitloop", "reset", "reactor", "waitthread"}
      BY DEF UserPc
    <3> QED BY <1>5, <3>1 DEF StopCheck, StopClaim, StopWaitLoop, StopReset, StopReactor, StopWaitThread, Push, WaitDone, Goto, Return
  <2> QED BY <1>1, <2>1, <2>2
<1> QED BY <1>2, <1>3, <1>4, <1>5 DEF CallStep

(* epoll_wait reports the wakeup when its counter is set.                     *)
LEMMA WaitWake == ASSUME OpsInv, WakeInv, EpollWait PROVE WakeInv'
<1>1. stack = <<>> /\ UNCHANGED <<pc, notified, wakeup, stack>>
  BY DEF EpollWait, Elsewhere, OpsInv, queueVars
<1>2. PICK reported \in [Fds -> SUBSET Kinds] :
        batch' = WakeupEvent \cup {[fd |-> f, events |-> reported[f]] : f \in {g \in Fds : reported[g] # {}}}
  BY DEF EpollWait
<1> PICK w : w = [fd |-> Wakeup, events |-> {"in"}]
  OBVIOUS
<1>3. w.fd = Wakeup /\ w.events = {"in"} /\ (WakeupEvent = {} \/ (WakeupEvent = {w} /\ wakeup > 0)) /\ Wakeup \notin Fds
  BY ProactorAssumption DEF WakeupEvent
<1>4. ASSUME NEW e \in batch' PROVE (e = w /\ wakeup > 0) \/ (e.fd \in Fds /\ e.events \subseteq Kinds)
  <2>1. CASE e \in WakeupEvent
    BY <1>3, <2>1
  <2>2. CASE e \notin WakeupEvent
    <3>1. PICK f \in Fds : e = [fd |-> f, events |-> reported[f]]
      BY <1>2, <2>2
    <3> QED BY <1>2, <3>1
  <2> QED BY <2>1, <2>2
<1>5. wakeup > 0 => wakeup = 1
  BY DEF WakeInv
<1>6. Items(stack) = {}
  BY <1>1, EmptyOK
<1>7. \A e \in batch' : e.fd \in Fds \cup {Wakeup} /\ e.events \subseteq Kinds \cup {"in"} /\ (e.fd = Wakeup => e = w /\ wakeup = 1)
  BY <1>3, <1>4, <1>5
<1> QED BY <1>1, <1>6, <1>7 DEF WakeInv

(* Every step preserves the invariant of the wakeup.                          *)
LEMMA WakeStep ==
  ASSUME OpsInv, UserInv, WakeInv, [Next]_vars
  PROVE  WakeInv'
<1>1. ASSUME NEW t \in Threads, CallStep(t) \/ StartStep(t) PROVE WakeInv'
  BY <1>1, CallWake
<1>2. CASE EpollWait
  BY <1>2, WaitWake
<1>3. CASE ReadWakeup
  <2>1. stack # <<>> /\ Head(stack).do = "read" /\ wakeup' = 0 /\ UNCHANGED <<pc, notified, batch>>
    BY <1>3 DEF ReadWakeup, Doing, LoopOnly
  <2>2. Head(stack) \in Items(stack)
    BY <2>1, PopOK DEF OpsInv
  <2>3. wakeup = 1 /\ notified /\ \A e \in batch : e.fd # Wakeup
    BY <2>1, <2>2 DEF WakeInv
  <2>4. \A t \in Threads : pc[t] # "write"
    BY <2>3 DEF WakeInv
  <2> PICK x : x = [do |-> "clear"]
    OBVIOUS
  <2>5. stack' = <<x>> /\ x \in Item /\ x.do = "clear"
    <3>1. "read" \in AtBottom /\ "clear" \in AtBottom
      BY DEF AtBottom
    <3>2. stack' = <<x>> \o Tail(stack) /\ <<x>> \o Tail(stack) = <<x>>
      BY <1>3, <2>1, <3>1, SameBottom DEF ReadWakeup, Rest
    <3> QED BY <3>2, ItemFacts
  <2>6. Items(stack') = {x}
    BY <2>5, OneOK
  <2> QED BY <2>1, <2>3, <2>4, <2>5, <2>6 DEF WakeInv
<1>4. CASE ClearNotified
  <2>1. stack # <<>> /\ Head(stack).do = "clear" /\ notified' = FALSE /\ UNCHANGED <<pc, wakeup, batch>>
    BY <1>4 DEF ClearNotified, Doing, LoopOnly
  <2>2. Head(stack) \in Items(stack)
    BY <2>1, PopOK DEF OpsInv
  <2>3. wakeup = 0 /\ \A t \in Threads : pc[t] # "write"
    BY <2>1, <2>2 DEF WakeInv
  <2> PICK x : x = [do |-> "drain"]
    OBVIOUS
  <2>4. stack' = <<x>> /\ x \in Item /\ x.do = "drain"
    <3>1. "clear" \in AtBottom /\ "drain" \in AtBottom
      BY DEF AtBottom
    <3>2. stack' = <<x>> \o Tail(stack) /\ <<x>> \o Tail(stack) = <<x>>
      BY <1>4, <2>1, <3>1, SameBottom DEF ClearNotified, Rest
    <3> QED BY <3>2, ItemFacts
  <2>5. Items(stack') = {x}
    BY <2>4, OneOK
  <2>6. notified' \in BOOLEAN
    BY <2>1
  <2> QED BY <2>1, <2>3, <2>4, <2>5, <2>6 DEF WakeInv
<1>5. ASSUME NEW e \in batch, DispatchEvent(e) PROVE WakeInv'
  <2>1. UNCHANGED <<pc, notified, wakeup>> /\ batch' = batch \ {e} /\ stack = <<>>
    BY <1>5 DEF DispatchEvent, LoopOnly, queueVars
  <2>2. e.fd \in Fds \cup {Wakeup}
    BY DEF WakeInv
  <2>3. CASE e.fd = Wakeup
    <3> PICK x : x = [do |-> "read"]
      OBVIOUS
    <3>1. stack' = <<x>> /\ x \in Item /\ x.do = "read"
      BY <1>5, <2>3, ItemFacts DEF DispatchEvent
    <3>2. Items(stack') = {x}
      BY <3>1, OneOK
    <3>3. wakeup = 1 /\ \A d \in batch' : d.fd # Wakeup
      BY <2>1, <2>3 DEF WakeInv
    <3> QED BY <2>1, <3>1, <3>2, <3>3 DEF WakeInv
  <2>4. CASE e.fd \in Fds
    <3>1. Plain(stack')
      BY <1>5, <2>4, EventPlain
    <3>2. Below(stack')
      BY <3>1 DEF Plain, Below
    <3> QED BY <2>1, <3>2, QuietWake
  <2> QED BY <2>2, <2>3, <2>4
<1>6. CASE RunEnter \/ RunStart \/ CheckRunning \/ RunExit \/ ReactorCommand \/ Purge \/ UNCHANGED vars
  <2>1. UNCHANGED <<pc, notified, wakeup, batch, stack>>
    BY <1>6 DEF RunEnter, RunStart, CheckRunning, RunExit, ReactorCommand, Purge, Elsewhere, queueVars, vars, userVars
  <2> QED BY <2>1, BelowFacts, QuietWake
<1>7. CASE \/ CancelAllOperations \/ DispatchOperation \/ HandlerReturns \/ StopRunning \/ DrainEnds \/ Acknowledge
           \/ (\E refused \in BOOLEAN : ProcessCommand(refused)) \/ HandlerStep
  <2>1. UNCHANGED <<pc, notified, wakeup, batch>>
    BY <1>7 DEF CancelAllOperations, DispatchOperation, HandlerReturns, StopRunning, DrainEnds, Acknowledge, ProcessCommand,
                HandlerStep, HandlerSubmits, HandlerCancels, HandlerStops, LoopOnly, queueVars
  <2>2. Below(stack')
    <3>1. CASE CancelAllOperations
      <4>1. Upon(stack', Tail(stack)) /\ stack # <<>>
        BY <3>1, CancelAllUpon DEF CancelAllOperations, Doing
      <4> QED BY <4>1, BelowFacts, UponBelow
    <3>2. ASSUME NEW refused \in BOOLEAN, ProcessCommand(refused) PROVE Below(stack')
      BY <3>2, CommandUpon, BelowFacts, UponBelow
    <3>3. CASE HandlerStep
      BY <3>3, HandlerUpon, HandlerRuns, UponBelow
    <3>4. CASE HandlerReturns \/ StopRunning \/ DrainEnds \/ Acknowledge
      <4>1. stack # <<>> /\ stack' = Tail(stack)
        BY <3>4 DEF HandlerReturns, StopRunning, DrainEnds, Acknowledge, Doing, Rest
      <4> QED BY <4>1, BelowFacts
    <3>5. CASE DispatchOperation
      <4>1. /\ stack # <<>> /\ Head(stack).do \in CbDo /\ "handler" \in CbDo
            /\ stack' = <<[Head(stack) EXCEPT !.do = "handler"]>> \o Tail(stack)
        BY <3>5 DEF DispatchOperation, Doing, CbDo, Rest
      <4>2. Below(<<[Head(stack) EXCEPT !.do = "handler"]>> \o Tail(stack))
        BY <4>1, BelowFacts
      <4> QED BY <4>1, <4>2
    <3> QED BY <1>7, <3>1, <3>2, <3>3, <3>4, <3>5
  <2> QED BY <2>1, <2>2, QuietWake
<1> QED BY <1>1, <1>2, <1>3, <1>4, <1>5, <1>6, <1>7 DEF Next, LoopStep

(* Initially nobody is notified.                                              *)
LEMMA WakeInit == Init => WakeInv
<1> SUFFICES ASSUME Init PROVE WakeInv
  OBVIOUS
<1>1. Items(stack) = {} /\ batch = {} /\ \A t \in Threads : pc[t] # "write"
  BY EmptyOK DEF Init
<1>2. notified \in BOOLEAN
  BY DEF Init
<1> QED BY <1>1, <1>2 DEF Init, WakeInv

-----------------------------------------------------------------------------
(***************************************************************************)
(* The theorems.                                                           *)
(***************************************************************************)
ProactorInv == OpsInv /\ UserInv /\ WakeInv /\ WatchInv

(* The invariant holds initially and every step preserves it.                 *)
LEMMA ProactorInductive == Spec => []ProactorInv
<1>1. Init => ProactorInv
  BY OpsInit, UserInit, WakeInit, WatchInit DEF ProactorInv
<1>2. ProactorInv /\ [Next]_vars => ProactorInv'
  BY OpsStep, UserStep, WakeStep, WatchStep DEF ProactorInv
<1> QED BY <1>1, <1>2, PTL DEF Spec

(* The invariant gives the types.                                             *)
LEMMA ProactorTypes == ProactorInv => TypeOK
<1> SUFFICES ASSUME ProactorInv PROVE TypeOK
  OBVIOUS
<1>1. OpsInv /\ UserInv /\ WakeInv /\ WatchInv /\ Pollable \subseteq Fds
  BY ProactorAssumption DEF ProactorInv
<1>2. stack \in Seq(Item) /\ commands \in Seq(GoodCommand) /\ rcommands \in Seq({"watch", "stop"})
  BY <1>1 DEF OpsInv, StackOK, UserInv
<1>3. DOMAIN stack = 1..Len(stack) /\ DOMAIN commands = 1..Len(commands) /\ DOMAIN rcommands = 1..Len(rcommands)
  BY <1>2, LenProperties
<1>4. /\ \A i \in DOMAIN stack : stack[i] \in Item
      /\ \A i \in DOMAIN commands : commands[i] \in GoodCommand
      /\ \A i \in DOMAIN rcommands : rcommands[i] \in {"watch", "stop"}
  BY <1>2, <1>3, ElementOfSeq
<1>5. GoodCommand \subseteq Command
  BY DEF GoodCommand
<1>6. /\ pc \in [Threads -> UserPc] /\ \A t \in Threads : cmd[t] \in Command \cup {None}
      /\ done \in [Threads -> BOOLEAN] /\ errc \in [Threads -> BOOLEAN]
      /\ calls \in 0..MaxCalls /\ stopping \in BOOLEAN /\ threadSet \in BOOLEAN /\ running \in BOOLEAN
      /\ \A i \in DOMAIN commands : commands[i] \in Command
      /\ Len(commands) <= QueueSize
  BY <1>1, <1>4, <1>5 DEF UserInv
<1>7. /\ notified \in BOOLEAN /\ wakeup \in 0..1
      /\ \A e \in batch : e.fd \in Fds \cup {Wakeup} /\ e.events \subseteq Kinds \cup {"in"}
  BY <1>1 DEF WakeInv
<1>8. /\ reads \in [Fds -> (Ops \ Writes) \cup {None}] /\ writes \in [Fds -> Writes \cup {None}]
      /\ state \in [Ops -> {"Idle", "Submitted", "Cancelling"}] /\ young \subseteq Ops /\ asked \subseteq Ops
      /\ loop \in LoopPc
  BY <1>1 DEF OpsInv, TablesTyped, OpsTyped
<1>9. /\ interest \in [Fds -> SUBSET {"in", "out", "rdhup"}]
      /\ handlers \subseteq Fds \cup {Wakeup} /\ deleted \subseteq Fds
  BY <1>1 DEF WatchInv
<1> QED BY <1>4, <1>6, <1>7, <1>8, <1>9, Zenon DEF TypeOK, LoopPc

(* One callback for each operation that left its table.                       *)
LEMMA ProactorAccounts == OpsInv => OperationsAccounted
<1> SUFFICES ASSUME OpsInv, NEW o \in Ops
             PROVE  /\ Cardinality(OnStack(o)) = IF state[o] # "Idle" /\ Slot(o) # o THEN 1 ELSE 0
                    /\ Slot(o) = o => state[o] = "Submitted"
  BY DEF OperationsAccounted
<1>1. stack \in Seq(Item) /\ Apart(stack)
  BY DEF OpsInv, StackOK
<1>2. DOMAIN stack = 1..Len(stack)
  BY <1>1, LenProperties
<1>3. Answering(Items(stack), o) <=> (state[o] # "Idle" /\ Slot(o) # o)
  BY DEF OpsInv, Accounted, Held
<1>4. OnStack(o) = {i \in 1..Len(stack) : stack[i].do \in CbDo /\ stack[i].op = o}
  BY <1>2 DEF OnStack, CbDo
<1>5. CASE Answering(Items(stack), o)
  <2>1. PICK i \in 1..Len(stack) : stack[i].do \in CbDo /\ stack[i].op = o
    BY <1>5 DEF Answering, Items
  <2>2. OnStack(o) = {i}
    BY <1>1, <1>4, <2>1 DEF Apart
  <2>3. Cardinality(OnStack(o)) = 1
    BY <2>2, FS_Singleton
  <2> QED BY <1>3, <1>5, <2>3 DEF OpsInv, HeldSubmitted, Held
<1>6. CASE ~Answering(Items(stack), o)
  <2>1. OnStack(o) = {}
    BY <1>4, <1>6 DEF Answering, Items
  <2>2. Cardinality(OnStack(o)) = 0
    BY <2>1, FS_EmptySet
  <2> QED BY <1>3, <1>6, <2>2 DEF OpsInv, HeldSubmitted, Held
<1> QED BY <1>5, <1>6

(* cancelAllOperations has been through every descriptor.                     *)
LEMMA ProactorSweeps == OpsInv => StopCancelsAll
<1> SUFFICES ASSUME OpsInv, Doing("cancelAll"), Head(stack).fd > MaxFd, NEW o \in Ops, Slot(o) = o
             PROVE  o \in young
  BY DEF StopCancelsAll
<1>1. stack # <<>> /\ Head(stack).do = "cancelAll"
  BY DEF Doing
<1>2. Head(stack) \in Item /\ Head(stack) \in Items(stack)
  BY <1>1, PopOK DEF OpsInv
<1>3. Head(stack).fd \in 0..MaxFd + 1
  BY <1>1, <1>2, ItemFacts
<1>4. OpFd[o] \in 0..MaxFd /\ MaxFd \in Nat
  BY ProactorAssumption DEF Fds
<1>5. OpFd[o] < Head(stack).fd
  BY <1>3, <1>4
<1> QED BY <1>1, <1>2, <1>5 DEF OpsInv, Swept, Held

(* The operations of the epoll backend (submit, cancel, stop and the events, also from handlers): each is
   accounted for exactly once and stop leaves none behind, for every number of threads, operations and
   descriptors, whatever the descriptors report and whatever handlers call.   *)
THEOREM OperationsAreSafe == Spec => []OperationsSafe
<1>1. ProactorInv => OperationsSafe
  BY ProactorTypes, ProactorAccounts, ProactorSweeps DEF ProactorInv, OperationsSafe
<1> QED BY <1>1, ProactorInductive, PTL

(* The events of the epoll backend: addHandler and delHandler keep epoll's list what the tables ask for, and
   the only null operation an event can meet is that of a descriptor whose other direction is in use. *)
THEOREM EventsAreMatched == Spec => []EventsMatched
<1>1. ProactorInv => EventsMatched
  BY DEF ProactorInv, WatchInv, EventsMatched
<1> QED BY <1>1, ProactorInductive, PTL

-----------------------------------------------------------------------------
(***************************************************************************)
(* The promise of AsyncOperations.                                         *)
(***************************************************************************)

(* The callback of o that runs is onCancel, or onComplete.                    *)
RunsCancel(I, o) == \E x \in I : x.do \in {"handler", "return"} /\ x.op = o /\ x.cancelled
RunsComplete(I, o) == \E x \in I : x.do \in {"handler", "return"} /\ x.op = o /\ ~x.cancelled

(* The phase of an operation, from the items of the stack.                    *)
PhaseOf(I, st, o) ==
    IF st = "Idle" THEN "idle"
    ELSE IF RunsCancel(I, o) THEN "cancel" ELSE IF RunsComplete(I, o) THEN "complete" ELSE "flight"

PhasesRead == \A o \in Ops : Phase(o) = PhaseOf(Items(stack), state[o], o)

(* Since an operation has at most one callback on the stack, Phase reads that one. *)
LEMMA PhaseRead == OpsInv => PhasesRead
<1> SUFFICES ASSUME OpsInv, NEW o \in Ops PROVE Phase(o) = PhaseOf(Items(stack), state[o], o)
  BY DEF PhasesRead
<1>1. stack \in Seq(Item) /\ Apart(stack)
  BY DEF OpsInv, StackOK
<1>2. DOMAIN stack = 1..Len(stack)
  BY <1>1, LenProperties
<1>3. \A i \in OnStack(o) : i \in 1..Len(stack) /\ stack[i].do \in CbDo /\ stack[i].op = o /\ (stack[i].do # "call" <=> stack[i].do \in {"handler", "return"})
  BY <1>2 DEF OnStack, CbDo
<1>4. \A i \in 1..Len(stack) : stack[i].do \in CbDo /\ stack[i].op = o => i \in OnStack(o)
  BY <1>2 DEF OnStack, CbDo
<1>5. \A i, j \in OnStack(o) : i = j
  BY <1>1, <1>3 DEF Apart
<1>6. CASE \E i \in OnStack(o) : stack[i].do # "call"
  <2>1. PICK i \in OnStack(o) : stack[i].do # "call"
    BY <1>6
  <2>2. (CHOOSE j \in OnStack(o) : TRUE) = i
    BY <1>5
  <2>3. Phase(o) = IF state[o] = "Idle" THEN "idle" ELSE IF stack[i].cancelled THEN "cancel" ELSE "complete"
    BY <1>6, <2>2 DEF Phase
  <2>4. stack[i] \in Items(stack) /\ stack[i].do \in {"handler", "return"} /\ stack[i].op = o
    BY <1>3, <2>1 DEF Items
  <2>5. \A x \in Items(stack) : x.do \in {"handler", "return"} /\ x.op = o => x = stack[i]
    <3> SUFFICES ASSUME NEW j \in 1..Len(stack), stack[j].do \in {"handler", "return"}, stack[j].op = o PROVE j = i
      BY DEF Items
    <3>1. j \in OnStack(o)
      BY <1>4 DEF CbDo
    <3> QED BY <1>5, <3>1
  <2>6. /\ RunsCancel(Items(stack), o) <=> stack[i].cancelled
        /\ RunsComplete(Items(stack), o) <=> ~stack[i].cancelled
    BY <2>4, <2>5, Zenon DEF RunsCancel, RunsComplete
  <2> QED BY <2>3, <2>6 DEF PhaseOf
<1>7. CASE ~(\E i \in OnStack(o) : stack[i].do # "call")
  <2>1. Phase(o) = IF state[o] = "Idle" THEN "idle" ELSE "flight"
    BY <1>7 DEF Phase
  <2>2. \A x \in Items(stack) : ~(x.do \in {"handler", "return"} /\ x.op = o)
    BY <1>4, <1>7 DEF Items, CbDo
  <2>3. ~RunsCancel(Items(stack), o) /\ ~RunsComplete(Items(stack), o)
    BY <2>2, Zenon DEF RunsCancel, RunsComplete
  <2> QED BY <2>1, <2>3 DEF PhaseOf
<1> QED BY <1>6, <1>7

(* The same in the next state.                                                *)
LEMMA PhaseReadNext == OpsInv' => PhasesRead'
BY PhaseRead, PTL

(* The callbacks that run on s are those that run now.                        *)
SameRuns(s) ==
    \A o \in Ops : /\ RunsCancel(Items(s), o) <=> RunsCancel(Items(stack), o)
                   /\ RunsComplete(Items(s), o) <=> RunsComplete(Items(stack), o)

(* What is put on the stack does not run yet.                                 *)
LEMMA UponRuns == ASSUME NEW c, NEW s \in Seq(Item), Upon(c, s), SameRuns(s) PROVE SameRuns(c)
<1>1. PICK p \in Seq(Item) : c = p \o s /\ \A x \in Items(p) : x.do \in {"call", "cancelAll", "stop", "ack"}
  BY DEF Upon, Plain
<1>2. Items(c) = Items(p) \cup Items(s)
  BY <1>1, ItemsConcat
<1>3. \A x \in Items(p) : x.do \notin {"handler", "return"}
  BY <1>1
<1>4. \A o : (RunsCancel(Items(c), o) <=> RunsCancel(Items(s), o)) /\ (RunsComplete(Items(c), o) <=> RunsComplete(Items(s), o))
  BY <1>2, <1>3 DEF RunsCancel, RunsComplete
<1> QED BY <1>4 DEF SameRuns

(* The stack without its head, and with the head of a handler that has made its call. *)
LEMMA RunsFacts ==
  ASSUME OpsInv
  PROVE  /\ SameRuns(stack)
         /\ stack # <<>> /\ Head(stack).do \notin {"handler", "return"} => SameRuns(Tail(stack)) /\ Tail(stack) \in Seq(Item)
         /\ stack # <<>> /\ Head(stack).do = "handler" => SameRuns(Called) /\ Called \in Seq(Item)
<1>1. StackOK(stack)
  BY DEF OpsInv
<1>2. SameRuns(stack)
  BY DEF SameRuns
<1>3. ASSUME stack # <<>>, Head(stack).do \notin {"handler", "return"} PROVE SameRuns(Tail(stack)) /\ Tail(stack) \in Seq(Item)
  <2>1. Items(stack) = {Head(stack)} \cup Items(Tail(stack)) /\ Tail(stack) \in Seq(Item)
    BY <1>1, <1>3, PopOK DEF StackOK
  <2> QED BY <1>3, <2>1 DEF SameRuns, RunsCancel, RunsComplete
<1>4. ASSUME stack # <<>>, Head(stack).do = "handler" PROVE SameRuns(Called) /\ Called \in Seq(Item)
  <2> PICK h, r : h = Head(stack) /\ r = Tail(stack)
    OBVIOUS
  <2>1. h \in Item /\ h.do = "handler" /\ Items(stack) = {h} \cup Items(r) /\ r \in Seq(Item)
    BY <1>1, <1>4, PopOK DEF StackOK
  <2>2. h = [do |-> h.do, op |-> h.op, cancelled |-> h.cancelled] /\ h.op \in Ops /\ h.cancelled \in BOOLEAN
    BY <2>1, ItemFacts DEF CbDo
  <2> PICK x : x = [do |-> "return", op |-> h.op, cancelled |-> h.cancelled]
    OBVIOUS
  <2>3. x = [h EXCEPT !.do = "return"] /\ x.do = "return" /\ x.op = h.op /\ x.cancelled = h.cancelled
    BY <2>2
  <2>4. x \in Item
    BY <2>2, ItemFacts DEF CbDo
  <2> PICK c : c = <<x>> \o r
    OBVIOUS
  <2>5. c \in Seq(Item) /\ Items(c) = {x} \cup Items(r)
    BY <2>1, <2>4, ConsSeq
  <2>6. SameRuns(c)
    BY <2>1, <2>3, <2>5 DEF SameRuns, RunsCancel, RunsComplete
  <2>7. Called = c
    BY <2>3 DEF Called, Rest
  <2> QED BY <2>5, <2>6, <2>7
<1> QED BY <1>2, <1>3, <1>4

(* The steps of the promise, from the phases before and after.                *)
LEMMA PromiseSteps ==
  ASSUME NEW o \in Ops, \A p \in Ops \ {o} : Phase(p)' = Phase(p)
  PROVE  /\ Phase(o) = "idle" /\ Phase(o)' = "flight" /\ asked' = asked => Promise!OpNext
         /\ Phase(o) = "flight" /\ Phase(o)' = "complete" /\ asked' = asked => Promise!OpNext
         /\ Phase(o) = "flight" /\ Phase(o)' = "cancel" /\ o \in asked /\ asked' = asked => Promise!OpNext
         /\ Phase(o) \in {"complete", "cancel"} /\ Phase(o)' = "idle" /\ asked' = asked \ {o} => Promise!OpNext
<1>1. ASSUME NEW v, Phase(o)' = v PROVE [p \in Ops |-> Phase(p)]' = [[p \in Ops |-> Phase(p)] EXCEPT ![o] = v]
  BY <1>1
<1>2. [p \in Ops |-> Phase(p)][o] = Phase(o)
  OBVIOUS
<1>3. ASSUME Phase(o) = "idle", Phase(o)' = "flight", asked' = asked PROVE Promise!Accept(o)
  BY <1>1, <1>2, <1>3 DEF Promise!Accept
<1>4. ASSUME Phase(o) = "flight", Phase(o)' = "complete", asked' = asked PROVE Promise!Complete(o)
  BY <1>1, <1>2, <1>4 DEF Promise!Complete
<1>5. ASSUME Phase(o) = "flight", Phase(o)' = "cancel", o \in asked, asked' = asked PROVE Promise!Cancel(o)
  BY <1>1, <1>2, <1>5 DEF Promise!Cancel
<1>6. ASSUME Phase(o) \in {"complete", "cancel"}, Phase(o)' = "idle", asked' = asked \ {o} PROVE Promise!Retire(o)
  BY <1>1, <1>2, <1>6 DEF Promise!Retire
<1> QED BY <1>3, <1>4, <1>5, <1>6 DEF Promise!OpNext

(* Operations in flight are asked to be cancelled; with none, nothing happens. *)
LEMMA PromiseAsk ==
  ASSUME \A p \in Ops : Phase(p)' = Phase(p), NEW os \in SUBSET Ops, \A o \in os : Phase(o) = "flight", asked' = asked \cup os
  PROVE  Promise!OpNext
<1>1. [p \in Ops |-> Phase(p)]' = [p \in Ops |-> Phase(p)]
  OBVIOUS
<1>2. os \subseteq {o \in Ops : [p \in Ops |-> Phase(p)][o] = "flight"}
  OBVIOUS
<1>3. Promise!Ask(os)
  BY <1>1, <1>2 DEF Promise!Ask
<1> QED BY <1>3 DEF Promise!OpNext

(* Nothing happens to the operations.                                         *)
LEMMA PromiseStutter == (\A p \in Ops : Phase(p)' = Phase(p)) /\ asked' = asked => UNCHANGED Promise!opVars
<1> SUFFICES ASSUME \A p \in Ops : Phase(p)' = Phase(p), asked' = asked PROVE UNCHANGED Promise!opVars
  OBVIOUS
<1>1. [p \in Ops |-> Phase(p)]' = [p \in Ops |-> Phase(p)]
  OBVIOUS
<1> QED BY <1>1 DEF Promise!opVars

(* The phase does not change when what runs and what is idle do not.          *)
LEMMA SamePhase ==
  ASSUME PhasesRead, PhasesRead', SameRuns(stack'), NEW o \in Ops, state'[o] = "Idle" <=> state[o] = "Idle"
  PROVE  Phase(o)' = Phase(o)
<1>1. Phase(o) = PhaseOf(Items(stack), state[o], o)
  BY DEF PhasesRead
<1>2. Phase(o)' = PhaseOf(Items(stack'), state'[o], o)
  BY DEF PhasesRead
<1>3. PhaseOf(Items(stack'), state'[o], o) = PhaseOf(Items(stack), state[o], o)
  BY DEF PhaseOf, SameRuns
<1> QED BY <1>1, <1>2, <1>3

(* An operation whose callback is not on the stack does not run.              *)
LEMMA NotAnswering ==
  ASSUME OpsInv, NEW o \in Ops, Held(o) \/ state[o] = "Idle"
  PROVE  /\ ~RunsCancel(Items(stack), o) /\ ~RunsComplete(Items(stack), o)
         /\ Held(o) => Phase(o) = "flight"
         /\ state[o] = "Idle" => Phase(o) = "idle"
<1>1. ~Answering(Items(stack), o)
  BY DEF OpsInv, Accounted
<1>2. ~RunsCancel(Items(stack), o) /\ ~RunsComplete(Items(stack), o)
  BY <1>1 DEF Answering, RunsCancel, RunsComplete, CbDo
<1>3. Phase(o) = PhaseOf(Items(stack), state[o], o)
  BY PhaseRead DEF PhasesRead
<1>4. Held(o) => state[o] # "Idle"
  BY DEF OpsInv, HeldSubmitted
<1> QED BY <1>2, <1>3, <1>4 DEF PhaseOf

Kept == Promise!OpNext \/ UNCHANGED Promise!opVars

(* submitOperation accepts an operation, or does nothing.                     *)
LEMMA SubmitKeeps ==
  ASSUME OpsInv, OpsInv', NEW o \in Ops, NEW refused, SubmitOperation(o, refused), SameRuns(stack')
  PROVE  Kept
<1>0. PhasesRead /\ PhasesRead'
  BY PhaseRead, PhaseReadNext
<1>1. CASE Rejected(o, refused)
  <2>1. state' = state /\ asked' = asked
    BY <1>1 DEF SubmitOperation, tableVars
  <2>2. \A p \in Ops : Phase(p)' = Phase(p)
    BY <1>0, <2>1, SamePhase
  <2> QED BY <2>1, <2>2, PromiseStutter DEF Kept
<1>2. CASE ~Rejected(o, refused)
  <2>1. state' = [state EXCEPT ![o] = "Submitted"] /\ asked' = asked /\ state[o] = "Idle"
    BY <1>2 DEF SubmitOperation, Rejected
  <2>2. \A p \in Ops : state'[p] = IF p = o THEN "Submitted" ELSE state[p]
    BY <2>1 DEF OpsInv, OpsTyped
  <2>3. \A p \in Ops \ {o} : Phase(p)' = Phase(p)
    BY <1>0, <2>2, SamePhase
  <2>4. Phase(o) = "idle" /\ ~RunsCancel(Items(stack'), o) /\ ~RunsComplete(Items(stack'), o)
    BY <2>1, NotAnswering DEF SameRuns
  <2>5. Phase(o)' = "flight"
    <3>1. Phase(o)' = PhaseOf(Items(stack'), state'[o], o)
      BY <1>0 DEF PhasesRead
    <3> QED BY <2>2, <2>4, <3>1 DEF PhaseOf
  <2> QED BY <2>1, <2>3, <2>4, <2>5, PromiseSteps DEF Kept
<1> QED BY <1>1, <1>2

(* cancelOperation asks for the cancellation of an operation in flight, or does nothing. *)
LEMMA CancelKeeps ==
  ASSUME OpsInv, OpsInv', NEW o \in Ops, NEW rest, CancelOperation(o, rest), SameRuns(stack')
  PROVE  Kept
<1>0. PhasesRead /\ PhasesRead'
  BY PhaseRead, PhaseReadNext
<1>1. CASE CancelRejected(o)
  <2>1. state' = state /\ asked' = asked
    BY <1>1 DEF CancelOperation, tableVars
  <2>2. \A p \in Ops : Phase(p)' = Phase(p)
    BY <1>0, <2>1, SamePhase
  <2> QED BY <2>1, <2>2, PromiseStutter DEF Kept
<1>2. CASE ~CancelRejected(o)
  <2>1. state' = [state EXCEPT ![o] = "Cancelling"] /\ asked' = asked \cup {o} /\ state[o] = "Submitted" /\ Held(o)
    BY <1>2 DEF CancelOperation, CancelRejected, Held
  <2>2. \A p \in Ops : state'[p] = IF p = o THEN "Cancelling" ELSE state[p]
    BY <2>1 DEF OpsInv, OpsTyped
  <2>3. \A p \in Ops : Phase(p)' = Phase(p)
    BY <1>0, <2>1, <2>2, SamePhase
  <2>4. Phase(o) = "flight" /\ {o} \in SUBSET Ops
    BY <2>1, NotAnswering
  <2> QED BY <2>1, <2>3, <2>4, PromiseAsk DEF Kept
<1> QED BY <1>1, <1>2

(* cancelAllOperations asks for the cancellation of what is in flight for one descriptor. *)
LEMMA CancelAllKeeps == ASSUME OpsInv, OpsInv', CancelAllOperations PROVE Kept
<1>0. PhasesRead /\ PhasesRead'
  BY PhaseRead, PhaseReadNext
<1>1. stack # <<>> /\ Head(stack).do = "cancelAll"
  BY DEF CancelAllOperations, Doing
<1>2. SameRuns(stack')
  BY <1>1, CancelAllUpon, RunsFacts, UponRuns
<1>3. state' = state
  BY DEF CancelAllOperations, Empty
<1>4. \A p \in Ops : Phase(p)' = Phase(p)
  BY <1>0, <1>2, <1>3, SamePhase
<1> PICK f : f = Head(stack).fd
  OBVIOUS
<1>5. f \in 0..MaxFd + 1 /\ MaxFd \in Nat
  <2>1. Head(stack) \in Item
    BY <1>1, PopOK DEF OpsInv
  <2> QED BY <1>1, <2>1, ItemFacts, ProactorAssumption
<1>6. CASE f > MaxFd
  <2>1. asked' = asked
    BY <1>6 DEF CancelAllOperations
  <2> QED BY <1>4, <2>1, PromiseStutter DEF Kept
<1>7. CASE ~(f > MaxFd)
  <2>1. f \in Fds
    BY <1>5, <1>7 DEF Fds
  <2> PICK os : os = {reads[f], writes[f]} \ {None}
    OBVIOUS
  <2>2. asked' = asked \cup os
    BY <1>7 DEF CancelAllOperations
  <2>3. os \in SUBSET Ops /\ \A o \in os : Held(o)
    BY <2>1, TableHeld DEF OpsInv
  <2>4. \A o \in os : Phase(o) = "flight"
    BY <2>3, NotAnswering
  <2> QED BY <1>4, <2>2, <2>3, <2>4, PromiseAsk DEF Kept
<1> QED BY <1>6, <1>7

(* dispatchOperation starts the callback of an operation in flight; onCancel if it was cancelled. *)
LEMMA DispatchKeeps == ASSUME OpsInv, OpsInv', DispatchOperation PROVE Kept
<1>0. PhasesRead /\ PhasesRead'
  BY PhaseRead, PhaseReadNext
<1>1. stack # <<>> /\ Head(stack).do = "call" /\ Head(stack).do \in CbDo /\ UNCHANGED <<state, asked>>
  BY DEF DispatchOperation, Doing, CbDo, tableVars
<1> PICK h, r : h = Head(stack) /\ r = Tail(stack)
  OBVIOUS
<1>2. h \in Item /\ h.do = "call" /\ Items(stack) = {h} \cup Items(r) /\ r \in Seq(Item) /\ ~Answering(Items(r), h.op)
  BY <1>1, PopOK DEF OpsInv, StackOK
<1>3. h = [do |-> h.do, op |-> h.op, cancelled |-> h.cancelled] /\ h.op \in Ops /\ h.cancelled \in BOOLEAN
  BY <1>1, <1>2, ItemFacts
<1> PICK o \in Ops : o = h.op
  BY <1>3
<1> PICK x : x = [do |-> "handler", op |-> h.op, cancelled |-> h.cancelled]
  OBVIOUS
<1>4. x = [h EXCEPT !.do = "handler"] /\ x.do = "handler" /\ x.op = o /\ x.cancelled = h.cancelled
  BY <1>3
<1>5. x \in Item
  BY <1>3, ItemFacts DEF CbDo
<1>6. Items(stack') = {x} \cup Items(r)
  <2>1. stack' = <<x>> \o r
    BY <1>4 DEF DispatchOperation, Rest
  <2> QED BY <1>2, <1>5, <2>1, ConsSeq
<1>7. ~RunsCancel(Items(r), o) /\ ~RunsComplete(Items(r), o)
  BY <1>2 DEF Answering, RunsCancel, RunsComplete, CbDo
<1>8. ~RunsCancel(Items(stack), o) /\ ~RunsComplete(Items(stack), o)
  BY <1>2, <1>7 DEF RunsCancel, RunsComplete
<1>9. /\ h.cancelled => RunsCancel(Items(stack'), o)
      /\ ~h.cancelled => ~RunsCancel(Items(stack'), o) /\ RunsComplete(Items(stack'), o)
  BY <1>4, <1>6, <1>7 DEF RunsCancel, RunsComplete
<1>10. \A p \in Ops \ {o} : /\ RunsCancel(Items(stack'), p) <=> RunsCancel(Items(stack), p)
                            /\ RunsComplete(Items(stack'), p) <=> RunsComplete(Items(stack), p)
  BY <1>2, <1>4, <1>6 DEF RunsCancel, RunsComplete
<1>11. state[o] # "Idle"
  <2>1. Answering(Items(stack), o)
    BY <1>1, <1>2 DEF Answering
  <2> QED BY <2>1 DEF OpsInv, Accounted
<1>12. \A p \in Ops : Phase(p) = PhaseOf(Items(stack), state[p], p) /\ Phase(p)' = PhaseOf(Items(stack'), state[p], p)
  BY <1>0, <1>1 DEF PhasesRead
<1>13. \A p \in Ops \ {o} : Phase(p)' = Phase(p)
  BY <1>10, <1>12 DEF PhaseOf
<1>14. Phase(o) = "flight"
  BY <1>8, <1>11, <1>12 DEF PhaseOf
<1>15. CASE h.cancelled
  <2>1. Phase(o)' = "cancel"
    BY <1>9, <1>11, <1>12, <1>15 DEF PhaseOf
  <2>2. o \in asked
    BY <1>1, <1>2, <1>15 DEF OpsInv, CancelledAsked
  <2> QED BY <1>1, <1>13, <1>14, <2>1, <2>2, PromiseSteps DEF Kept
<1>16. CASE ~h.cancelled
  <2>1. Phase(o)' = "complete"
    BY <1>9, <1>11, <1>12, <1>16 DEF PhaseOf
  <2> QED BY <1>1, <1>13, <1>14, <2>1, PromiseSteps DEF Kept
<1> QED BY <1>15, <1>16

(* When the callback has returned the operation is not in flight any more.    *)
LEMMA ReturnKeeps == ASSUME OpsInv, OpsInv', HandlerReturns PROVE Kept
<1>0. PhasesRead /\ PhasesRead'
  BY PhaseRead, PhaseReadNext
<1>1. stack # <<>> /\ Head(stack).do \in {"handler", "return"} /\ Head(stack).do \in CbDo
  BY DEF HandlerReturns, Doing, CbDo
<1> PICK h, r : h = Head(stack) /\ r = Tail(stack)
  OBVIOUS
<1>2. h \in Item /\ h \in Items(stack) /\ Items(stack) = {h} \cup Items(r) /\ h.op \in Ops
  BY <1>1, PopOK, ItemFacts DEF OpsInv
<1> PICK o \in Ops : o = h.op
  BY <1>2
<1>3. state' = [state EXCEPT ![o] = "Idle"] /\ asked' = asked \ {o} /\ stack' = r
  BY DEF HandlerReturns, Rest
<1>4. \A p \in Ops : state'[p] = IF p = o THEN "Idle" ELSE state[p]
  BY <1>3 DEF OpsInv, OpsTyped
<1>5. \A p \in Ops : Phase(p) = PhaseOf(Items(stack), state[p], p) /\ Phase(p)' = PhaseOf(Items(stack'), state'[p], p)
  BY <1>0 DEF PhasesRead
<1>6. \A p \in Ops \ {o} : /\ RunsCancel(Items(stack'), p) <=> RunsCancel(Items(stack), p)
                           /\ RunsComplete(Items(stack'), p) <=> RunsComplete(Items(stack), p)
  BY <1>2, <1>3 DEF RunsCancel, RunsComplete
<1>7. \A p \in Ops \ {o} : Phase(p)' = Phase(p)
  BY <1>4, <1>5, <1>6 DEF PhaseOf
<1>8. RunsCancel(Items(stack), o) \/ RunsComplete(Items(stack), o)
  BY <1>1, <1>2 DEF RunsCancel, RunsComplete
<1>9. state[o] # "Idle"
  <2>1. Answering(Items(stack), o)
    BY <1>1, <1>2 DEF Answering
  <2> QED BY <2>1 DEF OpsInv, Accounted
<1>10. Phase(o) \in {"complete", "cancel"} /\ Phase(o)' = "idle"
  BY <1>4, <1>5, <1>8, <1>9 DEF PhaseOf
<1> QED BY <1>3, <1>7, <1>10, PromiseSteps DEF Kept

(* Every step is one of the promise's, or leaves the operations where they are. *)
LEMMA KeepsStep ==
  ASSUME OpsInv, OpsInv', UserInv, WakeInv, [Next]_vars
  PROVE  Kept
<1>0. PhasesRead /\ PhasesRead'
  BY PhaseRead, PhaseReadNext
<1>1. ASSUME UNCHANGED <<state, asked>>, SameRuns(stack') PROVE Kept
  <2>1. \A p \in Ops : Phase(p)' = Phase(p)
    BY <1>0, <1>1, SamePhase
  <2> QED BY <1>1, <2>1, PromiseStutter DEF Kept
<1>2. CASE CancelAllOperations
  BY <1>2, CancelAllKeeps
<1>3. CASE DispatchOperation
  BY <1>3, DispatchKeeps
<1>4. CASE HandlerReturns
  BY <1>4, ReturnKeeps
<1>5. ASSUME NEW refused \in BOOLEAN, ProcessCommand(refused) PROVE Kept
  <2>1. SameRuns(stack')
    <3>1. stack \in Seq(Item)
      BY DEF OpsInv, StackOK
    <3> QED BY <1>5, <3>1, CommandUpon, RunsFacts, UponRuns
  <2> PICK c : c = Head(commands)
    OBVIOUS
  <2>2. c \in GoodCommand
    BY <1>5 DEF ProcessCommand, UserInv
  <2>3. CASE c.type = "submit" /\ SubmitOperation(c.op, refused)
    <3>1. c.op \in Ops
      BY <2>2, <2>3 DEF GoodCommand
    <3> QED BY <2>1, <2>3, <3>1, SubmitKeeps
  <2>4. CASE c.type = "cancel" /\ CancelOperation(c.op, Ack(c, CancelFails(c.op)) \o stack)
    <3>1. c.op \in Ops
      BY <2>2, <2>4 DEF GoodCommand
    <3> PICK rest : rest = Ack(c, CancelFails(c.op)) \o stack
      OBVIOUS
    <3> QED BY <2>1, <2>4, <3>1, CancelKeeps
  <2>5. CASE UNCHANGED tableVars
    BY <1>1, <2>1, <2>5 DEF tableVars
  <2> QED BY <1>5, <2>3, <2>4, <2>5 DEF ProcessCommand
<1>6. CASE HandlerStep
  <2>1. SameRuns(stack')
    BY <1>6, HandlerRuns, HandlerUpon, RunsFacts, UponRuns
  <2>2. ASSUME NEW o \in Ops, NEW refused \in BOOLEAN, HandlerSubmits(o, refused) PROVE Kept
    <3>1. SubmitOperation(o, refused)
      BY <2>2 DEF HandlerSubmits
    <3> QED BY <2>1, <3>1, SubmitKeeps
  <2>3. ASSUME NEW o \in Ops, HandlerCancels(o) PROVE Kept
    <3>1. CancelOperation(o, Called)
      BY <2>3 DEF HandlerCancels
    <3> QED BY <2>1, <3>1, CancelKeeps
  <2>4. CASE HandlerStops
    BY <1>1, <2>1, <2>4 DEF HandlerStops, tableVars
  <2> QED BY <1>6, <2>2, <2>3, <2>4 DEF HandlerStep
<1>7. ASSUME NEW e \in batch, DispatchEvent(e) PROVE Kept
  <2>1. stack = <<>> /\ e.fd \in Fds \cup {Wakeup}
    BY <1>7 DEF DispatchEvent, WakeInv
  <2>2. UNCHANGED <<state, asked>>
    BY <1>7 DEF DispatchEvent, OnEvent, Empty, EndOperation, tableVars
  <2>3. \A x \in Items(stack') : x.do \notin {"handler", "return"}
    <3>1. CASE e.fd = Wakeup
      <4> PICK x : x = [do |-> "read"]
        OBVIOUS
      <4>1. stack' = <<x>> /\ x \in Item /\ x.do = "read"
        BY <1>7, <3>1, ItemFacts DEF DispatchEvent
      <4> QED BY <4>1, OneOK
    <3>2. CASE e.fd \in Fds
      BY <1>7, <3>2, EventPlain DEF Plain
    <3> QED BY <2>1, <3>1, <3>2
  <2>4. SameRuns(stack')
    <3>1. Items(stack) = {}
      BY <2>1, EmptyOK
    <3> QED BY <2>3, <3>1 DEF SameRuns, RunsCancel, RunsComplete
  <2> QED BY <1>1, <2>2, <2>4
<1>8. CASE StopRunning \/ DrainEnds \/ Acknowledge
  <2>1. stack # <<>> /\ Head(stack).do \notin {"handler", "return"} /\ stack' = Tail(stack) /\ UNCHANGED <<state, asked>>
    BY <1>8 DEF StopRunning, DrainEnds, Acknowledge, Doing, Rest, tableVars
  <2> QED BY <1>1, <2>1, RunsFacts
<1>9. CASE ReadWakeup \/ ClearNotified
  <2>1. stack # <<>> /\ Head(stack).do \in AtBottom /\ UNCHANGED <<state, asked>>
    BY <1>9 DEF ReadWakeup, ClearNotified, Doing, AtBottom, tableVars
  <2>2. PICK d \in {"clear", "drain"} : stack' = <<[do |-> d]>> \o Tail(stack)
    BY <1>9 DEF ReadWakeup, ClearNotified, Rest
  <2> PICK x : x = [do |-> d]
    OBVIOUS
  <2>3. x \in Item /\ x.do \notin {"handler", "return"} /\ Head(stack).do \notin {"handler", "return"}
    BY <2>1, ItemFacts DEF AtBottom
  <2>4. SameRuns(Tail(stack)) /\ Tail(stack) \in Seq(Item)
    BY <2>1, <2>3, RunsFacts
  <2>5. Items(stack') = {x} \cup Items(Tail(stack))
    BY <2>2, <2>3, <2>4, ConsSeq
  <2>6. SameRuns(stack')
    BY <2>3, <2>4, <2>5 DEF SameRuns, RunsCancel, RunsComplete
  <2> QED BY <1>1, <2>1, <2>6
<1>10. CASE \/ RunEnter \/ RunStart \/ CheckRunning \/ RunExit \/ EpollWait \/ ReactorCommand \/ Purge
            \/ \E t \in Threads : CallStep(t) \/ StartStep(t)
            \/ UNCHANGED vars
  <2>1. UNCHANGED <<state, asked, stack>>
    <3>1. CASE \/ RunEnter \/ RunStart \/ CheckRunning \/ RunExit \/ EpollWait \/ ReactorCommand \/ Purge
      BY <3>1 DEF RunEnter, RunStart, CheckRunning, RunExit, EpollWait, ReactorCommand, Purge, Elsewhere, tableVars
    <3>2. ASSUME NEW t \in Threads, CallStep(t) PROVE UNCHANGED <<state, asked, stack>>
      BY <3>2 DEF CallStep, StopCheck, StopClaim, StopWaitLoop, StopReset, StopReactor, StopWaitThread, Push, Exchange, Write,
                  WaitDone, Outside, tableVars
    <3>3. ASSUME NEW t \in Threads, StartStep(t) PROVE UNCHANGED <<state, asked, stack>>
      BY <3>3 DEF StartStep, Submit, Cancel, Stop, Start, tableVars
    <3>4. CASE UNCHANGED vars
      BY <3>4 DEF vars, tableVars
    <3> QED BY <1>10, <3>1, <3>2, <3>3, <3>4
  <2> QED BY <1>1, <2>1, RunsFacts
<1> QED BY <1>2, <1>3, <1>4, <1>5, <1>6, <1>7, <1>8, <1>9, <1>10 DEF Next, LoopStep

(* The epoll backend implements AsyncOperations: submitOperation accepts, cancelOperation and
   cancelAllOperations ask, dispatchOperation answers with onComplete or onCancel exactly once, onCancel only
   when the operation was cancelled, and every other step of the proactor leaves the operations where they are. *)
THEOREM ProactorKeepsPromise == Spec => KeepsPromise
<1>1. Init => Promise!OpInit
  <2> SUFFICES ASSUME Init PROVE Promise!OpInit
    OBVIOUS
  <2>1. \A o \in Ops : Phase(o) = "idle"
    BY DEF Init, Phase
  <2>2. [o \in Ops |-> Phase(o)] = [o \in Ops |-> "idle"]
    BY <2>1
  <2> QED BY <2>2 DEF Promise!OpInit, Init
<1>2. ProactorInv /\ ProactorInv' /\ [Next]_vars => [Promise!OpNext]_(Promise!opVars)
  BY KeepsStep DEF ProactorInv, Kept
<1> QED BY <1>1, <1>2, ProactorInductive, PTL DEF Spec, KeepsPromise, Promise!OpSpec
=============================================================================
