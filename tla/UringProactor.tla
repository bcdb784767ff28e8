--------------------------- MODULE UringProactor ---------------------------
(***************************************************************************)
(* BasicProactor over io_uring (core/include/join/proactor.hpp and         *)
(* proactor_uring_impl.hpp), under its three kinds of policy: the default  *)
(* one, woken by an eventfd whose read is itself an operation of the ring, *)
(* the spinning one, and the one whose submission queue the kernel polls.  *)
(*                                                                         *)
(* The ring is modelled by what the code uses of it: entries prepared and  *)
(* not yet submitted, operations in the kernel, and completions in order,  *)
(* of which the first stays in the queue until io_uring_cqe_seen.  The     *)
(* loop's thread has a stack of things to do, the innermost call first,    *)
(* because stop from a handler runs an event loop inside the handler.      *)
(***************************************************************************)
EXTENDS Naturals, Sequences, SequencesExt, FiniteSets

CONSTANTS
    UThreads,      \* user threads
    UOps,          \* IoOperation objects
    UNone,         \* nullptr
    UWake,         \* _wakeupOp
    SqEntries,     \* Policy::sqEntries
    UQueueSize,    \* _queueSize
    UPolicies,     \* bound: the policies examined, of "default", "spin", "sqpoll"
    UFlushes,      \* bound: the values of flush, of TRUE and FALSE
    USyncs,        \* bound: the values of sync
    UCalls,        \* bound: what users call, of "submit", "cancel", "flush", "stop"
    UHandlerCalls, \* bound: what handlers call, of "submit", "cancel", "stop"
    UNestedStops,  \* bound: whether a handler calls stop while other operations are pending
    UMaxCalls      \* bound: how many calls users and handlers make

ASSUME UringAssumption ==
    /\ SqEntries \in Nat \ {0} /\ UQueueSize \in Nat \ {0} /\ UMaxCalls \in Nat
    /\ UFlushes \subseteq BOOLEAN /\ USyncs \subseteq BOOLEAN
    /\ UNone \notin UOps /\ UWake \notin UOps /\ UWake # UNone

VARIABLES
    upolicy,      \* the template argument
    upc, ucmd,    \* where a user thread is, and the Command of its call
    udone,        \* the stack variable a sync call waits on
    ucalls,       \* how many calls were made, by threads and by handlers
    ustopping,    \* _stopping
    ucommands,    \* _commands
    unotified,    \* _notified
    uwakeup,      \* the counter of _wakeup
    ustate,       \* op->state
    uindex,       \* op->index, counted from 1
    upending,     \* _pendingOps
    sq,           \* entries prepared and not submitted: [do, op]
    kernel,       \* operations the kernel works on, _wakeupOp too
    kcancel,      \* those it was asked to cancel
    cq,           \* completions not yet seen: [op, res]
    ustack,       \* what the loop's thread has still to do
    urunning,     \* _running
    uthread       \* _threadId is valid

ucallVars == <<upc, ucmd, udone, ucalls, ustopping>>
uqueueVars == <<ucommands, unotified, uwakeup>>
utableVars == <<ustate, uindex, upending>>
ringVars == <<sq, kernel, kcancel, cq>>
uringVars == <<upolicy, ucallVars, uqueueVars, utableVars, ringVars, ustack, urunning, uthread>>

UringInit ==
    /\ upolicy \in UPolicies
    /\ upc = [t \in UThreads |-> "idle"]
    /\ ucmd = [t \in UThreads |-> UNone]
    /\ udone = [t \in UThreads |-> FALSE]
    /\ ucalls = 0
    /\ ustopping = FALSE
    /\ ucommands = <<>>
    /\ unotified = FALSE
    /\ uwakeup = 0
    /\ ustate = [o \in UOps |-> "Idle"]
    /\ uindex = [o \in UOps |-> 0]
    /\ upending = <<>>
    /\ sq = <<>> /\ kernel = {} /\ kcancel = {} /\ cq = <<>>
    /\ ustack = <<[do |-> "run"]>>
    /\ urunning = FALSE
    /\ uthread = FALSE

-----------------------------------------------------------------------------
(* submit, cancel, flush and stop in a user thread.                         *)

UStart(t, type, o, flush, sync) ==
    /\ upc[t] = "idle"
    /\ type \in UCalls
    /\ ucalls < UMaxCalls
    /\ ucalls' = ucalls + 1
    /\ ucmd' = [ucmd EXCEPT ![t] = [type |-> type, op |-> o, flush |-> flush, sync |-> sync, by |-> t]]
    /\ upc' = [upc EXCEPT ![t] = IF type = "stop" THEN "running" ELSE "push"]
    /\ UNCHANGED <<upolicy, udone, ustopping, uqueueVars, utableVars, ringVars, ustack, urunning, uthread>>

UGoto(t, there) ==
    /\ upc' = [upc EXCEPT ![t] = there]
    /\ udone' = [udone EXCEPT ![t] = IF there = "idle" THEN FALSE ELSE @]
    /\ ucmd' = [ucmd EXCEPT ![t] = IF there = "idle" THEN UNone ELSE @]
    /\ UNCHANGED ucalls

UOutside == UNCHANGED <<upolicy, utableVars, ringVars, ustack, urunning, uthread>>

\* stop: nothing to do unless the loop runs; one sync caller at a time writes the command.
UStopCheck(t) ==
    /\ upc[t] = "running"
    /\ UGoto(t, IF ~urunning THEN "idle" ELSE IF ucmd[t].sync THEN "claim" ELSE "push")
    /\ UNCHANGED <<ustopping, uqueueVars>> /\ UOutside

UStopClaim(t) ==
    /\ upc[t] = "claim"
    /\ ustopping' = TRUE
    /\ UGoto(t, IF ustopping THEN "others" ELSE "push")
    /\ UNCHANGED uqueueVars /\ UOutside

\* A sync call waits: stop for the end of the loop's thread, the others for done.
UAfterWrite(t) == IF ~ucmd[t].sync THEN "idle" ELSE IF ucmd[t].type = "stop" THEN "thread" ELSE "wait"

\* writeCommand: the queue, then _notified and the eventfd under the default policy.
UPush(t) ==
    /\ upc[t] = "push"
    /\ Len(ucommands) < UQueueSize
    /\ ucommands' = Append(ucommands, ucmd[t])
    /\ UGoto(t, IF upolicy = "default" THEN "exchange" ELSE UAfterWrite(t))
    /\ UNCHANGED <<ustopping, unotified, uwakeup>> /\ UOutside

UExchange(t) ==
    /\ upc[t] = "exchange"
    /\ unotified' = TRUE
    /\ UGoto(t, IF unotified THEN UAfterWrite(t) ELSE "write")
    /\ UNCHANGED <<ustopping, ucommands, uwakeup>> /\ UOutside

UWrite(t) ==
    /\ upc[t] = "write"
    /\ uwakeup' = uwakeup + 1
    /\ UGoto(t, UAfterWrite(t))
    /\ UNCHANGED <<ustopping, ucommands, unotified>> /\ UOutside

UWaitDone(t) ==
    /\ upc[t] = "wait" /\ udone[t]
    /\ UGoto(t, "idle")
    /\ UNCHANGED <<ustopping, uqueueVars>> /\ UOutside

\* Only the caller that claimed _stopping resets it.
UWaitThread(t) ==
    /\ upc[t] \in {"thread", "others"} /\ ~uthread
    /\ UGoto(t, "idle")
    /\ ustopping' = (ustopping /\ upc[t] = "others")
    /\ UNCHANGED uqueueVars /\ UOutside

-----------------------------------------------------------------------------
(* The ring.                                                                *)

Entry(do, o) == [do |-> do, op |-> o]

EntryOps(entries) == {o \in UOps \cup {UWake} : \E i \in DOMAIN entries : entries[i] = Entry("op", o)}

\* The operations a cancel entry finds: those inside the kernel, and those that entered before it.
CancelledBy(entries, inside) ==
    {o \in UOps : \E i \in DOMAIN entries :
        /\ entries[i] = Entry("cancel", o)
        /\ o \in inside \/ \E j \in DOMAIN entries : j < i /\ entries[j] = Entry("op", o)}

\* io_uring_submit: the kernel takes the entries in order; a cancel entry completes at once, with no data.
RingSubmit(entries, left) ==
    /\ sq' = left
    /\ kernel' = kernel \cup EntryOps(entries)
    /\ kcancel' = kcancel \cup CancelledBy(entries, kernel)
    /\ cq' = cq \o [i \in 1..Cardinality({j \in DOMAIN entries : entries[j].do = "cancel"}) |-> [op |-> UNone, res |-> "ok"]]

\* getSqe submits what is prepared whenever the queue is full; flush submits everything.
Prepare(entries, flush) ==
    LET all == sq \o entries
        full == IF all = <<>> THEN 0 ELSE ((Len(all) - 1) \div SqEntries) * SqEntries
    IN  IF flush THEN RingSubmit(all, <<>>)
        ELSE RingSubmit(SubSeq(all, 1, full), SubSeq(all, full + 1, Len(all)))

\* An operation ends in the kernel, with its own result or cancelled.
KernelComplete(o, res) ==
    /\ o \in kernel
    /\ o = UWake => uwakeup > 0 /\ res = "ok"
    /\ res = "cancelled" => o \in kcancel
    /\ kernel' = kernel \ {o}
    /\ kcancel' = kcancel \ {o}
    /\ cq' = Append(cq, [op |-> o, res |-> res])
    /\ uwakeup' = IF o = UWake THEN 0 ELSE uwakeup
    /\ UNCHANGED <<upolicy, ucallVars, ucommands, unotified, utableVars, sq, ustack, urunning, uthread>>

-----------------------------------------------------------------------------
(* submitOperation, cancelOperation, endOperation in the loop's thread.     *)

\* Mutant: an operation in flight is taken again.
USubmitUnchecked(o) == FALSE

USubmitFails(o) == ustate[o] # "Idle"

USubmitOperation(o, flush) ==
    IF USubmitFails(o) THEN UNCHANGED <<utableVars, ringVars>>
    ELSE /\ ustate' = [ustate EXCEPT ![o] = "Submitted"]
         /\ uindex' = [uindex EXCEPT ![o] = Len(upending) + 1]
         /\ upending' = Append(upending, o)
         /\ Prepare(<<Entry("op", o)>>, flush)

InPending(o) == uindex[o] \in DOMAIN upending /\ upending[uindex[o]] = o

UCancelFails(o) == ustate[o] # "Submitted" \/ ~InPending(o)

UCancelOperation(o, flush) ==
    /\ IF UCancelFails(o) THEN UNCHANGED <<ustate, ringVars>>
       ELSE /\ ustate' = [ustate EXCEPT ![o] = "Cancelling"]
            /\ Prepare(<<Entry("cancel", o)>>, flush)
    /\ UNCHANGED <<uindex, upending>>

\* cancelAllOperations, and the submission that follows it in processCommand.
UCancelAll(flush) ==
    /\ \E p \in SetToSeqs({i \in DOMAIN upending : ustate[upending[i]] = "Submitted"}) :
        /\ \A i, j \in DOMAIN p : i < j => p[i] < p[j]
        /\ ustate' = [o \in UOps |-> IF \E i \in DOMAIN p : upending[p[i]] = o THEN "Cancelling" ELSE ustate[o]]
        /\ Prepare([i \in DOMAIN p |-> Entry("cancel", upending[p[i]])], flush)
    /\ UNCHANGED <<uindex, upending>>

\* Mutant: the index of the operation that moves is not updated.
DropPendingKeepsIndex(o) ==
    IF ~InPending(o) THEN UNCHANGED <<uindex, upending>>
    ELSE /\ upending' = Front([upending EXCEPT ![uindex[o]] = Last(upending)])
         /\ UNCHANGED uindex

\* endOperation: the last operation takes the place of the one that ends.
DropPending(o) ==
    IF ~InPending(o) THEN UNCHANGED <<uindex, upending>>
    ELSE LET last == Last(upending) IN
         /\ upending' = Front([upending EXCEPT ![uindex[o]] = last])
         /\ uindex' = [uindex EXCEPT ![last] = uindex[o]]

-----------------------------------------------------------------------------
(* The loop's thread.                                                       *)

Doing(do) == ustack # <<>> /\ Head(ustack).do = do
Then(items) == ustack' = [i \in DOMAIN items |-> [do |-> items[i]]] \o Tail(ustack)

\* run: the thread is known, then the loop starts.
URunEnter ==
    /\ Doing("run")
    /\ uthread' = TRUE
    /\ Then(<<"start">>)
    /\ UNCHANGED <<upolicy, ucallVars, uqueueVars, utableVars, ringVars, urunning>>

URunStart ==
    /\ Doing("start")
    /\ urunning' = TRUE
    /\ Then(IF upolicy = "default" THEN <<"rearm", "check", "exit">> ELSE <<"check", "exit">>)
    /\ UNCHANGED <<upolicy, ucallVars, uqueueVars, utableVars, ringVars, uthread>>

URunExit ==
    /\ Doing("exit")
    /\ uthread' = FALSE
    /\ Then(<<>>)
    /\ UNCHANGED <<upolicy, ucallVars, uqueueVars, utableVars, ringVars, urunning>>

\* rearmWakeup: the read of the eventfd is prepared and everything is submitted.
RearmWakeup ==
    /\ Doing("rearm")
    /\ IF urunning THEN RingSubmit(Append(sq, Entry("op", UWake)), <<>>) ELSE UNCHANGED ringVars
    /\ Then(<<>>)
    /\ UNCHANGED <<upolicy, ucallVars, uqueueVars, utableVars, urunning, uthread>>

\* io_uring_peek_cqe, after an io_uring_submit or not.
PeekCqe(submit, next) ==
    /\ IF submit THEN RingSubmit(sq, <<>>) ELSE UNCHANGED ringVars
    /\ Then((IF cq' = <<>> THEN <<>> ELSE <<"dispatch", "seen">>) \o next)

\* eventLoop, from its condition, which is local to the thread, to the first completion.
\* io_uring_wait_cqe waits for one, the others do not.
ULoopCheck ==
    /\ Doing("check")
    /\ IF urunning /\ upolicy = "default" THEN cq # <<>> /\ PeekCqe(FALSE, <<"check">>)
       ELSE IF urunning THEN Then(<<"drain", "peek", "check">>) /\ UNCHANGED ringVars
       ELSE IF upending # <<>> THEN PeekCqe(TRUE, <<"check">>)
       ELSE Then(<<>>) /\ UNCHANGED ringVars
    /\ UNCHANGED <<upolicy, ucallVars, uqueueVars, utableVars, urunning, uthread>>

UPeek ==
    /\ Doing("peek")
    /\ PeekCqe(upolicy = "sqpoll", <<>>)
    /\ UNCHANGED <<upolicy, ucallVars, uqueueVars, utableVars, urunning, uthread>>

\* io_uring_cqe_seen moves the head of the queue, whoever has moved it meanwhile.
USeen ==
    /\ Doing("seen")
    /\ IF cq = <<>> THEN Then(<<"overrun">>) /\ UNCHANGED cq
       ELSE cq' = Tail(cq) /\ Then(IF Len(cq) > 1 THEN <<"dispatch", "seen">> ELSE <<>>)
    /\ UNCHANGED <<upolicy, ucallVars, uqueueVars, utableVars, sq, kernel, kcancel, urunning, uthread>>

IsCancelled(c) == c.res # "ok" /\ (c.res = "cancelled" \/ ustate[c.op] = "Cancelling")

\* Mutant: _notified stays set after the wakeup.
DispatchCqeNotified ==
    /\ Doing("dispatch")
    /\ LET c == Head(cq) IN
       IF c.op = UWake THEN Then(<<"drain", "rearm">>) /\ UNCHANGED <<uindex, upending>>
       ELSE IF c.op = UNone \/ (c.op \in UOps /\ ustate[c.op] = "Idle") THEN Then(<<>>) /\ UNCHANGED <<uindex, upending>>
       ELSE /\ DropPending(c.op)
            /\ ustack' = <<[do |-> "handler", op |-> c.op, cancelled |-> IsCancelled(c)]>> \o Tail(ustack)
    /\ UNCHANGED <<upolicy, ucallVars, uqueueVars, ustate, ringVars, urunning, uthread>>

\* dispatchCqe and endOperation, up to the call of the handler.
DispatchCqe ==
    /\ Doing("dispatch")
    /\ LET c == Head(cq) IN
       IF c.op = UWake
       THEN /\ unotified' = FALSE
            /\ Then(<<"drain", "rearm">>)
            /\ UNCHANGED <<uindex, upending>>
       ELSE IF c.op = UNone \/ (c.op \in UOps /\ ustate[c.op] = "Idle")
       THEN Then(<<>>) /\ UNCHANGED <<unotified, uindex, upending>>
       ELSE /\ DropPending(c.op)
            /\ ustack' = <<[do |-> "handler", op |-> c.op, cancelled |-> IsCancelled(c)]>> \o Tail(ustack)
            /\ UNCHANGED unotified
    /\ UNCHANGED <<upolicy, ucallVars, ucommands, uwakeup, ustate, ringVars, urunning, uthread>>

\* dispatchOperation: the operation is Idle again when its handler has returned.
UHandlerReturns ==
    /\ Doing("handler")
    /\ ustate' = [ustate EXCEPT ![Head(ustack).op] = "Idle"]
    /\ Then(<<>>)
    /\ UNCHANGED <<upolicy, ucallVars, uqueueVars, uindex, upending, ringVars, urunning, uthread>>

HandlerCall(type) ==
    /\ Doing("handler") /\ type \in UHandlerCalls
    /\ ucalls < UMaxCalls
    /\ ucalls' = ucalls + 1
    /\ UNCHANGED <<upolicy, upc, ucmd, udone, ustopping, uqueueVars, uthread>>

UHandlerSubmits(o, flush) ==
    /\ HandlerCall("submit")
    /\ USubmitOperation(o, flush)
    /\ UNCHANGED <<ustack, urunning>>

UHandlerCancels(o, flush) ==
    /\ HandlerCall("cancel")
    /\ UCancelOperation(o, flush)
    /\ UNCHANGED <<ustack, urunning>>

\* stop in the loop's thread: everything is cancelled and an inner event loop waits for it.
UHandlerStops ==
    /\ HandlerCall("stop")
    /\ UNestedStops \/ upending = <<>>
    /\ urunning' = FALSE
    /\ UCancelAll(FALSE)
    /\ ustack' = <<[do |-> "check"]>> \o ustack

\* processCommand for the first command of the queue.
UDrain ==
    /\ Doing("drain") /\ ucommands # <<>>
    /\ LET c == Head(ucommands) IN
       /\ ucommands' = Tail(ucommands)
       /\ CASE c.type = "submit" -> USubmitOperation(c.op, c.flush) /\ UNCHANGED urunning
            [] c.type = "cancel" -> UCancelOperation(c.op, c.flush) /\ UNCHANGED urunning
            [] c.type = "flush" -> RingSubmit(sq, <<>>) /\ UNCHANGED <<utableVars, urunning>>
            [] c.type = "stop" -> UCancelAll(c.sync) /\ urunning' = FALSE
       /\ udone' = [udone EXCEPT ![c.by] = @ \/ (c.sync /\ c.type # "stop")]
    /\ UNCHANGED <<upolicy, upc, ucmd, ucalls, ustopping, unotified, uwakeup, ustack, uthread>>

UDrainEnds ==
    /\ Doing("drain") /\ ucommands = <<>>
    /\ Then(<<>>)
    /\ UNCHANGED <<upolicy, ucallVars, uqueueVars, utableVars, ringVars, urunning, uthread>>

-----------------------------------------------------------------------------

UCallStep(t) == UStopCheck(t) \/ UStopClaim(t) \/ UPush(t) \/ UExchange(t) \/ UWrite(t)
                \/ UWaitDone(t) \/ UWaitThread(t)

ULoopStep == URunEnter \/ URunStart \/ URunExit \/ RearmWakeup \/ ULoopCheck \/ UPeek \/ USeen
             \/ DispatchCqe \/ UHandlerReturns \/ UDrain \/ UDrainEnds

UHandlerStep == \/ \E o \in UOps, flush \in UFlushes : UHandlerSubmits(o, flush) \/ UHandlerCancels(o, flush)
                \/ UHandlerStops

UKernelStep == \E o \in kernel, res \in {"ok", "fail", "cancelled"} : KernelComplete(o, res)

UStartStep(t) == \E sync \in USyncs :
    \/ \E o \in UOps, flush \in UFlushes : UStart(t, "submit", o, flush, sync) \/ UStart(t, "cancel", o, flush, sync)
    \/ UStart(t, "flush", UNone, FALSE, sync)
    \/ UStart(t, "stop", UNone, sync, sync)

UringNext ==
    \/ \E t \in UThreads : UCallStep(t) \/ UStartStep(t)
    \/ ULoopStep \/ UHandlerStep \/ UKernelStep

UringSpec == UringInit /\ [][UringNext]_uringVars

\* Threads are scheduled, handlers return, the kernel ends what it was asked to cancel and
\* reads the eventfd when it can.
UringFairness ==
    /\ WF_uringVars(ULoopStep)
    /\ \A t \in UThreads : WF_uringVars(UCallStep(t))
    /\ \A o \in UOps : WF_uringVars(o \in kcancel /\ KernelComplete(o, "cancelled"))
    /\ WF_uringVars(KernelComplete(UWake, "ok"))

UringFairSpec == UringSpec /\ UringFairness

-----------------------------------------------------------------------------

\* The first completion is dispatched and still in the queue.
FirstUnseen == IF (\E i \in DOMAIN ustack : ustack[i].do = "seen") /\ ~Doing("dispatch") THEN 2 ELSE 1

(* Every operation of _pendingOps knows its place in it and is held by the ring exactly once;
   the ring holds no other operation, but for the completion being dispatched: the user may
   destroy an operation that is not in flight.                                *)
UringHoldsPending ==
    /\ \A i \in DOMAIN upending : uindex[upending[i]] = i
    /\ \A o \in UOps :
        LET places == Cardinality({i \in DOMAIN sq : sq[i] = Entry("op", o)})
                      + Cardinality(kernel \cap {o})
                      + Cardinality({i \in FirstUnseen..Len(cq) : cq[i].op = o})
        IN  places = IF InPending(o) THEN 1 ELSE 0

(* A completion is given to its handler once, also when a handler stops the proactor. *)
UringOneCallback ==
    \A i, j \in DOMAIN ustack : ustack[i].do = "handler" /\ ustack[j].do = "handler" /\ ustack[i].op = ustack[j].op => i = j

UPhase(o) ==
    IF ustate[o] = "Idle" THEN "idle"
    ELSE LET called == {i \in DOMAIN ustack : ustack[i].do = "handler" /\ ustack[i].op = o} IN
         IF called = {} THEN "flight"
         ELSE IF ustack[CHOOSE i \in called : TRUE].cancelled THEN "cancel" ELSE "complete"

UPromise == INSTANCE AsyncOperations WITH
                Ops <- UOps, phase <- [o \in UOps |-> UPhase(o)], asked <- {o \in UOps : ustate[o] = "Cancelling"}

(* The io_uring backend keeps the promise the epoll backend keeps.            *)
UringKeepsPromise == UPromise!OpSpec

(* stop with sync comes to its end: its command wakes the loop, and the loop ends once every
   cancelled operation has come back, unless one was submitted behind the command. *)
UringStopEnds ==
    (\E t \in UThreads : upc[t] = "thread") ~>
        (~uthread \/ (~urunning /\ \E i \in DOMAIN upending : ustate[upending[i]] = "Submitted"))
=============================================================================
