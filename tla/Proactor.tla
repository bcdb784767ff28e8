------------------------------ MODULE Proactor ------------------------------
(***************************************************************************)
(* BasicProactor over epoll (core/include/join/proactor.hpp and            *)
(* proactor_epoll_impl.hpp).                                               *)
(*                                                                         *)
(* User threads call submit, cancel and stop, which write commands; the    *)
(* thread that runs the reactor executes them, performs an operation when  *)
(* its descriptor is ready, and calls its handler.  A handler may call     *)
(* submit, cancel or stop itself, so calls nest: stack is what the loop's  *)
(* thread has still to do in the round, the innermost call first.          *)
(*                                                                         *)
(* Of the reactor only what the proactor depends on is here: the batch of  *)
(* an epoll_wait, its commands before its events, the interest list,       *)
(* _handlers and _deleted.  Module Reactor has the rest.                   *)
(***************************************************************************)
EXTENDS Naturals, Sequences, FiniteSets

CONSTANTS
    Threads,     \* user threads
    Ops,         \* IoOperation objects
    None,        \* nullptr, nobody
    Wakeup,      \* _wakeup of the proactor
    MaxFd,       \* descriptors are 0..MaxFd
    OpFd,        \* op->fd ()
    Writes,      \* the operations for which isWriteOp holds
    Connects,    \* of these, the Connect operations
    Pollable,    \* descriptors epoll accepts (not those of regular files)
    Kinds,       \* readiness the descriptors may have, of "in", "out", "rdhup", "hup", "err"
    QueueSize,   \* _queueSize
    HandlerCalls,\* bound: what handlers call, of "submit", "cancel", "stop"
    Calls,       \* bound: what users call, the same
    MaxCalls     \* bound: how many calls users make

Fds == 0..MaxFd

ASSUME ProactorAssumption ==
    /\ MaxFd \in Nat /\ QueueSize \in Nat \ {0} /\ MaxCalls \in Nat
    /\ OpFd \in [Ops -> Fds]
    /\ Connects \subseteq Writes /\ Writes \subseteq Ops
    /\ Pollable \subseteq Fds
    /\ None \notin Ops \cup Threads
    /\ Wakeup \notin Fds

VARIABLES
    pc, cmd,         \* where a user thread is, and the Command of its call
    done, errc,      \* the stack variables a sync call waits on
    calls,           \* how many calls were made
    stopping,        \* _stopping
    commands,        \* _commands
    notified,        \* _notified
    wakeup,          \* the counter of _wakeup
    reads, writes,   \* _readOps, _writeOps
    state,           \* op->state
    loop,            \* where the loop's thread is
    threadSet,       \* the reactor's _threadId is valid
    running,         \* the reactor's _running
    rcommands,       \* the reactor's _commands
    batch,           \* the events of this round still to be dispatched
    stack,           \* what the loop's thread has still to do
    interest,        \* the epoll list ({}: not in the list)
    handlers,        \* the descriptors in the reactor's _handlers
    deleted,         \* the reactor's _deleted
    young,           \* operations accepted while cancelAllOperations runs
    asked            \* operations in flight whose cancellation was executed

userVars == <<pc, cmd, done, errc, calls, stopping>>
queueVars == <<commands, notified, wakeup>>
tableVars == <<reads, writes, state, young, asked>>
reactorVars == <<interest, handlers, deleted>>
vars == <<userVars, queueVars, tableVars, reactorVars, loop, threadSet, running, rcommands, batch, stack>>

Command == [type : {"submit", "cancel", "stop"}, op : Ops \cup {None}, sync : BOOLEAN, by : Threads]
Item ==
    [do : {"call", "handler", "return"}, op : Ops, cancelled : BOOLEAN]
    \cup [do : {"cancelAll"}, fd : 0..MaxFd + 1]
    \cup [do : {"read", "clear", "drain", "stop"}]
    \cup [do : {"ack"}, by : Threads, err : BOOLEAN]

UserPc == {"idle", "push", "exchange", "write", "wait", "running", "stopping", "waitloop", "reset", "reactor", "waitthread"}

TypeOK ==
    /\ pc \in [Threads -> UserPc]
    /\ \A t \in Threads : cmd[t] \in Command \cup {None}
    /\ done \in [Threads -> BOOLEAN]
    /\ errc \in [Threads -> BOOLEAN]
    /\ calls \in 0..MaxCalls
    /\ stopping \in BOOLEAN
    /\ \A i \in DOMAIN commands : commands[i] \in Command
    /\ Len(commands) <= QueueSize
    /\ notified \in BOOLEAN
    /\ wakeup \in 0..1
    /\ reads \in [Fds -> (Ops \ Writes) \cup {None}]
    /\ writes \in [Fds -> Writes \cup {None}]
    /\ state \in [Ops -> {"Idle", "Submitted", "Cancelling"}]
    /\ loop \in {"off", "run", "top", "wait", "commands", "dispatch", "exit", "ended", "crashed"}
    /\ threadSet \in BOOLEAN
    /\ running \in BOOLEAN
    /\ \A i \in DOMAIN rcommands : rcommands[i] \in {"watch", "stop"}
    /\ \A e \in batch : e.fd \in Fds \cup {Wakeup} /\ e.events \subseteq Kinds \cup {"in"}
    /\ \A i \in DOMAIN stack : stack[i] \in Item
    /\ interest \in [Fds -> SUBSET {"in", "out", "rdhup"}]
    /\ handlers \subseteq Fds \cup {Wakeup}
    /\ deleted \subseteq Fds
    /\ young \subseteq Ops
    /\ asked \subseteq Ops

Init ==
    /\ pc = [t \in Threads |-> "idle"]
    /\ cmd = [t \in Threads |-> None]
    /\ done = [t \in Threads |-> FALSE]
    /\ errc = [t \in Threads |-> FALSE]
    /\ calls = 0
    /\ stopping = FALSE
    /\ commands = <<>>
    /\ notified = FALSE
    /\ wakeup = 0
    /\ reads = [f \in Fds |-> None]
    /\ writes = [f \in Fds |-> None]
    /\ state = [o \in Ops |-> "Idle"]
    /\ loop = "off"
    /\ threadSet = FALSE
    /\ running = FALSE
    /\ rcommands = <<"watch">>
    /\ batch = {}
    /\ stack = <<>>
    /\ interest = [f \in Fds |-> {}]
    /\ handlers = {}
    /\ deleted = {}
    /\ young = {}
    /\ asked = {}

-----------------------------------------------------------------------------
(* submit, cancel and stop in a user thread.                                *)

Start(t, type, o, sync, there) ==
    /\ pc[t] = "idle"
    /\ type \in Calls
    /\ calls < MaxCalls
    /\ calls' = calls + 1
    /\ pc' = [pc EXCEPT ![t] = there]
    /\ cmd' = [cmd EXCEPT ![t] = [type |-> type, op |-> o, sync |-> sync, by |-> t]]
    /\ UNCHANGED <<done, errc, stopping, queueVars, tableVars, reactorVars, loop, threadSet, running, rcommands, batch, stack>>

Submit(t, o, sync) == Start(t, "submit", o, sync, "push")
Cancel(t, o, sync) == Start(t, "cancel", o, sync, "push")
Stop(t, sync) == Start(t, "stop", None, sync, "running")

Goto(t, there) == pc' = [pc EXCEPT ![t] = there] /\ UNCHANGED <<cmd, done, errc, calls>>

Return(t) ==
    /\ pc' = [pc EXCEPT ![t] = "idle"]
    /\ cmd' = [cmd EXCEPT ![t] = None]
    /\ done' = [done EXCEPT ![t] = FALSE]
    /\ errc' = [errc EXCEPT ![t] = FALSE]
    /\ UNCHANGED calls

\* Steps of a call that touch neither the tables nor the loop.
Outside == UNCHANGED <<tableVars, reactorVars, loop, threadSet, running, batch, stack>>

\* stop: nothing to do unless the loop runs.
StopCheck(t) ==
    /\ pc[t] = "running"
    /\ IF ~running THEN Return(t) ELSE Goto(t, IF cmd[t].sync THEN "stopping" ELSE "push")
    /\ UNCHANGED <<stopping, queueVars, rcommands>>
    /\ Outside

\* stop: one sync caller at a time; the others wait for the loop to end.
StopClaim(t) ==
    /\ pc[t] = "stopping"
    /\ stopping' = TRUE
    /\ Goto(t, IF stopping THEN "waitloop" ELSE "push")
    /\ UNCHANGED <<queueVars, rcommands>>
    /\ Outside

StopWaitLoop(t) ==
    /\ pc[t] = "waitloop"
    /\ ~running
    /\ Return(t)
    /\ UNCHANGED <<stopping, queueVars, rcommands>>
    /\ Outside

\* writeCommand: push (which waits while the queue is full)...
Push(t) ==
    /\ pc[t] = "push"
    /\ Len(commands) < QueueSize
    /\ commands' = Append(commands, cmd[t])
    /\ Goto(t, "exchange")
    /\ UNCHANGED <<stopping, notified, wakeup, rcommands>>
    /\ Outside

AfterWrite(t) ==
    IF cmd[t].sync THEN Goto(t, "wait")
    ELSE IF cmd[t].type = "stop" THEN Goto(t, "reactor") ELSE Return(t)

\* ... exchange _notified...
Exchange(t) ==
    /\ pc[t] = "exchange"
    /\ notified' = TRUE
    /\ IF notified THEN AfterWrite(t) ELSE Goto(t, "write")
    /\ UNCHANGED <<stopping, commands, wakeup, rcommands>>
    /\ Outside

\* ... and write _wakeup if it was clear.
Write(t) ==
    /\ pc[t] = "write"
    /\ wakeup' = wakeup + 1
    /\ AfterWrite(t)
    /\ UNCHANGED <<stopping, commands, notified, rcommands>>
    /\ Outside

WaitDone(t) ==
    /\ pc[t] = "wait"
    /\ done[t]
    /\ IF cmd[t].type = "stop" THEN Goto(t, "reset") ELSE Return(t)
    /\ UNCHANGED <<stopping, queueVars, rcommands>>
    /\ Outside

\* stop: _stopping is reset, then the reactor is told to stop.
StopReset(t) ==
    /\ pc[t] = "reset"
    /\ stopping' = FALSE
    /\ Goto(t, "reactor")
    /\ UNCHANGED <<queueVars, rcommands>>
    /\ Outside

StopReactor(t) ==
    /\ pc[t] = "reactor"
    /\ rcommands' = Append(rcommands, "stop")
    /\ IF cmd[t].sync THEN Goto(t, "waitthread") ELSE Return(t)
    /\ UNCHANGED <<stopping, queueVars>>
    /\ Outside

StopWaitThread(t) ==
    /\ pc[t] = "waitthread"
    /\ ~threadSet
    /\ Return(t)
    /\ UNCHANGED <<stopping, queueVars, rcommands>>
    /\ Outside

-----------------------------------------------------------------------------
(* The reactor's tables, from the loop's thread.                            *)

Mask(r, w) == (IF r # None THEN {"in", "rdhup"} ELSE {}) \cup (IF w # None THEN {"out"} ELSE {})

AddHandler(f, r, w) ==
    IF f \in Pollable
    THEN /\ interest' = [interest EXCEPT ![f] = Mask(r, w)]
         /\ handlers' = handlers \cup {f}
         /\ deleted' = deleted \ {f}
    ELSE UNCHANGED reactorVars

DelHandler(f) ==
    IF f \in Pollable
    THEN /\ interest' = [interest EXCEPT ![f] = {}]
         /\ deleted' = deleted \cup {f}
         /\ UNCHANGED handlers
    ELSE UNCHANGED reactorVars

\* Mutant: the descriptor is given up although its other operation is pending.
RearmGivesUp(f, r, w) == DelHandler(f)

\* The descriptor keeps what is left of its two operations.
Rearm(f, r, w) == IF r = None /\ w = None THEN DelHandler(f) ELSE AddHandler(f, r, w)

-----------------------------------------------------------------------------
(* submitOperation, cancelOperation, cancelAllOperations, dispatchOperation. *)

Slot(o) == IF o \in Writes THEN writes[OpFd[o]] ELSE reads[OpFd[o]]

\* The two tables with v in the place of o.
Place(o, v) ==
    /\ reads' = IF o \in Writes THEN reads ELSE [reads EXCEPT ![OpFd[o]] = v]
    /\ writes' = IF o \in Writes THEN [writes EXCEPT ![OpFd[o]] = v] ELSE writes

CancellingAll(todo) == \E i \in DOMAIN todo : todo[i].do = "cancelAll"

\* connect may be refused at once.
Rejected(o, refused) == state[o] # "Idle" \/ (o \in Connects /\ refused) \/ Slot(o) # None

\* What submit reports: an operation epoll does not take is reported as failed, and stays.
SubmitFails(o, refused) == Rejected(o, refused) \/ OpFd[o] \notin Pollable

SubmitOperation(o, refused) ==
    IF Rejected(o, refused) THEN UNCHANGED <<tableVars, reactorVars>>
    ELSE /\ Place(o, o)
         /\ state' = [state EXCEPT ![o] = "Submitted"]
         /\ AddHandler(OpFd[o], reads'[OpFd[o]], writes'[OpFd[o]])
         /\ young' = IF CancellingAll(stack) THEN young \cup {o} ELSE young
         /\ UNCHANGED asked

\* Mutant: the table is not consulted.
CancelRejectedByState(o) == state[o] # "Submitted"

CancelRejected(o) == state[o] # "Submitted" \/ Slot(o) # o

\* delHandler reports an error for a descriptor epoll does not take.
CancelFails(o) == CancelRejected(o) \/ OpFd[o] \notin Pollable

Call(o, cancelled) == IF o = None THEN <<>> ELSE <<[do |-> "call", op |-> o, cancelled |-> cancelled]>>

\* rest is what the loop's thread does next.
CancelOperation(o, rest) ==
    IF CancelRejected(o) THEN stack' = rest /\ UNCHANGED <<tableVars, reactorVars>>
    ELSE /\ Place(o, None)
         /\ state' = [state EXCEPT ![o] = "Cancelling"]
         /\ Rearm(OpFd[o], reads'[OpFd[o]], writes'[OpFd[o]])
         /\ asked' = asked \cup {o}
         /\ stack' = Call(o, TRUE) \o rest
         /\ UNCHANGED young

\* Both operations of f leave the tables and then get their callbacks.
Empty(f, cancelled, rest) ==
    /\ reads' = [reads EXCEPT ![f] = None]
    /\ writes' = [writes EXCEPT ![f] = None]
    /\ IF reads[f] # None \/ writes[f] # None THEN DelHandler(f) ELSE UNCHANGED reactorVars
    /\ stack' = Call(reads[f], cancelled) \o Call(writes[f], cancelled) \o rest
    /\ UNCHANGED state

Doing(what) == loop = "dispatch" /\ stack # <<>> /\ Head(stack).do = what
Rest == Tail(stack)
LoopOnly == UNCHANGED <<pc, cmd, calls, stopping, threadSet>>

CancelAllBegin == <<[do |-> "cancelAll", fd |-> 0]>>

CancelAllOperations ==
    /\ Doing("cancelAll")
    /\ LET f == Head(stack).fd IN
       IF f > MaxFd
       THEN /\ stack' = Rest
            /\ young' = IF CancellingAll(Rest) THEN young ELSE {}
            /\ UNCHANGED <<reads, writes, state, asked, reactorVars>>
       ELSE /\ Empty(f, TRUE, <<[do |-> "cancelAll", fd |-> f + 1]>> \o Rest)
            /\ asked' = asked \cup ({reads[f], writes[f]} \ {None})
            /\ UNCHANGED young
    /\ LoopOnly
    /\ UNCHANGED <<done, errc, queueVars, loop, running, rcommands, batch>>

\* dispatchOperation: the handler is called...
DispatchOperation ==
    /\ Doing("call")
    /\ stack' = <<[Head(stack) EXCEPT !.do = "handler"]>> \o Rest
    /\ LoopOnly
    /\ UNCHANGED <<done, errc, queueVars, tableVars, reactorVars, loop, running, rcommands, batch>>

\* ... and the operation is Idle when it has returned.
HandlerReturns ==
    /\ Doing("handler") \/ Doing("return")
    /\ state' = [state EXCEPT ![Head(stack).op] = "Idle"]
    /\ asked' = asked \ {Head(stack).op}
    /\ stack' = Rest
    /\ LoopOnly
    /\ UNCHANGED <<done, errc, queueVars, reads, writes, young, reactorVars, loop, running, rcommands, batch>>

\* A handler makes a call; the model allows one per callback.
Called == <<[Head(stack) EXCEPT !.do = "return"]>> \o Rest

HandlerSubmits(o, refused) ==
    /\ Doing("handler")
    /\ "submit" \in HandlerCalls
    /\ SubmitOperation(o, refused)
    /\ stack' = Called
    /\ LoopOnly
    /\ UNCHANGED <<done, errc, queueVars, loop, running, rcommands, batch>>

HandlerCancels(o) ==
    /\ Doing("handler")
    /\ "cancel" \in HandlerCalls
    /\ CancelOperation(o, Called)
    /\ LoopOnly
    /\ UNCHANGED <<done, errc, queueVars, loop, running, rcommands, batch>>

HandlerStops ==
    /\ Doing("handler")
    /\ "stop" \in HandlerCalls
    /\ stack' = CancelAllBegin \o <<[do |-> "stop"]>> \o Called
    /\ LoopOnly
    /\ UNCHANGED <<done, errc, queueVars, tableVars, reactorVars, loop, running, rcommands, batch>>

\* _reactor.stop in the loop's thread.
StopRunning ==
    /\ Doing("stop")
    /\ running' = FALSE
    /\ stack' = Rest
    /\ LoopOnly
    /\ UNCHANGED <<done, errc, queueVars, tableVars, reactorVars, loop, rcommands, batch>>

-----------------------------------------------------------------------------
(* readCommands and processCommand.                                         *)

ReadWakeup ==
    /\ Doing("read")
    /\ wakeup' = 0
    /\ stack' = <<[do |-> "clear"]>> \o Rest
    /\ LoopOnly
    /\ UNCHANGED <<done, errc, commands, notified, tableVars, reactorVars, loop, running, rcommands, batch>>

\* Mutant: _notified stays set.
ClearNotifiedForgotten ==
    /\ Doing("clear")
    /\ stack' = <<[do |-> "drain"]>> \o Rest
    /\ LoopOnly
    /\ UNCHANGED <<done, errc, queueVars, tableVars, reactorVars, loop, running, rcommands, batch>>

ClearNotified ==
    /\ Doing("clear")
    /\ notified' = FALSE
    /\ stack' = <<[do |-> "drain"]>> \o Rest
    /\ LoopOnly
    /\ UNCHANGED <<done, errc, commands, wakeup, tableVars, reactorVars, loop, running, rcommands, batch>>

DrainEnds ==
    /\ Doing("drain")
    /\ commands = <<>>
    /\ stack' = Rest
    /\ LoopOnly
    /\ UNCHANGED <<done, errc, queueVars, tableVars, reactorVars, loop, running, rcommands, batch>>

Ack(c, err) == IF c.sync THEN <<[do |-> "ack", by |-> c.by, err |-> err]>> ELSE <<>>

ProcessCommand(refused) ==
    /\ Doing("drain")
    /\ commands # <<>>
    /\ commands' = Tail(commands)
    /\ LET c == Head(commands) IN
       \/ /\ c.type = "submit"
          /\ stack' = Ack(c, SubmitFails(c.op, refused)) \o stack
          /\ SubmitOperation(c.op, refused)
       \/ /\ c.type = "cancel"
          /\ ~refused
          /\ CancelOperation(c.op, Ack(c, CancelFails(c.op)) \o stack)
       \/ /\ c.type = "stop"
          /\ ~refused
          /\ stack' = CancelAllBegin \o Ack(c, FALSE) \o stack
          /\ UNCHANGED <<tableVars, reactorVars>>
    /\ LoopOnly
    /\ UNCHANGED <<done, errc, notified, wakeup, loop, running, rcommands, batch>>

Acknowledge ==
    /\ Doing("ack")
    /\ done' = [done EXCEPT ![Head(stack).by] = TRUE]
    /\ errc' = [errc EXCEPT ![Head(stack).by] = Head(stack).err]
    /\ stack' = Rest
    /\ LoopOnly
    /\ UNCHANGED <<queueVars, tableVars, reactorVars, loop, running, rcommands, batch>>

-----------------------------------------------------------------------------
(* onReadable, onWriteable, onClose, onError, called by the reactor.        *)

\* Mutant: the operation stays in its table while its callback runs.
EndOperationStays(o, f) ==
    IF o = None
    THEN loop' = "crashed" /\ UNCHANGED <<tableVars, reactorVars, stack>>
    ELSE /\ stack' = Call(o, FALSE)
         /\ UNCHANGED <<tableVars, reactorVars, loop>>

\* executeOp and endOperation of the operation o of f; executeOp reads o before anyone looks whether it is null.
EndOperation(o, f) ==
    IF o = None
    THEN loop' = "crashed" /\ UNCHANGED <<tableVars, reactorVars, stack>>
    ELSE /\ Place(o, None)
         /\ Rearm(f, reads'[f], writes'[f])
         /\ stack' = Call(o, FALSE)
         /\ UNCHANGED <<state, young, asked, loop>>

OnEvent(f, events) ==
    \/ /\ events \cap {"err", "rdhup", "hup"} # {}
       /\ Empty(f, FALSE, <<>>)
       /\ UNCHANGED <<young, asked, loop>>
    \/ /\ events \cap {"err", "rdhup", "hup"} = {} /\ "in" \in events
       /\ EndOperation(reads[f], f)
    \/ /\ events = {"out"}
       /\ EndOperation(writes[f], f)

-----------------------------------------------------------------------------
(* The reactor's loop.                                                      *)

Elsewhere == UNCHANGED <<pc, cmd, done, errc, calls, stopping, queueVars, tableVars>>

\* Bound: run is called once.
RunEnter ==
    /\ loop = "off"
    /\ loop' = "run"
    /\ threadSet' = TRUE
    /\ Elsewhere
    /\ UNCHANGED <<reactorVars, running, rcommands, batch, stack>>

RunStart ==
    /\ loop = "run"
    /\ loop' = "top"
    /\ running' = TRUE
    /\ Elsewhere
    /\ UNCHANGED <<reactorVars, threadSet, rcommands, batch, stack>>

CheckRunning ==
    /\ loop = "top"
    /\ loop' = IF running THEN "wait" ELSE "exit"
    /\ Elsewhere
    /\ UNCHANGED <<reactorVars, threadSet, running, rcommands, batch, stack>>

RunExit ==
    /\ loop = "exit"
    /\ loop' = "ended"
    /\ threadSet' = FALSE
    /\ Elsewhere
    /\ UNCHANGED <<reactorVars, running, rcommands, batch, stack>>

\* What epoll_wait may report for f: the events asked for, and always errors and hangups.
Reportable(f) == IF interest[f] = {} THEN {} ELSE Kinds \cap (interest[f] \cup {"err", "hup"})

WakeupEvent == IF Wakeup \in handlers /\ wakeup > 0 THEN {[fd |-> Wakeup, events |-> {"in"}]} ELSE {}

\* Which descriptors are ready at that moment is up to their peers.
EpollWait ==
    /\ loop = "wait"
    /\ \E reported \in [Fds -> SUBSET Kinds] :
        /\ \A f \in Fds : reported[f] \subseteq Reportable(f)
        /\ batch' = WakeupEvent \cup {[fd |-> f, events |-> reported[f]] : f \in {g \in Fds : reported[g] # {}}}
    /\ rcommands # <<>> \/ batch' # {}
    /\ loop' = "commands"
    /\ Elsewhere
    /\ UNCHANGED <<reactorVars, threadSet, running, rcommands, stack>>

\* The reactor's commands come before the events of the batch.
ReactorCommand ==
    /\ loop = "commands"
    /\ \/ /\ rcommands = <<>>
          /\ loop' = "dispatch"
          /\ UNCHANGED <<handlers, running, rcommands>>
       \/ /\ rcommands # <<>>
          /\ rcommands' = Tail(rcommands)
          /\ handlers' = IF Head(rcommands) = "watch" THEN handlers \cup {Wakeup} ELSE handlers
          /\ running' = IF Head(rcommands) = "stop" THEN FALSE ELSE running
          /\ UNCHANGED loop
    /\ Elsewhere
    /\ UNCHANGED <<interest, deleted, threadSet, batch, stack>>

\* dispatchEvent, in any order; an event whose descriptor is gone from the tables is dropped.
DispatchEvent(e) ==
    /\ loop = "dispatch" /\ stack = <<>>
    /\ batch' = batch \ {e}
    /\ \/ /\ e.fd = Wakeup
          /\ stack' = <<[do |-> "read"]>>
          /\ UNCHANGED <<tableVars, reactorVars, loop>>
       \/ /\ e.fd # Wakeup /\ e.fd \in handlers \ deleted
          /\ OnEvent(e.fd, e.events)
       \/ /\ e.fd # Wakeup /\ e.fd \notin handlers \ deleted
          /\ UNCHANGED <<tableVars, reactorVars, loop, stack>>
    /\ LoopOnly
    /\ UNCHANGED <<done, errc, queueVars, running, rcommands>>

Purge ==
    /\ loop = "dispatch" /\ stack = <<>> /\ batch = {}
    /\ handlers' = handlers \ deleted
    /\ deleted' = {}
    /\ loop' = "top"
    /\ Elsewhere
    /\ UNCHANGED <<interest, threadSet, running, rcommands, batch, stack>>

-----------------------------------------------------------------------------

CallStep(t) ==
    \/ StopCheck(t) \/ StopClaim(t) \/ StopWaitLoop(t) \/ StopReset(t) \/ StopReactor(t) \/ StopWaitThread(t)
    \/ Push(t) \/ Exchange(t) \/ Write(t) \/ WaitDone(t)

StartStep(t) ==
    \E sync \in BOOLEAN :
        \/ \E o \in Ops : Submit(t, o, sync) \/ Cancel(t, o, sync)
        \/ Stop(t, sync)

LoopStep ==
    \/ RunEnter \/ RunStart \/ CheckRunning \/ RunExit
    \/ EpollWait \/ ReactorCommand \/ Purge
    \/ \E e \in batch : DispatchEvent(e)
    \/ CancelAllOperations \/ DispatchOperation \/ HandlerReturns \/ StopRunning
    \/ ReadWakeup \/ ClearNotified \/ DrainEnds \/ Acknowledge
    \/ \E refused \in BOOLEAN : ProcessCommand(refused)

HandlerStep ==
    \/ \E o \in Ops, refused \in BOOLEAN : HandlerSubmits(o, refused)
    \/ \E o \in Ops : HandlerCancels(o)
    \/ HandlerStops

Next ==
    \/ \E t \in Threads : CallStep(t) \/ StartStep(t)
    \/ LoopStep
    \/ HandlerStep

Spec == Init /\ [][Next]_vars

\* Threads are scheduled and handlers return.
FairSpec == Spec /\ WF_vars(LoopStep) /\ \A t \in Threads : WF_vars(CallStep(t))

-----------------------------------------------------------------------------

\* Operations whose callback is still to come or is running.
OnStack(o) == {i \in DOMAIN stack : stack[i].do \in {"call", "handler", "return"} /\ stack[i].op = o}

(* An operation in flight is in the table of its direction or waits for its callback,
   never both, and never for two callbacks; one that is not in flight is nowhere.
   submit, cancel, stop and the events, from handlers too, all preserve this.  *)
OperationsAccounted ==
    \A o \in Ops :
        /\ Cardinality(OnStack(o)) = IF state[o] # "Idle" /\ Slot(o) # o THEN 1 ELSE 0
        /\ Slot(o) = o => state[o] = "Submitted"

(* What epoll watches is what the tables ask for, and the reactor dispatches the events of a
   descriptor exactly when it is watched: no operation waits for an event that cannot come. *)
WatchedAsAsked ==
    \A f \in Pollable :
        /\ interest[f] = Mask(reads[f], writes[f])
        /\ interest[f] # {} <=> f \in handlers \ deleted

(* stop, from a user thread or a handler: when cancelAllOperations ends no operation is left in
   the tables, except those a callback submitted meanwhile.                   *)
StopCancelsAll ==
    Doing("cancelAll") /\ Head(stack).fd > MaxFd => {o \in Ops : Slot(o) = o} \subseteq young

(* The phase of an operation as its user sees it. *)
Phase(o) ==
    IF state[o] = "Idle" THEN "idle"
    ELSE IF \E i \in OnStack(o) : stack[i].do # "call"
         THEN (LET i == CHOOSE j \in OnStack(o) : TRUE IN IF stack[i].cancelled THEN "cancel" ELSE "complete")
         ELSE "flight"

Promise == INSTANCE AsyncOperations WITH phase <- [o \in Ops |-> Phase(o)]

(* The epoll backend keeps the promise of AsyncOperations: one callback for each operation it
   accepted, onCancel only for those that were cancelled.                     *)
KeepsPromise == Promise!OpSpec

(* submit and cancel with sync return, unless the loop ends first.            *)
SyncReturns ==
    \A t \in Threads : (pc[t] = "wait" /\ running) ~> (pc[t] # "wait" \/ ~running \/ loop = "crashed")

(* onReadable and onWriteable: an event finds no operation, and executeOp reads through a null
   pointer, only when the other direction of the descriptor still has one; a descriptor with
   operations in one direction only never gets there.                         *)
NullNeedsOtherDirection == loop = "crashed" => \E f \in Pollable : (reads[f] = None) # (writes[f] = None)

(* The operations of the epoll backend: each is accounted for once, whatever handlers call, and stop
   leaves none behind.                                                        *)
OperationsSafe == TypeOK /\ OperationsAccounted /\ StopCancelsAll

(* The events of the epoll backend: what is watched is what the tables ask for, and an event that
   finds no operation needs one in the other direction.                       *)
EventsMatched == WatchedAsAsked /\ NullNeedsOtherDirection
=============================================================================
