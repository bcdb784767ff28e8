------------------------------ MODULE Reactor ------------------------------
(***************************************************************************)
(* The epoll reactor of core/include/join/reactor.hpp and                  *)
(* core/src/reactor.cpp.                                                   *)
(*                                                                         *)
(* Any number of user threads call addHandler, delHandler and stop.  Each  *)
(* call pushes a command into the MPSC ring (claim a slot, then publish    *)
(* it), sets _notified and, if it was clear, writes the eventfd _wakeup.   *)
(* One thread runs the event loop: it collects a batch from epoll_wait,    *)
(* first drains the commands if the eventfd is in the batch, then calls    *)
(* the handlers of the other descriptors, then purges _deleted.            *)
(* Callbacks run in the loop's thread, where the same calls act at once    *)
(* (isReactorThread).                                                      *)
(*                                                                         *)
(* A descriptor number is used by one session at a time; a session is      *)
(* named by its handler object.  A number whose session is over may be     *)
(* opened again by another session, as the kernel does.                    *)
(***************************************************************************)
EXTENDS Integers, Sequences, FiniteSets

CONSTANTS
    Threads,     \* user threads calling the reactor
    Fds,         \* file descriptor numbers
    Handlers,    \* EventHandler objects, one per session
    None,        \* nullptr, no session, no owner; as a descriptor, -1
    Loop,        \* the thread that runs the event loop
    Wakeup,      \* the eventfd _wakeup
    Masks,       \* event masks a caller may ask for, subsets of {"in", "rdhup", "out"}
    Kinds,       \* readiness the environment produces, subset of EventKinds
    QueueSize,   \* _queueSize
    MaxEvents,   \* _maxEvents
    MaxRuns,     \* bound: how many times run() is called
    Ops,         \* bound: the operations users perform, subset of {"add", "del", "stop", "badfd"}
    Syncs        \* bound: the values of the sync argument

EventKinds == {"in", "out", "rdhup", "hup", "err"}

ASSUME ReactorAssumption ==
    /\ None \notin Handlers \cup Threads \cup {Loop} \cup Fds
    /\ Loop \notin Threads
    /\ Wakeup \notin Fds
    /\ Masks \subseteq SUBSET {"in", "out", "rdhup"}
    /\ Kinds \subseteq EventKinds
    /\ QueueSize \in Nat \ {0}
    /\ MaxEvents \in Nat \ {0}
    /\ MaxRuns \in Nat
    /\ Syncs \subseteq BOOLEAN

VARIABLES
    pc,          \* pc[t]: where user thread t is in its call
    op,          \* op[t]: the Command t is writing
    done, errc,  \* the stack variables a sync call waits on
    commands,    \* the MPSC ring: claimed slots in claim order, each published or not
    notified,    \* _notified
    wakeup,      \* the counter of the eventfd
    loop,        \* where the loop's thread is
    threadSet,   \* _threadId # _invalidThreadId
    running,     \* _running
    runs,        \* how many times run() was entered
    handlers,    \* _handlers
    deleted,     \* _deleted
    batch,       \* the events of this round still to be handled
    cur,         \* the callback being run
    interest,    \* the kernel's epoll interest list ({}: not in the list)
    ready,       \* the kernel's readiness of the open file behind a descriptor
    open,        \* descriptors that are open
    session,     \* session[f]: the session using descriptor number f
    owner,       \* owner[h]: who opened the session of h (None: not yet used)
    quiet        \* sessions whose delHandler has completed, not added since

callerVars == <<pc, op, done, errc>>
queueVars  == <<commands, notified, wakeup>>
loopVars   == <<loop, threadSet, running, runs, batch, cur>>
tableVars  == <<handlers, deleted>>
kernelVars == <<interest, ready, open>>
userVars   == <<session, owner, quiet>>
vars == <<callerVars, queueVars, loopVars, tableVars, kernelVars, userVars>>

HandlerCommand == [type : {"add", "del"}, fd : Fds \cup {None}, events : Masks \cup {{}},
                   handler : Handlers \cup {None}, sync : BOOLEAN]
StopCommand == [type : {"stop"}, fd : {None}, events : {{}}, handler : {None}, sync : BOOLEAN]
Command == HandlerCommand \cup StopCommand
NoOp == [type |-> "stop", fd |-> None, events |-> {}, handler |-> None, sync |-> FALSE]
Slot == [cmd : Command, by : Threads, published : BOOLEAN]
Event == [fd : Fds, events : SUBSET EventKinds, from : Handlers \cup {None}]
Callback == [fd : Fds, handler : Handlers, method : {"onError", "onClose", "onReadable", "onWriteable"},
             from : Handlers \cup {None}]
CallerPc == {"idle", "push", "publish", "exchange", "write", "wait", "waitstop"}
LoopPc == {"off", "run", "top", "wait", "read", "clear", "drain", "dispatch", "callback", "exit"}

TypeOK ==
    /\ pc \in [Threads -> CallerPc]
    /\ op \in [Threads -> Command]
    /\ done \in [Threads -> BOOLEAN]
    /\ errc \in [Threads -> BOOLEAN]
    /\ commands \in Seq(Slot)
    /\ notified \in BOOLEAN
    /\ wakeup \in Nat
    /\ loop \in LoopPc
    /\ threadSet \in BOOLEAN
    /\ running \in BOOLEAN
    /\ runs \in Nat
    /\ handlers \in [Fds -> Handlers \cup {None}]
    /\ deleted \in SUBSET Fds
    /\ batch \in SUBSET (Event \cup {Wakeup})
    /\ cur \in Callback \cup {None}
    /\ interest \in [Fds -> SUBSET {"in", "out", "rdhup"}]
    /\ ready \in [Fds -> SUBSET EventKinds]
    /\ open \in SUBSET Fds
    /\ session \in [Fds -> Handlers \cup {None}]
    /\ owner \in [Handlers -> Threads \cup {Loop, None}]
    /\ quiet \in SUBSET (Handlers \cup {None})

Init ==
    /\ pc = [t \in Threads |-> "idle"]
    /\ op = [t \in Threads |-> NoOp]
    /\ done = [t \in Threads |-> FALSE]
    /\ errc = [t \in Threads |-> FALSE]
    /\ commands = <<>>
    /\ notified = FALSE
    /\ wakeup = 0
    /\ loop = "off"
    /\ threadSet = FALSE
    /\ running = FALSE
    /\ runs = 0
    /\ handlers = [f \in Fds |-> None]
    /\ deleted = {}
    /\ batch = {}
    /\ cur = None
    /\ interest = [f \in Fds |-> {}]
    /\ ready = [f \in Fds |-> {}]
    /\ open = {}
    /\ session = [f \in Fds |-> None]
    /\ owner = [h \in Handlers |-> None]
    /\ quiet = {}

-----------------------------------------------------------------------------
(* The kernel and the files (external).                                     *)

\* The session behind f is closed: epoll forgets the file.
CloseFd(f) ==
    /\ open' = open \ {f}
    /\ interest' = [interest EXCEPT ![f] = {}]
    /\ ready' = [ready EXCEPT ![f] = {}]

Openable(f, h) == session[f] = None /\ f \notin open /\ owner[h] = None

\* Readiness of an open file appears; input and output readiness may also go away.
BecomeReady(f, e) ==
    /\ f \in open
    /\ e \notin ready[f]
    /\ ready' = [ready EXCEPT ![f] = @ \cup {e}]
    /\ UNCHANGED <<callerVars, queueVars, loopVars, tableVars, interest, open, userVars>>

BecomeUnready(f, e) ==
    /\ e \in ready[f] \cap {"in", "out"}
    /\ ready' = [ready EXCEPT ![f] = @ \ {e}]
    /\ UNCHANGED <<callerVars, queueVars, loopVars, tableVars, interest, open, userVars>>

\* What epoll_wait would report for f: the subscribed events, and always errors and hangups.
Reported(f) == IF interest[f] = {} THEN {} ELSE ready[f] \cap (interest[f] \cup {"err", "hup"})

ReadySet == {f \in Fds : Reported(f) # {}} \cup (IF wakeup > 0 THEN {Wakeup} ELSE {})

-----------------------------------------------------------------------------
(* Sessions of the user threads.                                            *)

Open(t, f, h) ==
    /\ pc[t] = "idle"
    /\ Openable(f, h)
    /\ open' = open \cup {f}
    /\ session' = [session EXCEPT ![f] = h]
    /\ owner' = [owner EXCEPT ![h] = t]
    /\ UNCHANGED <<callerVars, queueVars, loopVars, tableVars, interest, ready, quiet>>

Owns(t, f) == session[f] # None /\ owner[session[f]] = t

\* The owner closes the descriptor before it removes the handler.
CloseEarly(t, f) ==
    /\ pc[t] = "idle"
    /\ Owns(t, f)
    /\ f \in open
    /\ CloseFd(f)
    /\ UNCHANGED <<callerVars, queueVars, loopVars, tableVars, userVars>>

\* Once delHandler has completed the owner closes the descriptor and destroys the handler.
Destroy(t, f) ==
    /\ pc[t] = "idle"
    /\ Owns(t, f)
    /\ session[f] \in quiet
    /\ CloseFd(f)
    /\ session' = [session EXCEPT ![f] = None]
    /\ UNCHANGED <<callerVars, queueVars, loopVars, tableVars, owner, quiet>>

-----------------------------------------------------------------------------
(* Calls from the user threads.                                             *)

StartCall(t, cmd) ==
    /\ pc[t] = "idle"
    /\ cmd.type \in Ops
    /\ pc' = [pc EXCEPT ![t] = "push"]
    /\ op' = [op EXCEPT ![t] = cmd]
    /\ UNCHANGED <<done, errc>>

\* addHandler of the session's handler, or of a null handler.
AddHandler(t, f, mask, h, sync) ==
    /\ Owns(t, f)
    /\ h \in {session[f], None}
    /\ StartCall(t, [type |-> "add", fd |-> f, events |-> mask, handler |-> h, sync |-> sync])
    /\ quiet' = quiet \ {session[f]}
    /\ UNCHANGED <<queueVars, loopVars, tableVars, kernelVars, session, owner>>

\* delHandler of a session's descriptor, or of -1.
DelHandler(t, f, sync) ==
    /\ IF f = None THEN "badfd" \in Ops ELSE Owns(t, f)
    /\ StartCall(t, [type |-> "del", fd |-> f, events |-> {}, handler |-> None, sync |-> sync])
    /\ UNCHANGED <<queueVars, loopVars, tableVars, kernelVars, userVars>>

Stop(t, sync) ==
    /\ StartCall(t, [type |-> "stop", fd |-> None, events |-> {}, handler |-> None, sync |-> sync])
    /\ UNCHANGED <<queueVars, loopVars, tableVars, kernelVars, userVars>>

\* writeCommand, _commands.push: claim the next slot (the push spins while the ring is full)...
PushClaim(t) ==
    /\ pc[t] = "push"
    /\ Len(commands) < QueueSize
    /\ commands' = Append(commands, [cmd |-> op[t], by |-> t, published |-> FALSE])
    /\ pc' = [pc EXCEPT ![t] = "publish"]
    /\ UNCHANGED <<op, done, errc, notified, wakeup, loopVars, tableVars, kernelVars, userVars>>

\* ... and publish it.
PushPublish(t) ==
    /\ pc[t] = "publish"
    /\ \E i \in DOMAIN commands :
        /\ commands[i].by = t
        /\ ~commands[i].published
        /\ commands' = [commands EXCEPT ![i] = [@ EXCEPT !.published = TRUE]]
    /\ pc' = [pc EXCEPT ![t] = "exchange"]
    /\ UNCHANGED <<op, done, errc, notified, wakeup, loopVars, tableVars, kernelVars, userVars>>

\* The call returns: its stack variables are gone.
Return(t) ==
    /\ pc' = [pc EXCEPT ![t] = "idle"]
    /\ op' = [op EXCEPT ![t] = NoOp]
    /\ done' = [done EXCEPT ![t] = FALSE]
    /\ errc' = [errc EXCEPT ![t] = FALSE]

\* writeCommand has returned: an async call returns, a sync one waits.
AfterWrite(t) ==
    IF ~op[t].sync THEN Return(t)
    ELSE /\ pc' = [pc EXCEPT ![t] = IF op[t].type = "stop" THEN "waitstop" ELSE "wait"]
         /\ UNCHANGED <<op, done, errc>>

\* Mutant: every caller writes the eventfd.
ExchangeNotifiedAlwaysWrite(t) ==
    /\ pc[t] = "exchange"
    /\ notified' = TRUE
    /\ pc' = [pc EXCEPT ![t] = "write"]
    /\ UNCHANGED <<op, done, errc, commands, wakeup, loopVars, tableVars, kernelVars, userVars>>

\* _notified.exchange (true): only the thread that found it clear writes the eventfd.
ExchangeNotified(t) ==
    /\ pc[t] = "exchange"
    /\ notified' = TRUE
    /\ IF notified THEN AfterWrite(t)
                   ELSE pc' = [pc EXCEPT ![t] = "write"] /\ UNCHANGED <<op, done, errc>>
    /\ UNCHANGED <<commands, wakeup, loopVars, tableVars, kernelVars, userVars>>

WriteWakeup(t) ==
    /\ pc[t] = "write"
    /\ wakeup' = wakeup + 1
    /\ AfterWrite(t)
    /\ UNCHANGED <<commands, notified, loopVars, tableVars, kernelVars, userVars>>

\* A sync addHandler or delHandler returns once the loop has set done.
WaitDone(t) ==
    /\ pc[t] = "wait"
    /\ done[t]
    /\ Return(t)
    /\ quiet' = IF op[t].type = "del" /\ op[t].fd # None THEN quiet \cup {session[op[t].fd]} ELSE quiet
    /\ UNCHANGED <<queueVars, loopVars, tableVars, kernelVars, session, owner>>

\* A sync stop returns once _threadId is invalid.
WaitStop(t) ==
    /\ pc[t] = "waitstop"
    /\ ~threadSet
    /\ Return(t)
    /\ UNCHANGED <<queueVars, loopVars, tableVars, kernelVars, userVars>>

-----------------------------------------------------------------------------
(* Registration, in the loop's thread.                                      *)

\* registerHandler fails for a null handler, an empty mask or a closed descriptor.
RegisterFails(f, h, events) == h = None \/ events = {} \/ f \notin open

\* Mutant: an addHandler after a delHandler in the same round leaves the descriptor in _deleted.
RegisterHandlerKeepDeleted(f, h, events) ==
    IF RegisterFails(f, h, events)
    THEN UNCHANGED <<interest, deleted, handlers>>
    ELSE /\ interest' = [interest EXCEPT ![f] = events]
         /\ handlers' = [handlers EXCEPT ![f] = h]
         /\ UNCHANGED deleted

\* EPOLL_CTL_ADD, or EPOLL_CTL_MOD when it exists; then the tables.
RegisterHandler(f, h, events) ==
    IF RegisterFails(f, h, events)
    THEN UNCHANGED <<interest, deleted, handlers>>
    ELSE /\ interest' = [interest EXCEPT ![f] = events]
         /\ deleted' = deleted \ {f}
         /\ handlers' = [handlers EXCEPT ![f] = h]

\* EPOLL_CTL_DEL fails with EBADF or ENOENT when f is not in the list; _deleted gets f anyway.
UnregisterFails(f) == f = None \/ interest[f] = {}

\* Mutant: the descriptor's sign is not checked.
UnregisterHandlerNoFdCheck(f) ==
    /\ interest' = [interest EXCEPT ![f] = {}]
    /\ deleted' = deleted \cup {f}
    /\ UNCHANGED handlers

\* Mutant: the descriptor is not marked deleted.
UnregisterHandlerNoMark(f) ==
    /\ interest' = [interest EXCEPT ![f] = {}]
    /\ UNCHANGED <<deleted, handlers>>

UnregisterHandler(f) ==
    IF f = None
    THEN UNCHANGED <<interest, deleted, handlers>>
    ELSE /\ interest' = [interest EXCEPT ![f] = {}]
         /\ deleted' = deleted \cup {f}
         /\ UNCHANGED handlers

CommandFails(cmd) ==
    IF cmd.type = "add" THEN RegisterFails(cmd.fd, cmd.handler, cmd.events) ELSE UnregisterFails(cmd.fd)

\* Mutant: a command that fails does not wake its caller.
ProcessCommandDoneOnSuccess(slot) ==
    LET cmd == slot.cmd IN
    /\ CASE cmd.type = "add"  -> RegisterHandler(cmd.fd, cmd.handler, cmd.events) /\ UNCHANGED running
         [] cmd.type = "del"  -> UnregisterHandler(cmd.fd) /\ UNCHANGED running
         [] cmd.type = "stop" -> running' = FALSE /\ UNCHANGED <<interest, deleted, handlers>>
    /\ done' = IF cmd.sync /\ cmd.type # "stop" /\ ~CommandFails(cmd)
               THEN [done EXCEPT ![slot.by] = TRUE] ELSE done
    /\ UNCHANGED errc

\* processCommand: act, then report to the waiting caller.
ProcessCommand(slot) ==
    LET cmd == slot.cmd IN
    /\ CASE cmd.type = "add"  -> RegisterHandler(cmd.fd, cmd.handler, cmd.events) /\ UNCHANGED running
         [] cmd.type = "del"  -> UnregisterHandler(cmd.fd) /\ UNCHANGED running
         [] cmd.type = "stop" -> running' = FALSE /\ UNCHANGED <<interest, deleted, handlers>>
    /\ IF cmd.sync /\ cmd.type # "stop"
       THEN /\ done' = [done EXCEPT ![slot.by] = TRUE]
            /\ errc' = [errc EXCEPT ![slot.by] = CommandFails(cmd)]
       ELSE UNCHANGED <<done, errc>>

-----------------------------------------------------------------------------
(* The event loop.                                                          *)

\* run: _threadId, then _running.
RunEnter ==
    /\ loop = "off"
    /\ runs < MaxRuns
    /\ loop' = "run"
    /\ threadSet' = TRUE
    /\ runs' = runs + 1
    /\ UNCHANGED <<callerVars, queueVars, running, batch, cur, tableVars, kernelVars, userVars>>

RunStart ==
    /\ loop = "run"
    /\ loop' = "top"
    /\ running' = TRUE
    /\ UNCHANGED <<callerVars, queueVars, threadSet, runs, batch, cur, tableVars, kernelVars, userVars>>

CheckRunning ==
    /\ loop = "top"
    /\ loop' = IF running THEN "wait" ELSE "exit"
    /\ UNCHANGED <<callerVars, queueVars, threadSet, running, runs, batch, cur, tableVars, kernelVars, userVars>>

RunExit ==
    /\ loop = "exit"
    /\ loop' = "off"
    /\ threadSet' = FALSE
    /\ UNCHANGED <<callerVars, queueVars, running, runs, batch, cur, tableVars, kernelVars, userVars>>

\* epoll_wait returns up to MaxEvents of what is ready, with the readiness of that moment.
EpollWait ==
    /\ loop = "wait"
    /\ \E got \in SUBSET ReadySet :
        /\ got # {}
        /\ got = ReadySet \/ Cardinality(got) = MaxEvents
        /\ Cardinality(got) <= MaxEvents
        /\ batch' = {[fd |-> f, events |-> Reported(f), from |-> session[f]] : f \in got \ {Wakeup}}
                    \cup (got \cap {Wakeup})
        /\ loop' = IF Wakeup \in got THEN "read" ELSE "dispatch"
    /\ UNCHANGED <<callerVars, queueVars, threadSet, running, runs, cur, tableVars, kernelVars, userVars>>

\* EINTR, only while nothing is ready.
EpollInterrupted ==
    /\ loop = "wait"
    /\ ReadySet = {}
    /\ loop' = "top"
    /\ UNCHANGED <<callerVars, queueVars, threadSet, running, runs, batch, cur, tableVars, kernelVars, userVars>>

\* readCommands: read the eventfd (which zeroes it)...
ReadWakeup ==
    /\ loop = "read"
    /\ loop' = "clear"
    /\ wakeup' = 0
    /\ batch' = batch \ {Wakeup}
    /\ UNCHANGED <<callerVars, commands, notified, threadSet, running, runs, cur, tableVars, kernelVars, userVars>>

\* Mutant: _notified is not cleared.
ClearNotifiedForgotten ==
    /\ loop = "clear"
    /\ loop' = "drain"
    /\ UNCHANGED <<callerVars, queueVars, threadSet, running, runs, batch, cur, tableVars, kernelVars, userVars>>

\* ... clear _notified...
ClearNotified ==
    /\ loop = "clear"
    /\ loop' = "drain"
    /\ notified' = FALSE
    /\ UNCHANGED <<callerVars, commands, wakeup, threadSet, running, runs, batch, cur, tableVars, kernelVars, userVars>>

Poppable == commands # <<>> /\ Head(commands).published

\* ... and pop and process commands until the next slot is not published.
PopCommand ==
    /\ loop = "drain"
    /\ Poppable
    /\ ProcessCommand(Head(commands))
    /\ commands' = Tail(commands)
    /\ UNCHANGED <<pc, op, notified, wakeup, loop, threadSet, runs, batch, cur, ready, open, userVars>>

DrainEnd ==
    /\ loop = "drain"
    /\ ~Poppable
    /\ loop' = "dispatch"
    /\ UNCHANGED <<callerVars, queueVars, threadSet, running, runs, batch, cur, tableVars, kernelVars, userVars>>

IsActive(f) == f \notin deleted

\* Which callback dispatchEvent chooses.
Method(events) ==
    IF "err" \in events THEN "onError"
    ELSE IF events \cap {"rdhup", "hup"} # {} THEN "onClose"
    ELSE IF "in" \in events THEN "onReadable" ELSE "onWriteable"

DispatchEvent(ev) ==
    /\ loop = "dispatch"
    /\ batch' = batch \ {ev}
    /\ IF handlers[ev.fd] # None /\ IsActive(ev.fd)
       THEN /\ cur' = [fd |-> ev.fd, handler |-> handlers[ev.fd], method |-> Method(ev.events), from |-> ev.from]
            /\ loop' = "callback"
       ELSE UNCHANGED <<cur, loop>>
    /\ UNCHANGED <<callerVars, queueVars, threadSet, running, runs, tableVars, kernelVars, userVars>>

\* The end of a round: what is in _deleted leaves _handlers.
Purge ==
    /\ loop = "dispatch"
    /\ batch = {}
    /\ loop' = "top"
    /\ handlers' = [f \in Fds |-> IF f \in deleted THEN None ELSE handlers[f]]
    /\ deleted' = {}
    /\ UNCHANGED <<callerVars, queueVars, threadSet, running, runs, batch, cur, kernelVars, userVars>>

-----------------------------------------------------------------------------
(* What a callback may do: it runs in the loop's thread.                    *)

CallbackReturn ==
    /\ loop = "callback"
    /\ loop' = "dispatch"
    /\ cur' = None
    /\ UNCHANGED <<callerVars, queueVars, threadSet, running, runs, batch, tableVars, kernelVars, userVars>>

CallbackOpen(f, h) ==
    /\ loop = "callback"
    /\ Openable(f, h)
    /\ open' = open \cup {f}
    /\ session' = [session EXCEPT ![f] = h]
    /\ owner' = [owner EXCEPT ![h] = Loop]
    /\ UNCHANGED <<callerVars, queueVars, loopVars, tableVars, interest, ready, quiet>>

CallbackAdd(f, mask) ==
    /\ loop = "callback"
    /\ "add" \in Ops
    /\ Owns(Loop, f)
    /\ RegisterHandler(f, session[f], mask)
    /\ quiet' = quiet \ {session[f]}
    /\ UNCHANGED <<callerVars, queueVars, loopVars, ready, open, session, owner>>

CallbackDel(f) ==
    /\ loop = "callback"
    /\ "del" \in Ops
    /\ Owns(Loop, f)
    /\ session[f] # cur.handler
    /\ UnregisterHandler(f)
    /\ quiet' = quiet \cup {session[f]}
    /\ UNCHANGED <<callerVars, queueVars, loopVars, ready, open, session, owner>>

\* A callback removes its own handler and returns: the handler may be destroyed from then on.
CallbackDelSelf ==
    /\ loop = "callback"
    /\ "del" \in Ops
    /\ Owns(Loop, cur.fd)
    /\ session[cur.fd] = cur.handler
    /\ UnregisterHandler(cur.fd)
    /\ quiet' = quiet \cup {cur.handler}
    /\ loop' = "dispatch"
    /\ cur' = None
    /\ UNCHANGED <<callerVars, queueVars, threadSet, running, runs, batch, ready, open, session, owner>>

CallbackDestroy(f) ==
    /\ loop = "callback"
    /\ Owns(Loop, f)
    /\ session[f] \in quiet
    /\ CloseFd(f)
    /\ session' = [session EXCEPT ![f] = None]
    /\ UNCHANGED <<callerVars, queueVars, loopVars, tableVars, owner, quiet>>

CallbackStop ==
    /\ loop = "callback"
    /\ "stop" \in Ops
    /\ running' = FALSE
    /\ UNCHANGED <<callerVars, queueVars, loop, threadSet, runs, batch, cur, tableVars, kernelVars, userVars>>

-----------------------------------------------------------------------------

CallStep(t) == PushClaim(t) \/ PushPublish(t) \/ ExchangeNotified(t) \/ WriteWakeup(t)
               \/ WaitDone(t) \/ WaitStop(t)

SessionStep(t) ==
    \E f \in Fds :
        \/ \E h \in Handlers : Open(t, f, h)
        \/ CloseEarly(t, f)
        \/ Destroy(t, f)

StartStep(t) ==
    \E sync \in Syncs :
        \/ \E f \in Fds, mask \in Masks, h \in Handlers \cup {None} : AddHandler(t, f, mask, h, sync)
        \/ \E f \in Fds \cup {None} : DelHandler(t, f, sync)
        \/ Stop(t, sync)

\* Steps the loop's thread takes by itself.
LoopStep ==
    \/ RunEnter \/ RunStart \/ CheckRunning \/ RunExit
    \/ EpollWait \/ EpollInterrupted
    \/ ReadWakeup \/ ClearNotified \/ PopCommand \/ DrainEnd
    \/ \E ev \in batch \ {Wakeup} : DispatchEvent(ev)
    \/ Purge \/ CallbackReturn

\* Steps a callback may take.
CallbackStep ==
    \/ \E f \in Fds :
        \/ \E h \in Handlers : CallbackOpen(f, h)
        \/ \E mask \in Masks : CallbackAdd(f, mask)
        \/ CallbackDel(f)
        \/ CallbackDestroy(f)
    \/ CallbackDelSelf
    \/ CallbackStop

EnvStep == \E f \in Fds, e \in Kinds : BecomeReady(f, e) \/ BecomeUnready(f, e)

Next ==
    \/ \E t \in Threads : CallStep(t) \/ SessionStep(t) \/ StartStep(t)
    \/ LoopStep
    \/ CallbackStep
    \/ EnvStep

Spec == Init /\ [][Next]_vars

\* A started call is scheduled until it returns, the loop's thread is scheduled, and callbacks return.
Fairness == WF_vars(LoopStep) /\ \A t \in Threads : WF_vars(CallStep(t))

FairSpec == Spec /\ Fairness
-----------------------------------------------------------------------------
(* Properties.                                                              *)

(* writeCommand / readCommands: a command in the ring is never left without a
   wakeup.  Outside the window in which the loop has consumed the wakeup and is
   about to drain, a non-empty ring means that the eventfd is readable or that
   some caller has still to publish, to test _notified or to write it.        *)
NoLostWakeup ==
    commands # <<>> /\ loop \notin {"clear", "drain"} =>
        wakeup > 0 \/ \E t \in Threads : pc[t] \in {"publish", "exchange", "write"}

(* _notified coalesces the writes: the eventfd counter never passes 1 and is 1
   whenever readCommands reads it, so neither error branch (a failed write in
   writeCommand, a failed read in readCommands) is ever taken.                *)
WakeupCoalesced ==
    /\ wakeup <= 1
    /\ loop = "read" => wakeup = 1

(* delHandler: once it has completed, no callback of that handler runs, until it
   is added again.  The caller relies on it to destroy the handler.           *)
NoCallbackAfterDel == cur # None => cur.handler \notin quiet

(* Between two rounds a descriptor in the epoll list has in _handlers the handler
   of the session that opened it: its events are neither dropped for ever nor
   sent to the handler of an earlier user of the number.                      *)
KernelTablesAgree ==
    loop \in {"off", "run", "top", "wait", "exit"} =>
        \A f \in Fds : interest[f] # {} => handlers[f] = session[f] /\ f \notin deleted

(* sync calls: what addHandler or delHandler has reported as completed still
   holds when the caller wakes up, whatever the other threads and the callbacks
   did in between.                                                            *)
SyncEffective ==
    \A t \in Threads : pc[t] = "wait" /\ done[t] =>
        LET f == op[t].fd IN
        f # None =>
        IF op[t].type = "del" THEN interest[f] = {} /\ (f \in deleted \/ handlers[f] = None)
        ELSE ~errc[t] => interest[f] = op[t].events /\ handlers[f] = op[t].handler /\ f \notin deleted

(* The callers stop issuing new calls: readCommands drains while commands keep
   coming, so a flood of calls keeps the loop from the events and from _running. *)
CallersFallSilent == <>[](\A t \in Threads : pc[t] \in {"idle", "wait", "waitstop"})

(* addHandler and delHandler with sync return, or the loop has ended: a command pushed
   behind the last drain of a stopping loop is never answered.                *)
SyncCallsReturnOrStopped ==
    CallersFallSilent => \A t \in Threads : (pc[t] = "wait") ~> (pc[t] = "idle" \/ loop = "off")

(* stop (sync) returns, also when it is called before run(), once calls cease. *)
StopReturns == CallersFallSilent => \A t \in Threads : (pc[t] = "waitstop") ~> (pc[t] = "idle")

(* A stop command, even one written before run(), ends the loop.              *)
StopEndsLoop ==
    CallersFallSilent =>
        \A t \in Threads : (pc[t] = "publish" /\ op[t].type = "stop") ~> (loop = "off" /\ ~running)

(* eventLoop: an event of a registered descriptor that stays ready is served: its
   handler is called, or it is unregistered, or the loop stops.               *)
EventsServed ==
    CallersFallSilent =>
        \A f \in Fds : (Reported(f) # {}) ~>
            (Reported(f) = {} \/ (cur # None /\ cur.fd = f) \/ ~running)

(* dispatchEvent: an event reaches another handler than that of the session whose file raised
   it only when that session is over, its delHandler completed: then the batch may hold its last
   events while the number already belongs to the next session.              *)
StrayEventsOfDeleted == cur # None /\ cur.from # cur.handler => cur.from \in quiet

(* The tables of the reactor against the kernel and the callers: between rounds they agree with the
   epoll list, what a sync call reported still holds when its caller wakes up, and an event goes
   astray only from a session that is over.                                   *)
TablesAgree == KernelTablesAgree /\ SyncEffective /\ StrayEventsOfDeleted

(* The loop serves its callers and its descriptors once new calls cease: sync calls return or the
   loop has ended, stop returns and ends the loop, ready descriptors are dispatched. *)
LoopServes == SyncCallsReturnOrStopped /\ StopReturns /\ StopEndsLoop /\ EventsServed
=============================================================================
