--------------------------- MODULE ReactorProofs ---------------------------
(***************************************************************************)
(* Proofs about Reactor, for any sets of threads, descriptors, handlers    *)
(* and masks and any ring size: type correctness, that no command is ever  *)
(* left in the ring without a wakeup, that no callback of a deleted        *)
(* handler runs, and that the tables agree with the epoll list.            *)
(***************************************************************************)
EXTENDS Reactor, SequenceTheorems, TLAPS

(* The loop runs a callback exactly when cur names one. *)
CurSet == loop = "callback" => cur \in Callback

TypeInv == TypeOK /\ CurSet

(* The right to write the eventfd is one token: it is with the one caller that
   found _notified clear, in the eventfd, or with the loop between the read of
   the eventfd and the clearing of _notified; _notified tells whether it is out. *)
Writing(t) == pc[t] = "write"

OneToken ==
    /\ wakeup \in {0, 1}
    /\ \A t, u \in Threads : Writing(t) /\ Writing(u) => t = u
    /\ \A t \in Threads : Writing(t) => wakeup = 0 /\ loop # "clear"
    /\ loop = "clear" => wakeup = 0
    /\ loop = "read" => wakeup = 1

TokenOut == wakeup = 1 \/ loop = "clear" \/ \E t \in Threads : Writing(t)

TokenNotified == notified <=> TokenOut

(* A claimed slot that is not published belongs to a caller about to publish it. *)
Unpublished(i, t) == commands[i].by = t /\ ~commands[i].published

ClaimsHeld ==
    \A t \in Threads, i \in 1..Len(commands) : Unpublished(i, t) =>
        /\ pc[t] = "publish"
        /\ \A j \in 1..Len(commands) : Unpublished(j, t) => i = j

WakeupInv == OneToken /\ TokenNotified /\ ClaimsHeld /\ NoLostWakeup

-----------------------------------------------------------------------------

LEMMA PublishedSlot ==
    ASSUME NEW s \in Seq(Slot), NEW i \in DOMAIN s
    PROVE  [s[i] EXCEPT !.published = TRUE] \in Slot
<1>1. s[i] \in Slot
  BY ElementOfSeq
<1> QED BY <1>1 DEF Slot

CallerTypes ==
    /\ pc \in [Threads -> CallerPc]
    /\ op \in [Threads -> Command]
    /\ done \in [Threads -> BOOLEAN]
    /\ errc \in [Threads -> BOOLEAN]

LEMMA NoOpType == NoOp \in Command
BY DEF NoOp, Command, HandlerCommand, StopCommand

LEMMA ReturnTypes ==
    ASSUME CallerTypes, NEW t \in Threads, Return(t)
    PROVE  CallerTypes'
BY NoOpType DEF CallerTypes, Return, CallerPc

LEMMA AfterWriteTypes ==
    ASSUME CallerTypes, NEW t \in Threads, AfterWrite(t)
    PROVE  CallerTypes'
<1>1. CASE ~op[t].sync
  BY <1>1, ReturnTypes DEF AfterWrite
<1>2. CASE op[t].sync
  BY <1>2 DEF AfterWrite, CallerTypes, CallerPc
<1> QED BY <1>1, <1>2

LEMMA CallTypes ==
    ASSUME TypeInv, NEW t \in Threads, CallStep(t)
    PROVE TypeInv'
<1> USE ReactorAssumption
<1> USE DEF TypeInv, TypeOK, CurSet, callerVars, queueVars, loopVars, tableVars, kernelVars, userVars
<1>1. CallerTypes
  BY DEF CallerTypes
<1>2. CASE PushClaim(t)
  <2>1. [cmd |-> op[t], by |-> t, published |-> FALSE] \in Slot
    BY DEF Slot
  <2> QED BY <1>2, <2>1 DEF PushClaim, CallerPc
<1>3. CASE PushPublish(t)
  <2>1. PICK i \in DOMAIN commands :
          commands' = [commands EXCEPT ![i] = [@ EXCEPT !.published = TRUE]]
    BY <1>3 DEF PushPublish
  <2>2. [commands[i] EXCEPT !.published = TRUE] \in Slot
    BY <2>1, PublishedSlot
  <2>3. commands' \in Seq(Slot)
    BY <2>1, <2>2, ExceptSeq
  <2> QED BY <1>3, <2>3 DEF PushPublish, CallerPc
<1>4. CASE ExchangeNotified(t)
  <2>1. CASE notified
    <3>1. CallerTypes'
      BY <1>1, <1>4, <2>1, AfterWriteTypes DEF ExchangeNotified
    <3> QED BY <1>4, <3>1 DEF ExchangeNotified, CallerTypes
  <2>2. CASE ~notified
    BY <1>4, <2>2 DEF ExchangeNotified, CallerPc
  <2> QED BY <2>1, <2>2
<1>5. CASE WriteWakeup(t)
  <2>1. CallerTypes'
    BY <1>1, <1>5, AfterWriteTypes DEF WriteWakeup
  <2> QED BY <1>5, <2>1 DEF WriteWakeup, CallerTypes
<1>6. CASE WaitDone(t)
  <2>1. op[t].type = "del" /\ op[t].fd # None => op[t].fd \in Fds
    BY DEF Command, HandlerCommand, StopCommand
  <2>2. CallerTypes'
    BY <1>1, <1>6, ReturnTypes DEF WaitDone
  <2> QED BY <1>6, <2>1, <2>2 DEF WaitDone, CallerTypes
<1>7. CASE WaitStop(t)
  <2>1. CallerTypes'
    BY <1>1, <1>7, ReturnTypes DEF WaitStop
  <2> QED BY <1>7, <2>1 DEF WaitStop, CallerTypes
<1> QED BY <1>2, <1>3, <1>4, <1>5, <1>6, <1>7 DEF CallStep

LEMMA UserTypes ==
    ASSUME TypeInv, NEW t \in Threads, SessionStep(t) \/ StartStep(t)
    PROVE TypeInv'
<1> USE ReactorAssumption
<1> USE DEF TypeInv, TypeOK, CurSet, callerVars, queueVars, loopVars, tableVars, kernelVars, userVars
<1>1. ASSUME NEW f \in Fds, NEW h \in Handlers, Open(t, f, h)
      PROVE  TypeInv'
  BY <1>1 DEF Open
<1>2. ASSUME NEW f \in Fds, CloseEarly(t, f)
      PROVE  TypeInv'
  BY <1>2 DEF CloseEarly, CloseFd
<1>3. ASSUME NEW f \in Fds, Destroy(t, f)
      PROVE  TypeInv'
  BY <1>3 DEF Destroy, CloseFd
<1>4. ASSUME NEW cmd \in Command, StartCall(t, cmd)
      PROVE  CallerTypes'
  BY <1>4 DEF StartCall, CallerTypes, CallerPc
<1>5. ASSUME NEW f \in Fds, NEW sync \in BOOLEAN, NEW mask \in Masks,
             NEW h \in Handlers \cup {None}, AddHandler(t, f, mask, h, sync)
      PROVE  TypeInv'
  <2>1. [type |-> "add", fd |-> f, events |-> mask, handler |-> h, sync |-> sync] \in Command
    BY DEF Command, HandlerCommand
  <2>2. CallerTypes'
    BY <1>4, <1>5, <2>1 DEF AddHandler
  <2> QED BY <1>5, <2>2 DEF AddHandler, CallerTypes
<1>6. ASSUME NEW f \in Fds \cup {None}, NEW sync \in BOOLEAN, DelHandler(t, f, sync)
      PROVE  TypeInv'
  <2>1. [type |-> "del", fd |-> f, events |-> {}, handler |-> None, sync |-> sync] \in Command
    BY DEF Command, HandlerCommand
  <2>2. CallerTypes'
    BY <1>4, <1>6, <2>1 DEF DelHandler
  <2> QED BY <1>6, <2>2 DEF DelHandler, CallerTypes
<1>7. ASSUME NEW sync \in BOOLEAN, Stop(t, sync)
      PROVE  TypeInv'
  <2>1. [type |-> "stop", fd |-> None, events |-> {}, handler |-> None, sync |-> sync] \in Command
    BY DEF Command, StopCommand
  <2>2. CallerTypes'
    BY <1>4, <1>7, <2>1 DEF Stop
  <2> QED BY <1>7, <2>2 DEF Stop, CallerTypes
<1>8. CASE SessionStep(t)
  BY <1>1, <1>2, <1>3, <1>8 DEF SessionStep
<1>9. CASE StartStep(t)
  <2>1. PICK sync \in Syncs :
          \/ \E f \in Fds, mask \in Masks, h \in Handlers \cup {None} : AddHandler(t, f, mask, h, sync)
          \/ \E f \in Fds \cup {None} : DelHandler(t, f, sync)
          \/ Stop(t, sync)
    BY <1>9, Zenon DEF StartStep
  <2>2. sync \in BOOLEAN
    BY ReactorAssumption
  <2> HIDE DEF TypeInv
  <2> QED BY <1>5, <1>6, <1>7, <2>1, <2>2
<1> QED BY <1>8, <1>9

LEMMA RegisterTypes ==
    ASSUME TypeOK, NEW f \in Fds \cup {None}, NEW h \in Handlers \cup {None}, NEW events \in Masks \cup {{}},
           RegisterHandler(f, h, events)
    PROVE  /\ interest' \in [Fds -> SUBSET {"in", "out", "rdhup"}]
           /\ deleted' \in SUBSET Fds
           /\ handlers' \in [Fds -> Handlers \cup {None}]
<1>1. events \in SUBSET {"in", "out", "rdhup"}
  BY ReactorAssumption
<1>2. CASE RegisterFails(f, h, events)
  BY <1>2 DEF TypeOK, RegisterHandler
<1>3. CASE ~RegisterFails(f, h, events)
  BY <1>1, <1>3 DEF TypeOK, RegisterHandler, RegisterFails
<1> QED BY <1>2, <1>3

LEMMA UnregisterTypes ==
    ASSUME TypeOK, NEW f \in Fds \cup {None}, UnregisterHandler(f)
    PROVE  /\ interest' \in [Fds -> SUBSET {"in", "out", "rdhup"}]
           /\ deleted' \in SUBSET Fds
           /\ handlers' \in [Fds -> Handlers \cup {None}]
BY DEF TypeOK, UnregisterHandler

LEMMA ProcessTypes ==
    ASSUME TypeOK, NEW slot \in Slot, ProcessCommand(slot)
    PROVE  /\ interest' \in [Fds -> SUBSET {"in", "out", "rdhup"}]
           /\ deleted' \in SUBSET Fds
           /\ handlers' \in [Fds -> Handlers \cup {None}]
           /\ running' \in BOOLEAN
           /\ done' \in [Threads -> BOOLEAN]
           /\ errc' \in [Threads -> BOOLEAN]
<1> DEFINE cmd == slot.cmd
<1>1. cmd \in Command /\ slot.by \in Threads
  BY DEF Slot
<1>2. /\ done' \in [Threads -> BOOLEAN]
      /\ errc' \in [Threads -> BOOLEAN]
  BY <1>1 DEF ProcessCommand, TypeOK, CommandFails, RegisterFails, UnregisterFails
<1>3. CASE cmd.type = "add"
  <2>1. cmd \in HandlerCommand
    BY <1>1, <1>3 DEF Command, StopCommand
  <2>2. RegisterHandler(cmd.fd, cmd.handler, cmd.events) /\ UNCHANGED running
    BY <1>3 DEF ProcessCommand
  <2>3. cmd.fd \in Fds \cup {None} /\ cmd.handler \in Handlers \cup {None} /\ cmd.events \in Masks \cup {{}}
    BY <2>1 DEF HandlerCommand
  <2> QED BY <1>2, <2>2, <2>3, RegisterTypes DEF TypeOK
<1>4. CASE cmd.type = "del"
  <2>1. cmd.fd \in Fds \cup {None}
    BY <1>1, <1>4 DEF Command, StopCommand, HandlerCommand
  <2>2. UnregisterHandler(cmd.fd) /\ UNCHANGED running
    BY <1>4 DEF ProcessCommand
  <2> QED BY <1>2, <2>1, <2>2, UnregisterTypes DEF TypeOK
<1>5. CASE cmd.type = "stop"
  BY <1>2, <1>5 DEF ProcessCommand, TypeOK
<1> QED BY <1>1, <1>3, <1>4, <1>5 DEF Command, HandlerCommand, StopCommand

LEMMA LoopTypes ==
    ASSUME TypeInv, LoopStep
    PROVE TypeInv'
<1> USE ReactorAssumption
<1> USE DEF TypeInv, TypeOK, CurSet, callerVars, queueVars, loopVars, tableVars, kernelVars, userVars
<1>1. CASE RunEnter
  BY <1>1 DEF RunEnter, LoopPc
<1>2. CASE RunStart
  BY <1>2 DEF RunStart, LoopPc
<1>3. CASE CheckRunning
  BY <1>3 DEF CheckRunning, LoopPc
<1>4. CASE RunExit
  BY <1>4 DEF RunExit, LoopPc
<1>5. CASE EpollWait
  <2>1. PICK got \in SUBSET ReadySet :
          /\ batch' = {[fd |-> f, events |-> Reported(f), from |-> session[f]] : f \in got \ {Wakeup}}
                      \cup (got \cap {Wakeup})
          /\ loop' = IF Wakeup \in got THEN "read" ELSE "dispatch"
    BY <1>5 DEF EpollWait
  <2>2. got \ {Wakeup} \subseteq Fds
    BY DEF ReadySet
  <2>3. \A f \in Fds : Reported(f) \in SUBSET EventKinds
    BY DEF Reported
  <2>4. \A f \in got \ {Wakeup} : [fd |-> f, events |-> Reported(f), from |-> session[f]] \in Event
    BY <2>2, <2>3 DEF Event
  <2>5. batch' \in SUBSET (Event \cup {Wakeup})
    BY <2>1, <2>4
  <2> QED BY <1>5, <2>1, <2>5 DEF EpollWait, LoopPc
<1>6. CASE EpollInterrupted
  BY <1>6 DEF EpollInterrupted, LoopPc
<1>7. CASE ReadWakeup
  BY <1>7 DEF ReadWakeup, LoopPc
<1>8. CASE ClearNotified
  BY <1>8 DEF ClearNotified, LoopPc
<1>9. CASE PopCommand
  <2>1. commands # <<>> /\ ProcessCommand(Head(commands)) /\ commands' = Tail(commands)
    BY <1>9 DEF PopCommand, Poppable
  <2>2. Head(commands) \in Slot /\ commands' \in Seq(Slot)
    BY <2>1, HeadTailProperties
  <2> QED BY <1>9, <2>1, <2>2, ProcessTypes DEF PopCommand
<1>10. CASE DrainEnd
  BY <1>10 DEF DrainEnd, LoopPc
<1>11. ASSUME NEW ev \in batch \ {Wakeup}, DispatchEvent(ev)
       PROVE  TypeInv'
  <2>1. ev \in Event
    OBVIOUS
  <2>2. ev.fd \in Fds /\ ev.from \in Handlers \cup {None}
    BY <2>1 DEF Event
  <2>3. Method(ev.events) \in {"onError", "onClose", "onReadable", "onWriteable"}
    BY DEF Method
  <2>4. CASE handlers[ev.fd] # None /\ IsActive(ev.fd)
    <3> DEFINE c == [fd |-> ev.fd, handler |-> handlers[ev.fd], method |-> Method(ev.events), from |-> ev.from]
    <3>1. c \in Callback
      BY <2>2, <2>3, <2>4 DEF Callback
    <3>2. cur' = c /\ loop' = "callback" /\ batch' = batch \ {ev}
      BY <1>11, <2>4 DEF DispatchEvent
    <3> QED BY <1>11, <3>1, <3>2 DEF DispatchEvent, LoopPc
  <2>5. CASE ~(handlers[ev.fd] # None /\ IsActive(ev.fd))
    BY <1>11, <2>5 DEF DispatchEvent
  <2> QED BY <2>4, <2>5
<1>12. CASE Purge
  BY <1>12 DEF Purge, LoopPc
<1>13. CASE CallbackReturn
  BY <1>13 DEF CallbackReturn, LoopPc
<1> QED BY <1>1, <1>2, <1>3, <1>4, <1>5, <1>6, <1>7, <1>8, <1>9, <1>10, <1>11, <1>12, <1>13 DEF LoopStep

LEMMA CallbackTypes ==
    ASSUME TypeInv, CallbackStep
    PROVE TypeInv'
<1> USE ReactorAssumption
<1> USE DEF TypeInv, TypeOK, CurSet, callerVars, queueVars, loopVars, tableVars, kernelVars, userVars
<1>1. ASSUME NEW f \in Fds, NEW h \in Handlers, CallbackOpen(f, h)
      PROVE  TypeInv'
  BY <1>1 DEF CallbackOpen
<1>2. ASSUME NEW f \in Fds, NEW mask \in Masks, CallbackAdd(f, mask)
      PROVE  TypeInv'
  BY <1>2, RegisterTypes DEF CallbackAdd
<1>3. ASSUME NEW f \in Fds, CallbackDel(f)
      PROVE  TypeInv'
  BY <1>3, UnregisterTypes DEF CallbackDel
<1>4. ASSUME NEW f \in Fds, CallbackDestroy(f)
      PROVE  TypeInv'
  BY <1>4 DEF CallbackDestroy, CloseFd
<1>5. CASE CallbackDelSelf
  <2>1. cur.fd \in Fds /\ cur.handler \in Handlers
    BY <1>5 DEF CallbackDelSelf, Callback
  <2> QED BY <1>5, <2>1, UnregisterTypes DEF CallbackDelSelf, LoopPc
<1>6. CASE CallbackStop
  BY <1>6 DEF CallbackStop
<1> QED BY <1>1, <1>2, <1>3, <1>4, <1>5, <1>6 DEF CallbackStep

LEMMA EnvTypes ==
    ASSUME TypeInv, EnvStep
    PROVE TypeInv'
<1> USE ReactorAssumption
<1> USE DEF TypeInv, TypeOK, CurSet, callerVars, queueVars, loopVars, tableVars, userVars
<1>1. ASSUME NEW f \in Fds, NEW e \in Kinds, BecomeReady(f, e) \/ BecomeUnready(f, e)
      PROVE  TypeInv'
  BY <1>1 DEF BecomeReady, BecomeUnready
<1> QED BY <1>1 DEF EnvStep

LEMMA InitTypes == Init => TypeInv
<1> SUFFICES ASSUME Init PROVE TypeInv
  OBVIOUS
<1> USE DEF Init
<1>1. CallerTypes
  BY NoOpType DEF CallerTypes, CallerPc
<1>2. commands \in Seq(Slot) /\ wakeup \in Nat /\ runs \in Nat
  BY EmptySeq
<1>3. loop \in LoopPc /\ notified \in BOOLEAN /\ threadSet \in BOOLEAN /\ running \in BOOLEAN /\ CurSet
  BY DEF LoopPc, CurSet
<1>4. /\ handlers \in [Fds -> Handlers \cup {None}]
      /\ session \in [Fds -> Handlers \cup {None}]
      /\ owner \in [Handlers -> Threads \cup {Loop, None}]
  OBVIOUS
<1>5. \A S : [f \in Fds |-> {}] \in [Fds -> SUBSET S]
  OBVIOUS
<1>6. /\ interest \in [Fds -> SUBSET {"in", "out", "rdhup"}]
      /\ ready \in [Fds -> SUBSET EventKinds]
  BY <1>5
<1> QED BY <1>1, <1>2, <1>3, <1>4, <1>6 DEF TypeInv, TypeOK, CallerTypes

LEMMA TypeInvariant == Spec => []TypeInv
<1>1. TypeInv /\ [Next]_vars => TypeInv'
  <2> SUFFICES ASSUME TypeInv, [Next]_vars PROVE TypeInv'
    OBVIOUS
  <2>1. CASE Next
    BY <2>1, CallTypes, UserTypes, LoopTypes, CallbackTypes, EnvTypes DEF Next
  <2>2. CASE UNCHANGED vars
    BY <2>2 DEF vars, TypeInv, TypeOK, CurSet, callerVars, queueVars, loopVars, tableVars, kernelVars, userVars
  <2> QED BY <2>1, <2>2
<1> QED BY <1>1, InitTypes, PTL DEF Spec

(* Every variable of the reactor keeps its type, for any instance; in particular
   a command that names a descriptor never meets the Stop command's -1.        *)
THEOREM TypeCorrect == Spec => []TypeOK
<1>1. TypeInv => TypeOK
  BY DEF TypeInv
<1> QED BY <1>1, TypeInvariant, PTL

-----------------------------------------------------------------------------
(* The wakeup protocol.                                                     *)

LEMMA InitWakeup == Init => WakeupInv
BY DEF Init, WakeupInv, OneToken, TokenNotified, TokenOut, ClaimsHeld, Unpublished, NoLostWakeup, Writing

(* A step of the loop outside readCommands does not touch the protocol. *)
LEMMA LoopElsewhere ==
    ASSUME WakeupInv, UNCHANGED <<pc, commands, notified, wakeup>>,
           \/ loop' = loop
           \/ loop \notin {"read", "clear", "drain"} /\ loop' \notin {"read", "clear", "drain"}
    PROVE  WakeupInv'
BY DEF WakeupInv, OneToken, TokenNotified, TokenOut, ClaimsHeld, Unpublished, NoLostWakeup, Writing

(* Nor does a caller that enters or leaves a call. *)
LEMMA CallerElsewhere ==
    ASSUME TypeOK, WakeupInv, UNCHANGED <<commands, notified, wakeup, loop>>,
           NEW t \in Threads, pc[t] \notin {"publish", "exchange", "write"},
           NEW p, p \notin {"publish", "exchange", "write"}, pc' = [pc EXCEPT ![t] = p]
    PROVE  WakeupInv'
<1>1. \A u \in Threads : (pc'[u] \in {"publish", "exchange", "write"}
                          <=> pc[u] \in {"publish", "exchange", "write"})
                         /\ (pc'[u] = "write" <=> pc[u] = "write")
                         /\ (pc'[u] = "publish" <=> pc[u] = "publish")
  BY DEF TypeOK
<1>2. OneToken' /\ TokenNotified' /\ NoLostWakeup'
  BY <1>1 DEF WakeupInv, OneToken, TokenNotified, TokenOut, NoLostWakeup, Writing
<1>3. ClaimsHeld'
  BY <1>1 DEF WakeupInv, ClaimsHeld, Unpublished
<1> QED BY <1>2, <1>3 DEF WakeupInv

LEMMA PushClaimWakeup ==
    ASSUME TypeOK, WakeupInv, NEW t \in Threads, PushClaim(t)
    PROVE  WakeupInv'
<1> DEFINE slot == [cmd |-> op[t], by |-> t, published |-> FALSE]
<1>1. /\ pc[t] = "push" /\ pc' = [pc EXCEPT ![t] = "publish"]
      /\ commands' = Append(commands, slot)
      /\ UNCHANGED <<notified, wakeup, loop>>
  BY DEF PushClaim, loopVars
<1>2. OneToken' /\ TokenNotified' /\ NoLostWakeup'
  BY <1>1 DEF TypeOK, WakeupInv, OneToken, TokenNotified, TokenOut, NoLostWakeup, Writing
<1>3. ClaimsHeld'
  <2>1. slot \in Slot
    BY DEF Slot, TypeOK
  <2>2. /\ Len(commands) \in Nat
        /\ Len(commands') = Len(commands) + 1
        /\ \A j \in 1..Len(commands) : commands'[j] = commands[j]
        /\ commands'[Len(commands) + 1] = slot
    BY <1>1, <2>1, AppendProperties DEF TypeOK
  <2>3. \A j \in 1..Len(commands) : ~Unpublished(j, t)
    BY <1>1 DEF WakeupInv, ClaimsHeld
  <2>4. \A u \in Threads : u # t => pc'[u] = pc[u]
    BY <1>1 DEF TypeOK
  <2>5. pc'[t] = "publish"
    BY <1>1 DEF TypeOK
  <2>6. \A u \in Threads, i \in 1..Len(commands') : Unpublished(i, u)' =>
          \/ u # t /\ i \in 1..Len(commands) /\ Unpublished(i, u)
          \/ u = t /\ i = Len(commands) + 1
    BY <2>2, <2>3 DEF Unpublished
  <2> QED BY <2>2, <2>4, <2>5, <2>6 DEF WakeupInv, ClaimsHeld
<1> QED BY <1>2, <1>3 DEF WakeupInv

LEMMA PushPublishWakeup ==
    ASSUME TypeOK, WakeupInv, NEW t \in Threads, PushPublish(t)
    PROVE  WakeupInv'
<1>1. /\ pc[t] = "publish" /\ pc' = [pc EXCEPT ![t] = "exchange"]
      /\ UNCHANGED <<notified, wakeup, loop>>
  BY DEF PushPublish, loopVars
<1>2. PICK k \in DOMAIN commands :
        /\ Unpublished(k, t)
        /\ commands' = [commands EXCEPT ![k] = [@ EXCEPT !.published = TRUE]]
  BY DEF PushPublish, Unpublished
<1>3. OneToken' /\ TokenNotified' /\ NoLostWakeup'
  BY <1>1 DEF TypeOK, WakeupInv, OneToken, TokenNotified, TokenOut, NoLostWakeup, Writing
<1>4. ClaimsHeld'
  <2>1. DOMAIN commands = 1..Len(commands)
    BY LenProperties DEF TypeOK
  <2>2. commands[k] \in Slot
    BY <2>1, ElementOfSeq DEF TypeOK
  <2>3. /\ Len(commands') = Len(commands)
        /\ \A i \in 1..Len(commands) : i # k => commands'[i] = commands[i]
        /\ commands'[k] = [commands[k] EXCEPT !.published = TRUE]
    BY <1>2, <2>1, <2>2, PublishedSlot, ExceptSeq DEF TypeOK
  <2>4. commands'[k].published
    BY <2>2, <2>3 DEF Slot
  <2>5. \A u \in Threads, i \in 1..Len(commands) :
          Unpublished(i, u)' => Unpublished(i, u) /\ i # k /\ u # t
    BY <1>1, <1>2, <2>1, <2>3, <2>4 DEF Unpublished, WakeupInv, ClaimsHeld
  <2>6. \A u \in Threads : u # t => pc'[u] = pc[u]
    BY <1>1 DEF TypeOK
  <2> QED BY <2>3, <2>5, <2>6 DEF WakeupInv, ClaimsHeld
<1> QED BY <1>3, <1>4 DEF WakeupInv

LEMMA AfterWritePc ==
    ASSUME NEW t \in Threads, AfterWrite(t)
    PROVE  \E p \in {"idle", "wait", "waitstop"} : pc' = [pc EXCEPT ![t] = p]
BY DEF AfterWrite, Return

(* The caller keeps its claim out of the way when it leaves "exchange" or "write". *)
LEMMA ClaimsKept ==
    ASSUME TypeOK, ClaimsHeld, UNCHANGED commands, NEW t \in Threads, pc[t] # "publish",
           NEW p, pc' = [pc EXCEPT ![t] = p]
    PROVE  ClaimsHeld'
<1>1. \A u \in Threads : u # t => pc'[u] = pc[u]
  BY DEF TypeOK
<1> QED BY <1>1 DEF ClaimsHeld, Unpublished

LEMMA ExchangeWakeup ==
    ASSUME TypeOK, WakeupInv, NEW t \in Threads, ExchangeNotified(t)
    PROVE  WakeupInv'
<1>1. pc[t] = "exchange" /\ notified' = TRUE /\ UNCHANGED <<commands, wakeup, loop>>
  BY DEF ExchangeNotified, loopVars
<1>2. CASE notified
  <2>1. PICK p \in {"idle", "wait", "waitstop"} : pc' = [pc EXCEPT ![t] = p]
    BY <1>2, AfterWritePc DEF ExchangeNotified
  <2>2. \A u \in Threads : Writing(u)' <=> Writing(u)
    BY <1>1, <2>1 DEF TypeOK, Writing
  <2>3. OneToken' /\ TokenNotified'
    BY <1>1, <1>2, <2>2 DEF WakeupInv, OneToken, TokenNotified, TokenOut
  <2>4. NoLostWakeup'
    BY <1>1, <1>2, <2>2, <2>3 DEF TokenNotified, TokenOut, NoLostWakeup, Writing
  <2>5. ClaimsHeld'
    BY <1>1, <2>1, ClaimsKept DEF WakeupInv
  <2> QED BY <2>3, <2>4, <2>5 DEF WakeupInv
<1>3. CASE ~notified
  <2>1. pc' = [pc EXCEPT ![t] = "write"]
    BY <1>3 DEF ExchangeNotified
  <2>2. ~TokenOut
    BY <1>3 DEF WakeupInv, TokenNotified
  <2>3. \A u \in Threads : Writing(u)' <=> u = t
    BY <2>1, <2>2 DEF TypeOK, Writing, TokenOut
  <2>4. OneToken' /\ TokenNotified'
    BY <1>1, <2>2, <2>3 DEF WakeupInv, OneToken, TokenNotified, TokenOut
  <2>5. NoLostWakeup'
    BY <2>3 DEF NoLostWakeup, Writing
  <2>6. ClaimsHeld'
    BY <1>1, <2>1, ClaimsKept DEF WakeupInv
  <2> QED BY <2>4, <2>5, <2>6 DEF WakeupInv
<1> QED BY <1>2, <1>3

LEMMA WriteWakeupWakeup ==
    ASSUME TypeOK, WakeupInv, NEW t \in Threads, WriteWakeup(t)
    PROVE  WakeupInv'
<1>1. pc[t] = "write" /\ wakeup' = wakeup + 1 /\ UNCHANGED <<commands, notified, loop>>
  BY DEF WriteWakeup, loopVars
<1>2. PICK p \in {"idle", "wait", "waitstop"} : pc' = [pc EXCEPT ![t] = p]
  BY AfterWritePc DEF WriteWakeup
<1>3. wakeup = 0 /\ loop # "clear" /\ wakeup' = 1
  BY <1>1 DEF WakeupInv, OneToken, Writing
<1>4. \A u \in Threads : ~Writing(u)'
  BY <1>1, <1>2 DEF TypeOK, WakeupInv, OneToken, Writing
<1>5. OneToken' /\ TokenNotified' /\ NoLostWakeup'
  BY <1>1, <1>3, <1>4 DEF WakeupInv, OneToken, TokenNotified, TokenOut, NoLostWakeup, Writing
<1>6. ClaimsHeld'
  BY <1>1, <1>2, ClaimsKept DEF WakeupInv
<1> QED BY <1>5, <1>6 DEF WakeupInv

LEMMA CallWakeup ==
    ASSUME TypeOK, WakeupInv, NEW t \in Threads, CallStep(t) \/ SessionStep(t) \/ StartStep(t)
    PROVE  WakeupInv'
<1>1. CASE WaitDone(t) \/ WaitStop(t)
  BY <1>1, CallerElsewhere DEF WaitDone, WaitStop, Return, queueVars, loopVars
<1>2. CASE SessionStep(t)
  BY <1>2, LoopElsewhere DEF SessionStep, Open, CloseEarly, Destroy, callerVars, queueVars, loopVars
<1>3. CASE StartStep(t)
  <2>1. /\ UNCHANGED <<commands, notified, wakeup, loop>>
        /\ pc[t] = "idle" /\ pc' = [pc EXCEPT ![t] = "push"]
    BY <1>3 DEF StartStep, AddHandler, DelHandler, Stop, StartCall, queueVars, loopVars
  <2> QED BY <2>1, CallerElsewhere
<1> QED BY <1>1, <1>2, <1>3, PushClaimWakeup, PushPublishWakeup, ExchangeWakeup, WriteWakeupWakeup
    DEF CallStep

LEMMA LoopWakeup ==
    ASSUME TypeOK, WakeupInv, LoopStep
    PROVE  WakeupInv'
<1> USE DEF callerVars, queueVars
<1>1. CASE RunEnter \/ RunStart \/ CheckRunning \/ RunExit \/ EpollInterrupted \/ Purge \/ CallbackReturn
  BY <1>1, LoopElsewhere DEF RunEnter, RunStart, CheckRunning, RunExit, EpollInterrupted, Purge, CallbackReturn
<1>2. CASE EpollWait
  <2>1. /\ loop = "wait" /\ UNCHANGED <<pc, commands, notified, wakeup>>
        /\ \/ loop' = "read" /\ Wakeup \in ReadySet
           \/ loop' = "dispatch"
    BY <1>2 DEF EpollWait
  <2>2. Wakeup \in ReadySet => wakeup = 1
    BY ReactorAssumption DEF ReadySet, WakeupInv, OneToken
  <2>3. CASE loop' = "read"
    BY <2>1, <2>2, <2>3 DEF WakeupInv, OneToken, TokenNotified, TokenOut, ClaimsHeld, Unpublished, NoLostWakeup, Writing
  <2> QED BY <2>1, <2>3, LoopElsewhere
<1>3. CASE ReadWakeup
  BY <1>3 DEF ReadWakeup, WakeupInv, OneToken, TokenNotified, TokenOut, ClaimsHeld, Unpublished, NoLostWakeup, Writing
<1>4. CASE ClearNotified
  BY <1>4 DEF ClearNotified, WakeupInv, OneToken, TokenNotified, TokenOut, ClaimsHeld, Unpublished, NoLostWakeup, Writing
<1>5. CASE PopCommand
  <2>1. /\ commands # <<>> /\ commands' = Tail(commands) /\ loop = "drain"
        /\ UNCHANGED <<pc, notified, wakeup, loop>>
    BY <1>5 DEF PopCommand, Poppable
  <2>2. /\ Len(commands) \in Nat
        /\ Len(commands') = Len(commands) - 1
        /\ \A i \in 1..Len(commands') : commands'[i] = commands[i + 1]
    BY <2>1, HeadTailProperties, LenProperties DEF TypeOK
  <2>3. \A u \in Threads, i \in 1..Len(commands') :
          i + 1 \in 1..Len(commands) /\ (Unpublished(i, u)' => Unpublished(i + 1, u))
    BY <2>2 DEF Unpublished
  <2>4. ClaimsHeld'
    BY <2>1, <2>2, <2>3 DEF WakeupInv, ClaimsHeld
  <2>5. OneToken' /\ TokenNotified' /\ NoLostWakeup'
    BY <2>1 DEF WakeupInv, OneToken, TokenNotified, TokenOut, NoLostWakeup, Writing
  <2> QED BY <2>4, <2>5 DEF WakeupInv
<1>6. CASE DrainEnd
  <2>1. /\ loop = "drain" /\ loop' = "dispatch" /\ ~Poppable
        /\ UNCHANGED <<pc, commands, notified, wakeup>>
    BY <1>6 DEF DrainEnd
  <2>2. ASSUME commands # <<>> PROVE \E t \in Threads : pc[t] = "publish"
    <3>1. 1 \in 1..Len(commands) /\ Head(commands) = commands[1]
      BY <2>2, LenProperties, EmptySeq DEF TypeOK
    <3>2. commands[1].by \in Threads
      <4>1. commands[1] \in Slot
        BY <3>1, ElementOfSeq DEF TypeOK
      <4> QED BY <4>1 DEF Slot
    <3>3. Unpublished(1, commands[1].by)
      BY <2>1, <2>2, <3>1 DEF Poppable, Unpublished
    <3> QED BY <3>1, <3>2, <3>3 DEF WakeupInv, ClaimsHeld
  <2>3. NoLostWakeup'
    BY <2>1, <2>2 DEF NoLostWakeup
  <2> QED BY <2>1, <2>3 DEF WakeupInv, OneToken, TokenNotified, TokenOut, ClaimsHeld, Unpublished, Writing
<1>7. ASSUME NEW ev \in batch \ {Wakeup}, DispatchEvent(ev)
      PROVE  WakeupInv'
  BY <1>7, LoopElsewhere DEF DispatchEvent
<1> QED BY <1>1, <1>2, <1>3, <1>4, <1>5, <1>6, <1>7 DEF LoopStep

LEMMA OtherWakeup ==
    ASSUME WakeupInv, CallbackStep \/ EnvStep
    PROVE  WakeupInv'
<1>1. UNCHANGED <<pc, commands, notified, wakeup>>
      /\ (loop' = loop \/ (loop = "callback" /\ loop' = "dispatch"))
  BY DEF CallbackStep, CallbackOpen, CallbackAdd, CallbackDel, CallbackDestroy, CallbackDelSelf, CallbackStop,
         EnvStep, BecomeReady, BecomeUnready, callerVars, queueVars, loopVars
<1> QED BY <1>1, LoopElsewhere

LEMMA WakeupInvariant == Spec => []WakeupInv
<1>1. TypeOK /\ WakeupInv /\ [Next]_vars => WakeupInv'
  <2> SUFFICES ASSUME TypeOK, WakeupInv, [Next]_vars PROVE WakeupInv'
    OBVIOUS
  <2>1. CASE Next
    BY <2>1, CallWakeup, LoopWakeup, OtherWakeup DEF Next
  <2>2. CASE UNCHANGED vars
    BY <2>2, LoopElsewhere DEF vars, callerVars, queueVars, loopVars
  <2> QED BY <2>1, <2>2
<1> QED BY <1>1, InitWakeup, TypeCorrect, PTL DEF Spec

(* writeCommand and readCommands: whatever the number of callers and the ring's
   size, a command in the ring always has a wakeup that is signalled or still to
   be signalled, so the loop cannot sleep on it.                               *)
THEOREM CommandsAreWoken == Spec => []NoLostWakeup
<1>1. WakeupInv => NoLostWakeup
  BY DEF WakeupInv
<1> QED BY <1>1, WakeupInvariant, PTL

(* The eventfd counter stays within 0..1 and is 1 whenever readCommands reads it,
   for any number of callers: the error branches of write and read are dead code. *)
THEOREM WakeupsAreCoalesced == Spec => []WakeupCoalesced
<1>1. WakeupInv => WakeupCoalesced
  BY DEF WakeupInv, OneToken, WakeupCoalesced
<1> QED BY <1>1, WakeupInvariant, PTL

-----------------------------------------------------------------------------
(* The handlers, the epoll list and the sessions.                           *)

(* A session that has ended: its delHandler completed and no descriptor is its any more. *)
Over(h) == h \in quiet /\ owner[h] # None /\ \A f \in Fds : session[f] # h

(* A handler serves one descriptor, which somebody opened. *)
SessionsDistinct ==
    \A f \in Fds : session[f] # None =>
        /\ owner[session[f]] # None
        /\ \A g \in Fds : session[g] = session[f] => g = f

(* An active entry of _handlers is the handler of the descriptor's session, whose
   delHandler has not completed.                                              *)
ActiveIsSession ==
    \A f \in Fds : handlers[f] # None /\ f \notin deleted =>
        handlers[f] = session[f] /\ handlers[f] \notin quiet

(* epoll watches active descriptors only, in the middle of a round too. *)
PolledIsActive ==
    \A f \in Fds : interest[f] # {} => handlers[f] # None /\ f \notin deleted

(* A call is made by the session's owner; addHandler has ended the session's quiet. *)
CallOwns ==
    \A t \in Threads : pc[t] # "idle" =>
        /\ op[t].type # "stop" /\ op[t].fd # None => Owns(t, op[t].fd)
        /\ op[t].type = "add" => /\ op[t].fd # None
                                 /\ op[t].handler \in {session[op[t].fd], None}
                                 /\ session[op[t].fd] \notin quiet
        /\ pc[t] = "waitstop" => op[t].type = "stop"

(* An addHandler in the ring is one of the descriptor's present session. *)
PendingAdd ==
    \A i \in 1..Len(commands) :
        commands[i].cmd.type = "add" /\ commands[i].cmd.handler # None =>
            /\ commands[i].cmd.fd # None
            /\ session[commands[i].cmd.fd] = commands[i].cmd.handler
            /\ owner[commands[i].cmd.handler] = commands[i].by
            /\ commands[i].cmd.handler \notin quiet

(* processCommand reports this command to its caller. *)
Reporting(cmd) == cmd.sync /\ cmd.type # "stop"

(* No slot behind i is of thread t or about descriptor f. *)
LastOf(i, t, f) ==
    \A j \in 1..Len(commands) : j > i =>
        commands[j].by # t /\ (f # None => commands[j].cmd.fd # f)

(* The caller of a sync command in the ring is still in that call, and the command
   is the last one of that caller and the last one about that descriptor.      *)
SyncSlotLast ==
    \A i \in 1..Len(commands) : Reporting(commands[i].cmd) =>
        /\ pc[commands[i].by] \notin {"idle", "push"}
        /\ op[commands[i].by] = commands[i].cmd
        /\ ~done[commands[i].by]
        /\ LastOf(i, commands[i].by, commands[i].cmd.fd)

(* What SyncEffective says of thread t. *)
Effective(t) ==
    op[t].fd # None =>
        IF op[t].type = "del"
        THEN interest[op[t].fd] = {} /\ (op[t].fd \in deleted \/ handlers[op[t].fd] = None)
        ELSE ~errc[t] => /\ interest[op[t].fd] = op[t].events
                         /\ handlers[op[t].fd] = op[t].handler
                         /\ op[t].fd \notin deleted

(* A completed command is effective and nothing in the ring can undo it before its
   caller returns.                                                            *)
DoneHolds ==
    \A t \in Threads : done[t] =>
        /\ pc[t] \notin {"idle", "push"}
        /\ Reporting(op[t])
        /\ LastOf(0, t, op[t].fd)
        /\ Effective(t)

(* A callback runs on a session that is alive and that no completed delHandler names. *)
CurLive ==
    cur # None =>
        /\ loop = "callback"
        /\ session[cur.fd] = cur.handler
        /\ cur.handler \notin quiet
        /\ cur.from # None
        /\ cur.from = cur.handler \/ Over(cur.from)
        /\ \A t \in Threads : done[t] /\ op[t].type = "del" => op[t].fd # cur.fd

(* An event of the batch is of the descriptor's session, or of one that is over. *)
BatchLive ==
    \A ev \in batch \ {Wakeup} :
        ev.from # None /\ (ev.from = session[ev.fd] \/ Over(ev.from))

TableInv == SessionsDistinct /\ ActiveIsSession /\ PolledIsActive
CallInv == CallOwns /\ PendingAdd /\ SyncSlotLast /\ DoneHolds
EventInv == CurLive /\ BatchLive
HandlerInv == TableInv /\ CallInv /\ EventInv

LEMMA InitHandlers == Init => HandlerInv
BY DEF Init, HandlerInv, TableInv, CallInv, EventInv, SessionsDistinct, ActiveIsSession, PolledIsActive,
       CallOwns, PendingAdd, SyncSlotLast, DoneHolds, CurLive, BatchLive

LEMMA OpTypes ==
    ASSUME TypeOK, NEW t \in Threads
    PROVE  /\ op[t].fd \in Fds \cup {None}
           /\ op[t].type \in {"add", "del", "stop"}
           /\ op[t].handler \in Handlers \cup {None}
           /\ op[t].sync \in BOOLEAN
           /\ op[t].type = "stop" => op[t].fd = None
BY DEF TypeOK, Command, HandlerCommand, StopCommand

LEMMA SlotTypes ==
    ASSUME TypeOK, NEW i \in 1..Len(commands)
    PROVE  /\ commands[i].cmd \in Command
           /\ commands[i].cmd.fd \in Fds \cup {None}
           /\ commands[i].cmd.type \in {"add", "del", "stop"}
           /\ commands[i].cmd.handler \in Handlers \cup {None}
           /\ commands[i].cmd.sync \in BOOLEAN
           /\ commands[i].by \in Threads
<1>1. commands[i] \in Slot
  BY ElementOfSeq DEF TypeOK
<1>2. commands[i].cmd \in Command /\ commands[i].by \in Threads
  BY <1>1 DEF Slot
<1> QED BY <1>2 DEF Command, HandlerCommand, StopCommand

(* A step that touches neither the callers nor the tables nor the sessions. *)
LEMMA HandlersElsewhere ==
    ASSUME HandlerInv,
           UNCHANGED <<callerVars, commands, tableVars, interest, userVars, cur>>,
           batch' \subseteq batch,
           loop' = loop \/ loop # "callback"
    PROVE  HandlerInv'
<1> USE DEF callerVars, tableVars, userVars
<1>1. TableInv'
  BY DEF HandlerInv, TableInv, SessionsDistinct, ActiveIsSession, PolledIsActive
<1>2. CallInv'
  BY DEF HandlerInv, CallInv, CallOwns, Owns, PendingAdd, SyncSlotLast, LastOf, Reporting, DoneHolds, Effective
<1>3. EventInv'
  BY DEF HandlerInv, EventInv, CurLive, BatchLive, Over
<1> QED BY <1>1, <1>2, <1>3 DEF HandlerInv

(* A new session begins on a free descriptor. *)
LEMMA OpenHandlers ==
    ASSUME TypeOK, HandlerInv, NEW o \in Threads \cup {Loop}, NEW f \in Fds, NEW h \in Handlers,
           Openable(f, h),
           session' = [session EXCEPT ![f] = h],
           owner' = [owner EXCEPT ![h] = o],
           UNCHANGED <<callerVars, queueVars, loopVars, tableVars, interest, quiet>>
    PROVE  HandlerInv'
<1> USE ReactorAssumption
<1> USE DEF callerVars, queueVars, loopVars, tableVars, Openable
<1>0. /\ session'[f] = h /\ owner'[h] = o /\ o # None /\ h # None
      /\ \A g \in Fds : g # f => session'[g] = session[g] /\ session[g] # h
      /\ \A k \in Handlers : k # h => owner'[k] = owner[k]
      /\ session[f] = None /\ owner[h] = None
  BY DEF TypeOK, HandlerInv, TableInv, SessionsDistinct
<1>1. TableInv'
  <2>1. SessionsDistinct'
    BY <1>0 DEF HandlerInv, TableInv, SessionsDistinct, TypeOK
  <2>2. ActiveIsSession'
    BY <1>0 DEF HandlerInv, TableInv, ActiveIsSession, TypeOK
  <2>3. PolledIsActive'
    BY DEF HandlerInv, TableInv, PolledIsActive
  <2> QED BY <2>1, <2>2, <2>3 DEF TableInv
<1>2. CallInv'
  <2>1. CallOwns'
    <3> SUFFICES ASSUME NEW t \in Threads, pc[t] # "idle"
                 PROVE  /\ op[t].type # "stop" /\ op[t].fd # None => Owns(t, op[t].fd)'
                        /\ op[t].type = "add" => /\ op[t].fd # None
                                 /\ op[t].handler \in {session'[op[t].fd], None}
                                 /\ session'[op[t].fd] \notin quiet
                        /\ pc[t] = "waitstop" => op[t].type = "stop"
      BY DEF CallOwns
    <3> QED BY <1>0, OpTypes DEF HandlerInv, CallInv, CallOwns, Owns, TypeOK
  <2>2. PendingAdd'
    BY <1>0, SlotTypes DEF HandlerInv, CallInv, PendingAdd
  <2>3. SyncSlotLast' /\ DoneHolds'
    BY DEF HandlerInv, CallInv, SyncSlotLast, LastOf, Reporting, DoneHolds, Effective
  <2> QED BY <2>1, <2>2, <2>3 DEF CallInv
<1>3. EventInv'
  <2>0. \A k : Over(k) /\ k \in Handlers => Over(k)'
    BY <1>0 DEF Over
  <2>1. CurLive'
    <3>1. cur # None => cur.fd \in Fds /\ cur.from \in Handlers \cup {None} /\ cur.handler \in Handlers
      BY DEF TypeOK, Callback
    <3> QED BY <1>0, <2>0, <3>1 DEF HandlerInv, EventInv, CurLive
  <2>2. BatchLive'
    <3>1. \A ev \in batch \ {Wakeup} : ev.fd \in Fds /\ ev.from \in Handlers \cup {None}
      BY DEF TypeOK, Event
    <3> QED BY <1>0, <2>0, <3>1 DEF HandlerInv, EventInv, BatchLive
  <2> QED BY <2>1, <2>2 DEF EventInv
<1> QED BY <1>1, <1>2, <1>3 DEF HandlerInv

(* A session that was never quiet keeps its descriptor; one that is ends with it. *)
LEMMA DestroyHandlers ==
    ASSUME TypeOK, HandlerInv, NEW o \in Threads \cup {Loop}, NEW f \in Fds,
           o \in Threads => pc[o] = "idle",
           Owns(o, f),
           session[f] \in quiet,
           interest' = [interest EXCEPT ![f] = {}],
           session' = [session EXCEPT ![f] = None],
           UNCHANGED <<callerVars, queueVars, loopVars, tableVars, owner, quiet>>
    PROVE  HandlerInv'
<1> USE ReactorAssumption
<1> USE DEF callerVars, queueVars, loopVars, tableVars
<1>0. /\ session'[f] = None /\ session[f] # None /\ session[f] \in Handlers
      /\ \A g \in Fds : g # f => session'[g] = session[g] /\ interest'[g] = interest[g] /\ session[g] # session[f]
      /\ interest'[f] = {}
      /\ owner[session[f]] = o /\ o # None
  BY DEF TypeOK, Owns, HandlerInv, TableInv, SessionsDistinct
<1>1. TableInv'
  <2>1. SessionsDistinct'
    BY <1>0 DEF HandlerInv, TableInv, SessionsDistinct
  <2>2. ActiveIsSession'
    BY <1>0 DEF HandlerInv, TableInv, ActiveIsSession
  <2>3. PolledIsActive'
    BY <1>0 DEF HandlerInv, TableInv, PolledIsActive
  <2> QED BY <2>1, <2>2, <2>3 DEF TableInv
<1>2. CallInv'
  <2>0. \A t \in Threads : pc[t] # "idle" => op[t].fd # f
    BY <1>0, OpTypes DEF HandlerInv, CallInv, CallOwns, Owns
  <2>1. CallOwns'
    <3> SUFFICES ASSUME NEW t \in Threads, pc[t] # "idle"
                 PROVE  /\ op[t].type # "stop" /\ op[t].fd # None => Owns(t, op[t].fd)'
                        /\ op[t].type = "add" => /\ op[t].fd # None
                                 /\ op[t].handler \in {session'[op[t].fd], None}
                                 /\ session'[op[t].fd] \notin quiet
                        /\ pc[t] = "waitstop" => op[t].type = "stop"
      BY DEF CallOwns
    <3> QED BY <1>0, <2>0, OpTypes DEF HandlerInv, CallInv, CallOwns, Owns
  <2>2. PendingAdd'
    BY <1>0, SlotTypes DEF HandlerInv, CallInv, PendingAdd
  <2>3. SyncSlotLast'
    BY DEF HandlerInv, CallInv, SyncSlotLast, LastOf, Reporting
  <2>4. DoneHolds'
    <3> SUFFICES ASSUME NEW t \in Threads, done[t]
                 PROVE  /\ pc[t] \notin {"idle", "push"}
                        /\ Reporting(op[t])
                        /\ LastOf(0, t, op[t].fd)'
                        /\ Effective(t)'
      BY DEF DoneHolds
    <3>1. pc[t] \notin {"idle", "push"} /\ Reporting(op[t]) /\ LastOf(0, t, op[t].fd) /\ Effective(t)
      BY DEF HandlerInv, CallInv, DoneHolds
    <3>2. op[t].fd # None => op[t].fd \in Fds /\ op[t].fd # f
      BY <2>0, <3>1, OpTypes
    <3>3. Effective(t)'
      BY <1>0, <3>1, <3>2 DEF Effective
    <3> QED BY <3>1, <3>3 DEF LastOf
  <2> QED BY <2>1, <2>2, <2>3, <2>4 DEF CallInv
<1>3. EventInv'
  <2>0. \A k : Over(k) /\ k # None => Over(k)'
    BY <1>0 DEF Over
  <2>3. \A k : k = session[f] => Over(k)'
    BY <1>0 DEF Over
  <2>1. CurLive'
    <3>1. cur # None => cur.fd \in Fds /\ cur.from \in Handlers \cup {None} /\ cur.handler \in Handlers
      BY DEF TypeOK, Callback
    <3> QED BY <1>0, <2>0, <3>1 DEF HandlerInv, EventInv, CurLive
  <2>2. BatchLive'
    <3>1. \A ev \in batch \ {Wakeup} : ev.fd \in Fds /\ ev.from \in Handlers \cup {None}
      BY DEF TypeOK, Event
    <3> QED BY <1>0, <2>0, <2>3, <3>1 DEF HandlerInv, EventInv, BatchLive
  <2> QED BY <2>1, <2>2 DEF EventInv
<1> QED BY <1>1, <1>2, <1>3 DEF HandlerInv

(* A descriptor that its idle owner closes leaves the epoll list. *)
LEMMA CloseHandlers ==
    ASSUME TypeOK, HandlerInv, NEW o \in Threads, NEW f \in Fds, pc[o] = "idle",
           Owns(o, f),
           interest' = [interest EXCEPT ![f] = {}],
           UNCHANGED <<callerVars, queueVars, loopVars, tableVars, userVars>>
    PROVE  HandlerInv'
<1> USE ReactorAssumption
<1> USE DEF callerVars, queueVars, loopVars, tableVars, userVars
<1>0. /\ \A g \in Fds : g # f => interest'[g] = interest[g]
      /\ interest'[f] = {}
      /\ owner[session[f]] = o
  BY DEF TypeOK, Owns
<1>1. TableInv'
  BY <1>0 DEF HandlerInv, TableInv, SessionsDistinct, ActiveIsSession, PolledIsActive
<1>2. CallInv'
  <2>1. CallOwns' /\ PendingAdd' /\ SyncSlotLast'
    BY DEF HandlerInv, CallInv, CallOwns, Owns, PendingAdd, SyncSlotLast, LastOf, Reporting
  <2>2. DoneHolds'
    <3> SUFFICES ASSUME NEW t \in Threads, done[t]
                 PROVE  /\ pc[t] \notin {"idle", "push"}
                        /\ Reporting(op[t])
                        /\ LastOf(0, t, op[t].fd)'
                        /\ Effective(t)'
      BY DEF DoneHolds
    <3>1. pc[t] \notin {"idle", "push"} /\ Reporting(op[t]) /\ LastOf(0, t, op[t].fd) /\ Effective(t)
      BY DEF HandlerInv, CallInv, DoneHolds
    <3>2. op[t].fd # None => op[t].fd \in Fds /\ op[t].fd # f
      BY <1>0, <3>1, OpTypes DEF HandlerInv, CallInv, CallOwns, Owns, Reporting
    <3>3. Effective(t)'
      BY <1>0, <3>1, <3>2 DEF Effective
    <3> QED BY <3>1, <3>3 DEF LastOf
  <2> QED BY <2>1, <2>2 DEF CallInv
<1>3. EventInv'
  BY DEF HandlerInv, EventInv, CurLive, BatchLive, Over
<1> QED BY <1>1, <1>2, <1>3 DEF HandlerInv

(* addHandler, delHandler and stop begin: only the caller's own state changes, and an
   addHandler takes its session out of the quiet ones.                        *)
LEMMA StartHandlers ==
    ASSUME TypeOK, HandlerInv, NEW t \in Threads, NEW cmd \in Command, StartCall(t, cmd),
           cmd.type # "stop" /\ cmd.fd # None => Owns(t, cmd.fd),
           cmd.type = "add" => /\ cmd.fd # None
                               /\ cmd.handler \in {session[cmd.fd], None}
                               /\ quiet' = quiet \ {session[cmd.fd]},
           cmd.type # "add" => UNCHANGED quiet,
           UNCHANGED <<queueVars, loopVars, tableVars, kernelVars, session, owner>>
    PROVE  HandlerInv'
<1> USE ReactorAssumption
<1> USE DEF queueVars, loopVars, tableVars, kernelVars
<1>0. /\ pc[t] = "idle" /\ pc'[t] = "push" /\ op'[t] = cmd
      /\ \A u \in Threads : u # t => pc'[u] = pc[u] /\ op'[u] = op[u]
      /\ UNCHANGED <<done, errc>>
      /\ quiet' \subseteq quiet
      /\ cmd.type \in {"add", "del", "stop"}
      /\ cmd.fd \in Fds \cup {None}
  BY DEF TypeOK, StartCall, Command, HandlerCommand, StopCommand
<1>1. TableInv'
  BY <1>0 DEF HandlerInv, TableInv, SessionsDistinct, ActiveIsSession, PolledIsActive
<1>2. CallInv'
  <2>1. CallOwns'
    <3>1. ASSUME NEW u \in Threads, u # t, pc[u] # "idle"
          PROVE  /\ op[u].type # "stop" /\ op[u].fd # None => Owns(u, op[u].fd)
                 /\ op[u].type = "add" => /\ op[u].fd # None
                                          /\ op[u].handler \in {session[op[u].fd], None}
                                          /\ session[op[u].fd] \notin quiet
                 /\ pc[u] = "waitstop" => op[u].type = "stop"
      BY <3>1 DEF HandlerInv, CallInv, CallOwns
    <3>2. cmd.type = "add" => session[cmd.fd] \notin quiet'
      BY <1>0
    <3> QED BY <1>0, <3>1, <3>2 DEF CallOwns, Owns
  <2>2. PendingAdd'
    BY <1>0 DEF HandlerInv, CallInv, PendingAdd
  <2>3. SyncSlotLast'
    BY <1>0, SlotTypes DEF HandlerInv, CallInv, SyncSlotLast, LastOf
  <2>4. DoneHolds'
    BY <1>0 DEF HandlerInv, CallInv, DoneHolds, LastOf, Effective, Reporting
  <2> QED BY <2>1, <2>2, <2>3, <2>4 DEF CallInv
<1>3. EventInv'
  <2>0. ASSUME NEW k \in Handlers, Over(k) PROVE Over(k)'
    BY <1>0, <2>0 DEF Over, Owns
  <2>1. CurLive'
    <3>1. cur # None => cur.fd \in Fds /\ cur.from \in Handlers \cup {None} /\ cur.handler \in Handlers
      BY DEF TypeOK, Callback
    <3>2. ~done[t]
      BY <1>0 DEF HandlerInv, CallInv, DoneHolds
    <3> QED BY <1>0, <2>0, <3>1, <3>2 DEF HandlerInv, EventInv, CurLive
  <2>2. BatchLive'
    <3>1. \A ev \in batch \ {Wakeup} : ev.fd \in Fds /\ ev.from \in Handlers \cup {None}
      BY DEF TypeOK, Event
    <3> QED BY <1>0, <2>0, <3>1 DEF HandlerInv, EventInv, BatchLive
  <2> QED BY <2>1, <2>2 DEF EventInv
<1> QED BY <1>1, <1>2, <1>3 DEF HandlerInv

LEMMA UserHandlers ==
    ASSUME TypeOK, HandlerInv, NEW t \in Threads, SessionStep(t) \/ StartStep(t)
    PROVE  HandlerInv'
<1> USE ReactorAssumption
<1>1. ASSUME NEW f \in Fds, NEW h \in Handlers, Open(t, f, h)
      PROVE  HandlerInv'
  BY <1>1, OpenHandlers DEF Open
<1>2. ASSUME NEW f \in Fds, CloseEarly(t, f)
      PROVE  HandlerInv'
  BY <1>2, CloseHandlers DEF CloseEarly, CloseFd
<1>3. ASSUME NEW f \in Fds, Destroy(t, f)
      PROVE  HandlerInv'
  BY <1>3, DestroyHandlers DEF Destroy, CloseFd
<1>4. ASSUME NEW f \in Fds, NEW sync \in BOOLEAN, NEW mask \in Masks,
             NEW h \in Handlers \cup {None}, AddHandler(t, f, mask, h, sync)
      PROVE  HandlerInv'
  <2> DEFINE cmd == [type |-> "add", fd |-> f, events |-> mask, handler |-> h, sync |-> sync]
  <2>1. cmd \in Command /\ cmd.type = "add" /\ cmd.fd = f /\ cmd.handler = h
    BY DEF Command, HandlerCommand
  <2>2. /\ Owns(t, f) /\ h \in {session[f], None} /\ StartCall(t, cmd)
        /\ quiet' = quiet \ {session[f]}
        /\ UNCHANGED <<queueVars, loopVars, tableVars, kernelVars, session, owner>>
    BY <1>4 DEF AddHandler
  <2> HIDE DEF cmd
  <2> QED BY <2>1, <2>2, StartHandlers
<1>5. ASSUME NEW f \in Fds \cup {None}, NEW sync \in BOOLEAN, DelHandler(t, f, sync)
      PROVE  HandlerInv'
  <2> DEFINE cmd == [type |-> "del", fd |-> f, events |-> {}, handler |-> None, sync |-> sync]
  <2>1. cmd \in Command /\ cmd.type = "del" /\ cmd.fd = f
    BY DEF Command, HandlerCommand
  <2>2. /\ f # None => Owns(t, f)
        /\ StartCall(t, cmd)
        /\ UNCHANGED <<queueVars, loopVars, tableVars, kernelVars, session, owner, quiet>>
    BY <1>5 DEF DelHandler, userVars
  <2> HIDE DEF cmd
  <2> QED BY <2>1, <2>2, StartHandlers
<1>6. ASSUME NEW sync \in BOOLEAN, Stop(t, sync)
      PROVE  HandlerInv'
  <2> DEFINE cmd == [type |-> "stop", fd |-> None, events |-> {}, handler |-> None, sync |-> sync]
  <2>1. cmd \in Command /\ cmd.type = "stop"
    BY DEF Command, StopCommand
  <2>2. /\ StartCall(t, cmd)
        /\ UNCHANGED <<queueVars, loopVars, tableVars, kernelVars, session, owner, quiet>>
    BY <1>6 DEF Stop, userVars
  <2> HIDE DEF cmd
  <2> QED BY <2>1, <2>2, StartHandlers
<1>7. CASE SessionStep(t)
  BY <1>1, <1>2, <1>3, <1>7 DEF SessionStep
<1>8. CASE StartStep(t)
  <2>1. PICK sync \in Syncs :
          \/ \E f \in Fds, mask \in Masks, h \in Handlers \cup {None} : AddHandler(t, f, mask, h, sync)
          \/ \E f \in Fds \cup {None} : DelHandler(t, f, sync)
          \/ Stop(t, sync)
    BY <1>8, Zenon DEF StartStep
  <2>2. sync \in BOOLEAN
    OBVIOUS
  <2> QED BY <1>4, <1>5, <1>6, <2>1, <2>2
<1> QED BY <1>7, <1>8

-----------------------------------------------------------------------------

(* Two callers are never in calls about the same descriptor. *)
LEMMA OneCallerPerFd ==
    ASSUME TypeOK, CallOwns, NEW t \in Threads, NEW u \in Threads, pc[t] # "idle", pc[u] # "idle",
           op[t].fd # None, op[u].fd = op[t].fd
    PROVE  t = u
<1>1. op[t].type # "stop" /\ op[u].type # "stop"
  BY OpTypes
<1> QED BY <1>1 DEF CallOwns, Owns

LEMMA PushClaimHandlers ==
    ASSUME TypeOK, HandlerInv, NEW t \in Threads, PushClaim(t)
    PROVE  HandlerInv'
<1> USE ReactorAssumption
<1> DEFINE n == Len(commands) + 1
           slot == [cmd |-> op[t], by |-> t, published |-> FALSE]
<1>0. /\ pc[t] = "push" /\ pc'[t] = "publish"
      /\ \A u \in Threads : u # t => pc'[u] = pc[u]
      /\ UNCHANGED <<op, done, errc, handlers, deleted, interest, session, owner, quiet, loop, cur, batch>>
  BY DEF PushClaim, TypeOK, loopVars, tableVars, kernelVars, userVars
<1>1. /\ Len(commands) \in Nat
      /\ Len(commands') = n
      /\ \A j \in 1..Len(commands) : commands'[j] = commands[j]
      /\ commands'[n].cmd = op[t] /\ commands'[n].by = t
  <2>1. slot \in Slot
    BY DEF Slot, TypeOK
  <2>2. commands' = Append(commands, slot) /\ commands \in Seq(Slot)
    BY DEF PushClaim, TypeOK
  <2> QED BY <2>1, <2>2, AppendProperties
<1>2. \A i \in 1..n : i \in 1..Len(commands) \/ i = n
  BY <1>1
<1> HIDE DEF n, slot
<1>3. ~done[t]
  BY <1>0 DEF HandlerInv, CallInv, DoneHolds
<1>4. ASSUME NEW u \in Threads, pc[u] \notin {"idle", "push"}
      PROVE  u # t /\ (op[u].fd # None => op[t].fd # op[u].fd)
  BY <1>0, <1>4, OneCallerPerFd DEF HandlerInv, CallInv
<1>5. TableInv'
  BY <1>0 DEF HandlerInv, TableInv, SessionsDistinct, ActiveIsSession, PolledIsActive
<1>6. EventInv'
  BY <1>0 DEF HandlerInv, EventInv, CurLive, BatchLive, Over
<1>7. CallOwns'
  BY <1>0 DEF HandlerInv, CallInv, CallOwns, Owns
<1>8. PendingAdd'
  <2>1. op[t].type = "add" /\ op[t].handler # None =>
          /\ op[t].fd # None
          /\ session[op[t].fd] = op[t].handler
          /\ owner[op[t].handler] = t
          /\ op[t].handler \notin quiet
    BY <1>0 DEF HandlerInv, CallInv, CallOwns, Owns
  <2> QED BY <1>0, <1>1, <1>2, <2>1 DEF HandlerInv, CallInv, PendingAdd
<1>9. ASSUME NEW u \in Threads, NEW f, pc[u] \notin {"idle", "push"}, f = op[u].fd,
             NEW i \in 0..Len(commands), LastOf(i, u, f)
      PROVE  LastOf(i, u, f)'
  BY <1>1, <1>2, <1>4, <1>9 DEF LastOf
<1>10. SyncSlotLast'
  <2> SUFFICES ASSUME NEW i \in 1..n, Reporting(commands'[i].cmd)
               PROVE  /\ pc'[commands'[i].by] \notin {"idle", "push"}
                      /\ op[commands'[i].by] = commands'[i].cmd
                      /\ ~done[commands'[i].by]
                      /\ \A j \in 1..n : j > i => /\ commands'[j].by # commands'[i].by
                                                  /\ commands'[i].cmd.fd # None =>
                                                        commands'[j].cmd.fd # commands'[i].cmd.fd
    BY <1>0, <1>1 DEF SyncSlotLast, LastOf
  <2>1. CASE i = n
    BY <1>0, <1>1, <1>3, <2>1 DEF n
  <2>2. CASE i \in 1..Len(commands)
    <3> DEFINE u == commands[i].by
    <3>1. u \in Threads /\ commands'[i] = commands[i]
      BY <1>1, <2>2, SlotTypes
    <3>2. /\ pc[u] \notin {"idle", "push"}
          /\ op[u] = commands[i].cmd
          /\ ~done[u]
          /\ LastOf(i, u, op[u].fd)
      BY <2>2, <3>1 DEF HandlerInv, CallInv, SyncSlotLast
    <3>3. LastOf(i, u, op[u].fd)'
      BY <1>0, <1>1, <1>9, <2>2, <3>1, <3>2
    <3>4. u # t
      BY <1>4, <3>1, <3>2
    <3> QED BY <1>0, <1>1, <3>1, <3>2, <3>3, <3>4 DEF LastOf
  <2> QED BY <1>2, <2>1, <2>2
<1>11. DoneHolds'
  <2> SUFFICES ASSUME NEW u \in Threads, done[u]
               PROVE  /\ pc'[u] \notin {"idle", "push"}
                      /\ Reporting(op[u])
                      /\ LastOf(0, u, op[u].fd)'
                      /\ Effective(u)'
    BY <1>0 DEF DoneHolds
  <2>1. pc[u] \notin {"idle", "push"} /\ Reporting(op[u]) /\ LastOf(0, u, op[u].fd) /\ Effective(u)
    BY DEF HandlerInv, CallInv, DoneHolds
  <2>2. LastOf(0, u, op[u].fd)'
    BY <1>0, <1>1, <1>9, <2>1
  <2> QED BY <1>0, <1>4, <2>1, <2>2 DEF Effective
<1> QED BY <1>5, <1>6, <1>7, <1>8, <1>10, <1>11 DEF HandlerInv, CallInv

(* The caller moves on within its call. *)
LEMMA MoveHandlers ==
    ASSUME TypeOK, HandlerInv, NEW t \in Threads, pc[t] \notin {"idle", "push"},
           NEW p, p \notin {"idle", "push"}, p = "waitstop" => op[t].type = "stop",
           pc' = [pc EXCEPT ![t] = p],
           Len(commands') = Len(commands),
           \A i \in 1..Len(commands) : commands'[i].cmd = commands[i].cmd /\ commands'[i].by = commands[i].by,
           UNCHANGED <<op, done, errc, loopVars, tableVars, interest, userVars>>
    PROVE  HandlerInv'
<1> USE DEF loopVars, tableVars, userVars
<1>0. pc'[t] = p /\ \A u \in Threads : u # t => pc'[u] = pc[u]
  BY DEF TypeOK
<1>1. TableInv'
  BY DEF HandlerInv, TableInv, SessionsDistinct, ActiveIsSession, PolledIsActive
<1>2. EventInv'
  BY DEF HandlerInv, EventInv, CurLive, BatchLive, Over
<1>3. CallOwns'
  BY <1>0 DEF HandlerInv, CallInv, CallOwns, Owns
<1>4. PendingAdd'
  BY DEF HandlerInv, CallInv, PendingAdd
<1>5. SyncSlotLast'
  BY <1>0, SlotTypes DEF HandlerInv, CallInv, SyncSlotLast, LastOf, Reporting
<1>6. DoneHolds'
  BY <1>0 DEF HandlerInv, CallInv, DoneHolds, LastOf, Effective
<1> QED BY <1>1, <1>2, <1>3, <1>4, <1>5, <1>6 DEF HandlerInv, CallInv

LEMMA PushPublishHandlers ==
    ASSUME TypeOK, HandlerInv, NEW t \in Threads, PushPublish(t)
    PROVE  HandlerInv'
<1>1. PICK k \in DOMAIN commands : commands' = [commands EXCEPT ![k] = [@ EXCEPT !.published = TRUE]]
  BY DEF PushPublish
<1>2. DOMAIN commands = 1..Len(commands)
  BY LenProperties DEF TypeOK
<1>3. commands[k] \in Slot
  BY <1>2, ElementOfSeq DEF TypeOK
<1>4. /\ Len(commands') = Len(commands)
      /\ \A i \in 1..Len(commands) : i # k => commands'[i] = commands[i]
      /\ commands'[k] = [commands[k] EXCEPT !.published = TRUE]
  BY <1>1, <1>2, <1>3, PublishedSlot, ExceptSeq DEF TypeOK
<1>5. commands'[k].cmd = commands[k].cmd /\ commands'[k].by = commands[k].by
  BY <1>3, <1>4 DEF Slot
<1> QED BY <1>4, <1>5, MoveHandlers DEF PushPublish, kernelVars

(* The call returns: it leaves no command in the ring that reports to it, and a completed
   delHandler makes its session quiet.                                        *)
LEMMA ReturnHandlers ==
    ASSUME TypeOK, HandlerInv, NEW t \in Threads, Return(t),
           pc[t] # "idle",
           \A i \in 1..Len(commands) : commands[i].by = t => ~Reporting(commands[i].cmd),
           \/ UNCHANGED quiet
           \/ /\ done[t] /\ op[t].type = "del" /\ op[t].fd # None
              /\ quiet' = quiet \cup {session[op[t].fd]},
           UNCHANGED <<commands, loopVars, tableVars, interest, session, owner>>
    PROVE  HandlerInv'
<1> USE ReactorAssumption
<1> USE DEF loopVars, tableVars
<1>0. /\ pc'[t] = "idle" /\ ~done'[t]
      /\ \A u \in Threads : u # t => /\ pc'[u] = pc[u] /\ op'[u] = op[u]
                                     /\ done'[u] = done[u] /\ errc'[u] = errc[u]
      /\ quiet \subseteq quiet'
  BY DEF TypeOK, Return
<1>1. ASSUME NEW h \in Handlers, h \notin quiet, h \in quiet'
      PROVE  /\ done[t] /\ op[t].type = "del" /\ op[t].fd \in Fds
             /\ h = session[op[t].fd] /\ owner[h] = t
             /\ \A f \in Fds : session[f] = h => f = op[t].fd
  <2>1. done[t] /\ op[t].type = "del" /\ op[t].fd \in Fds /\ h = session[op[t].fd]
    BY <1>1, OpTypes
  <2>2. Owns(t, op[t].fd)
    BY <2>1 DEF HandlerInv, CallInv, CallOwns
  <2>3. \A f \in Fds : session[f] = h => f = op[t].fd
    BY <2>1 DEF HandlerInv, TableInv, SessionsDistinct
  <2> QED BY <2>1, <2>2, <2>3 DEF Owns
<1>2. done[t] => LastOf(0, t, op[t].fd) /\ Effective(t)
  BY DEF HandlerInv, CallInv, DoneHolds
<1>3. TableInv'
  <2>1. ActiveIsSession'
    <3> SUFFICES ASSUME NEW f \in Fds, handlers[f] # None, f \notin deleted
                 PROVE  handlers[f] = session[f] /\ handlers[f] \notin quiet'
      BY DEF ActiveIsSession
    <3>1. handlers[f] = session[f] /\ handlers[f] \notin quiet /\ handlers[f] \in Handlers
      BY DEF HandlerInv, TableInv, ActiveIsSession, TypeOK
    <3> QED BY <1>1, <1>2, <3>1 DEF Effective
  <2> QED BY <2>1 DEF HandlerInv, TableInv, SessionsDistinct, PolledIsActive
<1>4. CallOwns'
  <2> SUFFICES ASSUME NEW u \in Threads, u # t, pc[u] # "idle", op[u].type = "add"
               PROVE  session[op[u].fd] \notin quiet'
    BY <1>0 DEF HandlerInv, CallInv, CallOwns, Owns
  <2>1. op[u].fd \in Fds /\ Owns(u, op[u].fd) /\ session[op[u].fd] \notin quiet
    BY OpTypes DEF HandlerInv, CallInv, CallOwns
  <2> QED BY <1>1, <2>1 DEF Owns, TypeOK
<1>5. PendingAdd'
  <2> SUFFICES ASSUME NEW i \in 1..Len(commands), commands[i].cmd.type = "add", commands[i].cmd.handler # None
               PROVE  commands[i].cmd.handler \notin quiet'
    BY DEF HandlerInv, CallInv, PendingAdd
  <2>1. /\ commands[i].cmd.handler \in Handlers
        /\ commands[i].cmd.handler \notin quiet
        /\ owner[commands[i].cmd.handler] = commands[i].by
    BY SlotTypes DEF HandlerInv, CallInv, PendingAdd
  <2>2. i \in Nat /\ i > 0
    OBVIOUS
  <2> QED BY <1>1, <1>2, <2>1, <2>2 DEF LastOf
<1>6. SyncSlotLast'
  BY <1>0, SlotTypes DEF HandlerInv, CallInv, SyncSlotLast, LastOf, Reporting
<1>7. DoneHolds'
  BY <1>0 DEF HandlerInv, CallInv, DoneHolds, LastOf, Effective, Reporting
<1>8. EventInv'
  <2>0. \A k : Over(k) => Over(k)'
    BY <1>0 DEF Over
  <2>1. CurLive'
    <3> SUFFICES ASSUME cur # None PROVE CurLive'
      BY DEF CurLive
    <3>1. cur.fd \in Fds /\ cur.handler \in Handlers
      BY DEF TypeOK, Callback
    <3>2. /\ session[cur.fd] = cur.handler /\ cur.handler \notin quiet
          /\ \A u \in Threads : done[u] /\ op[u].type = "del" => op[u].fd # cur.fd
      BY DEF HandlerInv, EventInv, CurLive
    <3>3. cur.handler \notin quiet'
      BY <1>1, <3>1, <3>2
    <3> QED BY <1>0, <2>0, <3>3 DEF HandlerInv, EventInv, CurLive
  <2>2. BatchLive'
    BY <2>0 DEF HandlerInv, EventInv, BatchLive
  <2> QED BY <2>1, <2>2 DEF EventInv
<1> QED BY <1>3, <1>4, <1>5, <1>6, <1>7, <1>8 DEF HandlerInv, CallInv

LEMMA AfterWriteHandlers ==
    ASSUME TypeOK, HandlerInv, NEW t \in Threads, pc[t] \in {"exchange", "write"}, AfterWrite(t),
           UNCHANGED <<commands, loopVars, tableVars, kernelVars, userVars>>
    PROVE  HandlerInv'
<1>1. CASE ~op[t].sync
  <2>1. \A i \in 1..Len(commands) : commands[i].by = t => ~Reporting(commands[i].cmd)
    BY <1>1 DEF HandlerInv, CallInv, SyncSlotLast, Reporting
  <2> QED BY <1>1, <2>1, ReturnHandlers DEF AfterWrite, kernelVars, userVars
<1>2. CASE op[t].sync
  BY <1>2, MoveHandlers DEF AfterWrite, kernelVars
<1> QED BY <1>1, <1>2

LEMMA CallHandlers ==
    ASSUME TypeOK, HandlerInv, NEW t \in Threads, CallStep(t)
    PROVE  HandlerInv'
<1>1. CASE ExchangeNotified(t)
  <2>1. CASE notified
    BY <1>1, <2>1, AfterWriteHandlers DEF ExchangeNotified
  <2>2. CASE ~notified
    BY <1>1, <2>2, MoveHandlers DEF ExchangeNotified, kernelVars
  <2> QED BY <2>1, <2>2
<1>2. CASE WriteWakeup(t)
  BY <1>2, AfterWriteHandlers DEF WriteWakeup
<1>3. CASE WaitDone(t)
  <2>1. \A i \in 1..Len(commands) : commands[i].by # t
    BY <1>3 DEF WaitDone, HandlerInv, CallInv, DoneHolds, LastOf
  <2> QED BY <1>3, <2>1, ReturnHandlers DEF WaitDone, queueVars, kernelVars
<1>4. CASE WaitStop(t)
  <2>1. op[t].type = "stop"
    BY <1>4 DEF WaitStop, HandlerInv, CallInv, CallOwns
  <2>2. \A i \in 1..Len(commands) : commands[i].by = t => ~Reporting(commands[i].cmd)
    BY <2>1 DEF HandlerInv, CallInv, SyncSlotLast, Reporting
  <2> QED BY <1>4, <2>2, ReturnHandlers DEF WaitStop, queueVars, kernelVars, userVars
<1> QED BY <1>1, <1>2, <1>3, <1>4, PushClaimHandlers, PushPublishHandlers DEF CallStep

-----------------------------------------------------------------------------

(* What registering f for its session's handler h, not a quiet one, does to the tables. *)
LEMMA RegisterTables ==
    ASSUME TypeOK, TableInv, NEW f \in Fds, NEW h \in Handlers \cup {None}, NEW events \in SUBSET {"in", "out", "rdhup"},
           RegisterHandler(f, h, events),
           h # None => session[f] = h /\ h \notin quiet',
           quiet' \subseteq quiet,
           UNCHANGED <<session, owner>>
    PROVE  TableInv'
<1>1. CASE RegisterFails(f, h, events)
  BY <1>1 DEF TableInv, SessionsDistinct, ActiveIsSession, PolledIsActive, RegisterHandler
<1>2. CASE ~RegisterFails(f, h, events)
  <2>1. /\ h # None /\ interest'[f] = events /\ handlers'[f] = h /\ deleted' = deleted \ {f}
        /\ \A g \in Fds : g # f => interest'[g] = interest[g] /\ handlers'[g] = handlers[g]
    BY <1>2 DEF RegisterHandler, RegisterFails, TypeOK
  <2> QED BY <2>1 DEF TableInv, SessionsDistinct, ActiveIsSession, PolledIsActive
<1> QED BY <1>1, <1>2

(* What unregistering f does: f is deleted, and its session may become quiet. *)
LEMMA UnregisterTables ==
    ASSUME TypeOK, TableInv, NEW f \in Fds \cup {None}, UnregisterHandler(f),
           \/ quiet' = quiet
           \/ f \in Fds /\ session[f] # None /\ quiet' = quiet \cup {session[f]},
           UNCHANGED <<session, owner>>
    PROVE  TableInv'
<1> USE ReactorAssumption
<1>1. CASE f = None
  BY <1>1 DEF TableInv, SessionsDistinct, ActiveIsSession, PolledIsActive, UnregisterHandler
<1>2. CASE f \in Fds
  <2>1. /\ interest'[f] = {} /\ deleted' = deleted \cup {f} /\ handlers' = handlers
        /\ \A g \in Fds : g # f => interest'[g] = interest[g]
    BY <1>2 DEF UnregisterHandler, TypeOK
  <2>2. ActiveIsSession'
    <3> SUFFICES ASSUME NEW g \in Fds, handlers[g] # None, g \notin deleted, g # f
                 PROVE  handlers[g] = session[g] /\ handlers[g] \notin quiet'
      BY <2>1 DEF ActiveIsSession
    <3>1. handlers[g] = session[g] /\ handlers[g] \notin quiet
      BY DEF TableInv, ActiveIsSession
    <3>2. f \in Fds /\ session[f] # None => session[g] # session[f]
      BY DEF TableInv, SessionsDistinct
    <3> QED BY <3>1, <3>2
  <2> QED BY <2>1, <2>2 DEF TableInv, SessionsDistinct, PolledIsActive
<1> QED BY <1>1, <1>2

(* processCommand: the completed command is effective, and it undoes no other one. *)
LEMMA PopHandlers ==
    ASSUME TypeOK, HandlerInv, PopCommand
    PROVE  HandlerInv'
<1> USE ReactorAssumption
<1> DEFINE slot == commands[1]
           cmd == slot.cmd
           by == slot.by
<1>0. /\ loop = "drain"
      /\ UNCHANGED <<pc, op, loop, batch, cur, open, session, owner, quiet>>
  BY DEF PopCommand, userVars
<1>1. /\ Len(commands) \in Nat /\ Len(commands) > 0
      /\ Len(commands') = Len(commands) - 1
      /\ \A i \in 1..Len(commands') : commands'[i] = commands[i + 1] /\ i + 1 \in 1..Len(commands)
      /\ ProcessCommand(slot)
  <2>1. commands # <<>> /\ ProcessCommand(Head(commands)) /\ commands' = Tail(commands)
    BY DEF PopCommand, Poppable
  <2>2. commands \in Seq(Slot)
    BY DEF TypeOK
  <2>3. /\ Len(commands) \in Nat /\ Len(commands) > 0 /\ Head(commands) = slot
        /\ Len(commands') = Len(commands) - 1
        /\ \A i \in 1..Len(commands') : commands'[i] = commands[i + 1]
    BY <2>1, <2>2, HeadTailProperties, LenProperties, EmptySeq
  <2> QED BY <2>1, <2>3
<1>2. /\ cmd \in Command /\ cmd.fd \in Fds \cup {None} /\ cmd.type \in {"add", "del", "stop"}
      /\ cmd.handler \in Handlers \cup {None} /\ cmd.sync \in BOOLEAN /\ by \in Threads
      /\ slot \in Slot /\ cmd.type = "stop" => cmd.fd = None
  <2>1. 1 \in 1..Len(commands)
    BY <1>1
  <2>2. slot \in Slot
    BY <2>1, ElementOfSeq DEF TypeOK
  <2>3. cmd \in Command
    BY <2>2 DEF Slot
  <2> QED BY <2>1, <2>2, <2>3, SlotTypes DEF Command, HandlerCommand, StopCommand
<1>3. cur = None
  BY <1>0 DEF HandlerInv, EventInv, CurLive
<1>4. 1 \in 1..Len(commands)
  BY <1>1
<1>5. cmd.type = "add" /\ cmd.handler # None =>
          cmd.fd \in Fds /\ session[cmd.fd] = cmd.handler /\ cmd.handler \notin quiet
  BY <1>2, <1>4 DEF HandlerInv, CallInv, PendingAdd
<1>6. /\ cmd.type = "add" => RegisterHandler(cmd.fd, cmd.handler, cmd.events)
      /\ cmd.type = "del" => UnregisterHandler(cmd.fd)
      /\ cmd.type = "stop" => UNCHANGED <<interest, deleted, handlers>>
      /\ IF Reporting(cmd)
         THEN /\ done' = [done EXCEPT ![by] = TRUE]
              /\ errc' = [errc EXCEPT ![by] = CommandFails(cmd)]
         ELSE UNCHANGED <<done, errc>>
  BY <1>1, <1>2 DEF ProcessCommand, Reporting
<1>7. cmd.events \in SUBSET {"in", "out", "rdhup"}
  BY <1>2 DEF Command, HandlerCommand, StopCommand
<1> HIDE DEF slot, cmd, by
<1>8. TableInv'
  <2>1. CASE cmd.type = "add" /\ cmd.handler # None
    BY <1>0, <1>2, <1>5, <1>6, <1>7, <2>1, RegisterTables DEF HandlerInv
  <2>2. CASE cmd.type = "add" /\ cmd.handler = None
    BY <1>0, <1>6, <2>2 DEF RegisterHandler, RegisterFails, HandlerInv, TableInv, SessionsDistinct, ActiveIsSession, PolledIsActive
  <2>3. CASE cmd.type = "del"
    BY <1>0, <1>2, <1>6, <2>3, UnregisterTables DEF HandlerInv
  <2>4. CASE cmd.type = "stop"
    BY <1>0, <1>6, <2>4 DEF HandlerInv, TableInv, SessionsDistinct, ActiveIsSession, PolledIsActive
  <2> QED BY <1>2, <2>1, <2>2, <2>3, <2>4
<1>9. EventInv'
  BY <1>0, <1>3 DEF HandlerInv, EventInv, CurLive, BatchLive, Over
<1>10. CallOwns' /\ PendingAdd'
  <2>1. CallOwns'
    BY <1>0 DEF HandlerInv, CallInv, CallOwns, Owns
  <2>2. PendingAdd'
    <3> SUFFICES ASSUME NEW i \in 1..Len(commands'), commands'[i].cmd.type = "add", commands'[i].cmd.handler # None
                 PROVE  /\ commands'[i].cmd.fd # None
                        /\ session[commands'[i].cmd.fd] = commands'[i].cmd.handler
                        /\ owner[commands'[i].cmd.handler] = commands'[i].by
                        /\ commands'[i].cmd.handler \notin quiet
      BY <1>0 DEF PendingAdd
    <3>1. commands'[i] = commands[i + 1] /\ i + 1 \in 1..Len(commands)
      BY <1>1
    <3> QED BY <3>1 DEF HandlerInv, CallInv, PendingAdd
  <2> QED BY <2>1, <2>2
<1>11. ASSUME NEW i \in 0..Len(commands'), NEW u, NEW f, LastOf(i + 1, u, f)
       PROVE  \A j \in 1..Len(commands') : j > i => commands'[j].by # u /\ (f # None => commands'[j].cmd.fd # f)
  <2> SUFFICES ASSUME NEW j \in 1..Len(commands'), j > i
               PROVE  commands'[j].by # u /\ (f # None => commands'[j].cmd.fd # f)
    OBVIOUS
  <2>1. j + 1 > i + 1 /\ commands'[j] = commands[j + 1] /\ j + 1 \in 1..Len(commands)
    BY <1>1
  <2> QED BY <1>11, <2>1 DEF LastOf
<1>12. 0 \in 0..Len(commands') /\ \A i \in 1..Len(commands') : i \in 0..Len(commands')
  BY <1>1
<1>13. Reporting(cmd) =>
          /\ pc[by] \notin {"idle", "push"}
          /\ op[by] = cmd
          /\ LastOf(1, by, cmd.fd)
  BY <1>4 DEF HandlerInv, CallInv, SyncSlotLast, slot, cmd, by
<1>14. \A u \in Threads : u # by \/ ~Reporting(cmd) => done'[u] = done[u] /\ errc'[u] = errc[u]
  BY <1>2, <1>6 DEF TypeOK
<1>15. SyncSlotLast'
  <2> SUFFICES ASSUME NEW i \in 1..Len(commands'), Reporting(commands'[i].cmd)
               PROVE  /\ pc[commands'[i].by] \notin {"idle", "push"}
                      /\ op[commands'[i].by] = commands'[i].cmd
                      /\ ~done'[commands'[i].by]
                      /\ \A j \in 1..Len(commands') : j > i =>
                            /\ commands'[j].by # commands'[i].by
                            /\ commands'[i].cmd.fd # None => commands'[j].cmd.fd # commands'[i].cmd.fd
    BY <1>0 DEF SyncSlotLast, LastOf
  <2>0. commands'[i] = commands[i + 1]
    BY <1>1
  <2> DEFINE u == commands[i + 1].by
  <2>1. i + 1 \in 1..Len(commands) /\ i + 1 > 1 /\ u \in Threads
    BY <1>1, SlotTypes
  <2>2. /\ pc[u] \notin {"idle", "push"}
        /\ op[u] = commands[i + 1].cmd
        /\ ~done[u]
        /\ LastOf(i + 1, u, commands[i + 1].cmd.fd)
    BY <2>0, <2>1 DEF HandlerInv, CallInv, SyncSlotLast
  <2>3. Reporting(cmd) => u # by
    BY <1>13, <2>1 DEF LastOf
  <2>4. \A j \in 1..Len(commands') : j > i =>
            /\ commands'[j].by # u
            /\ commands[i + 1].cmd.fd # None => commands'[j].cmd.fd # commands[i + 1].cmd.fd
    BY <1>11, <1>12, <2>2
  <2>5. ~done'[u]
    BY <1>14, <2>1, <2>2, <2>3
  <2> HIDE DEF u
  <2>6. commands'[i].by = u /\ commands'[i].cmd = commands[i + 1].cmd
    BY <2>0 DEF u
  <2> QED BY <2>2, <2>4, <2>5, <2>6
<1>16. DoneHolds'
  <2> SUFFICES ASSUME NEW u \in Threads, done'[u]
               PROVE  /\ pc[u] \notin {"idle", "push"}
                      /\ Reporting(op[u])
                      /\ LastOf(0, u, op[u].fd)'
                      /\ Effective(u)'
    BY <1>0 DEF DoneHolds
  <2>1. CASE Reporting(cmd) /\ u = by
    <3>0. op[u] = cmd /\ errc'[u] = CommandFails(cmd) /\ LastOf(0 + 1, u, cmd.fd)
      BY <1>2, <1>6, <1>13, <2>1 DEF TypeOK
    <3>5. \A j \in 1..Len(commands') : j > 0 => commands'[j].by # u /\ (cmd.fd # None => commands'[j].cmd.fd # cmd.fd)
      BY <1>11, <1>12, <3>0
    <3>1. op[u] = cmd /\ LastOf(0, u, op[u].fd)' /\ errc'[u] = CommandFails(cmd)
      BY <1>0, <3>0, <3>5 DEF LastOf
    <3>2. CASE cmd.fd = None
      BY <1>0, <1>13, <2>1, <3>1, <3>2 DEF Effective
    <3>3. CASE cmd.fd \in Fds /\ cmd.type = "del"
      <4>1. interest'[cmd.fd] = {} /\ cmd.fd \in deleted'
        BY <1>6, <3>3 DEF UnregisterHandler, TypeOK
      <4> QED BY <1>0, <1>13, <2>1, <3>1, <3>3, <4>1 DEF Effective
    <3>4. CASE cmd.fd \in Fds /\ cmd.type = "add"
      <4>1. ~CommandFails(cmd) =>
              interest'[cmd.fd] = cmd.events /\ handlers'[cmd.fd] = cmd.handler /\ cmd.fd \notin deleted'
        BY <1>6, <3>4 DEF CommandFails, RegisterHandler, TypeOK
      <4> QED BY <1>0, <1>13, <2>1, <3>1, <3>4, <4>1 DEF Effective
    <3> QED BY <1>2, <2>1, <3>2, <3>3, <3>4 DEF Reporting
  <2>2. CASE ~(Reporting(cmd) /\ u = by)
    <3>1. done[u] /\ errc'[u] = errc[u]
      BY <1>14, <2>2
    <3>2. pc[u] \notin {"idle", "push"} /\ Reporting(op[u]) /\ LastOf(0, u, op[u].fd) /\ Effective(u)
      BY <3>1 DEF HandlerInv, CallInv, DoneHolds
    <3>3. op[u].fd # None => cmd.fd # op[u].fd
      BY <1>1, <1>4, <3>2 DEF LastOf, cmd, slot
    <3>4. LastOf(0, u, op[u].fd)'
      BY <1>0, <1>1, <3>2 DEF LastOf
    <3>5. op[u].fd # None =>
            /\ interest'[op[u].fd] = interest[op[u].fd]
            /\ handlers'[op[u].fd] = handlers[op[u].fd]
            /\ op[u].fd \in deleted' <=> op[u].fd \in deleted
      BY <1>2, <1>6, <3>3, OpTypes DEF TypeOK, RegisterHandler, UnregisterHandler
    <3> QED BY <1>0, <3>1, <3>2, <3>4, <3>5 DEF Effective
  <2> QED BY <2>1, <2>2
<1> QED BY <1>8, <1>9, <1>10, <1>15, <1>16 DEF HandlerInv, CallInv

LEMMA LoopHandlers ==
    ASSUME TypeInv, HandlerInv, LoopStep
    PROVE  HandlerInv'
<1> USE ReactorAssumption
<1> USE DEF TypeInv
<1>1. CASE RunEnter \/ RunStart \/ CheckRunning \/ RunExit \/ EpollInterrupted \/ ReadWakeup \/ ClearNotified \/ DrainEnd
  BY <1>1, HandlersElsewhere
     DEF RunEnter, RunStart, CheckRunning, RunExit, EpollInterrupted, ReadWakeup, ClearNotified, DrainEnd, queueVars, kernelVars
<1>2. CASE EpollWait
  <2>1. PICK got \in SUBSET ReadySet :
          batch' = {[fd |-> f, events |-> Reported(f), from |-> session[f]] : f \in got \ {Wakeup}}
                   \cup (got \cap {Wakeup})
    BY <1>2 DEF EpollWait
  <2>2. /\ UNCHANGED <<callerVars, queueVars, cur, tableVars, kernelVars, userVars>>
        /\ cur = None
    BY <1>2 DEF EpollWait, HandlerInv, EventInv, CurLive
  <2>3. \A f \in got \ {Wakeup} : f \in Fds /\ session[f] # None
    <3>1. \A f \in got \ {Wakeup} : f \in Fds /\ interest[f] # {}
      BY DEF ReadySet, Reported
    <3> QED BY <3>1 DEF HandlerInv, TableInv, PolledIsActive, ActiveIsSession
  <2>4. BatchLive'
    BY <2>1, <2>2, <2>3 DEF BatchLive, userVars
  <2>5. TableInv' /\ CallInv'
    BY <2>2 DEF HandlerInv, TableInv, SessionsDistinct, ActiveIsSession, PolledIsActive,
       CallInv, CallOwns, Owns, PendingAdd, SyncSlotLast, LastOf, Reporting, DoneHolds, Effective,
       callerVars, queueVars, tableVars, kernelVars, userVars
  <2> QED BY <2>2, <2>4, <2>5 DEF HandlerInv, EventInv, CurLive
<1>3. ASSUME NEW ev \in batch \ {Wakeup}, DispatchEvent(ev)
      PROVE  HandlerInv'
  <2>1. /\ UNCHANGED <<callerVars, queueVars, tableVars, kernelVars, userVars>>
        /\ batch' = batch \ {ev} /\ loop = "dispatch" /\ cur = None
    BY <1>3 DEF DispatchEvent, HandlerInv, EventInv, CurLive
  <2>2. CASE ~(handlers[ev.fd] # None /\ IsActive(ev.fd))
    BY <1>3, <2>1, <2>2, HandlersElsewhere DEF DispatchEvent, queueVars, kernelVars
  <2>3. CASE handlers[ev.fd] # None /\ IsActive(ev.fd)
    <3>1. /\ cur' = [fd |-> ev.fd, handler |-> handlers[ev.fd], method |-> Method(ev.events), from |-> ev.from]
          /\ loop' = "callback"
      BY <1>3, <2>3 DEF DispatchEvent
    <3>2. cur'.fd = ev.fd /\ cur'.handler = handlers[ev.fd] /\ cur'.from = ev.from
      BY <3>1
    <3>3. ev.fd \in Fds
      BY DEF TypeOK, Event
    <3>4. handlers[ev.fd] = session[ev.fd] /\ handlers[ev.fd] \notin quiet /\ ev.fd \notin deleted
      BY <2>3, <3>3 DEF HandlerInv, TableInv, ActiveIsSession, IsActive
    <3>5. ASSUME NEW t \in Threads, done[t], op[t].type = "del" PROVE op[t].fd # ev.fd
      BY <2>3, <3>3, <3>4, <3>5 DEF HandlerInv, CallInv, DoneHolds, Effective
    <3>6. ev.from # None /\ (ev.from = session[ev.fd] \/ Over(ev.from))
      BY DEF HandlerInv, EventInv, BatchLive
    <3>7. EventInv'
      BY <2>1, <3>1, <3>2, <3>4, <3>5, <3>6 DEF HandlerInv, EventInv, CurLive, BatchLive, Over, callerVars, userVars
    <3>8. TableInv' /\ CallInv'
      BY <2>1 DEF HandlerInv, TableInv, SessionsDistinct, ActiveIsSession, PolledIsActive,
       CallInv, CallOwns, Owns, PendingAdd, SyncSlotLast, LastOf, Reporting, DoneHolds, Effective,
       callerVars, queueVars, tableVars, kernelVars, userVars
    <3> QED BY <3>7, <3>8 DEF HandlerInv
  <2> QED BY <2>2, <2>3
<1>4. CASE Purge
  <2>1. /\ UNCHANGED <<callerVars, queueVars, batch, cur, kernelVars, userVars>>
        /\ deleted' = {} /\ loop = "dispatch"
        /\ \A f \in Fds : handlers'[f] = IF f \in deleted THEN None ELSE handlers[f]
    BY <1>4 DEF Purge
  <2>2. TableInv'
    BY <2>1 DEF HandlerInv, TableInv, SessionsDistinct, ActiveIsSession, PolledIsActive, kernelVars, userVars
  <2>3. EventInv'
    BY <2>1 DEF HandlerInv, EventInv, CurLive, BatchLive, Over, userVars
  <2>4. CallOwns' /\ PendingAdd' /\ SyncSlotLast'
    BY <2>1 DEF HandlerInv, CallInv, CallOwns, Owns, PendingAdd, SyncSlotLast, LastOf, Reporting,
       callerVars, queueVars, userVars
  <2>5. ASSUME NEW t \in Threads, Effective(t) PROVE Effective(t)'
    BY <2>1, <2>5, OpTypes DEF Effective, callerVars, kernelVars
  <2>6. DoneHolds'
    BY <2>1, <2>5 DEF HandlerInv, CallInv, DoneHolds, LastOf, Reporting, callerVars, queueVars
  <2> QED BY <2>2, <2>3, <2>4, <2>6 DEF HandlerInv, CallInv
<1>5. CASE CallbackReturn
  <2>1. /\ UNCHANGED <<callerVars, queueVars, batch, tableVars, kernelVars, userVars>>
        /\ cur' = None
    BY <1>5 DEF CallbackReturn
  <2>2. EventInv'
    BY <2>1 DEF HandlerInv, EventInv, CurLive, BatchLive, Over, userVars
  <2>3. TableInv' /\ CallInv'
    BY <2>1 DEF HandlerInv, TableInv, SessionsDistinct, ActiveIsSession, PolledIsActive,
       CallInv, CallOwns, Owns, PendingAdd, SyncSlotLast, LastOf, Reporting, DoneHolds, Effective,
       callerVars, queueVars, tableVars, kernelVars, userVars
  <2> QED BY <2>2, <2>3 DEF HandlerInv
<1> QED BY <1>1, <1>2, <1>3, <1>4, <1>5, PopHandlers DEF LoopStep

(* A callback registers or unregisters a session of the loop's own thread: no user
   thread is in a call about that descriptor, or has a command for it to add.  *)
LEMMA LoopOwns ==
    ASSUME TypeOK, HandlerInv, NEW f \in Fds, Owns(Loop, f)
    PROVE  /\ session[f] \in Handlers
           /\ \A t \in Threads : pc[t] # "idle" /\ op[t].fd = f => FALSE
           /\ \A i \in 1..Len(commands) :
                commands[i].cmd.type = "add" /\ commands[i].cmd.handler # None => commands[i].cmd.handler # session[f]
<1> USE ReactorAssumption
<1>1. session[f] \in Handlers /\ owner[session[f]] = Loop
  BY DEF Owns, TypeOK
<1>2. \A t \in Threads : pc[t] # "idle" /\ op[t].fd = f => FALSE
  BY <1>1, OpTypes DEF HandlerInv, CallInv, CallOwns, Owns
<1> QED BY <1>1, <1>2, SlotTypes DEF HandlerInv, CallInv, PendingAdd

(* The calls of the user threads do not notice it. *)
LEMMA LoopOwnsCalls ==
    ASSUME TypeOK, HandlerInv, NEW f \in Fds, Owns(Loop, f),
           UNCHANGED <<callerVars, commands, session, owner>>,
           \A g \in Fds : g # f => /\ interest'[g] = interest[g]
                                   /\ handlers'[g] = handlers[g]
                                   /\ g \in deleted' <=> g \in deleted,
           \A h \in Handlers : h # session[f] => (h \in quiet' <=> h \in quiet)
    PROVE  CallInv'
<1> USE ReactorAssumption
<1> USE DEF callerVars
<1>0. \A t \in Threads : pc[t] # "idle" /\ op[t].type # "stop" /\ op[t].fd # None =>
          op[t].fd \in Fds /\ op[t].fd # f /\ session[op[t].fd] # session[f] /\ session[op[t].fd] \in Handlers
  BY LoopOwns, OpTypes DEF HandlerInv, TableInv, SessionsDistinct, CallInv, CallOwns, Owns, TypeOK
<1>1. CallOwns'
  BY <1>0 DEF HandlerInv, CallInv, CallOwns, Owns
<1>2. PendingAdd'
  BY LoopOwns, SlotTypes DEF HandlerInv, CallInv, PendingAdd
<1>3. SyncSlotLast'
  BY DEF HandlerInv, CallInv, SyncSlotLast, LastOf, Reporting
<1>4. DoneHolds'
  <2> SUFFICES ASSUME NEW t \in Threads, done[t]
               PROVE  /\ pc[t] \notin {"idle", "push"}
                      /\ Reporting(op[t])
                      /\ LastOf(0, t, op[t].fd)'
                      /\ Effective(t)'
    BY DEF DoneHolds
  <2>1. pc[t] \notin {"idle", "push"} /\ Reporting(op[t]) /\ LastOf(0, t, op[t].fd) /\ Effective(t)
    BY DEF HandlerInv, CallInv, DoneHolds
  <2>2. op[t].fd # None => op[t].fd \in Fds /\ op[t].fd # f
    BY <1>0, <2>1 DEF Reporting
  <2>3. Effective(t)'
    BY <2>1, <2>2 DEF Effective
  <2> QED BY <2>1, <2>3 DEF LastOf
<1> QED BY <1>1, <1>2, <1>3, <1>4 DEF CallInv

LEMMA CallbackHandlers ==
    ASSUME TypeInv, HandlerInv, CallbackStep
    PROVE  HandlerInv'
<1> USE ReactorAssumption
<1> USE DEF TypeInv
<1>0. /\ cur # None => cur.fd \in Fds /\ cur.from \in Handlers \cup {None} /\ cur.handler \in Handlers
      /\ \A ev \in batch \ {Wakeup} : ev.fd \in Fds /\ ev.from \in Handlers \cup {None}
  BY DEF TypeOK, Callback, Event
<1>1. ASSUME NEW f \in Fds, NEW h \in Handlers, CallbackOpen(f, h)
      PROVE  HandlerInv'
  BY <1>1, OpenHandlers DEF CallbackOpen
<1>2. ASSUME NEW f \in Fds, CallbackDestroy(f)
      PROVE  HandlerInv'
  BY <1>2, DestroyHandlers DEF CallbackDestroy, CloseFd
<1>3. ASSUME NEW f \in Fds, NEW mask \in Masks, CallbackAdd(f, mask)
      PROVE  HandlerInv'
  <2>1. /\ Owns(Loop, f) /\ RegisterHandler(f, session[f], mask) /\ quiet' = quiet \ {session[f]}
        /\ UNCHANGED <<callerVars, queueVars, loopVars, session, owner>>
    BY <1>3 DEF CallbackAdd
  <2>2. session[f] \in Handlers
    BY <2>1, LoopOwns
  <2>3. TableInv'
    BY <2>1, <2>2, RegisterTables DEF HandlerInv
  <2>4. \A g \in Fds : g # f => /\ interest'[g] = interest[g]
                                /\ handlers'[g] = handlers[g]
                                /\ g \in deleted' <=> g \in deleted
    BY <2>1 DEF RegisterHandler, TypeOK
  <2>5. CallInv'
    BY <2>1, <2>4, LoopOwnsCalls DEF queueVars
  <2>6. \A k : Over(k) => Over(k)'
    BY <2>1 DEF Over
  <2>7. EventInv'
    BY <1>0, <2>1, <2>6 DEF HandlerInv, EventInv, CurLive, BatchLive, callerVars, loopVars
  <2> QED BY <2>3, <2>5, <2>7 DEF HandlerInv
<1>4. ASSUME NEW f \in Fds, UnregisterHandler(f), Owns(Loop, f), quiet' = quiet \cup {session[f]},
             UNCHANGED <<callerVars, commands, session, owner>>
      PROVE  TableInv' /\ CallInv' /\ \A k : Over(k) => Over(k)'
  <2>1. session[f] \in Handlers
    BY <1>4, LoopOwns
  <2>2. TableInv'
    BY <1>4, <2>1, UnregisterTables DEF HandlerInv
  <2>3. \A g \in Fds : g # f => /\ interest'[g] = interest[g]
                                /\ handlers'[g] = handlers[g]
                                /\ g \in deleted' <=> g \in deleted
    BY <1>4 DEF UnregisterHandler, TypeOK
  <2>4. CallInv'
    BY <1>4, <2>3, LoopOwnsCalls
  <2>5. \A k : Over(k) => Over(k)'
    BY <1>4 DEF Over
  <2> QED BY <2>2, <2>4, <2>5
<1>5. ASSUME NEW f \in Fds, CallbackDel(f)
      PROVE  HandlerInv'
  <2>1. /\ Owns(Loop, f) /\ session[f] # cur.handler /\ UnregisterHandler(f)
        /\ quiet' = quiet \cup {session[f]}
        /\ UNCHANGED <<callerVars, queueVars, loopVars, session, owner>>
    BY <1>5 DEF CallbackDel
  <2>2. TableInv' /\ CallInv' /\ \A k : Over(k) => Over(k)'
    BY <1>4, <2>1 DEF queueVars
  <2>3. EventInv'
    BY <1>0, <2>1, <2>2 DEF HandlerInv, EventInv, CurLive, BatchLive, callerVars, loopVars
  <2> QED BY <2>2, <2>3 DEF HandlerInv
<1>6. CASE CallbackDelSelf
  <2>1. /\ cur.fd \in Fds /\ Owns(Loop, cur.fd) /\ UnregisterHandler(cur.fd)
        /\ quiet' = quiet \cup {session[cur.fd]}
        /\ UNCHANGED <<callerVars, queueVars, batch, session, owner>>
        /\ cur' = None
    BY <1>6 DEF CallbackDelSelf, CurSet, Callback
  <2>2. TableInv' /\ CallInv' /\ \A k : Over(k) => Over(k)'
    BY <1>4, <2>1 DEF queueVars
  <2>3. EventInv'
    BY <1>0, <2>1, <2>2 DEF HandlerInv, EventInv, CurLive, BatchLive
  <2> QED BY <2>2, <2>3 DEF HandlerInv
<1>7. CASE CallbackStop
  BY <1>7, HandlersElsewhere DEF CallbackStop, queueVars, kernelVars
<1> QED BY <1>1, <1>2, <1>3, <1>5, <1>6, <1>7 DEF CallbackStep

LEMMA HandlerInvariant == Spec => []HandlerInv
<1>1. TypeInv /\ HandlerInv /\ [Next]_vars => HandlerInv'
  <2> SUFFICES ASSUME TypeInv, HandlerInv, [Next]_vars PROVE HandlerInv'
    OBVIOUS
  <2>0. TypeOK
    BY DEF TypeInv
  <2>1. CASE EnvStep
    BY <2>1, HandlersElsewhere DEF EnvStep, BecomeReady, BecomeUnready, queueVars, loopVars
  <2>2. CASE UNCHANGED vars
    BY <2>2, HandlersElsewhere DEF vars, queueVars, loopVars, kernelVars
  <2> QED BY <2>0, <2>1, <2>2, CallHandlers, UserHandlers, LoopHandlers, CallbackHandlers DEF Next
<1> QED BY <1>1, InitHandlers, TypeInvariant, PTL DEF Spec

(* delHandler: once it has completed, by a sync call or in a callback, no callback of the
   handler runs before it is added again, whatever the other threads and callbacks do; so
   its owner may destroy it, for any number of threads, descriptors and handlers. *)
THEOREM DeletedStaySilent == Spec => []NoCallbackAfterDel
<1>1. HandlerInv => NoCallbackAfterDel
  BY DEF HandlerInv, EventInv, CurLive, NoCallbackAfterDel
<1> QED BY <1>1, HandlerInvariant, PTL

(* registerHandler, unregisterHandler and the purge: _handlers agrees with the epoll list,
   what a sync call reported still holds when its caller wakes up, and an event goes to
   another handler only when its session is over.                             *)
THEOREM TablesStayTrue == Spec => []TablesAgree
<1>1. HandlerInv => TablesAgree
  <2> SUFFICES ASSUME HandlerInv PROVE TablesAgree
    OBVIOUS
  <2>1. KernelTablesAgree
    BY DEF HandlerInv, TableInv, ActiveIsSession, PolledIsActive, KernelTablesAgree
  <2>2. SyncEffective
    BY DEF HandlerInv, CallInv, DoneHolds, Effective, SyncEffective
  <2>3. StrayEventsOfDeleted
    BY DEF HandlerInv, EventInv, CurLive, Over, StrayEventsOfDeleted
  <2> QED BY <2>1, <2>2, <2>3 DEF TablesAgree
<1> QED BY <1>1, HandlerInvariant, PTL
=============================================================================
