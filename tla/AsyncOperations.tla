-------------------------- MODULE AsyncOperations --------------------------
(***************************************************************************)
(* What a proactor promises of the operations it accepts, whatever its     *)
(* backend (core/include/join/proactor.hpp): an operation that is not in   *)
(* flight may be accepted; one in flight is answered by one call of        *)
(* onComplete or onCancel and is not in flight any more when the callback  *)
(* has returned; onCancel answers only an operation somebody cancelled.    *)
(***************************************************************************)

CONSTANT Ops

VARIABLES
    phase,    \* phase[o]: "idle", "flight", "complete" or "cancel" (the callback running)
    asked     \* the operations whose cancellation was asked for

opVars == <<phase, asked>>

OpInit ==
    /\ phase = [o \in Ops |-> "idle"]
    /\ asked = {}

Accept(o) ==
    /\ phase[o] = "idle"
    /\ phase' = [phase EXCEPT ![o] = "flight"]
    /\ UNCHANGED asked

\* cancel, or stop, which cancels everything in flight.
Ask(os) ==
    /\ os \subseteq {o \in Ops : phase[o] = "flight"}
    /\ asked' = asked \cup os
    /\ UNCHANGED phase

Complete(o) ==
    /\ phase[o] = "flight"
    /\ phase' = [phase EXCEPT ![o] = "complete"]
    /\ UNCHANGED asked

Cancel(o) ==
    /\ phase[o] = "flight"
    /\ o \in asked
    /\ phase' = [phase EXCEPT ![o] = "cancel"]
    /\ UNCHANGED asked

Retire(o) ==
    /\ phase[o] \in {"complete", "cancel"}
    /\ phase' = [phase EXCEPT ![o] = "idle"]
    /\ asked' = asked \ {o}

OpNext ==
    \/ \E o \in Ops : Accept(o) \/ Complete(o) \/ Cancel(o) \/ Retire(o)
    \/ \E os \in SUBSET Ops : Ask(os)

OpSpec == OpInit /\ [][OpNext]_opVars
=============================================================================
