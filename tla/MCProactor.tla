----------------------------- MODULE MCProactor -----------------------------
(* Instances of Proactor for TLC. *)
EXTENDS Proactor

CONSTANTS t1, t2, r0, w0, r1, r2

\* A read and a connect on descriptor 0, a read on each of the others.
MCOpFd == [o \in Ops |-> CASE o = r1 -> 1 [] o = r2 -> 2 [] OTHER -> 0]

=============================================================================
