----------------------------- MODULE MCReactor -----------------------------
(* Instances of Reactor for TLC. *)
EXTENDS Reactor, TLC

CONSTANTS t1, t2, f1, f2, h1, h2, h3

\* The mask addHandler builds from wantRead alone.
ReadMask == {{"in", "rdhup"}}

Symmetry == Permutations(Threads) \cup Permutations(Fds) \cup Permutations(Handlers)
=============================================================================
