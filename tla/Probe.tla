------------------------------- MODULE Probe -------------------------------
(***************************************************************************)
(* One call of a sequential algorithm: kind names the algorithm, input is  *)
(* chosen initially, and one step of the behaviour computes output.  The   *)
(* modules of the algorithms extend this one, and share its variables.     *)
(***************************************************************************)
VARIABLES kind, input, output

probeVars == <<kind, input, output>>

Begin(k, inputs) == kind = k /\ input \in inputs /\ output = <<>>
Compute(k, result) == kind = k /\ output = <<>> /\ output' = <<result>> /\ UNCHANGED <<kind, input>>
Computed(k) == kind = k /\ output # <<>>
Result == output[1]
=============================================================================
