------------------------------ MODULE MCInvoke ------------------------------
(* Instances of Invoke for TLC. *)
EXTENDS InvokeOutcome, TLC

CONSTANTS c1, c2, c3, p1

Renamings == Permutations(Invokes)
=============================================================================
