---------------------------- MODULE MCPreflight ----------------------------
(* Instances of Preflight for TLC. *)
EXTENDS Preflight, TLC

CONSTANTS c1, c2, c3, k1, k2

\* Calls are interchangeable, and so are the checks without an observer.
Renamings == Permutations(Calls) \cup Permutations(Checks \ Observers)
=============================================================================
