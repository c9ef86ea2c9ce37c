--------------------------- MODULE InvokeOutcome ---------------------------
(***************************************************************************)
(* The pipeline of Invoke keeps the promise of CallOutcome.                 *)
(***************************************************************************)
EXTENDS Invoke

Successes(c) ==
  {i \in DOMAIN ledger : ledger[i] = [call |-> c, result |-> "success"]}

Verdict(kind) ==
  CASE kind = "none" -> "nothing"
    [] kind = "allowed" -> "success"
    [] kind \in {"blocked", "charged", "exhausted"} -> "failure"
    [] OTHER -> "unknown"

Promise == INSTANCE CallOutcome WITH
  effects <- [c \in Calls |-> Cardinality(Successes(c))],
  told <- [c \in Calls |-> Verdict(answer[c].kind)]

\* Retries never make a call happen twice, an allowed call happened, and one
\* reported as refused or as out of retries did not and never will: not even by a
\* transaction of an earlier attempt that is still held somewhere (1497-1580).
KeepsPromise == Promise!Spec
=============================================================================
