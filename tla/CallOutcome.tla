---------------------------- MODULE CallOutcome ----------------------------
(***************************************************************************)
(* What invoke() promises about one call, whatever it retries: its effect   *)
(* happens at most once, a success is reported only for an effect that       *)
(* happened, and after a reported failure (the guard refused, or the retry   *)
(* budget is spent) the effect did not happen and never will.  Any other     *)
(* answer leaves it open.  invoke() promises to retry only what certainly    *)
(* did not happen; this module does not say how.                             *)
(***************************************************************************)
EXTENDS Naturals

CONSTANT Calls

VARIABLES
  effects, \* effects[c]: how often the call of c took effect
  told     \* told[c]: "nothing" yet, "success", "failure" or "unknown"

Init == effects = [c \in Calls |-> 0] /\ told = [c \in Calls |-> "nothing"]

TakeEffect(c) ==
  /\ effects[c] = 0 /\ told[c] # "failure"
  /\ effects' = [effects EXCEPT ![c] = 1]
  /\ UNCHANGED told

Report(c, verdict) ==
  /\ told[c] = "nothing"
  /\ verdict = "success" => effects[c] = 1
  /\ verdict = "failure" => effects[c] = 0
  /\ told' = [told EXCEPT ![c] = verdict]
  /\ UNCHANGED effects

Next == \E c \in Calls :
  TakeEffect(c) \/ \E v \in {"success", "failure", "unknown"} : Report(c, v)

Spec == Init /\ [][Next]_<<effects, told>>
=============================================================================
