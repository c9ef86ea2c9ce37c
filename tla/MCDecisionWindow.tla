-------------------------- MODULE MCDecisionWindow --------------------------
(* Values for the bounded instance of DecisionWindow.                      *)
EXTENDS DecisionWindow

SomeInputs == {[stream |-> "committed", decision |-> "allowed"],
               [stream |-> "committed", decision |-> "none"],
               [stream |-> "diagnostic", decision |-> "paused"],
               [stream |-> "failed_tx", decision |-> "blocked"]}
EitherWindow == {[events |-> 2], [ms |-> 1]}
=============================================================================
