------------------------- MODULE MCPolicyLifecycle -------------------------
(* Values for the bounded instance of PolicyLifecycle.                     *)
EXTENDS PolicyLifecycle

CONSTANTS a1, a2, c1, c2, f1, f2

Rule(c, fns, paused) == [contract |-> c, fns |-> fns, paused |-> paused]
Cap(r, n) == [recipient |-> r, cap |-> n]

Policy ==
  [DEFAULT_GUARD_POLICY EXCEPT
     !.assets = <<c1>>, !.recipients = <<a1>>,
     !.protocols = <<Rule(c2, <<f1, f2>>, Absent)>>]

SomeCaps == <<Cap(c1, 1)>>

FirstValues(f) ==
  CASE f = "per_tx_cap" -> {-1, 3, Numeral, Junk}
    [] f = "window_cap" -> {-1, Numeral}
    [] f = "window_secs" -> {-1, 0, Absent}
    [] f \in {"active_from", "active_until"} -> {Numeral}
    [] f = "dms_grace_secs" -> {3, Null}
    [] f = "allow_any_recipient" -> {TRUE, Junk}
    [] f = "paused" -> {Absent}
    [] f = "assets" -> {<<>>, <<c2, c1>>, <<c1, c1>>, <<Guard>>, <<Malformed, Malformed>>}
    [] f = "recipients" -> {<<>>, <<a2, a1>>, <<a1, a2, c1>>, <<a1, a1>>, Absent}
    [] f = "protocols" ->
         {<<Rule(c2, <<f2, f1>>, TRUE)>>, <<Rule(c2, Null, FALSE)>>,
          <<Rule(c2, <<>>, Absent)>>, <<Rule(c2, <<f1, f1>>, Absent)>>,
          <<Rule(c2, <<OddName>>, Absent)>>, <<Rule(c1, Absent, Absent)>>,
          <<Rule(c2, <<f1>>, Absent), Rule(c2, Null, Absent)>>,
          <<Rule(c1, <<f1>>, TRUE), Rule(Guard, Junk, Absent)>>}
    [] f = "recipient_window_caps" ->
         {<<Cap(a1, 2), Cap(a2, 0)>>, <<Cap(a1, 1), Cap(a1, 2)>>,
          <<Cap(a2, -1)>>, <<Cap(Guard, 3)>>}
    [] f = "blocked_recipients" -> {<<a1>>, <<a2>>, <<a2, a2>>, Null}
    [] f = "protocol_calls_per_window" -> {1, 2}
    [] OTHER -> {}

(* The second edit is one that a rule reads together with another field, or    *)
(* that a conversion carries: it combines with every first one.              *)
SecondValues(f) ==
  CASE f = "window_secs" -> {0}
    [] f = "active_until" -> {1}
    [] f = "protocols" -> {<<Rule(c2, <<f2, f1>>, TRUE)>>}
    [] OTHER -> {}

EditValues(f, n) == IF n = 1 THEN FirstValues(f) ELSE SecondValues(f)
=============================================================================
