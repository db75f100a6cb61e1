----------------------------- MODULE MCHandoffFlow -----------------------------
(* HandoffFlow for TLC: its other constants are given in HandoffFlow.cfg. *)
EXTENDS HandoffFlow

\* One report on each call, the first with a word for failure and an id of the second
\* call in its text.
MCReports == {<<1, 1>>, <<2, 1>>}
MCFailing == {<<1, 1>>}
MCNamed == [l \in MCReports |-> IF l = <<1, 1>> THEN {2} ELSE {}]
=============================================================================
