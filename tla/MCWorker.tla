------------------------------- MODULE MCWorker -------------------------------
(* Small instances of WorkerInbox for TLC. *)
EXTENDS WorkerInbox, TLC

CONSTANTS w1, w2

\* The first worker runs commands; the second asks, or only looks, and has a
\* bridge for natural-language tasks.
YesAndAsk == w1 :> {"yes"} @@ w2 :> {"ask", "never"}
AllYes == [w \in Workers |-> {"yes"}]

CommandsAndText == 1 :> "commands" @@ 2 :> "text"
CommandsOnly == [i \in Instructions |-> "commands"]
=============================================================================
