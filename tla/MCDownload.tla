------------------------------ MODULE MCDownload ------------------------------
(* Small instances of ResumableDownload for TLC.  ChunkLen 2 makes a three-unit *)
(* file two chunks, the first of two units.                                    *)
EXTENDS ResumableDownload, TLC

CONSTANTS j1, j2

V1 == <<"a", "b", "c">>
V2 == <<"x", "b", "d">>    \* an edit that keeps the size
V3 == <<"x">>              \* a truncation

Truncation == {V1, V3}
SameSize == {V1, V2}
NoFileYet == {NoFile}
\* What an earlier, interrupted download may have left.
LeftOver == {NoFile, <<"a">>, <<"x", "b", "c">>}
SecondOverwrites == j1 :> FALSE @@ j2 :> TRUE
NoOverwrite == [j \in Jobs |-> FALSE]
=============================================================================
