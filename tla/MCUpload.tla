------------------------------- MODULE MCUpload -------------------------------
(* Small instances of ResumableUpload for TLC.  ChunkLen 2 makes a three-unit *)
(* file two chunks, the first of two units, so that an attempt can be cut     *)
(* inside a chunk as well as between chunks.                                  *)
EXTENDS ResumableUpload, TLC

CONSTANTS j1, j2

V1 == <<"a", "b", "c">>
OldFile == <<"x">>

OldFileOrNone == {NoFile, OldFile}
NoPartial == {NoFile}
PrefixOrForeign == {NoFile, <<>>, <<"a">>, <<"x">>}
TooLongOrForeign == {NoFile, <<"a", "b", "c">>, <<"a", "x">>}

SecondOverwrites == [j \in Jobs |-> j = j2]

Long == <<"a", "b", "c", "d">>

\* A source that grew by a unit between the plan and the digest, beside an upload
\* of the file as it was: what the first sends is no foreign unit to the second.
GrownSize == j1 :> 3 @@ j2 :> 3
GrownDigest == j1 :> Long @@ j2 :> V1
GrownData == GrownDigest

\* A source truncated after its digest was taken, beside an empty file.
TruncatedSize == j1 :> 2 @@ j2 :> 0
TruncatedDigest == j1 :> <<"a", "b">> @@ j2 :> <<>>
TruncatedData == j1 :> <<"a">> @@ j2 :> <<>>

OneSize == j1 :> 3
OneJob == j1 :> V1
NoOverwrite == [j \in Jobs |-> FALSE]
=============================================================================
