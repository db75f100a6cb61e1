---------------------------- MODULE AtomicInstall ----------------------------
(***************************************************************************)
(* What an upload to one path promises its users.  The file at the path    *)
(* only ever changes to the complete content of one upload, in one step,   *)
(* over an existing file only with that upload's overwrite confirmation,   *)
(* and an upload is acknowledged only when its content is the file.        *)
(***************************************************************************)
CONSTANTS Jobs,            \* the uploads to the path
          NoFile,          \* the path names no file
          Digest,          \* content each upload announced (its SHA-256)
          Overwrite,       \* whether the upload confirmed overwriting
          InitialTargets   \* what the path may hold at the start

VARIABLES target,          \* content of the file at the path, or NoFile
          acked            \* uploads acknowledged so far

vars == <<target, acked>>

Init == target \in InitialTargets /\ acked = {}

\* Content replaces whatever the path held, and is acknowledged with it.
Install(j) ==
    /\ target = NoFile \/ Overwrite[j]
    /\ target' = Digest[j]
    /\ acked' = acked \cup {j}

\* An upload repeated after its answer was lost finds its content in place.
Confirm(j) ==
    /\ target = Digest[j]
    /\ acked' = acked \cup {j}
    /\ UNCHANGED target

\* The file is deleted by another operation.
Delete == target # NoFile /\ target' = NoFile /\ UNCHANGED acked

Next == Delete \/ \E j \in Jobs : Install(j) \/ Confirm(j)

Spec == Init /\ [][Next]_vars
=============================================================================
