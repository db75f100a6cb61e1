--------------------------- MODULE MCPlannedTransfer ---------------------------
(* PlannedTransfer for TLC: two names, three contents of two sizes, two tasks. *)
EXTENDS PlannedTransfer

MCSizeOf == [c \in {"a", "b", "c"} |-> IF c = "c" THEN 2 ELSE 1]
At0(c, time) == [content |-> c, size |-> MCSizeOf[c], mtime |-> time]
None == [content |-> "absent", size |-> 0, mtime |-> 0]

\* A changed file, and one that the remote side misses.
MCBeginnings ==
    {[local |-> <<At0("a", 2), At0("a", 0)>>, remote |-> <<At0("b", 0), None>>]}

\* An earlier pull of the changed file was killed.  The remote clock is ahead.
MCLeftovers == <<{"b"}, {}>>
MCAhead == [local |-> 0, remote |-> 1]

Request(tool, to) ==
    [tool |-> tool, to |-> to, overwrite |-> FALSE, delete |-> FALSE, hash |-> FALSE,
     saved |-> FALSE, from |-> 1, dest |-> 2]

\* A task that pushes and one that pulls or moves.
MCRequests ==
    [t \in Tasks |->
        IF t = 1
        THEN {[Request("sync", "remote") EXCEPT !.overwrite = TRUE, !.delete = TRUE],
              [Request("job", "remote") EXCEPT !.overwrite = TRUE, !.saved = TRUE]}
        ELSE {[Request("sync", "local") EXCEPT !.delete = TRUE, !.hash = TRUE],
              [Request("job", "local") EXCEPT !.overwrite = TRUE], Request("move", "remote")}]
=============================================================================
