----------------------------- MODULE SnapshotStore -----------------------------
(***************************************************************************)
(* What the state files of agent-remote-sync promise together: a file is   *)
(* always the whole of what one writer wrote, and a write is a content the *)
(* writer has read of that file, with at most one key changed.  Nothing is *)
(* promised about what others wrote after that reading.                    *)
(***************************************************************************)
CONSTANTS Files, Clients,
          Nothing        \* a client that holds no content

VARIABLES content,       \* content[f] is a function from the keys of f to values
          view           \* view[c] = [file, read], what a client has read, or Nothing

vars == <<content, view>>

DiffersInOneKey(new, old) ==
    /\ DOMAIN new = DOMAIN old
    /\ \A k, l \in DOMAIN old : new[k] # old[k] /\ new[l] # old[l] => k = l

Init == view = [c \in Clients |-> Nothing]

Read(c, f) ==
    /\ view' = [view EXCEPT ![c] = [file |-> f, read |-> content[f]]]
    /\ UNCHANGED content

\* The client may go on with what it has written.
Write(c) ==
    /\ view[c] # Nothing
    /\ LET f == view[c].file IN
       /\ DiffersInOneKey(content'[f], view[c].read)
       /\ content' = [content EXCEPT ![f] = content'[f]]
       /\ view' \in {[view EXCEPT ![c] = Nothing],
                     [view EXCEPT ![c].read = content'[f]]}

Forget(c) == view' = [view EXCEPT ![c] = Nothing] /\ UNCHANGED content

Next == \E c \in Clients : Write(c) \/ Forget(c) \/ \E f \in Files : Read(c, f)

Spec == Init /\ [][Next]_vars
=============================================================================
