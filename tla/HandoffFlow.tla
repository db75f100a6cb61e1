------------------------------ MODULE HandoffFlow ------------------------------
(***************************************************************************)
(* The round of a handoff: files are pushed and the task is told; the      *)
(* receiver files it in its memory and lists it in its inbox; reports come *)
(* back the same way to the inbox of the sender, where whoever waits or    *)
(* refreshes matches them with the records of calls.  When telling fails   *)
(* the sender deletes the files that it pushed, whether the receiver got   *)
(* the task or not.                                                        *)
(*                                                                         *)
(* How files are transferred is left to PlannedTransfer, how a task runs   *)
(* to WorkerInbox.                                                         *)
(***************************************************************************)
EXTENDS Naturals, FiniteSets

CONSTANTS Calls,      \* handoffs of a sender, in the order of their records
          Paths,      \* files below the directory the receiver takes them in
          Reports,    \* reports that can come, each the call that its note has for a
                      \* parent, 0 for none, and a number
          Named,      \* the calls whose ids the text of a report has in it
          Failing,    \* those of them with one of the words for failure in their text
          Readers,    \* who refreshes the call records of the sender,
          Waits,      \* and those of them that do only until a deadline
          MaxNames,   \* numbers that unique_path tries for a name
          MaxCrashes  \* bound on restarts of either slave

ASSUME HandoffAssumption ==
    /\ Calls \subseteq Nat \ {0} /\ IsFiniteSet(Calls) /\ Paths # {}
    /\ Waits \subseteq Readers /\ Failing \subseteq Reports
    /\ Reports \subseteq (Calls \cup {0}) \X (Nat \ {0}) /\ Named \in [Reports -> SUBSET Calls]
    /\ MaxNames \in Nat \ {0} /\ MaxCrashes \in Nat

VARIABLES call,      \* the command of each handoff
          remote,    \* whose bytes each path holds, 0 for nobody's
          letter,    \* tasks and reports on their way into an inbox
          notes,     \* the handoff files of reports in the memory of the sender
          record,    \* call records of the sender
          reader,
          crashes,
          covered,   \* history: calls whose path another pushed to or cleaned up after them
          clashed    \* history: two notes were named alike before either was there

vars == <<call, remote, letter, notes, record, reader, crashes, covered, clashed>>

Hosts == {"sender", "receiver"}

\* The task of a call is its letter 0.
Task(c) == <<c, 0>>
Letters == {Task(c) : c \in Calls} \cup Reports
NoLetter == <<0, 0>>
Older == <<0, 1>>       \* a note of an earlier time
Host(l) == IF l[2] = 0 THEN "receiver" ELSE "sender"
Answers == {"reported", "failed"}

Init ==
    /\ call = [c \in Calls |-> [pc |-> "idle", path |-> CHOOSE p \in Paths : TRUE]]
    /\ remote = [p \in Paths |-> 0]
    /\ letter = [l \in Letters |-> [pc |-> "none", name |-> 1]]
    /\ \E n \in 0 .. 1 : notes = [i \in 1 .. MaxNames |-> IF i <= n THEN Older ELSE NoLetter]
    /\ record = [c \in Calls |-> [state |-> "none", by |-> NoLetter]]
    /\ reader = [r \in Readers |-> [pc |-> "idle", calls |-> {}, inbox |-> {}]]
    /\ crashes = 0 /\ covered = {} /\ clashed = FALSE

Goes(c, pc) == call' = [call EXCEPT ![c].pc = pc]
Moves(l, pc) == letter' = [letter EXCEPT ![l].pc = pc]

\* A request to the inbox of the other side, with the note of the sender in it.
SendInstruction(l) == Moves(l, "sent")

\* What a note tells of the call it belongs to: the parentId among the metadata of a
\* STATUS_REPORT.
ParentOf(note) == note[1]

\* The calls that a report tells of.
About(l) == ({l[1]} \cap Calls) \cup Named[l]

-----------------------------------------------------------------------------
(* The sender.                                                             *)

\* Calls beside c that have pushed, or ended before it, with path p.
Sharing(c, p) == {d \in Calls \ {c} : call[d].pc # "idle" /\ call[d].path = p}

\* An existing file, without --overwrite, or a failure ends the handoff before
\* anything is told; what was pushed until then stays there.
Push(c) ==
    /\ call[c].pc = "idle"
    /\ \E p \in Paths, overwrite \in BOOLEAN, ends \in {"pushed", "failed"} :
        IF remote[p] # 0 /\ ~overwrite
        THEN Goes(c, "failed") /\ UNCHANGED <<remote, covered>>
        ELSE /\ remote' = [remote EXCEPT ![p] = c]
             /\ call' = [call EXCEPT ![c] = [pc |-> ends, path |-> p]]
             /\ covered' = covered \cup Sharing(c, p)
    /\ UNCHANGED <<letter, notes, record, reader, crashes, clashed>>

Tell(c) ==
    /\ call[c].pc = "pushed"
    /\ Goes(c, "telling") /\ SendInstruction(Task(c))
    /\ UNCHANGED <<remote, notes, record, reader, crashes, covered, clashed>>

\* The local note cannot be made, nobody listens, or no answer comes in time.
TellFails(c) ==
    /\ call[c].pc \in {"pushed", "telling"}
    /\ Goes(c, "cleaning")
    /\ UNCHANGED <<remote, letter, notes, record, reader, crashes, covered, clashed>>

\* All that was pushed to the directory.
MutDirectory(c) == Paths

Pushed(c) == {call[c].path}

\* Paths are deleted by name; a delete that fails is passed over.
Cleanup(c) ==
    /\ call[c].pc = "cleaning"
    /\ \E gone \in {Pushed(c), {}} :
          remote' = [p \in Paths |-> IF p \in gone THEN 0 ELSE remote[p]]
    /\ covered' = covered \cup Sharing(c, call[c].path)
    /\ Goes(c, "failed")
    /\ UNCHANGED <<letter, notes, record, reader, crashes, clashed>>

Answered(c) ==
    /\ call[c].pc = "telling" /\ letter[Task(c)].pc = "listed"
    /\ Goes(c, "answered")
    /\ UNCHANGED <<remote, letter, notes, record, reader, crashes, covered, clashed>>

SaveCallRecord(c) ==
    /\ call[c].pc = "answered"
    /\ record' = [record EXCEPT ![c].state = "sent"]
    /\ Goes(c, "recorded")
    /\ UNCHANGED <<remote, letter, notes, reader, crashes, covered, clashed>>

\* The command is killed: nothing is deleted, and a task that was sent stays.
CommandDies(c) ==
    /\ call[c].pc \in {"pushed", "telling", "cleaning", "answered"}
    /\ Goes(c, "dead")
    /\ UNCHANGED <<remote, letter, notes, record, reader, crashes, covered, clashed>>

-----------------------------------------------------------------------------
(* A slave that takes a letter: create_instruction.  Only the notes of reports *)
(* compete for names: they are named by the first words of a text all share.   *)

\* Numbers are tried past the last one.
MutOneMore ==
    IF \E i \in 1 .. MaxNames : notes[i] = NoLetter
    THEN {CHOOSE i \in 1 .. MaxNames : /\ notes[i] = NoLetter
                                       /\ \A j \in 1 .. i - 1 : notes[j] # NoLetter}
    ELSE {MaxNames + 1}

\* The plain name, whether it is taken or not.
MutPlainName == {1}

\* The first number that no file has, or none.
UniquePath == {i \in 1 .. MaxNames : notes[i] = NoLetter /\ \A j \in 1 .. i - 1 : notes[j] # NoLetter}

FileTask(c) ==
    /\ letter[Task(c)].pc = "sent"
    /\ Moves(Task(c), "filed")
    /\ UNCHANGED <<call, remote, notes, record, reader, crashes, covered, clashed>>

NameNote(l) ==
    /\ letter[l].pc = "sent"
    /\ IF UniquePath = {} THEN Moves(l, "refused") /\ UNCHANGED clashed
       ELSE \E i \in UniquePath :
            /\ letter' = [letter EXCEPT ![l].pc = "named", ![l].name = i]
            /\ clashed' = (clashed \/ \E k \in Reports \ {l} :
                               letter[k].pc = "named" /\ letter[k].name = i)
    /\ UNCHANGED <<call, remote, notes, record, reader, crashes, covered>>

WriteNote(l) ==
    /\ letter[l].pc = "named"
    /\ notes' = [notes EXCEPT ![letter[l].name] = l]
    /\ Moves(l, "filed")
    /\ UNCHANGED <<call, remote, record, reader, crashes, covered, clashed>>

ListLetter(l) ==
    /\ letter[l].pc = "filed"
    /\ Moves(l, "listed")
    /\ UNCHANGED <<call, remote, notes, record, reader, crashes, covered, clashed>>

\* Requests that were being handled are gone, with the notes they had written.
Crash(h) ==
    /\ crashes < MaxCrashes /\ crashes' = crashes + 1
    /\ letter' = [l \in Letters |->
            IF Host(l) = h /\ letter[l].pc \in {"sent", "named", "filed"}
            THEN [letter[l] EXCEPT !.pc = "lost"] ELSE letter[l]]
    /\ UNCHANGED <<call, remote, notes, record, reader, covered, clashed>>

\* A worker with a callback or a person reports on a task that is listed, and may
\* name others in the text.
Report(l) ==
    /\ letter[l].pc = "none" /\ \A c \in About(l) : letter[Task(c)].pc = "listed"
    /\ SendInstruction(l)
    /\ UNCHANGED <<call, remote, notes, record, reader, crashes, covered, clashed>>

-----------------------------------------------------------------------------
(* refresh_call_records, by hand or in the loop of wait_for_handoff_report. *)

ReadCalls(r) ==
    /\ reader[r].pc = "idle"
    /\ LET open == {c \in Calls : record[c].state = "sent"} IN
       /\ open # {}
       /\ reader' = [reader EXCEPT ![r].pc = "listing", ![r].calls = open]
    /\ UNCHANGED <<call, remote, letter, notes, record, crashes, covered, clashed>>

ReadInbox(r) ==
    /\ reader[r].pc = "listing"
    /\ reader' = [reader EXCEPT ![r].pc = "matching",
                    ![r].inbox = {l \in Reports : letter[l].pc = "listed"}]
    /\ UNCHANGED <<call, remote, letter, notes, record, crashes, covered, clashed>>

\* Only the newest instruction is looked at.
MutFirstOnly(r, c) ==
    LET seen == {l \in reader[r].inbox : \A k \in reader[r].inbox : l[1] >= k[1]}
    IN {l \in seen : ParentOf(notes[letter[l].name]) = c \/ c \in Named[l]}

\* The file a manifest names tells what call its report is for, by whoever wrote it;
\* or else a text that begins like a report has an id of the call in it.
Matching(r, c) ==
    {l \in reader[r].inbox : ParentOf(notes[letter[l].name]) = c \/ c \in Named[l]}

ReportState(l) == IF l \in Failing THEN "failed" ELSE "reported"

\* One record after the other.  What was read is written, whatever it has become.  Names of one
\* second have no order: any of the matching reports may be the first.
MatchCall(r) ==
    /\ reader[r].pc = "matching"
    /\ LET c == CHOOSE c \in reader[r].calls : \A d \in reader[r].calls : c <= d
           rest == reader[r].calls \ {c}
       IN /\ IF Matching(r, c) = {} THEN UNCHANGED record
             ELSE \E l \in Matching(r, c) :
                     record' = [record EXCEPT ![c] = [state |-> ReportState(l), by |-> l]]
          /\ reader' = [reader EXCEPT ![r].calls = rest,
                            ![r].pc = IF rest = {} THEN "idle" ELSE "matching",
                            ![r].inbox = IF rest = {} THEN {} ELSE @]
    /\ UNCHANGED <<call, remote, letter, notes, crashes, covered, clashed>>

\* The deadline of a wait has passed; its call may get a report all the same.
WaitEnds(r) ==
    /\ r \in Waits /\ reader[r].pc = "idle"
    /\ reader' = [reader EXCEPT ![r].pc = "ended"]
    /\ UNCHANGED <<call, remote, letter, notes, record, crashes, covered, clashed>>

-----------------------------------------------------------------------------
Refreshes(r) == ReadCalls(r) \/ ReadInbox(r) \/ MatchCall(r)

Next ==
    \/ \E c \in Calls : \/ Push(c) \/ Tell(c) \/ TellFails(c) \/ Cleanup(c) \/ Answered(c)
                        \/ SaveCallRecord(c) \/ CommandDies(c)
                        \/ FileTask(c)
    \/ \E l \in Reports : Report(l) \/ NameNote(l) \/ WriteNote(l)
    \/ \E l \in Letters : ListLetter(l)
    \/ \E r \in Readers : Refreshes(r) \/ WaitEnds(r)
    \/ \E h \in Hosts : Crash(h)

\* Calls are refreshed time and again: by every command that lists them, and every
\* second by a wait that has not ended.
Spec == Init /\ [][Next]_vars /\ \A r \in Readers \ Waits : WF_vars(Refreshes(r))

-----------------------------------------------------------------------------
(* Properties.                                                             *)

\* Every variable has its type; no note gets a number that is not tried.
TypeOK ==
    /\ call \in [Calls -> [pc : {"idle", "pushed", "telling", "cleaning", "failed", "answered",
                                 "recorded", "dead"}, path : Paths]]
    /\ remote \in [Paths -> {0} \cup Calls]
    /\ letter \in [Letters -> [pc : {"none", "sent", "named", "filed", "listed", "refused", "lost"}, name : 1 .. MaxNames]]
    /\ notes \in [1 .. MaxNames -> Reports \cup {NoLetter, Older}]
    /\ record \in [Calls -> [state : {"none", "sent"} \cup Answers, by : Reports \cup {NoLetter}]]
    /\ reader \in [Readers -> [pc : {"idle", "listing", "matching", "ended"}, calls : SUBSET Calls,
                               inbox : SUBSET Reports]]
    /\ crashes \in 0 .. MaxCrashes /\ covered \subseteq Calls /\ clashed \in BOOLEAN

\* A task in the inbox has the files it was sent with, whatever handoffs beside it
\* fail and clean up, unless its own sender took it for failed or a handoff
\* of the same path pushed or cleaned up after it (handoff, _cleanup_handoff_files).
TaskHasItsFiles ==
    \A c \in Calls :
        /\ letter[Task(c)].pc = "listed"
        /\ call[c].pc \notin {"cleaning", "failed"} /\ c \notin covered
        => remote[call[c].path] = c

\* What a call record says was said by a report in the inbox that names that very
\* call, in its note or in its text, though several come and several read, unless two
\* notes were named at once: a report of another call that mentions this one ends it
\* too, and no other does (unique_path, instruction_matches_call_report).
AnswersAreOfTheCall ==
    clashed \/ \A c \in Calls : record[c].state \in Answers =>
        /\ c \in About(record[c].by)
        /\ letter[record[c].by].pc = "listed" /\ record[c].state = ReportState(record[c].by)

\* A call with a report in the sender's inbox does not stay open, whichever ended
\* first of the report and the wait for it.
ReportEndsCall ==
    \A c \in Calls :
        (/\ record[c].state = "sent"
         /\ \E l \in Reports : c \in About(l) /\ letter[l].pc = "listed")
        ~> (record[c].state \in Answers \/ clashed)

=============================================================================
