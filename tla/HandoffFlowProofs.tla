--------------------------- MODULE HandoffFlowProofs ---------------------------
(***************************************************************************)
(* Proofs about HandoffFlow, for any calls, paths, reports, names and      *)
(* readers: a task in the inbox has its files, and a call record says what *)
(* a report that names that call said.                                     *)
(***************************************************************************)
EXTENDS HandoffFlow, WellFoundedInduction, TLAPS

LEMMA SmallestExists ==
    ASSUME NEW S \in SUBSET Nat, S # {}
    PROVE  \E x \in S : \A y \in S : x <= y
  <1> DEFINE R == OpToRel(<, Nat)
  <1>1. \A x, y \in Nat : y < x => <<y, x>> \in R
    <2> SUFFICES ASSUME NEW x \in Nat, NEW y \in Nat, y < x PROVE <<y, x>> \in R
      OBVIOUS
    <2>1. <<y, x>> \in Nat \X Nat /\ <<y, x>>[1] = y /\ <<y, x>>[2] = x
      OBVIOUS
    <2> QED BY <2>1, Zenon DEF OpToRel
  <1>2. IsWellFoundedOn(R, Nat)
    BY NatLessThanWellFounded
  <1> HIDE DEF R
  <1>3. PICK x \in S : \A y \in S : ~(<<y, x>> \in R)
    BY <1>2, WFMin
  <1>4. ASSUME NEW y \in S
        PROVE  x <= y
    <2>1. x \in Nat /\ y \in Nat /\ ~(<<y, x>> \in R)
      BY <1>3
    <2>2. ~(y < x)
      BY <1>1, <2>1, Zenon
    <2> QED BY <2>1, <2>2
  <1> QED BY <1>3, <1>4

-----------------------------------------------------------------------------
(* The state: what a task and a report that are under way rely on.         *)

CallPcs == {"idle", "pushed", "telling", "cleaning", "failed", "answered", "recorded", "dead"}
LetterPcs == {"none", "sent", "named", "filed", "listed", "refused", "lost"}
CallState == [pc : CallPcs, path : Paths]
LetterState == [pc : LetterPcs, name : 1 .. MaxNames]
RecordState == [state : {"none", "sent"} \cup Answers, by : Reports \cup {NoLetter}]
ReaderState == [pc : {"idle", "listing", "matching", "ended"}, calls : SUBSET Calls,
                inbox : SUBSET Reports]

\* A reader that matches has something left to match.
StateInv ==
    /\ call \in [Calls -> CallState] /\ remote \in [Paths -> {0} \cup Calls]
    /\ letter \in [Letters -> LetterState]
    /\ notes \in [1 .. MaxNames -> Reports \cup {NoLetter, Older}]
    /\ record \in [Calls -> RecordState] /\ reader \in [Readers -> ReaderState]
    /\ crashes \in 0 .. MaxCrashes /\ covered \subseteq Calls /\ clashed \in BOOLEAN
    /\ \A r \in Readers : reader[r].pc \in {"listing", "matching"} => reader[r].calls # {}

\* A handoff that has not ended has its file, unless another took the path.
FilesInv ==
    \A c \in Calls :
        /\ call[c].pc \in {"idle", "pushed"} => letter[Task(c)].pc = "none"
        /\ (call[c].pc \notin {"idle", "failed"} /\ c \notin covered) => remote[call[c].path] = c

\* A note under way has a name of its own, and a note that is there is its own.
NotesInv ==
    /\ \A l \in Reports : letter[l].pc = "named" => notes[letter[l].name] = NoLetter
    /\ \A k, l \in Reports :
          (k # l /\ letter[k].pc = "named" /\ letter[l].pc = "named")
              => letter[k].name # letter[l].name
    /\ \A l \in Reports : letter[l].pc \in {"filed", "listed"} => notes[letter[l].name] = l

RecordsInv ==
    /\ \A r \in Readers : \A l \in reader[r].inbox : letter[l].pc = "listed"
    /\ ~clashed => /\ NotesInv
                   /\ \A c \in Calls : record[c].state \in Answers =>
                        /\ record[c].by \in Reports /\ c \in About(record[c].by)
                        /\ letter[record[c].by].pc = "listed"
                        /\ record[c].state = ReportState(record[c].by)

Inv == StateInv /\ FilesInv /\ RecordsInv

LEMMA LetterFacts ==
    /\ \A c \in Calls : Task(c) \in Letters /\ Task(c) \notin Reports /\ Task(c) # NoLetter
    /\ \A c, d \in Calls : Task(c) = Task(d) => c = d
    /\ Reports \subseteq Letters /\ NoLetter \notin Reports
  BY HandoffAssumption DEF Task, Letters, NoLetter

LEMMA InitSafe == Init => Inv
  <1> SUFFICES ASSUME Init PROVE Inv
    OBVIOUS
  <1>1. (CHOOSE p \in Paths : TRUE) \in Paths /\ 1 \in 1 .. MaxNames
    BY HandoffAssumption
  <1>2. StateInv
    <2>1. call \in [Calls -> CallState] /\ letter \in [Letters -> LetterState]
      BY <1>1 DEF Init, CallState, CallPcs, LetterState, LetterPcs
    <2>2. notes \in [1 .. MaxNames -> Reports \cup {NoLetter, Older}]
      BY DEF Init
    <2>3. record \in [Calls -> RecordState] /\ reader \in [Readers -> ReaderState]
      BY DEF Init, RecordState, ReaderState
    <2>4. \A r \in Readers : reader[r].pc = "idle"
      BY DEF Init
    <2>5. remote \in [Paths -> {0} \cup Calls]
      BY DEF Init
    <2>6. crashes \in 0 .. MaxCrashes /\ covered \subseteq Calls /\ clashed \in BOOLEAN
      <3>1. crashes = 0 /\ covered = {} /\ clashed = FALSE
        BY DEF Init
      <3>2. MaxCrashes \in Nat
        BY HandoffAssumption
      <3>3. clashed \in BOOLEAN
        BY <3>1, Zenon
      <3>4. crashes \in 0 .. MaxCrashes /\ covered \subseteq Calls
        BY <3>1, <3>2
      <3> QED BY <3>3, <3>4
    <2> QED BY <2>1, <2>2, <2>3, <2>4, <2>5, <2>6 DEF StateInv
  <1>3. \A l \in Letters : letter[l].pc = "none"
    BY DEF Init
  <1>4. FilesInv
    BY <1>3, LetterFacts DEF FilesInv, Init
  <1>5. RecordsInv
    <2>1. \A r \in Readers : reader[r].inbox = {}
      BY DEF Init
    <2>2. \A c \in Calls : record[c].state = "none"
      BY DEF Init
    <2>3. \A l \in Reports : letter[l].pc = "none"
      BY <1>3, LetterFacts
    <2> QED BY <2>1, <2>2, <2>3 DEF RecordsInv, NotesInv, Answers
  <1> QED BY <1>2, <1>4, <1>5 DEF Inv

-----------------------------------------------------------------------------
(* Steps that only move one call, one letter or one reader.                *)

LEMMA CallMoves ==
    ASSUME StateInv, NEW c \in Calls, NEW pc \in CallPcs, Goes(c, pc)
    PROVE  /\ call' \in [Calls -> CallState] /\ call'[c].pc = pc /\ call'[c].path = call[c].path
           /\ \A d \in Calls : d # c => call'[d] = call[d]
           /\ \A d \in Calls : call'[d].path = call[d].path
  <1>1. call[c] \in CallState
    BY DEF StateInv
  <1> QED BY <1>1 DEF Goes, StateInv, CallState

LEMMA LetterMoves ==
    ASSUME StateInv, NEW l \in Letters, NEW pc \in LetterPcs, Moves(l, pc)
    PROVE  /\ letter' \in [Letters -> LetterState] /\ letter'[l].pc = pc
           /\ letter'[l].name = letter[l].name
           /\ \A k \in Letters : k # l => letter'[k] = letter[k]
  <1>1. letter[l] \in LetterState
    BY DEF StateInv
  <1> QED BY <1>1 DEF Moves, StateInv, LetterState

\* A call goes on, before or after it was told, and keeps what it pushed.
LEMMA CallGoesOn ==
    ASSUME Inv, NEW c \in Calls, NEW pc \in CallPcs, Goes(c, pc), pc \notin {"idle", "pushed"},
           call[c].pc \notin {"idle", "failed"},
           UNCHANGED <<remote, letter, notes, record, reader, crashes, covered, clashed>>
    PROVE  Inv'
  <1>1. /\ call' \in [Calls -> CallState] /\ call'[c].pc = pc /\ call'[c].path = call[c].path
        /\ \A d \in Calls : d # c => call'[d] = call[d]
    BY CallMoves DEF Inv
  <1>2. StateInv'
    BY <1>1 DEF Inv, StateInv
  <1>3. FilesInv'
    BY <1>1 DEF Inv, FilesInv
  <1>4. RecordsInv'
    BY DEF Inv, RecordsInv, NotesInv
  <1> QED BY <1>2, <1>3, <1>4 DEF Inv

\* The same records and notes, whatever becomes of the files.
LEMMA SameRecords ==
    ASSUME RecordsInv, UNCHANGED <<letter, notes, record, reader, clashed>>
    PROVE  RecordsInv'
  BY DEF RecordsInv, NotesInv

LEMMA PushSafe == ASSUME Inv, NEW c \in Calls, Push(c) PROVE Inv'
  <1>0. /\ call[c].pc = "idle"
        /\ UNCHANGED <<letter, notes, record, reader, crashes, clashed>>
    BY DEF Push
  <1>1. PICK p \in Paths, ends \in {"pushed", "failed"} :
            \/ Goes(c, "failed") /\ UNCHANGED <<remote, covered>>
            \/ /\ remote' = [remote EXCEPT ![p] = c]
               /\ call' = [call EXCEPT ![c] = [pc |-> ends, path |-> p]]
               /\ covered' = covered \cup Sharing(c, p)
    BY DEF Push
  <1>2. CASE Goes(c, "failed") /\ UNCHANGED <<remote, covered>>
    <2>1. /\ call' \in [Calls -> CallState] /\ call'[c].pc = "failed"
          /\ \A d \in Calls : d # c => call'[d] = call[d]
      BY <1>2, CallMoves DEF Inv, CallPcs
    <2>2. StateInv'
      BY <1>0, <1>2, <2>1 DEF Inv, StateInv
    <2>3. FilesInv'
      BY <1>0, <1>2, <2>1 DEF Inv, FilesInv
    <2> QED BY <1>0, <2>2, <2>3, SameRecords DEF Inv
  <1>3. CASE /\ remote' = [remote EXCEPT ![p] = c]
             /\ call' = [call EXCEPT ![c] = [pc |-> ends, path |-> p]]
             /\ covered' = covered \cup Sharing(c, p)
    <2>1. /\ call' \in [Calls -> CallState] /\ call'[c].pc = ends /\ call'[c].path = p
          /\ \A d \in Calls : d # c => call'[d] = call[d]
      BY <1>3 DEF Inv, StateInv, CallState, CallPcs
    <2>2. /\ remote' \in [Paths -> {0} \cup Calls] /\ remote'[p] = c
          /\ \A q \in Paths : q # p => remote'[q] = remote[q]
      BY <1>3 DEF Inv, StateInv
    <2>3. covered' \subseteq Calls
      BY <1>3 DEF Inv, StateInv, Sharing
    <2>4. StateInv'
      BY <1>0, <2>1, <2>2, <2>3 DEF Inv, StateInv
    <2>5. FilesInv'
      <3> SUFFICES ASSUME NEW d \in Calls
                   PROVE  /\ call'[d].pc \in {"idle", "pushed"} => letter'[Task(d)].pc = "none"
                          /\ (call'[d].pc \notin {"idle", "failed"} /\ d \notin covered')
                                => remote'[call'[d].path] = d
        BY DEF FilesInv
      <3>1. CASE d = c
        BY <1>0, <2>1, <2>2, <3>1 DEF Inv, FilesInv
      <3>2. CASE d # c /\ call[d].path = p
        BY <1>0, <1>3, <2>1, <3>2 DEF Sharing, Inv, FilesInv
      <3>3. CASE d # c /\ call[d].path # p
        <4>1. call[d].path \in Paths
          BY DEF Inv, StateInv, CallState
        <4> QED BY <1>0, <1>3, <2>1, <2>2, <3>3, <4>1 DEF Inv, FilesInv
      <3> QED BY <3>1, <3>2, <3>3
    <2> QED BY <1>0, <2>4, <2>5, SameRecords DEF Inv
  <1> QED BY <1>1, <1>2, <1>3

LEMMA CleanupSafe == ASSUME Inv, NEW c \in Calls, Cleanup(c) PROVE Inv'
  <1> DEFINE p == call[c].path
  <1>0. /\ Goes(c, "failed") /\ covered' = covered \cup Sharing(c, p)
        /\ UNCHANGED <<letter, notes, record, reader, crashes, clashed>>
    BY DEF Cleanup
  <1>1. /\ call' \in [Calls -> CallState] /\ call'[c].pc = "failed"
        /\ \A d \in Calls : d # c => call'[d] = call[d]
    BY <1>0, CallMoves DEF Inv, CallPcs
  <1>2. /\ remote' \in [Paths -> {0} \cup Calls]
        /\ \A q \in Paths : q # p => remote'[q] = remote[q]
    BY DEF Cleanup, Pushed, Inv, StateInv
  <1>3. StateInv'
    BY <1>0, <1>1, <1>2 DEF Inv, StateInv, Sharing
  <1>4. FilesInv'
    <2> SUFFICES ASSUME NEW d \in Calls
                 PROVE  /\ call'[d].pc \in {"idle", "pushed"} => letter'[Task(d)].pc = "none"
                        /\ (call'[d].pc \notin {"idle", "failed"} /\ d \notin covered')
                              => remote'[call'[d].path] = d
      BY DEF FilesInv
    <2>1. CASE d = c
      BY <1>1, <2>1
    <2>2. CASE d # c /\ call[d].path = p
      BY <1>0, <1>1, <2>2 DEF Sharing, Inv, FilesInv
    <2>3. CASE d # c /\ call[d].path # p
      <3>1. call[d].path \in Paths
        BY DEF Inv, StateInv, CallState
      <3> QED BY <1>0, <1>1, <1>2, <2>3, <3>1 DEF Inv, FilesInv
    <2> QED BY <2>1, <2>2, <2>3
  <1> QED BY <1>0, <1>3, <1>4, SameRecords DEF Inv

-----------------------------------------------------------------------------
(* Letters.                                                                *)

\* A letter moves on that nobody relies on, and not to where its note is.
LEMMA LetterStep ==
    ASSUME Inv, NEW l \in Letters, NEW pc \in LetterPcs, Moves(l, pc),
           pc # "named", letter[l].pc # "listed",
           (l \in Reports /\ pc \in {"filed", "listed"}) => letter[l].pc = "filed",
           UNCHANGED <<notes, record, reader, clashed>>
    PROVE  letter' \in [Letters -> LetterState] /\ RecordsInv'
  <1>1. /\ letter' \in [Letters -> LetterState] /\ letter'[l].pc = pc
        /\ letter'[l].name = letter[l].name
        /\ \A k \in Letters : k # l => letter'[k] = letter[k]
    BY LetterMoves DEF Inv
  <1>2. \A k \in Letters : letter[k].pc = "listed" => letter'[k] = letter[k]
    BY <1>1
  <1>3. \A r \in Readers : \A k \in reader'[r].inbox : letter'[k].pc = "listed"
    <2>1. \A r \in Readers : reader[r].inbox \subseteq Letters
      BY LetterFacts DEF Inv, StateInv, ReaderState
    <2> QED BY <1>2, <2>1 DEF Inv, RecordsInv
  <1>4. ASSUME ~clashed
        PROVE  NotesInv'
    <2>1. NotesInv
      BY <1>4 DEF Inv, RecordsInv
    <2> QED BY <1>1, <2>1, LetterFacts DEF NotesInv
  <1>5. ASSUME ~clashed, NEW c \in Calls, record[c].state \in Answers
        PROVE  /\ record[c].by \in Reports /\ c \in About(record[c].by)
               /\ letter'[record[c].by].pc = "listed"
               /\ record[c].state = ReportState(record[c].by)
    BY <1>2, <1>5, LetterFacts DEF Inv, RecordsInv
  <1> QED BY <1>1, <1>3, <1>4, <1>5 DEF RecordsInv

\* The task of a call moves on, or a report does.
LEMMA LetterStepFiles ==
    ASSUME Inv, NEW l \in Letters, NEW pc \in LetterPcs, Moves(l, pc),
           letter[l].pc # "none" \/ l \in Reports, UNCHANGED <<call, remote, covered>>
    PROVE  FilesInv'
  <1>1. \A k \in Letters : k # l => letter'[k] = letter[k]
    BY LetterMoves DEF Inv
  <1> QED BY <1>1, LetterFacts DEF Inv, FilesInv

LEMMA TellSafe == ASSUME Inv, NEW c \in Calls, Tell(c) PROVE Inv'
  <1>0. /\ call[c].pc = "pushed" /\ Goes(c, "telling") /\ Moves(Task(c), "sent")
        /\ UNCHANGED <<remote, notes, record, reader, crashes, covered, clashed>>
    BY DEF Tell, SendInstruction
  <1>1. /\ call' \in [Calls -> CallState] /\ call'[c].pc = "telling"
        /\ call'[c].path = call[c].path /\ \A d \in Calls : d # c => call'[d] = call[d]
    BY <1>0, CallMoves DEF Inv, CallPcs
  <1>2. Task(c) \in Letters /\ Task(c) \notin Reports /\ letter[Task(c)].pc = "none"
    BY <1>0, LetterFacts DEF Inv, FilesInv
  <1>3. letter' \in [Letters -> LetterState] /\ RecordsInv'
    BY <1>0, <1>2, LetterStep DEF LetterPcs
  <1>4. \A k \in Letters : k # Task(c) => letter'[k] = letter[k]
    BY <1>0, <1>2, LetterMoves DEF Inv, LetterPcs
  <1>5. FilesInv'
    BY <1>0, <1>1, <1>4, LetterFacts DEF Inv, FilesInv
  <1>6. StateInv'
    BY <1>0, <1>1, <1>3 DEF Inv, StateInv
  <1> QED BY <1>3, <1>5, <1>6 DEF Inv

LEMMA LetterGoesOn ==
    ASSUME Inv, NEW l \in Letters, NEW pc \in LetterPcs, Moves(l, pc),
           pc # "named", letter[l].pc # "listed", letter[l].pc # "none" \/ l \in Reports,
           (l \in Reports /\ pc \in {"filed", "listed"}) => letter[l].pc = "filed",
           UNCHANGED <<call, remote, notes, record, reader, crashes, covered, clashed>>
    PROVE  Inv'
  <1>1. letter' \in [Letters -> LetterState] /\ RecordsInv'
    BY LetterStep
  <1>2. FilesInv'
    BY LetterStepFiles
  <1>3. StateInv'
    BY <1>1 DEF Inv, StateInv
  <1> QED BY <1>1, <1>2, <1>3 DEF Inv

LEMMA NameNoteSafe == ASSUME Inv, NEW l \in Reports, NameNote(l) PROVE Inv'
  <1>0. /\ letter[l].pc = "sent" /\ l \in Letters
        /\ UNCHANGED <<call, remote, notes, record, reader, crashes, covered>>
    BY LetterFacts DEF NameNote
  <1>1. CASE Moves(l, "refused") /\ UNCHANGED clashed
    BY <1>0, <1>1, LetterGoesOn DEF LetterPcs
  <1>2. ASSUME NEW i \in UniquePath,
               letter' = [letter EXCEPT ![l].pc = "named", ![l].name = i],
               clashed' = (clashed \/ \E k \in Reports \ {l} :
                               letter[k].pc = "named" /\ letter[k].name = i)
        PROVE  Inv'
    <2>1. i \in 1 .. MaxNames /\ notes[i] = NoLetter
      BY DEF UniquePath
    <2>2. letter[l] \in LetterState
      BY <1>0 DEF Inv, StateInv
    <2>3. /\ letter' \in [Letters -> LetterState] /\ letter'[l].pc = "named"
          /\ letter'[l].name = i /\ \A k \in Letters : k # l => letter'[k] = letter[k]
      BY <1>0, <1>2, <2>1, <2>2 DEF Inv, StateInv, LetterState, LetterPcs
    <2>4. clashed' \in BOOLEAN
      BY <1>2, Zenon DEF Inv, StateInv
    <2>5. StateInv'
      BY <1>0, <2>3, <2>4 DEF Inv, StateInv
    <2>6. FilesInv'
      BY <1>0, <2>3, LetterFacts DEF Inv, FilesInv
    <2>7. \A r \in Readers : \A k \in reader'[r].inbox : letter'[k].pc = "listed"
      <3>1. \A r \in Readers : reader[r].inbox \subseteq Letters
        BY LetterFacts DEF Inv, StateInv, ReaderState
      <3> QED BY <1>0, <2>3, <3>1 DEF Inv, RecordsInv
    <2>8. ASSUME ~clashed'
          PROVE  NotesInv'
      <3>1. NotesInv /\ ~\E k \in Reports \ {l} : letter[k].pc = "named" /\ letter[k].name = i
        BY <1>2, <2>8 DEF Inv, RecordsInv
      <3> QED BY <1>0, <2>1, <2>3, <3>1, LetterFacts DEF NotesInv
    <2>9. ASSUME ~clashed', NEW c \in Calls, record[c].state \in Answers
          PROVE  /\ record[c].by \in Reports /\ c \in About(record[c].by)
                 /\ letter'[record[c].by].pc = "listed"
                 /\ record[c].state = ReportState(record[c].by)
      BY <1>0, <1>2, <2>3, <2>9, LetterFacts DEF Inv, RecordsInv
    <2>10. RecordsInv'
      BY <1>0, <2>7, <2>8, <2>9 DEF RecordsInv
    <2> QED BY <2>5, <2>6, <2>10 DEF Inv
  <1> QED BY <1>1, <1>2 DEF NameNote

LEMMA WriteNoteSafe == ASSUME Inv, NEW l \in Reports, WriteNote(l) PROVE Inv'
  <1> DEFINE n == letter[l].name
  <1>0. /\ letter[l].pc = "named" /\ l \in Letters /\ Moves(l, "filed")
        /\ notes' = [notes EXCEPT ![n] = l]
        /\ UNCHANGED <<call, remote, record, reader, crashes, covered, clashed>>
    BY LetterFacts DEF WriteNote
  <1>1. /\ letter' \in [Letters -> LetterState] /\ letter'[l].pc = "filed"
        /\ letter'[l].name = n /\ \A k \in Letters : k # l => letter'[k] = letter[k]
    BY <1>0, LetterMoves DEF Inv, LetterPcs
  <1>2. n \in 1 .. MaxNames
    BY <1>0 DEF Inv, StateInv, LetterState
  <1>3. /\ notes' \in [1 .. MaxNames -> Reports \cup {NoLetter, Older}] /\ notes'[n] = l
        /\ \A i \in 1 .. MaxNames : i # n => notes'[i] = notes[i]
    BY <1>0, <1>2 DEF Inv, StateInv
  <1>4. StateInv'
    BY <1>0, <1>1, <1>3 DEF Inv, StateInv
  <1>5. FilesInv'
    BY <1>0, <1>1, LetterFacts DEF Inv, FilesInv
  <1>6. \A r \in Readers : \A k \in reader'[r].inbox : letter'[k].pc = "listed"
    <2>1. \A r \in Readers : reader[r].inbox \subseteq Letters
      BY LetterFacts DEF Inv, StateInv, ReaderState
    <2> QED BY <1>0, <1>1, <2>1 DEF Inv, RecordsInv
  <1>7. ASSUME ~clashed
        PROVE  NotesInv'
    <2>1. NotesInv
      BY <1>7 DEF Inv, RecordsInv
    <2>2. ASSUME NEW k \in Reports, k # l, letter[k].pc \in {"named", "filed", "listed"}
          PROVE  letter[k].name # n /\ letter[k].name \in 1 .. MaxNames
      <3>1. letter[k].name \in 1 .. MaxNames
        BY LetterFacts DEF Inv, StateInv, LetterState
      <3>2. notes[n] = NoLetter /\ k # NoLetter
        BY <1>0, <2>1, LetterFacts DEF NotesInv
      <3>3. letter[k].name # n
        BY <1>0, <2>1, <2>2, <3>2 DEF NotesInv
      <3> QED BY <3>1, <3>3
    <2>3. ASSUME NEW k \in Reports, letter'[k].pc = "named"
          PROVE  notes'[letter'[k].name] = NoLetter /\ k # l /\ letter'[k] = letter[k]
      <3>1. k # l /\ letter'[k] = letter[k]
        BY <1>1, <2>3, LetterFacts
      <3> QED BY <1>3, <2>1, <2>2, <2>3, <3>1 DEF NotesInv
    <2>4. ASSUME NEW k \in Reports, letter'[k].pc \in {"filed", "listed"}
          PROVE  notes'[letter'[k].name] = k
      <3>1. CASE k = l
        BY <1>1, <1>3, <3>1
      <3>2. CASE k # l
        <4>1. letter'[k] = letter[k]
          BY <1>1, <3>2, LetterFacts
        <4> QED BY <1>3, <2>1, <2>2, <2>4, <3>2, <4>1 DEF NotesInv
      <3> QED BY <3>1, <3>2
    <2> QED BY <2>1, <2>3, <2>4 DEF NotesInv
  <1>8. ASSUME ~clashed, NEW c \in Calls, record[c].state \in Answers
        PROVE  /\ record[c].by \in Reports /\ c \in About(record[c].by)
               /\ letter'[record[c].by].pc = "listed"
               /\ record[c].state = ReportState(record[c].by)
    BY <1>0, <1>1, <1>8, LetterFacts DEF Inv, RecordsInv
  <1>9. RecordsInv'
    BY <1>0, <1>6, <1>7, <1>8 DEF RecordsInv
  <1> QED BY <1>4, <1>5, <1>9 DEF Inv

\* A restart loses what is under way, and nothing that is listed.
LEMMA CrashSafe == ASSUME Inv, NEW h \in Hosts, Crash(h) PROVE Inv'
  <1>0. /\ crashes' = crashes + 1 /\ crashes < MaxCrashes
        /\ UNCHANGED <<call, remote, notes, record, reader, covered, clashed>>
    BY DEF Crash
  <1>1. ASSUME NEW l \in Letters
        PROVE  LET y == IF Host(l) = h /\ letter[l].pc \in {"sent", "named", "filed"}
                        THEN [letter[l] EXCEPT !.pc = "lost"] ELSE letter[l]
               IN  /\ y \in LetterState
                   /\ y.pc = "lost" \/ y = letter[l]
                   /\ letter[l].pc \in {"none", "listed"} => y = letter[l]
    <2>1. letter[l] \in LetterState
      BY DEF Inv, StateInv
    <2> QED BY <2>1 DEF LetterState, LetterPcs
  <1>2. /\ letter' \in [Letters -> LetterState]
        /\ \A l \in Letters : letter'[l].pc = "lost" \/ letter'[l] = letter[l]
        /\ \A l \in Letters : letter[l].pc \in {"none", "listed"} => letter'[l] = letter[l]
    BY <1>1 DEF Crash
  <1>3. crashes' \in 0 .. MaxCrashes
    BY <1>0, HandoffAssumption DEF Inv, StateInv
  <1>4. StateInv'
    BY <1>0, <1>2, <1>3 DEF Inv, StateInv
  <1>5. FilesInv'
    BY <1>0, <1>2, LetterFacts DEF Inv, FilesInv
  <1>6. \A r \in Readers : \A k \in reader'[r].inbox : letter'[k].pc = "listed"
    <2>1. \A r \in Readers : reader[r].inbox \subseteq Letters
      BY LetterFacts DEF Inv, StateInv, ReaderState
    <2> QED BY <1>0, <1>2, <2>1 DEF Inv, RecordsInv
  <1>7. ASSUME ~clashed
        PROVE  NotesInv'
    BY <1>0, <1>2, <1>7, LetterFacts DEF NotesInv, Inv, RecordsInv
  <1>8. ASSUME ~clashed, NEW c \in Calls, record[c].state \in Answers
        PROVE  /\ record[c].by \in Reports /\ c \in About(record[c].by)
               /\ letter'[record[c].by].pc = "listed"
               /\ record[c].state = ReportState(record[c].by)
    BY <1>0, <1>2, <1>8, LetterFacts DEF Inv, RecordsInv
  <1>9. RecordsInv'
    BY <1>0, <1>6, <1>7, <1>8 DEF RecordsInv
  <1> QED BY <1>4, <1>5, <1>9 DEF Inv

-----------------------------------------------------------------------------
(* Readers.                                                                *)

\* A reader that takes on what there is, or stops.
LEMMA ReaderSafe ==
    ASSUME Inv, NEW r \in Readers, reader' \in [Readers -> ReaderState],
           \A q \in Readers : q # r => reader'[q] = reader[q],
           reader'[r].pc \in {"listing", "matching"} => reader'[r].calls # {},
           \A l \in reader'[r].inbox : letter[l].pc = "listed",
           UNCHANGED <<call, remote, letter, notes, record, crashes, covered, clashed>>
    PROVE  Inv'
  <1>1. StateInv'
    BY DEF Inv, StateInv
  <1>2. FilesInv'
    BY DEF Inv, FilesInv
  <1>3. RecordsInv'
    BY DEF Inv, RecordsInv, NotesInv
  <1> QED BY <1>1, <1>2, <1>3 DEF Inv

LEMMA ReadCallsSafe == ASSUME Inv, NEW r \in Readers, ReadCalls(r) PROVE Inv'
  <1> DEFINE open == {c \in Calls : record[c].state = "sent"}
  <1>0. /\ open # {} /\ reader' = [reader EXCEPT ![r].pc = "listing", ![r].calls = open]
        /\ UNCHANGED <<call, remote, letter, notes, record, crashes, covered, clashed>>
    BY DEF ReadCalls
  <1>1. open \subseteq Calls /\ reader[r] \in ReaderState
    BY DEF Inv, StateInv
  <1> HIDE DEF open
  <1>2. /\ reader' \in [Readers -> ReaderState] /\ reader'[r].calls = open
        /\ reader'[r].inbox = reader[r].inbox
        /\ \A q \in Readers : q # r => reader'[q] = reader[q]
    BY <1>0, <1>1 DEF Inv, StateInv, ReaderState
  <1>3. \A l \in reader'[r].inbox : letter[l].pc = "listed"
    BY <1>2 DEF Inv, RecordsInv
  <1> QED BY <1>0, <1>2, <1>3, ReaderSafe

LEMMA ReadInboxSafe == ASSUME Inv, NEW r \in Readers, ReadInbox(r) PROVE Inv'
  <1> DEFINE inbox == {l \in Reports : letter[l].pc = "listed"}
  <1>0. /\ reader[r].pc = "listing"
        /\ reader' = [reader EXCEPT ![r].pc = "matching", ![r].inbox = inbox]
        /\ UNCHANGED <<call, remote, letter, notes, record, crashes, covered, clashed>>
    BY DEF ReadInbox
  <1>1. inbox \subseteq Reports /\ reader[r] \in ReaderState /\ reader[r].calls # {}
        /\ \A l \in inbox : letter[l].pc = "listed"
    BY <1>0 DEF Inv, StateInv
  <1> HIDE DEF inbox
  <1>2. /\ reader' \in [Readers -> ReaderState] /\ reader'[r].calls = reader[r].calls
        /\ reader'[r].inbox = inbox /\ \A q \in Readers : q # r => reader'[q] = reader[q]
    BY <1>0, <1>1 DEF Inv, StateInv, ReaderState
  <1> QED BY <1>0, <1>1, <1>2, ReaderSafe

LEMMA WaitEndsSafe == ASSUME Inv, NEW r \in Readers, WaitEnds(r) PROVE Inv'
  <1>0. /\ reader' = [reader EXCEPT ![r].pc = "ended"]
        /\ UNCHANGED <<call, remote, letter, notes, record, crashes, covered, clashed>>
    BY DEF WaitEnds
  <1>1. reader[r] \in ReaderState
    BY DEF Inv, StateInv
  <1>2. /\ reader' \in [Readers -> ReaderState] /\ reader'[r].pc = "ended"
        /\ reader'[r].inbox = reader[r].inbox
        /\ \A q \in Readers : q # r => reader'[q] = reader[q]
    BY <1>0, <1>1 DEF Inv, StateInv, ReaderState
  <1>3. \A l \in reader'[r].inbox : letter[l].pc = "listed"
    BY <1>2 DEF Inv, RecordsInv
  <1> QED BY <1>0, <1>2, <1>3, ReaderSafe

LEMMA MatchCallSafe == ASSUME Inv, NEW r \in Readers, MatchCall(r) PROVE Inv'
  <1> DEFINE c == CHOOSE c \in reader[r].calls : \A d \in reader[r].calls : c <= d
             rest == reader[r].calls \ {c}
  <1>1. c \in reader[r].calls /\ c \in Calls /\ reader[r] \in ReaderState
    <2>1. reader[r].calls \in SUBSET Calls /\ reader[r].calls # {} /\ reader[r] \in ReaderState
      BY DEF MatchCall, Inv, StateInv, ReaderState
    <2>2. reader[r].calls \in SUBSET Nat
      BY <2>1, HandoffAssumption
    <2>3. \E x \in reader[r].calls : \A d \in reader[r].calls : x <= d
      BY <2>1, <2>2, SmallestExists
    <2> QED BY <2>1, <2>3
  <1>2. /\ \/ UNCHANGED record
           \/ \E l \in Matching(r, c) :
                 record' = [record EXCEPT ![c] = [state |-> ReportState(l), by |-> l]]
        /\ reader' = [reader EXCEPT ![r].calls = rest,
                            ![r].pc = IF rest = {} THEN "idle" ELSE "matching",
                            ![r].inbox = IF rest = {} THEN {} ELSE @]
        /\ UNCHANGED <<call, remote, letter, notes, crashes, covered, clashed>>
    BY DEF MatchCall
  <1> HIDE DEF c
  <1>3. /\ reader' \in [Readers -> ReaderState]
        /\ \A q \in Readers : q # r => reader'[q] = reader[q]
        /\ reader'[r].pc \in {"listing", "matching"} => reader'[r].calls # {}
        /\ reader'[r].inbox \subseteq reader[r].inbox
    <2>1. CASE rest = {}
      BY <1>1, <1>2, <2>1 DEF Inv, StateInv, ReaderState
    <2>2. CASE rest # {}
      BY <1>1, <1>2, <2>2 DEF Inv, StateInv, ReaderState
    <2> QED BY <2>1, <2>2
  <1>4. ASSUME NEW l \in Matching(r, c)
        PROVE  l \in Reports /\ letter[l].pc = "listed" /\ (~clashed => c \in About(l))
               /\ ReportState(l) \in Answers
    <2>1. l \in reader[r].inbox /\ (notes[letter[l].name][1] = c \/ c \in Named[l])
      BY DEF Matching, ParentOf
    <2>2. l \in Reports /\ letter[l].pc = "listed"
      BY <1>1, <2>1 DEF ReaderState, Inv, RecordsInv
    <2>3. ~clashed => notes[letter[l].name] = l
      BY <2>2 DEF Inv, RecordsInv, NotesInv
    <2>4. ~clashed => c \in About(l)
      BY <1>1, <2>1, <2>3 DEF About
    <2> QED BY <2>2, <2>4 DEF ReportState, Answers
  <1>5. record' \in [Calls -> RecordState]
    <2>1. ASSUME NEW l \in Matching(r, c)
          PROVE  [state |-> ReportState(l), by |-> l] \in RecordState
      BY <1>4 DEF RecordState
    <2> QED BY <1>1, <1>2, <2>1 DEF Inv, StateInv
  <1>6. StateInv'
    BY <1>2, <1>3, <1>5 DEF Inv, StateInv
  <1>7. FilesInv'
    BY <1>2 DEF Inv, FilesInv
  <1>8. \A q \in Readers : \A k \in reader'[q].inbox : letter'[k].pc = "listed"
    BY <1>2, <1>3, ZenonT(60) DEF Inv, RecordsInv
  <1>9. ASSUME ~clashed, NEW d \in Calls, record'[d].state \in Answers
        PROVE  /\ record'[d].by \in Reports /\ d \in About(record'[d].by)
               /\ letter[record'[d].by].pc = "listed"
               /\ record'[d].state = ReportState(record'[d].by)
    <2>1. CASE record'[d] = record[d]
      BY <1>9, <2>1 DEF Inv, RecordsInv
    <2>2. CASE d = c /\ \E l \in Matching(r, c) : record'[d] = [state |-> ReportState(l), by |-> l]
      BY <1>4, <1>9, <2>2
    <2>3. record'[d] = record[d]
          \/ (d = c /\ \E l \in Matching(r, c) : record'[d] = [state |-> ReportState(l), by |-> l])
      BY <1>1, <1>2 DEF Inv, StateInv
    <2> QED BY <2>1, <2>2, <2>3
  <1>10. RecordsInv'
    <2>1. ~clashed => NotesInv'
      BY <1>2 DEF Inv, RecordsInv, NotesInv
    <2> QED BY <1>2, <1>8, <1>9, <2>1 DEF RecordsInv
  <1> QED BY <1>6, <1>7, <1>10 DEF Inv

\* The record of a call is saved when the receiver has answered.
LEMMA SaveCallRecordSafe == ASSUME Inv, NEW c \in Calls, SaveCallRecord(c) PROVE Inv'
  <1>0. /\ call[c].pc = "answered" /\ Goes(c, "recorded")
        /\ record' = [record EXCEPT ![c].state = "sent"]
        /\ UNCHANGED <<remote, letter, notes, reader, crashes, covered, clashed>>
    BY DEF SaveCallRecord
  <1>1. /\ call' \in [Calls -> CallState] /\ call'[c].pc = "recorded"
        /\ call'[c].path = call[c].path /\ \A d \in Calls : d # c => call'[d] = call[d]
    BY <1>0, CallMoves DEF Inv, CallPcs
  <1>2. /\ record' \in [Calls -> RecordState] /\ record'[c].state = "sent"
        /\ \A d \in Calls : d # c => record'[d] = record[d]
    BY <1>0 DEF Inv, StateInv, RecordState
  <1>3. StateInv'
    BY <1>0, <1>1, <1>2 DEF Inv, StateInv
  <1>4. FilesInv'
    BY <1>0, <1>1 DEF Inv, FilesInv
  <1>5. RecordsInv'
    <2>1. "sent" \notin Answers
      BY DEF Answers
    <2> QED BY <1>0, <1>2, <2>1 DEF Inv, RecordsInv, NotesInv
  <1> QED BY <1>3, <1>4, <1>5 DEF Inv

LEMMA NextSafe == Inv /\ [Next]_vars => Inv'
  <1> SUFFICES ASSUME Inv, [Next]_vars PROVE Inv'
    OBVIOUS
  <1>1. CASE UNCHANGED vars
    <2> USE <1>1 DEF vars
    <2>1. StateInv'
      BY DEF Inv, StateInv
    <2>2. FilesInv'
      BY DEF Inv, FilesInv
    <2> QED BY <2>1, <2>2, SameRecords DEF Inv
  <1>2. ASSUME NEW c \in Calls, TellFails(c) \/ Answered(c) \/ CommandDies(c)
        PROVE  Inv'
    BY <1>2, CallGoesOn DEF TellFails, Answered, CommandDies, CallPcs
  <1>3. ASSUME NEW c \in Calls, FileTask(c)
        PROVE  Inv'
    BY <1>3, LetterGoesOn, LetterFacts DEF FileTask, LetterPcs
  <1>4. ASSUME NEW l \in Reports, Report(l)
        PROVE  Inv'
    BY <1>4, LetterGoesOn, LetterFacts DEF Report, SendInstruction, LetterPcs
  <1>5. ASSUME NEW l \in Letters, ListLetter(l)
        PROVE  Inv'
    BY <1>5, LetterGoesOn DEF ListLetter, LetterPcs
  <1>6. ASSUME NEW r \in Readers, Refreshes(r)
        PROVE  Inv'
    BY <1>6, ReadCallsSafe, ReadInboxSafe, MatchCallSafe DEF Refreshes
  <1> QED BY <1>1, <1>2, <1>3, <1>4, <1>5, <1>6, PushSafe, TellSafe, CleanupSafe,
             SaveCallRecordSafe, NameNoteSafe, WriteNoteSafe, WaitEndsSafe, CrashSafe DEF Next

THEOREM Invariance == Spec => []Inv
  BY InitSafe, NextSafe, PTL DEF Spec

\* Every variable of a handoff keeps its type; no note gets a number that is not tried.
THEOREM TypeInvariant == Spec => []TypeOK
  <1>1. Inv => TypeOK
    BY DEF Inv, StateInv, TypeOK, CallState, CallPcs, LetterState, LetterPcs, RecordState,
           ReaderState
  <1> QED BY <1>1, Invariance, PTL

\* A task in the inbox of the receiver has the files it was sent with, unless its
\* own sender took it for failed or another handoff took the path.
THEOREM FilesTheorem == Spec => []TaskHasItsFiles
  <1>1. Inv => TaskHasItsFiles
    BY DEF Inv, FilesInv, TaskHasItsFiles
  <1> QED BY <1>1, Invariance, PTL

\* What a call record says was said by a report in the inbox that names that call in
\* its note or in its text, unless two notes got one name.
THEOREM AnswersTheorem == Spec => []AnswersAreOfTheCall
  <1>1. Inv => AnswersAreOfTheCall
    BY DEF Inv, RecordsInv, AnswersAreOfTheCall
  <1> QED BY <1>1, Invariance, PTL
=============================================================================
