-------------------------- MODULE ResumableDownload --------------------------
(***************************************************************************)
(* Downloads of one remote file to one local path: the loop that           *)
(* run_download_job, headless.pull and transfer_pull_items share, split at *)
(* its file system calls and its requests, and the download handler of     *)
(* slave.py, while the remote file is edited.                              *)
(*                                                                         *)
(* The partial file is found from the local path alone and, unlike an      *)
(* upload, a download ends without any comparison of digests: only the     *)
(* size of the partial is compared with the size in the plan.  Contents    *)
(* are sequences of units, the block a chunk is measured in.               *)
(***************************************************************************)
EXTENDS Naturals, Sequences

CONSTANTS Jobs,             \* downloads to this path (threads and processes)
          Unit,             \* blocks of file content
          NoFile,
          Versions,         \* contents the remote file may have
          Overwrite,        \* the job's overwrite flag
          ChunkLen,         \* CHUNK_SIZE, in units
          MaxAttempts,      \* attempts of one call in read_with_retries
          InitialTargets, InitialPartials,
          Operations        \* of "edit", "remove", "cleanup", "kill": those that happen

Content == Seq(Unit)

ASSUME DownloadAssumption ==
    /\ Versions \subseteq Content /\ Versions # {}
    /\ Overwrite \in [Jobs -> BOOLEAN]
    /\ ChunkLen \in Nat \ {0} /\ MaxAttempts \in Nat \ {0}
    /\ NoFile \notin Content
    /\ InitialTargets \subseteq Content \cup {NoFile}
    /\ InitialPartials \subseteq Content \cup {NoFile}

VARIABLES remote,   \* the remote file
          target,   \* the local file
          part,     \* its partial file
          job,      \* state of each download
          shared    \* history: a download has run beside another one, or a cleanup

vars == <<remote, target, part, job, shared>>

-----------------------------------------------------------------------------
Ended == {"done", "error", "killed"}
Steps == {"begin", "discard", "open", "ask", "serve", "receive", "check", "exists", "replace"}

\* size: the size in the plan; off: current_offset; left: attempts of this call
\* left; len: the length the server has granted; chunk: what it has read; file:
\* what the open descriptor refers to.  History: alone, while no other download
\* to the path, and no cleanup, has run beside this one; steady, while the remote file has not
\* changed since the plan; genuine, when the partial resumed was a prefix of it.
JobState == [pc : {"idle"} \cup Steps \cup Ended, size : Nat, off : Nat, left : Nat, len : Nat,
             chunk : Content, file : {"none", "part", "target", "gone"},
             alone : BOOLEAN, steady : BOOLEAN, genuine : BOOLEAN]
IdleJob == [pc |-> "idle", size |-> 0, off |-> 0, left |-> 0, len |-> 0, chunk |-> <<>>,
            file |-> "none", alone |-> FALSE, steady |-> FALSE, genuine |-> FALSE]

TypeOK ==
    /\ remote \in Versions \cup {NoFile}
    /\ target \in Content \cup {NoFile}
    /\ part \in Content \cup {NoFile}
    /\ job \in [Jobs -> JobState]
    /\ shared \in BOOLEAN
    /\ \A j \in Jobs : job[j].off <= job[j].size /\ job[j].left <= MaxAttempts

Init ==
    /\ remote \in Versions
    /\ target \in InitialTargets
    /\ part \in InitialPartials
    /\ job = [j \in Jobs |-> IdleJob]
    /\ shared = FALSE

-----------------------------------------------------------------------------
Least(a, b) == IF a < b THEN a ELSE b
Running(j) == job[j].pc \in Steps
Alone(j) == \A i \in Jobs \ {j} : ~Running(i)
Replaceable(j) == target = NoFile \/ Overwrite[j]
MutFromStart == 0
PartSize == IF part = NoFile THEN 0 ELSE Len(part)

Goto(j, pc) == job' = [job EXCEPT ![j].pc = pc]
Stop(j, pc) == job' = [job EXCEPT ![j] = [IdleJob EXCEPT !.pc = pc]]
Fail(j) == Stop(j, "error")

\* The plan is made: the size is that of the remote file now.
Plan(j) ==
    /\ job[j].pc = "idle"
    /\ IF remote = NoFile THEN Fail(j)
       ELSE IF ~Replaceable(j) THEN Fail(j)
       ELSE job' = [i \in Jobs |->
              IF i = j THEN [IdleJob EXCEPT !.pc = "begin", !.size = Len(remote),
                                            !.alone = Alone(j), !.steady = TRUE]
                       ELSE IF Running(i) THEN [job[i] EXCEPT !.alone = FALSE] ELSE job[i]]
    /\ shared' = (shared \/ (~Alone(j) /\ job'[j].pc = "begin"))
    /\ UNCHANGED <<remote, target, part>>

MutTooLongKept(j) == FALSE
TooLong(j) == PartSize > job[j].size

Begin(j) ==
    /\ job[j].pc = "begin"
    /\ IF ~Replaceable(j) THEN Fail(j)
       ELSE IF TooLong(j) THEN Goto(j, "discard")
       ELSE job' = [job EXCEPT ![j].pc = "open", ![j].off = PartSize]
    /\ UNCHANGED <<remote, target, part, shared>>

\* Descriptors open on a partial that is unlinked, or renamed to the target.
Detached(js) == [i \in Jobs |-> IF js[i].file = "part" THEN [js[i] EXCEPT !.file = "gone"]
                                                       ELSE js[i]]
Renamed(js) == [i \in Jobs |->
    [js[i] EXCEPT !.file = CASE js[i].file = "part" -> "target"
                             [] js[i].file = "target" -> "gone"
                             [] OTHER -> js[i].file]]

DiscardPart(j) ==
    /\ job[j].pc = "discard"
    /\ IF part = NoFile THEN Fail(j)
                        ELSE job' = [Detached(job) EXCEPT ![j].pc = "open", ![j].off = 0]
    /\ part' = NoFile
    /\ UNCHANGED <<remote, target, shared>>

IsPrefixOf(s, t) == Len(s) <= Len(t) /\ s = SubSeq(t, 1, Len(s))

\* After off units: the next chunk is asked for, or the loop ends.
Fetch(j, off, js) ==
    job' = [js EXCEPT ![j] = [@ EXCEPT !.off = off, !.left = MaxAttempts,
                                       !.len = 0, !.chunk = <<>>,
                                       !.pc = IF off < job[j].size THEN "ask" ELSE "check"]]

\* open("ab") creates the partial if it is missing.
OpenPart(j) ==
    /\ job[j].pc = "open"
    /\ part' = IF part = NoFile THEN <<>> ELSE part
    /\ Fetch(j, job[j].off,
             [job EXCEPT ![j].file = "part",
                         ![j].genuine = remote # NoFile /\ IsPrefixOf(part', remote)])
    /\ UNCHANGED <<remote, target, shared>>

-----------------------------------------------------------------------------
(* One call of download_chunk, with its retries, and its handler.          *)

\* handle_download takes the size of the file, and grants a length.
ServeRange(j) ==
    /\ job[j].pc = "ask"
    /\ IF remote = NoFile THEN Fail(j)
       ELSE IF job[j].off > Len(remote) THEN Fail(j)
       ELSE job' = [job EXCEPT
              ![j].pc = "serve", ![j].left = @ - 1,
              ![j].len = Least(Least(ChunkLen, job[j].size - job[j].off),
                               Len(remote) - job[j].off)]
    /\ UNCHANGED <<remote, target, part, shared>>

MutNoSeek(off, len) == SubSeq(remote, 1, Least(len, Len(remote)))
ReadRange(off, len) == SubSeq(remote, off + 1, Least(off + len, Len(remote)))

\* Then it opens the file and reads, less if the file has become shorter.
ServeRead(j) ==
    /\ job[j].pc = "serve"
    /\ IF remote = NoFile THEN Fail(j)
       ELSE job' = [job EXCEPT
              ![j].pc = "receive",
              ![j].chunk = ReadRange(job[j].off, job[j].len)]
    /\ UNCHANGED <<remote, target, part, shared>>

\* The attempt could not connect, or had no answer in time.
AttemptLost(j) ==
    /\ job[j].pc \in {"ask", "serve", "receive"}
    /\ LET left == IF job[j].pc = "ask" THEN job[j].left - 1 ELSE job[j].left IN
       IF left = 0 THEN Fail(j)
       ELSE job' = [job EXCEPT ![j] = [@ EXCEPT !.pc = "ask", !.left = left,
                                                !.len = 0, !.chunk = <<>>]]
    /\ UNCHANGED <<remote, target, part, shared>>

\* The connection broke inside the answer: not one of the retried exceptions.
Disconnected(j) ==
    /\ job[j].pc \in {"serve", "receive"}
    /\ Fail(j)
    /\ UNCHANGED <<remote, target, part, shared>>

Write(j, units) ==
    /\ part' = IF job[j].file = "part" THEN part \o units ELSE part
    /\ target' = IF job[j].file = "target" THEN target \o units ELSE target

MutEmptyAccepted(j) == FALSE
EmptyChunk(j) == job[j].chunk = <<>>

ReceiveChunk(j) ==
    /\ job[j].pc = "receive"
    /\ IF EmptyChunk(j)
       THEN Fail(j) /\ UNCHANGED <<target, part>>
       ELSE Write(j, job[j].chunk) /\ Fetch(j, job[j].off + Len(job[j].chunk), job)
    /\ UNCHANGED <<remote, shared>>

-----------------------------------------------------------------------------
(* The end of the loop.                                                    *)

WrongSize(j) == Len(part) # job[j].size

\* The partial is closed; it is kept when its size is wrong.
CheckSize(j) ==
    /\ job[j].pc = "check"
    /\ IF part = NoFile THEN Fail(j)
       ELSE IF WrongSize(j) THEN Fail(j)
       ELSE job' = [job EXCEPT ![j].pc = "exists", ![j].file = "none"]
    /\ UNCHANGED <<remote, target, part, shared>>

CheckExists(j) ==
    /\ job[j].pc = "exists"
    /\ IF Replaceable(j) THEN Goto(j, "replace") ELSE Fail(j)
    /\ UNCHANGED <<remote, target, part, shared>>

ReplaceTarget(j) ==
    /\ job[j].pc = "replace"
    /\ IF part = NoFile
       THEN Fail(j) /\ UNCHANGED <<target, part>>
       ELSE /\ target' = part
            /\ part' = NoFile
            /\ job' = [Renamed(job) EXCEPT ![j] = [IdleJob EXCEPT !.pc = "done"]]
    /\ UNCHANGED <<remote, shared>>

-----------------------------------------------------------------------------
(* What else happens.                                                      *)

\* The process is killed, or the job cancelled, possibly while it writes.
Kill(j) ==
    /\ "kill" \in Operations
    /\ Running(j)
    /\ \E k \in 0 .. Len(job[j].chunk) : Write(j, SubSeq(job[j].chunk, 1, k))
    /\ Stop(j, "killed")
    /\ UNCHANGED <<remote, shared>>

EditRemote ==
    /\ "edit" \in Operations
    /\ remote' \in (Versions \cup IF "remove" \in Operations THEN {NoFile} ELSE {}) \ {remote}
    /\ job' = [j \in Jobs |-> [job[j] EXCEPT !.steady = FALSE]]
    /\ UNCHANGED <<target, part, shared>>

\* cleanup_stale_partials, by another process; its age limit may be 0.
CleanupPartial ==
    /\ "cleanup" \in Operations
    /\ part # NoFile
    /\ part' = NoFile
    /\ job' = Detached([j \in Jobs |-> IF Running(j) THEN [job[j] EXCEPT !.alone = FALSE]
                                                    ELSE job[j]])
    /\ shared' = (shared \/ \E j \in Jobs : Running(j))
    /\ UNCHANGED <<remote, target>>

-----------------------------------------------------------------------------
Step(j) == \/ Begin(j) \/ DiscardPart(j) \/ OpenPart(j)
           \/ ServeRange(j) \/ ServeRead(j) \/ ReceiveChunk(j)
           \/ CheckSize(j) \/ CheckExists(j) \/ ReplaceTarget(j)

Next ==
    \/ \E j \in Jobs : Plan(j) \/ Step(j) \/ AttemptLost(j) \/ Disconnected(j) \/ Kill(j)
    \/ EditRemote \/ CleanupPartial

Spec == Init /\ [][Next]_vars

\* A job goes on with its loop, and its requests are answered or time out.
FairSpec == Spec /\ \A j \in Jobs : WF_vars(Step(j) \/ AttemptLost(j))

-----------------------------------------------------------------------------
(* Properties                                                              *)

\* A download whose source did not change meanwhile, that shared its partial
\* with nobody and resumed a genuine prefix, leaves exactly the source,
\* whatever attempts were lost before.
FaithfulDownloadIsSource ==
    [][\A j \in Jobs : /\ job[j].pc = "replace" /\ job'[j].pc = "done"
                       /\ job[j].alone /\ job[j].steady /\ job[j].genuine
                       => target' = remote]_vars

\* Exactly-once append, as long as nobody disturbs a download: through retries,
\* kills in the middle of a write and edits of the source, unit k of the
\* partial is unit k of some version of it.
EveryUnitAtItsOffset ==
    ~shared => \A f \in {part, target} \ (InitialTargets \cup {NoFile}) :
        \A k \in 1 .. Len(f) : \E v \in Versions : k <= Len(v) /\ f[k] = v[k]

\* A partial never wedges its path: only a job that shared it, or lost it to
\* a cleanup, can end with size_mismatch, so that the same download can always
\* be tried again.
OnlyDisturbedPartialsMismatch ==
    [][\A j \in Jobs : job[j].pc = "check" /\ job[j].alone /\ part # NoFile
                       => job'[j].pc # "error"]_vars

\* Every download ends: with the file, or with an error, even if the source
\* keeps shrinking under it.
EveryDownloadEnds == \A j \in Jobs : Running(j) ~> job[j].pc \in Ended

\* "A later transfer may resume from remote/local partial files when path, size,
\* and hash expectations still match" (docs/transfer-state.md): a download whose
\* source does not change while it runs leaves exactly the source.
SteadyDownloadIsSource ==
    [][\A j \in Jobs : /\ job[j].pc = "replace" /\ job'[j].pc = "done"
                       /\ job[j].alone /\ job[j].steady
                       => target' = remote]_vars
=============================================================================
