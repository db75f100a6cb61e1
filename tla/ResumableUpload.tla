--------------------------- MODULE ResumableUpload ---------------------------
(***************************************************************************)
(* Resumable upload of one remote path: the handlers of slave.py           *)
(* (upload/status, upload/chunk, upload/finish, delete), each run by a      *)
(* thread of the ThreadingHTTPServer and split at its file system calls,   *)
(* and the upload loop of run_upload_job, headless.push and                *)
(* transfer_push_items with RemoteClient's retries.                        *)
(*                                                                         *)
(* The partial file of a path is found from the path alone, so every job   *)
(* for the path shares it, whatever the content it uploads.  Contents are  *)
(* sequences of units, a unit being the block the chunk handler reads from *)
(* the socket and appends at a time; a SHA-256 is the content it is of.    *)
(***************************************************************************)
EXTENDS Naturals, Sequences

CONSTANTS Jobs,             \* uploads to this path (client processes)
          Threads,          \* handler threads that may be running at once
          Unit,             \* blocks of file content
          NoFile, NoThread,
          Size,             \* of the job's source when the job was planned,
          Digest,           \* the source when its digest was computed, after that,
          Data,             \* and what is read from it when it is sent
          Overwrite,        \* the job's overwrite flag
          ChunkLen,         \* CHUNK_SIZE, in units
          MaxAttempts,      \* attempts of one call in read_with_retries
          InitialTargets, InitialPartials,
          Operations        \* of "cleanup", "delete", "restart", "cancel": those that happen

Content == Seq(Unit)

ASSUME UploadAssumption ==
    /\ Data \in [Jobs -> Content] /\ Digest \in [Jobs -> Content] /\ Size \in [Jobs -> Nat]
    /\ Overwrite \in [Jobs -> BOOLEAN]
    /\ Jobs # {}
    /\ ChunkLen \in Nat \ {0} /\ MaxAttempts \in Nat \ {0}
    /\ NoFile \notin Content /\ NoThread \notin Threads
    /\ InitialTargets \subseteq Content \cup {NoFile}
    /\ InitialPartials \subseteq Content \cup {NoFile}

VARIABLES target,   \* file at the path
          part,     \* its partial file
          job,      \* state of each client
          thr,      \* state of each handler thread
          acked,    \* history: jobs whose finish the server answered with ok
          raced     \* history: an append got between a hash check and its rename,
                    \* or into a file that had been renamed

vars == <<target, part, job, thr, acked, raced>>

-----------------------------------------------------------------------------
Calls == {"status", "chunk", "finish"}
Ended == {"done", "error", "cancelled"}
Codes == {"none", "ok", "exists", "offset_mismatch", "short_read", "size_mismatch",
          "hash_mismatch", "missing_partial", "internal_error", "remote_unreachable",
          "bad_token", "disconnected", "bad_partial"}
Steps == {"idle", "status", "discard", "chunk", "open", "write", "finish", "no_part",
          "empty", "hash", "exists", "replace"}

Reply == [code : Codes, num : Nat, exists : BOOLEAN]
NoReply == [code |-> "none", num |-> 0, exists |-> FALSE]
Error(code) == [NoReply EXCEPT !.code = code]

JobState == [pc : {"idle"} \cup Calls \cup Ended, off : Nat, retried : BOOLEAN,
             left : Nat, via : Threads \cup {NoThread}, reply : Reply, err : Codes]
IdleJob == [pc |-> "idle", off |-> 0, retried |-> FALSE, left |-> 0,
            via |-> NoThread, reply |-> NoReply, err |-> "none"]

\* pos and end: first and last unit still to append; file: what the handler's
\* open descriptor refers to, the partial, the target it became, or neither.
ThreadState == [pc : Steps, job : Jobs, pos : Nat, end : Nat,
                file : {"none", "part", "target", "gone"}]
IdleThread == [pc |-> "idle", job |-> CHOOSE j \in Jobs : TRUE, pos |-> 0,
               end |-> 0, file |-> "none"]

TypeOK ==
    /\ target \in Content \cup {NoFile}
    /\ part \in Content \cup {NoFile}
    /\ job \in [Jobs -> JobState]
    /\ thr \in [Threads -> ThreadState]
    /\ acked \subseteq Jobs /\ raced \in BOOLEAN

Init ==
    /\ target \in InitialTargets
    /\ part \in InitialPartials
    /\ job = [j \in Jobs |-> IdleJob]
    /\ thr = [t \in Threads |-> IdleThread]
    /\ acked = {} /\ raced = FALSE

-----------------------------------------------------------------------------
(* The client: one upload loop per job.                                    *)

Least(a, b) == IF a < b THEN a ELSE b
SourceEnd(j) == Least(Size[j], Len(Data[j]))
ChunkEnd(j) == Least(job[j].off + ChunkLen, SourceEnd(j))

Running(j) == job[j].pc \in Calls
Answered(j) == Running(j) /\ job[j].reply # NoReply

\* The job goes on to its next call, with a full budget of attempts.
Call(j, pc, off) ==
    job' = [job EXCEPT ![j] = [@ EXCEPT !.pc = pc, !.off = off, !.left = MaxAttempts,
                                        !.via = NoThread, !.reply = NoReply]]

End(j, pc, err) ==
    job' = [job EXCEPT ![j] = [@ EXCEPT !.pc = pc, !.via = NoThread,
                                        !.reply = NoReply, !.err = err]]

\* Next call of the inner loop: chunks until the size or the end of the source.
Proceed(j, off) == Call(j, IF off < SourceEnd(j) THEN "chunk" ELSE "finish", off)

Start(j) ==
    /\ job[j].pc = "idle"
    /\ Call(j, "status", 0)
    /\ UNCHANGED <<target, part, thr, acked, raced>>

\* An attempt reaches the server and is given to a thread.
Send(j, t) ==
    /\ Running(j) /\ job[j].via = NoThread
    /\ thr[t].pc = "idle"
    /\ job' = [job EXCEPT ![j].via = t, ![j].left = @ - 1]
    /\ thr' = [thr EXCEPT ![t] = [pc |-> job[j].pc, job |-> j, pos |-> job[j].off + 1,
                                  end |-> ChunkEnd(j), file |-> "none"]]
    /\ UNCHANGED <<target, part, acked, raced>>

MutNoAttemptLimit(j, left) ==
    /\ job' = [job EXCEPT ![j].via = NoThread, ![j].reply = NoReply, ![j].left = left]
    /\ UNCHANGED <<target, part, thr, acked, raced>>

\* The attempt timed out; the last attempt ends the job.
Retry(j, left) ==
    /\ IF left = 0
       THEN End(j, "error", "remote_unreachable")
       ELSE job' = [job EXCEPT ![j].via = NoThread, ![j].reply = NoReply, ![j].left = left]
    /\ UNCHANGED <<target, part, thr, acked, raced>>

\* The connection could not be made: the server never saw the attempt.
RequestLost(j) ==
    /\ Running(j) /\ job[j].via = NoThread
    /\ Retry(j, job[j].left - 1)

\* No answer in time, although a thread is, or was, handling the request.
AttemptTimeout(j) ==
    /\ Running(j) /\ job[j].via # NoThread
    /\ Retry(j, job[j].left)

\* The connection broke before the answer: not one of the retried exceptions.
Disconnected(j) ==
    /\ Running(j) /\ job[j].via # NoThread
    /\ End(j, "error", "disconnected")
    /\ UNCHANGED <<target, part, thr, acked, raced>>

ReceiveStatus(j) ==
    /\ Answered(j) /\ job[j].pc = "status"
    /\ LET r == job[j].reply IN
       IF r.code # "ok" THEN End(j, "error", r.code)
       ELSE IF r.exists /\ ~Overwrite[j] THEN End(j, "error", "exists")
       ELSE IF r.num > Size[j] THEN End(j, "error", "bad_partial")
       ELSE Proceed(j, r.num)
    /\ UNCHANGED <<target, part, thr, acked, raced>>

\* An offset_mismatch whose expected offset is the end of the chunk sent
\* says that an earlier attempt of this chunk landed.
ChunkLanded(j) ==
    LET r == job[j].reply IN
    r.code = "ok" \/ (r.code = "offset_mismatch" /\ r.num = ChunkEnd(j))

ReceiveChunk(j) ==
    /\ Answered(j) /\ job[j].pc = "chunk"
    /\ IF ChunkLanded(j) THEN Proceed(j, job[j].reply.num)
                         ELSE End(j, "error", job[j].reply.code)
    /\ UNCHANGED <<target, part, thr, acked, raced>>

MutAlwaysRestart(j) == job[j].reply.code \in {"size_mismatch", "hash_mismatch"}

\* A partial refused by the final check is uploaded again, once.
MayRestart(j) == ~job[j].retried /\ job[j].reply.code \in {"size_mismatch", "hash_mismatch"}

FinishConfirmed(j) == job[j].reply.code = "ok"

ReceiveFinish(j) ==
    /\ Answered(j) /\ job[j].pc = "finish"
    /\ IF FinishConfirmed(j) THEN End(j, "done", "none")
       ELSE IF MayRestart(j)
            THEN job' = [job EXCEPT ![j] = [IdleJob EXCEPT !.pc = "status", !.retried = TRUE,
                                                           !.left = MaxAttempts]]
            ELSE End(j, "error", job[j].reply.code)
    /\ UNCHANGED <<target, part, thr, acked, raced>>

\* The user cancels the job, or its process is killed.
Cancel(j) ==
    /\ "cancel" \in Operations
    /\ Running(j)
    /\ End(j, "cancelled", "none")
    /\ UNCHANGED <<target, part, thr, acked, raced>>

-----------------------------------------------------------------------------
(* The server: the three handlers, one step per file system access.        *)

At(t, pc) == thr[t].pc = pc
Goto(t, pc) == thr' = [thr EXCEPT ![t].pc = pc] /\ UNCHANGED job

\* Descriptors open on a partial that is unlinked, or renamed to the target.
Detached(ts) == [t \in Threads |-> IF ts[t].file = "part"
                                   THEN [ts[t] EXCEPT !.file = "gone"] ELSE ts[t]]
Renamed(ts) == [t \in Threads |->
    [ts[t] EXCEPT !.file = CASE ts[t].file = "part" -> "target"
                             [] ts[t].file = "target" -> "gone"
                             [] OTHER -> ts[t].file]]

\* The handler ends, the threads being ts: its answer reaches the job only if
\* that still waits for this attempt.
AnswerFrom(t, ts, reply) ==
    /\ job' = [job EXCEPT ![thr[t].job].reply = IF job[thr[t].job].via = t THEN reply ELSE @]
    /\ thr' = [ts EXCEPT ![t] = IdleThread]
Answer(t, reply) == AnswerFrom(t, thr, reply)

\* discard_upload_partial: whatever partial the path has now is unlinked.
Discard(t, reply) == part' = NoFile /\ AnswerFrom(t, Detached(thr), reply)

PartSize == IF part = NoFile THEN 0 ELSE Len(part)

StatusReply(size) == [code |-> "ok", num |-> size, exists |-> target # NoFile]

HandleStatus(t) ==
    /\ At(t, "status")
    /\ IF PartSize > Size[thr[t].job] THEN Goto(t, "discard")
                                      ELSE Answer(t, StatusReply(PartSize))
    /\ UNCHANGED <<target, part, acked, raced>>

\* The partial is larger than the declared size.
StatusDiscard(t) ==
    /\ At(t, "discard")
    /\ Discard(t, StatusReply(0))
    /\ UNCHANGED <<target, acked, raced>>

MutAnyOffset(t) == TRUE
MutNotBefore(t) == PartSize + 1 >= thr[t].pos
OffsetMatches(t) == PartSize + 1 = thr[t].pos

Replaceable(j) == target = NoFile \/ Overwrite[j]

HandleChunk(t) ==
    /\ At(t, "chunk")
    /\ IF ~Replaceable(thr[t].job) THEN Answer(t, Error("exists"))
       ELSE IF ~OffsetMatches(t)
            THEN Answer(t, [code |-> "offset_mismatch", num |-> PartSize, exists |-> FALSE])
            ELSE Goto(t, "open")
    /\ UNCHANGED <<target, part, acked, raced>>

\* A finish is between its hash check and its rename (history).
Finishing == \E t \in Threads : thr[t].pc \in {"exists", "replace"}

\* open("ab") creates the partial if it is missing.
OpenPart(t) ==
    /\ At(t, "open")
    /\ part' = IF part = NoFile THEN <<>> ELSE part
    /\ thr' = [thr EXCEPT ![t].pc = "write", ![t].file = "part"]
    /\ raced' = (raced \/ Finishing)
    /\ UNCHANGED <<target, job, acked>>

\* One block is read from the socket and appended to the open file; the last
\* one is followed by the answer.
AppendUnit(t) ==
    /\ At(t, "write")
    /\ LET unit == Data[thr[t].job][thr[t].pos] IN
       /\ part' = IF thr[t].file = "part" THEN Append(part, unit) ELSE part
       /\ target' = IF thr[t].file = "target" THEN Append(target, unit) ELSE target
    /\ IF thr[t].pos = thr[t].end
       THEN Answer(t, [code |-> "ok", num |-> thr[t].end, exists |-> FALSE])
       ELSE thr' = [thr EXCEPT ![t].pos = @ + 1] /\ UNCHANGED job
    /\ raced' = (raced \/ Finishing \/ thr[t].file = "target")
    /\ UNCHANGED acked

\* The body ends early, the client having given up, or stalls: what was
\* appended stays.
ShortRead(t) ==
    /\ At(t, "write")
    /\ Answer(t, Error("short_read"))
    /\ UNCHANGED <<target, part, acked, raced>>

HandleFinish(t) ==
    /\ At(t, "finish")
    /\ IF part = NoFile THEN Goto(t, "no_part") /\ UNCHANGED part
       ELSE IF Len(part) # Size[thr[t].job] THEN Discard(t, Error("size_mismatch"))
       ELSE Goto(t, "hash") /\ UNCHANGED part
    /\ UNCHANGED <<target, acked, raced>>

Acknowledge(t) ==
    /\ Answer(t, [NoReply EXCEPT !.code = "ok"])
    /\ acked' = acked \cup {thr[t].job}

MutTargetExists(j) == target # NoFile
\* The target already is the announced file: the finish was done before.
AlreadyInstalled(j) == target # NoFile /\ Len(target) = Size[j] /\ target = Digest[j]

\* No partial: either a repeated finish, or an empty file.
FinishWithoutPart(t) ==
    /\ At(t, "no_part")
    /\ LET j == thr[t].job IN
       IF AlreadyInstalled(j) THEN Acknowledge(t)
       ELSE IF Size[j] > 0 THEN Answer(t, Error("missing_partial")) /\ UNCHANGED acked
       ELSE IF Digest[j] # <<>> THEN Answer(t, Error("hash_mismatch")) /\ UNCHANGED acked
       ELSE IF ~Replaceable(j) THEN Answer(t, Error("exists")) /\ UNCHANGED acked
       ELSE Goto(t, "empty") /\ UNCHANGED acked
    /\ UNCHANGED <<target, part, raced>>

\* write_bytes(b"") truncates the target in place.
WriteEmpty(t) ==
    /\ At(t, "empty")
    /\ target' = <<>>
    /\ Acknowledge(t)
    /\ UNCHANGED <<part, raced>>

MutUnhashed(j) == TRUE
HashMatches(j) == part = Digest[j]

CheckHash(t) ==
    /\ At(t, "hash")
    /\ IF part = NoFile THEN Answer(t, Error("internal_error")) /\ UNCHANGED part
       ELSE IF ~HashMatches(thr[t].job) THEN Discard(t, Error("hash_mismatch"))
       ELSE Goto(t, "exists") /\ UNCHANGED part
    /\ UNCHANGED <<target, acked, raced>>

CheckExists(t) ==
    /\ At(t, "exists")
    /\ IF Replaceable(thr[t].job) THEN Goto(t, "replace") ELSE Answer(t, Error("exists"))
    /\ UNCHANGED <<target, part, acked, raced>>

\* os.replace(part, target), which fails if the partial is gone.
ReplaceTarget(t) ==
    /\ At(t, "replace")
    /\ IF part = NoFile
       THEN Answer(t, Error("internal_error")) /\ UNCHANGED <<target, part, acked>>
       ELSE /\ target' = part
            /\ part' = NoFile
            /\ AnswerFrom(t, Renamed(thr), [NoReply EXCEPT !.code = "ok"])
            /\ acked' = acked \cup {thr[t].job}
    /\ UNCHANGED raced

-----------------------------------------------------------------------------
(* What else happens to the files and to the server.                       *)

\* cleanup_stale_partials, by another process; its age limit may be 0.
CleanupPartial ==
    /\ "cleanup" \in Operations
    /\ part # NoFile
    /\ part' = NoFile
    /\ thr' = Detached(thr)
    /\ UNCHANGED <<target, job, acked, raced>>

\* handle_delete of this path.
DeleteTarget ==
    /\ "delete" \in Operations
    /\ target # NoFile
    /\ target' = NoFile
    /\ thr' = [t \in Threads |-> IF thr[t].file = "target"
                                 THEN [thr[t] EXCEPT !.file = "gone"] ELSE thr[t]]
    /\ UNCHANGED <<part, job, acked, raced>>

\* The server process stops and starts again: the handlers are gone, and so
\* are the sessions, so that the next call of every running job is refused.
RestartServer ==
    /\ "restart" \in Operations
    /\ thr' = [t \in Threads |-> IdleThread]
    /\ job' = [j \in Jobs |->
                  IF Running(j) THEN [IdleJob EXCEPT !.pc = "error", !.err = "bad_token"]
                                ELSE job[j]]
    /\ UNCHANGED <<target, part, acked, raced>>

-----------------------------------------------------------------------------
Receive(j) == ReceiveStatus(j) \/ ReceiveChunk(j) \/ ReceiveFinish(j)
Fault(j) == RequestLost(j) \/ AttemptTimeout(j) \/ Disconnected(j) \/ Cancel(j)
Handle(t) == \/ HandleStatus(t) \/ StatusDiscard(t)
             \/ HandleChunk(t) \/ OpenPart(t) \/ AppendUnit(t)
             \/ HandleFinish(t) \/ FinishWithoutPart(t) \/ WriteEmpty(t)
             \/ CheckHash(t) \/ CheckExists(t) \/ ReplaceTarget(t)

Next ==
    \/ \E j \in Jobs : Start(j) \/ Receive(j) \/ Fault(j) \/ \E t \in Threads : Send(j, t)
    \/ \E t \in Threads : Handle(t) \/ ShortRead(t)
    \/ CleanupPartial \/ DeleteTarget \/ RestartServer

Spec == Init /\ [][Next]_vars

\* A job goes on with its loop, and a handler with its body, which arrives or
\* is cut short by the timeout of the connection.
Fairness ==
    /\ \A j \in Jobs : WF_vars(Receive(j)) /\ WF_vars(\E t \in Threads : Send(j, t))
    /\ \A t \in Threads : WF_vars(Handle(t) \/ ShortRead(t))

FairSpec == Spec /\ Fairness

-----------------------------------------------------------------------------
(* Properties                                                              *)

\* No silent corruption: the path only ever holds a file it held at the start
\* or the complete content of one upload, never a mixture of units of several
\* uploads or of several attempts (the size and hash checks of upload/finish,
\* with os.replace).
NoSilentCorruption ==
    target \in InitialTargets \cup {NoFile} \cup {Digest[j] : j \in Jobs}

\* Exactly-once append: whatever attempts were lost or repeated, and whichever
\* jobs shared the partial, unit k of it is unit k of some job's source (the
\* offset check of upload/chunk with the resume offset of upload/status).
EveryUnitAtItsOffset ==
    part # NoFile =>
        \A k \in 1 .. Len(part) :
            \/ \E j \in Jobs : k <= Len(Data[j]) /\ part[k] = Data[j][k]
            \/ \E p \in InitialPartials \ {NoFile} : k <= Len(p) /\ part[k] = p[k]

\* However many handlers run at once, beside cleanup, deletes and restarts, what
\* the path holds is a file it held at the start or the content whose digest some
\* job announced, unless a chunk handler got at the partial between a finish's hash
\* check and its rename, or still wrote to the file it had become: none of the other
\* gaps between the checks of upload/finish and its os.replace lets a mixture in.
OnlyLateAppendsCorrupt == raced \/ NoSilentCorruption

\* Job i sends units that job j did not hash at their offset: i has another source,
\* or the source changed between j's digest and what i reads of it.
Foreign(i, j) ==
    \E k \in 1 .. SourceEnd(i) : k > Len(Digest[j]) \/ Data[i][k] # Digest[j][k]

\* A job whose source was still of the planned size when it was hashed fails for
\* a wrong hash only when somebody sends units it did not hash: neither resuming,
\* alone or beside uploads of the same file, nor a foreign partial left by earlier
\* times brings it that far.
HashRefusesOnlyForeignUnits ==
    \A j \in Jobs : job[j].err = "hash_mismatch" =>
        Size[j] # Len(Digest[j]) \/ \E i \in Jobs : Foreign(i, j)

\* Every job that starts ends: retries, resumed chunks and the second upload
\* after a refused finish are all bounded.
EveryJobEnds == \A j \in Jobs : Running(j) ~> job[j].pc \in Ended

\* The handlers implement the promise made to users: whole contents, never over
\* a file without confirmation, acknowledged only when they are the file.
A == INSTANCE AtomicInstall WITH target <- target, acked <- acked
ImplementsAtomicInstall == A!Spec
=============================================================================
