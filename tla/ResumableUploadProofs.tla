------------------------ MODULE ResumableUploadProofs ------------------------
(***************************************************************************)
(* Proofs about ResumableUpload, for any set of jobs, any contents and any *)
(* chunk length.  However the handlers overlap, types are kept, success is  *)
(* acknowledged, and only an append between a hash check and its rename, or *)
(* after it, can corrupt the target; for handlers of the path that do not  *)
(* overlap, the target never holds anything but whole contents, units are  *)
(* appended exactly once, AtomicInstall is implemented, and no upload fails *)
(* for a wrong hash unless its source grew before it was hashed or somebody *)
(* sends other units.                                                      *)
(***************************************************************************)
EXTENDS ResumableUpload, SequenceTheorems, TLAPS

-----------------------------------------------------------------------------
(* Type correctness needs to know why a handler never reads past the end   *)
(* of its chunk, why it never appends to a missing file, and why a job     *)
(* never spends an attempt it does not have.                               *)

JobInv ==
    /\ job \in [Jobs -> JobState]
    /\ \A j \in Jobs : job[j].pc = "chunk" => job[j].off < SourceEnd(j)
    /\ \A j \in Jobs : Running(j) /\ job[j].via = NoThread => job[j].left > 0

\* ts is a state of the threads in which none reads outside its job's source.
ThreadsOK(ts) ==
    /\ ts \in [Threads -> ThreadState]
    /\ \A t \in Threads : ts[t].pc \in {"chunk", "open", "write"} =>
           /\ 1 <= ts[t].pos /\ ts[t].pos <= ts[t].end
           /\ ts[t].end <= SourceEnd(ts[t].job)

OpenFileExists(ts, p, f) ==
    \A t \in Threads : /\ ts[t].file = "part" => p # NoFile
                       /\ ts[t].file = "target" => f # NoFile

FileInv == /\ target \in Content \cup {NoFile}
           /\ part \in Content \cup {NoFile}
           /\ OpenFileExists(thr, part, target)
           /\ acked \subseteq Jobs

TypeInv == JobInv /\ ThreadsOK(thr) /\ FileInv

LEMMA Lengths ==
    ASSUME NEW j \in Jobs
    PROVE  /\ Size[j] \in Nat /\ SourceEnd(j) \in Nat
           /\ SourceEnd(j) <= Len(Data[j]) /\ Len(Data[j]) \in Nat
  BY UploadAssumption DEF SourceEnd, Least, Content

LEMMA IdleTypes == IdleThread \in ThreadState /\ IdleJob \in JobState
  BY UploadAssumption DEF IdleThread, ThreadState, Steps, IdleJob, JobState, Reply, NoReply,
     Codes, Calls, Ended

LEMMA ReplyTypes ==
    /\ NoReply \in Reply
    /\ \A code \in Codes : Error(code) \in Reply
    /\ \A n \in Nat : StatusReply(n) \in Reply
  BY DEF NoReply, Reply, Codes, Error, StatusReply

LEMMA TypeInit == Init => TypeInv
  <1> SUFFICES ASSUME Init PROVE TypeInv
    OBVIOUS
  <1>1. job \in [Jobs -> JobState] /\ thr \in [Threads -> ThreadState]
    BY IdleTypes DEF Init
  <1>2. JobInv
    BY <1>1 DEF Init, JobInv, IdleJob, Running, Calls
  <1>3. ThreadsOK(thr)
    BY <1>1 DEF Init, ThreadsOK, IdleThread
  <1>4. FileInv
    BY UploadAssumption DEF Init, FileInv, OpenFileExists, IdleThread
  <1> QED BY <1>2, <1>3, <1>4 DEF TypeInv

-----------------------------------------------------------------------------
(* What each kind of client step does to JobInv.                           *)

\* A job replaced by a state that respects the bounds.
LEMMA JobUpdate ==
    ASSUME JobInv, NEW j \in Jobs, NEW rec \in JobState, job' = [job EXCEPT ![j] = rec],
           rec.pc = "chunk" => rec.off < SourceEnd(j),
           rec.pc \in Calls /\ rec.via = NoThread => rec.left > 0
    PROVE  JobInv'
  <1>1. job' \in [Jobs -> JobState]
    BY DEF JobInv
  <1>2. \A i \in Jobs : job'[i] = IF i = j THEN rec ELSE job[i]
    BY DEF JobInv
  <1> QED
    BY <1>1, <1>2 DEF JobInv, Running, SourceEnd

LEMMA CallKeepsJobs ==
    ASSUME JobInv, NEW j \in Jobs, NEW pc \in Calls, NEW off \in Nat,
           pc = "chunk" => off < SourceEnd(j), Call(j, pc, off)
    PROVE  JobInv'
  <1> DEFINE rec == [job[j] EXCEPT !.pc = pc, !.off = off, !.left = MaxAttempts,
                                   !.via = NoThread, !.reply = NoReply]
  <1>1. job[j] \in JobState
    BY DEF JobInv
  <1>2. rec \in JobState /\ rec.pc = pc /\ rec.off = off /\ rec.left = MaxAttempts
    BY <1>1, ReplyTypes, UploadAssumption DEF JobState, Calls
  <1>3. job' = [job EXCEPT ![j] = rec]
    BY DEF Call
  <1>4. rec.left > 0
    BY <1>2, UploadAssumption
  <1> HIDE DEF rec
  <1> QED BY <1>2, <1>3, <1>4, JobUpdate

LEMMA ProceedKeepsJobs ==
    ASSUME JobInv, NEW j \in Jobs, NEW off \in Nat, Proceed(j, off)
    PROVE  JobInv'
  <1>1. CASE off < SourceEnd(j)
    BY <1>1, CallKeepsJobs DEF Proceed, Calls
  <1>2. CASE ~(off < SourceEnd(j))
    BY <1>2, CallKeepsJobs DEF Proceed, Calls
  <1> QED BY <1>1, <1>2

LEMMA EndKeepsJobs ==
    ASSUME JobInv, NEW j \in Jobs, NEW pc \in Ended, NEW err \in Codes, End(j, pc, err)
    PROVE  JobInv'
  <1> DEFINE rec == [job[j] EXCEPT !.pc = pc, !.via = NoThread,
                                   !.reply = NoReply, !.err = err]
  <1>1. job[j] \in JobState
    BY DEF JobInv
  <1>2. rec \in JobState /\ rec.pc = pc
    BY <1>1, ReplyTypes DEF JobState
  <1>3. job' = [job EXCEPT ![j] = rec]
    BY DEF End
  <1> HIDE DEF rec
  <1> QED BY <1>2, <1>3, JobUpdate DEF Ended, Calls

LEMMA RetryKeepsJobs ==
    ASSUME JobInv, NEW j \in Jobs, NEW left \in Nat, Retry(j, left)
    PROVE  JobInv'
  <1>1. CASE left = 0
    BY <1>1, EndKeepsJobs DEF Retry, Ended, Codes
  <1>2. CASE left # 0
    <2> DEFINE rec == [job[j] EXCEPT !.via = NoThread, !.reply = NoReply, !.left = left]
    <2>1. job[j] \in JobState
      BY DEF JobInv
    <2>2. rec \in JobState /\ rec.pc = job[j].pc /\ rec.off = job[j].off /\ rec.left = left
      BY <2>1, ReplyTypes DEF JobState
    <2>3. job' = [job EXCEPT ![j] = rec]
      BY <1>2, <2>1 DEF Retry, JobInv, JobState
    <2>4. job[j].pc = "chunk" => job[j].off < SourceEnd(j)
      BY DEF JobInv
    <2>5. rec.left > 0
      BY <1>2, <2>2
    <2> HIDE DEF rec
    <2> QED BY <2>2, <2>3, <2>4, <2>5, JobUpdate
  <1> QED BY <1>1, <1>2

\* A handler's answer puts a reply on the wire of a job, or changes nothing.
LEMMA ReplyKeepsJobs ==
    ASSUME JobInv, NEW j \in Jobs, NEW reply \in Reply,
           job' = [job EXCEPT ![j].reply = reply]
    PROVE  JobInv'
  <1> DEFINE rec == [job[j] EXCEPT !.reply = reply]
  <1>1. job[j] \in JobState
    BY DEF JobInv
  <1>2. rec \in JobState /\ rec.pc = job[j].pc /\ rec.off = job[j].off
        /\ rec.left = job[j].left /\ rec.via = job[j].via
    BY <1>1 DEF JobState
  <1>3. job' = [job EXCEPT ![j] = rec]
    OBVIOUS
  <1>4. /\ job[j].pc = "chunk" => job[j].off < SourceEnd(j)
        /\ job[j].pc \in Calls /\ job[j].via = NoThread => job[j].left > 0
    BY DEF JobInv, Running
  <1> HIDE DEF rec
  <1> QED BY <1>2, <1>3, <1>4, JobUpdate

-----------------------------------------------------------------------------
(* What each kind of handler step does to the threads.                     *)

Reads == {"chunk", "open", "write"}

LEMMA ThreadUpdate ==
    ASSUME NEW ts, ThreadsOK(ts), NEW t \in Threads, NEW rec \in ThreadState,
           rec.pc \in Reads => /\ 1 <= rec.pos /\ rec.pos <= rec.end
                               /\ rec.end <= SourceEnd(rec.job)
    PROVE  ThreadsOK([ts EXCEPT ![t] = rec])
  <1> DEFINE us == [ts EXCEPT ![t] = rec]
  <1>1. us \in [Threads -> ThreadState] /\ \A u \in Threads : us[u] = IF u = t THEN rec ELSE ts[u]
    BY DEF ThreadsOK
  <1> HIDE DEF us
  <1>2. ThreadsOK(us)
    BY <1>1 DEF ThreadsOK, Reads
  <1> QED BY <1>2 DEF us

LEMMA IdleKeepsThreads ==
    ASSUME NEW ts, ThreadsOK(ts), NEW t \in Threads
    PROVE  ThreadsOK([ts EXCEPT ![t] = IdleThread])
  <1>1. IdleThread.pc \notin Reads
    BY DEF IdleThread, Reads
  <1> QED BY <1>1, IdleTypes, ThreadUpdate

\* A handler moves on within its body.
LEMMA GotoKeepsThreads ==
    ASSUME ThreadsOK(thr), NEW t \in Threads, NEW pc \in Steps,
           pc \in Reads => thr[t].pc \in Reads, Goto(t, pc)
    PROVE  /\ ThreadsOK(thr)'
           /\ \A u \in Threads : thr'[u].file = thr[u].file
  <1> DEFINE rec == [thr[t] EXCEPT !.pc = pc]
  <1>1. thr[t] \in ThreadState
    BY DEF ThreadsOK
  <1>2. rec \in ThreadState /\ rec.pc = pc /\ rec.pos = thr[t].pos /\ rec.end = thr[t].end
        /\ rec.job = thr[t].job /\ rec.file = thr[t].file
    BY <1>1 DEF ThreadState
  <1>3. thr' = [thr EXCEPT ![t] = rec]
    BY DEF Goto
  <1>4. pc \in Reads => /\ 1 <= thr[t].pos /\ thr[t].pos <= thr[t].end
                        /\ thr[t].end <= SourceEnd(thr[t].job)
    BY DEF ThreadsOK, Reads
  <1> HIDE DEF rec
  <1>5. ThreadsOK([thr EXCEPT ![t] = rec])
    BY <1>2, <1>4, ThreadUpdate
  <1>6. ThreadsOK(thr')
    BY <1>3, <1>5
  <1>7. ThreadsOK(thr)'
    BY <1>6 DEF ThreadsOK
  <1>8. \A u \in Threads : thr'[u].file = thr[u].file
    BY <1>2, <1>3 DEF ThreadsOK
  <1> QED BY <1>7, <1>8

LEMMA DetachedThreads ==
    ASSUME ThreadsOK(thr), OpenFileExists(thr, part, target)
    PROVE  ThreadsOK(Detached(thr)) /\ \A p : OpenFileExists(Detached(thr), p, target)
  <1>1. \A t \in Threads : thr[t] \in ThreadState
    BY DEF ThreadsOK
  <1>2. \A t \in Threads :
            /\ Detached(thr)[t] \in ThreadState
            /\ Detached(thr)[t].pc = thr[t].pc /\ Detached(thr)[t].pos = thr[t].pos
            /\ Detached(thr)[t].end = thr[t].end /\ Detached(thr)[t].job = thr[t].job
            /\ Detached(thr)[t].file # "part"
            /\ Detached(thr)[t].file = "target" => thr[t].file = "target"
    BY <1>1 DEF Detached, ThreadState
  <1>3. Detached(thr) \in [Threads -> ThreadState]
    BY <1>2 DEF Detached
  <1> QED BY <1>2, <1>3 DEF ThreadsOK, OpenFileExists

LEMMA RenamedThreads ==
    ASSUME ThreadsOK(thr), part # NoFile
    PROVE  ThreadsOK(Renamed(thr)) /\ \A p : OpenFileExists(Renamed(thr), p, part)
  <1>1. \A t \in Threads : thr[t] \in ThreadState
    BY DEF ThreadsOK
  <1>2. \A t \in Threads :
            /\ Renamed(thr)[t] \in ThreadState
            /\ Renamed(thr)[t].pc = thr[t].pc /\ Renamed(thr)[t].pos = thr[t].pos
            /\ Renamed(thr)[t].end = thr[t].end /\ Renamed(thr)[t].job = thr[t].job
            /\ Renamed(thr)[t].file # "part"
    BY <1>1 DEF Renamed, ThreadState
  <1>3. Renamed(thr) \in [Threads -> ThreadState]
    BY <1>2 DEF Renamed
  <1> QED BY <1>2, <1>3 DEF ThreadsOK, OpenFileExists

\* A handler answers and its thread is idle again.
LEMMA AnswerKeeps ==
    ASSUME JobInv, ThreadsOK(thr), NEW t \in Threads, NEW ts, ThreadsOK(ts),
           NEW reply \in Reply, AnswerFrom(t, ts, reply)
    PROVE  /\ JobInv' /\ ThreadsOK(thr)'
           /\ \A p, f : OpenFileExists(ts, p, f) => OpenFileExists(thr', p, f)
  <1>1. thr[t].job \in Jobs /\ job[thr[t].job] \in JobState
    BY DEF ThreadsOK, ThreadState, JobInv
  <1>2. JobInv'
    <2>1. job[thr[t].job].reply \in Reply
      BY <1>1 DEF JobState
    <2>2. CASE job[thr[t].job].via = t
      BY <1>1, <2>2, ReplyKeepsJobs DEF AnswerFrom
    <2>3. CASE job[thr[t].job].via # t
      <3>1. job' = [job EXCEPT ![thr[t].job].reply = job[thr[t].job].reply]
        BY <2>3 DEF AnswerFrom
      <3> QED BY <1>1, <2>1, <3>1, ReplyKeepsJobs
    <2> QED BY <2>2, <2>3
  <1>3. ThreadsOK(thr')
    BY IdleKeepsThreads DEF AnswerFrom
  <1>4. ThreadsOK(thr)'
    BY <1>3 DEF ThreadsOK
  <1>5. \A u \in Threads : thr'[u].file = IF u = t THEN "none" ELSE ts[u].file
    BY DEF AnswerFrom, ThreadsOK, IdleThread
  <1>6. \A p, f : OpenFileExists(ts, p, f) => OpenFileExists(thr', p, f)
    BY <1>5 DEF OpenFileExists
  <1> QED BY <1>2, <1>4, <1>6

-----------------------------------------------------------------------------
(* Type correctness.                                                       *)

LEMMA ClientStep ==
    ASSUME TypeInv, JobInv', UNCHANGED <<target, part, thr, acked>>
    PROVE  TypeInv'
  BY DEF TypeInv, ThreadsOK, FileInv, OpenFileExists

LEMMA ReplyFacts ==
    ASSUME TypeInv, NEW j \in Jobs
    PROVE  /\ job[j] \in JobState /\ job[j].reply.num \in Nat /\ job[j].reply.code \in Codes
           /\ job[j].off \in Nat /\ job[j].left \in Nat
  BY DEF TypeInv, JobInv, JobState, Reply

LEMMA SendTyped ==
    ASSUME TypeInv, NEW j \in Jobs, NEW t \in Threads, Send(j, t)
    PROVE  TypeInv'
  <1>1. job[j] \in JobState /\ job[j].left > 0 /\ job[j].pc \in Calls
    BY DEF TypeInv, JobInv, Send, Running
  <1>2. JobInv'
    <2> DEFINE rec == [job[j] EXCEPT !.via = t, !.left = @ - 1]
    <2>1. job[j].left - 1 \in Nat
      BY <1>1 DEF JobState
    <2>2. rec \in JobState /\ rec.pc = job[j].pc /\ rec.off = job[j].off /\ rec.via = t
      BY <1>1, <2>1 DEF JobState
    <2>3. job' = [job EXCEPT ![j] = rec]
      BY DEF Send, TypeInv, JobInv
    <2>4. job[j].pc = "chunk" => job[j].off < SourceEnd(j)
      BY DEF TypeInv, JobInv
    <2> HIDE DEF rec
    <2>5. rec.via # NoThread
      BY <2>2, UploadAssumption
    <2> QED BY <2>2, <2>3, <2>4, <2>5, JobUpdate DEF TypeInv
  <1>3. ThreadsOK(thr')
    <2> DEFINE rec == [pc |-> job[j].pc, job |-> j, pos |-> job[j].off + 1,
                       end |-> ChunkEnd(j), file |-> "none"]
    <2>1. ChunkEnd(j) \in Nat /\ ChunkEnd(j) <= SourceEnd(j)
          /\ (job[j].off < SourceEnd(j) => job[j].off + 1 <= ChunkEnd(j))
      BY <1>1, Lengths, UploadAssumption DEF ChunkEnd, Least, JobState
    <2>2. rec \in ThreadState
      BY <1>1, <2>1 DEF ThreadState, JobState, Steps, Calls
    <2>3. rec.pc \in Reads => /\ 1 <= rec.pos /\ rec.pos <= rec.end
                              /\ rec.end <= SourceEnd(rec.job)
      <3>1. job[j].pc \in Reads => job[j].pc = "chunk"
        BY <1>1 DEF Reads, Calls
      <3>2. job[j].pc = "chunk" => job[j].off < SourceEnd(j)
        BY DEF TypeInv, JobInv
      <3>3. job[j].off \in Nat
        BY <1>1 DEF JobState
      <3> QED BY <2>1, <3>1, <3>2, <3>3
    <2>4. thr' = [thr EXCEPT ![t] = rec]
      BY DEF Send
    <2> HIDE DEF rec
    <2> QED BY <2>2, <2>3, <2>4, ThreadUpdate DEF TypeInv
  <1>4. \A u \in Threads : thr'[u].file = "none" \/ thr'[u].file = thr[u].file
    BY DEF Send, TypeInv, ThreadsOK
  <1>5. FileInv'
    BY <1>4 DEF Send, TypeInv, FileInv, OpenFileExists
  <1> QED BY <1>2, <1>3, <1>5 DEF TypeInv, ThreadsOK

LEMMA ClientTyped ==
    ASSUME TypeInv, NEW j \in Jobs, Start(j) \/ Receive(j) \/ Fault(j)
    PROVE  TypeInv'
  <1> USE ReplyFacts
  <1>0. JobInv
    BY DEF TypeInv
  <1>1. CASE Start(j)
    <2>1. JobInv'
      BY <1>0, <1>1, CallKeepsJobs DEF Start, Calls
    <2> QED BY <2>1, <1>1, ClientStep DEF Start
  <1>2. CASE ReceiveStatus(j)
    <2>1. JobInv'
      <3>1. CASE End(j, "error", job[j].reply.code)
        BY <1>0, <3>1, EndKeepsJobs DEF Ended
      <3>2. CASE End(j, "error", "exists") \/ End(j, "error", "bad_partial")
        BY <1>0, <3>2, EndKeepsJobs DEF Ended, Codes
      <3>3. CASE Proceed(j, job[j].reply.num)
        BY <1>0, <3>3, ProceedKeepsJobs
      <3> QED BY <1>2, <3>1, <3>2, <3>3 DEF ReceiveStatus
    <2> QED BY <2>1, <1>2, ClientStep DEF ReceiveStatus
  <1>3. CASE ReceiveChunk(j)
    <2>1. JobInv'
      <3>1. CASE End(j, "error", job[j].reply.code)
        BY <1>0, <3>1, EndKeepsJobs DEF Ended
      <3>2. CASE Proceed(j, job[j].reply.num)
        BY <1>0, <3>2, ProceedKeepsJobs
      <3> QED BY <1>3, <3>1, <3>2 DEF ReceiveChunk
    <2> QED BY <2>1, <1>3, ClientStep DEF ReceiveChunk
  <1>4. CASE ReceiveFinish(j)
    <2>1. JobInv'
      <3>1. CASE End(j, "done", "none") \/ End(j, "error", job[j].reply.code)
        BY <1>0, <3>1, EndKeepsJobs DEF Ended, Codes
      <3> DEFINE rec == [IdleJob EXCEPT !.pc = "status", !.retried = TRUE, !.left = MaxAttempts]
      <3>2. CASE job' = [job EXCEPT ![j] = rec]
        <4>1. rec \in JobState /\ rec.pc = "status" /\ rec.left = MaxAttempts
          BY IdleTypes, UploadAssumption DEF JobState, Calls, IdleJob
        <4>2. rec.left > 0
          BY <4>1, UploadAssumption
        <4> HIDE DEF rec
        <4> QED BY <1>0, <3>2, <4>1, <4>2, JobUpdate
      <3> QED BY <1>4, <3>1, <3>2 DEF ReceiveFinish
    <2> QED BY <2>1, <1>4, ClientStep DEF ReceiveFinish
  <1>5. CASE RequestLost(j)
    <2>1. job[j].left - 1 \in Nat
      BY <1>5 DEF RequestLost, TypeInv, JobInv
    <2>2. JobInv'
      BY <1>0, <1>5, <2>1, RetryKeepsJobs DEF RequestLost
    <2> QED BY <2>2, <1>5, ClientStep DEF RequestLost, Retry
  <1>6. CASE AttemptTimeout(j)
    <2>1. JobInv'
      BY <1>0, <1>6, RetryKeepsJobs DEF AttemptTimeout
    <2> QED BY <2>1, <1>6, ClientStep DEF AttemptTimeout, Retry
  <1>7. CASE Disconnected(j) \/ Cancel(j)
    <2>1. JobInv'
      BY <1>0, <1>7, EndKeepsJobs DEF Disconnected, Cancel, Ended, Codes
    <2> QED BY <2>1, <1>7, ClientStep DEF Disconnected, Cancel
  <1> QED
    BY <1>1, <1>2, <1>3, <1>4, <1>5, <1>6, <1>7 DEF Receive, Fault

\* The three ways a handler step leaves the files: untouched, with the partial
\* discarded, or with its thread only moving on.
LEMMA AnswerTyped ==
    ASSUME TypeInv, NEW t \in Threads, NEW reply \in Reply, Answer(t, reply),
           UNCHANGED <<target, part>>, acked' \subseteq Jobs
    PROVE  TypeInv'
  <1>1. JobInv' /\ ThreadsOK(thr)' /\ OpenFileExists(thr', part, target)
    BY AnswerKeeps DEF TypeInv, FileInv, Answer
  <1>2. FileInv'
    BY <1>1 DEF TypeInv, FileInv, OpenFileExists
  <1> QED BY <1>1, <1>2 DEF TypeInv

LEMMA DiscardTyped ==
    ASSUME TypeInv, NEW t \in Threads, NEW reply \in Reply, Discard(t, reply),
           UNCHANGED <<target, acked>>
    PROVE  TypeInv'
  <1>1. ThreadsOK(Detached(thr)) /\ OpenFileExists(Detached(thr), NoFile, target)
    BY DetachedThreads DEF TypeInv, FileInv
  <1>2. JobInv' /\ ThreadsOK(thr)' /\ OpenFileExists(thr', NoFile, target)
    BY <1>1, AnswerKeeps DEF TypeInv, Discard
  <1>3. FileInv'
    BY <1>2 DEF TypeInv, FileInv, OpenFileExists, Discard
  <1> QED BY <1>2, <1>3 DEF TypeInv

LEMMA GotoTyped ==
    ASSUME TypeInv, NEW t \in Threads, NEW pc \in Steps, pc \in Reads => thr[t].pc \in Reads,
           Goto(t, pc), UNCHANGED <<target, part, acked>>
    PROVE  TypeInv'
  <1>1. ThreadsOK(thr)' /\ \A u \in Threads : thr'[u].file = thr[u].file
    BY GotoKeepsThreads DEF TypeInv
  <1>2. FileInv'
    BY <1>1 DEF TypeInv, FileInv, OpenFileExists
  <1>3. JobInv'
    BY DEF TypeInv, JobInv, Goto, Running, SourceEnd
  <1> QED BY <1>1, <1>2, <1>3 DEF TypeInv

LEMMA ThreadFacts ==
    ASSUME TypeInv, NEW t \in Threads
    PROVE  /\ thr[t] \in ThreadState /\ thr[t].job \in Jobs
           /\ thr[t].pos \in Nat /\ thr[t].end \in Nat
           /\ PartSize \in Nat
  BY DEF TypeInv, ThreadsOK, ThreadState, PartSize, FileInv, Content

LEMMA AppendTyped ==
    ASSUME TypeInv, NEW t \in Threads, AppendUnit(t)
    PROVE  TypeInv'
  <1> USE ThreadFacts
  <1> DEFINE unit == Data[thr[t].job][thr[t].pos]
  <1>1. unit \in Unit /\ 1 <= thr[t].pos /\ thr[t].pos <= thr[t].end
        /\ thr[t].end <= SourceEnd(thr[t].job)
    <2>1. /\ 1 <= thr[t].pos /\ thr[t].pos <= thr[t].end
          /\ thr[t].end <= SourceEnd(thr[t].job)
      BY DEF AppendUnit, At, TypeInv, ThreadsOK
    <2>2. Data[thr[t].job] \in Seq(Unit)
      BY UploadAssumption DEF Content
    <2>3. thr[t].pos \in 1 .. Len(Data[thr[t].job])
      BY <2>1, <2>2, Lengths
    <2> QED BY <2>1, <2>2, <2>3
  <1>2. part' \in Content \cup {NoFile} /\ target' \in Content \cup {NoFile}
        /\ (part # NoFile => part' # NoFile) /\ (target # NoFile => target' # NoFile)
    <2>1. thr[t].file = "part" => part \in Content
      BY DEF TypeInv, FileInv, OpenFileExists
    <2>2. thr[t].file = "target" => target \in Content
      BY DEF TypeInv, FileInv, OpenFileExists
    <2>3. \A c \in Content : Append(c, unit) \in Content
      BY <1>1 DEF Content
    <2>4. NoFile \notin Content
      BY UploadAssumption
    <2> HIDE DEF unit
    <2>5. part' = IF thr[t].file = "part" THEN Append(part, unit) ELSE part
      BY DEF AppendUnit, unit
    <2>6. target' = IF thr[t].file = "target" THEN Append(target, unit) ELSE target
      BY DEF AppendUnit, unit
    <2> QED BY <2>1, <2>2, <2>3, <2>4, <2>5, <2>6 DEF TypeInv, FileInv
  <1>3. CASE thr[t].pos = thr[t].end
    <2>1. [code |-> "ok", num |-> thr[t].end, exists |-> FALSE] \in Reply
      BY DEF Reply, Codes
    <2>2. JobInv' /\ ThreadsOK(thr)' /\ OpenFileExists(thr', part, target)
      BY <1>3, <2>1, AnswerKeeps DEF AppendUnit, Answer, TypeInv, FileInv
    <2>3. FileInv'
      BY <1>2, <2>2 DEF FileInv, OpenFileExists, AppendUnit, TypeInv
    <2> QED BY <2>2, <2>3 DEF TypeInv
  <1>4. CASE thr[t].pos # thr[t].end
    <2> DEFINE rec == [thr[t] EXCEPT !.pos = thr[t].pos + 1]
    <2>1. rec \in ThreadState /\ rec.pos = thr[t].pos + 1 /\ rec.end = thr[t].end
          /\ rec.job = thr[t].job /\ rec.file = thr[t].file
      BY DEF ThreadState
    <2>2. thr' = [thr EXCEPT ![t] = rec] /\ job' = job
      BY <1>4 DEF AppendUnit
    <2>3. /\ 1 <= rec.pos /\ rec.pos <= rec.end
          /\ rec.end <= SourceEnd(rec.job)
      BY <1>1, <1>4, <2>1
    <2> HIDE DEF rec
    <2>4. ThreadsOK(thr')
      BY <2>1, <2>2, <2>3, ThreadUpdate DEF TypeInv
    <2>5. ThreadsOK(thr)'
      BY <2>4 DEF ThreadsOK
    <2>6. \A u \in Threads : thr'[u].file = thr[u].file
      BY <2>1, <2>2 DEF TypeInv, ThreadsOK
    <2>7. FileInv'
      BY <1>2, <2>6 DEF FileInv, OpenFileExists, AppendUnit, TypeInv
    <2>8. JobInv'
      BY <2>2 DEF TypeInv, JobInv, Running, SourceEnd
    <2> QED BY <2>5, <2>7, <2>8 DEF TypeInv
  <1> QED BY <1>3, <1>4

LEMMA HandlerTyped ==
    ASSUME TypeInv, NEW t \in Threads, Handle(t) \/ ShortRead(t)
    PROVE  TypeInv'
  <1> USE ThreadFacts, ReplyTypes
  <1>1. CASE HandleStatus(t)
    <2>1. CASE Goto(t, "discard")
      BY <1>1, <2>1, GotoTyped DEF HandleStatus, Steps, Reads
    <2>2. CASE Answer(t, StatusReply(PartSize))
      BY <1>1, <2>2, AnswerTyped DEF HandleStatus, TypeInv, FileInv
    <2> QED BY <1>1, <2>1, <2>2 DEF HandleStatus
  <1>2. CASE StatusDiscard(t)
    <2>1. StatusReply(0) \in Reply
      OBVIOUS
    <2> QED BY <1>2, <2>1, DiscardTyped DEF StatusDiscard
  <1>3. CASE HandleChunk(t)
    <2>1. [code |-> "offset_mismatch", num |-> PartSize, exists |-> FALSE] \in Reply
          /\ Error("exists") \in Reply
      BY DEF Reply, Codes
    <2>2. CASE Goto(t, "open")
      BY <1>3, <2>2, GotoTyped DEF HandleChunk, Steps, Reads, At
    <2>3. CASE \/ Answer(t, Error("exists"))
               \/ Answer(t, [code |-> "offset_mismatch", num |-> PartSize, exists |-> FALSE])
      BY <1>3, <2>1, <2>3, AnswerTyped DEF HandleChunk, TypeInv, FileInv
    <2> QED BY <1>3, <2>2, <2>3 DEF HandleChunk
  <1>4. CASE OpenPart(t)
    <2> DEFINE rec == [thr[t] EXCEPT !.pc = "write", !.file = "part"]
    <2>1. rec \in ThreadState /\ rec.pc = "write" /\ rec.pos = thr[t].pos
          /\ rec.end = thr[t].end /\ rec.job = thr[t].job
      BY DEF ThreadState, Steps
    <2>2. thr' = [thr EXCEPT ![t] = rec]
      BY <1>4 DEF OpenPart
    <2>3. /\ 1 <= thr[t].pos /\ thr[t].pos <= thr[t].end
          /\ thr[t].end <= SourceEnd(thr[t].job)
      BY <1>4 DEF OpenPart, At, TypeInv, ThreadsOK
    <2> HIDE DEF rec
    <2>4. ThreadsOK(thr')
      BY <2>1, <2>2, <2>3, ThreadUpdate DEF TypeInv
    <2>5. ThreadsOK(thr)'
      BY <2>4 DEF ThreadsOK
    <2>6. part' \in Content /\ part' # NoFile
      <3>1. <<>> \in Content
        BY DEF Content
      <3> QED BY <1>4, <3>1, UploadAssumption DEF OpenPart, TypeInv, FileInv
    <2>7. \A u \in Threads : u # t => thr'[u].file = thr[u].file
      BY <2>2 DEF TypeInv, ThreadsOK
    <2>8. thr'[t].file = "part"
      BY <1>4 DEF OpenPart, TypeInv, ThreadsOK
    <2>9. FileInv'
      <3>1. target' = target /\ acked' = acked
        BY <1>4 DEF OpenPart
      <3>2. OpenFileExists(thr', part', target')
        BY <2>6, <2>7, <2>8, <3>1 DEF OpenFileExists, TypeInv, FileInv
      <3> QED BY <2>6, <3>1, <3>2 DEF FileInv, TypeInv, OpenFileExists
    <2>10. JobInv'
      BY <1>4 DEF OpenPart, TypeInv, JobInv, Running, SourceEnd
    <2> QED BY <2>5, <2>9, <2>10 DEF TypeInv
  <1>5. CASE ShortRead(t)
    <2>1. Error("short_read") \in Reply
      BY DEF Codes
    <2> QED BY <1>5, <2>1, AnswerTyped DEF ShortRead, TypeInv, FileInv
  <1>6. CASE HandleFinish(t)
    <2>1. CASE Goto(t, "no_part") /\ UNCHANGED part
      BY <1>6, <2>1, GotoTyped DEF HandleFinish, Steps, Reads
    <2>2. CASE Goto(t, "hash") /\ UNCHANGED part
      BY <1>6, <2>2, GotoTyped DEF HandleFinish, Steps, Reads
    <2>3. CASE Discard(t, Error("size_mismatch"))
      BY <1>6, <2>3, DiscardTyped DEF HandleFinish, Codes
    <2> QED BY <1>6, <2>1, <2>2, <2>3 DEF HandleFinish
  <1> DEFINE ok == [NoReply EXCEPT !.code = "ok"]
  <1>ok. ok \in Reply
    BY DEF Reply, NoReply, Codes
  <1> HIDE DEF ok
  <1>7. CASE FinishWithoutPart(t)
    <2>1. CASE Acknowledge(t)
      BY <1>7, <1>ok, <2>1, AnswerTyped DEF FinishWithoutPart, Acknowledge, TypeInv, FileInv, ok
    <2>2. CASE /\ \/ Answer(t, Error("missing_partial")) \/ Answer(t, Error("exists"))
                  \/ Answer(t, Error("hash_mismatch"))
               /\ UNCHANGED acked
      <3>1. /\ Error("missing_partial") \in Reply /\ Error("exists") \in Reply
            /\ Error("hash_mismatch") \in Reply
        BY DEF Codes
      <3> QED BY <1>7, <2>2, <3>1, AnswerTyped DEF FinishWithoutPart, TypeInv, FileInv
    <2>3. CASE Goto(t, "empty") /\ UNCHANGED acked
      BY <1>7, <2>3, GotoTyped DEF FinishWithoutPart, Steps, Reads
    <2> QED BY <1>7, <2>1, <2>2, <2>3 DEF FinishWithoutPart
  <1>8. CASE WriteEmpty(t)
    <2>1. JobInv' /\ ThreadsOK(thr)' /\ OpenFileExists(thr', part, target)
      BY <1>8, <1>ok, AnswerKeeps DEF WriteEmpty, Acknowledge, Answer, TypeInv, FileInv, ok
    <2>2. target' \in Content /\ target' # NoFile
      <3>1. <<>> \in Content
        BY DEF Content
      <3> QED BY <1>8, <3>1, UploadAssumption DEF WriteEmpty
    <2>3. FileInv'
      BY <1>8, <2>1, <2>2 DEF WriteEmpty, Acknowledge, TypeInv, FileInv, OpenFileExists
    <2> QED BY <2>1, <2>3 DEF TypeInv
  <1>9. CASE CheckHash(t)
    <2>1. CASE Answer(t, Error("internal_error")) /\ UNCHANGED part
      <3>1. Error("internal_error") \in Reply
        BY DEF Codes
      <3> QED BY <1>9, <2>1, <3>1, AnswerTyped DEF CheckHash, TypeInv, FileInv
    <2>2. CASE Discard(t, Error("hash_mismatch"))
      BY <1>9, <2>2, DiscardTyped DEF CheckHash, Codes
    <2>3. CASE Goto(t, "exists") /\ UNCHANGED part
      BY <1>9, <2>3, GotoTyped DEF CheckHash, Steps, Reads
    <2> QED BY <1>9, <2>1, <2>2, <2>3 DEF CheckHash
  <1>10. CASE CheckExists(t)
    <2>1. CASE Goto(t, "replace")
      BY <1>10, <2>1, GotoTyped DEF CheckExists, Steps, Reads
    <2>2. CASE Answer(t, Error("exists"))
      <3>1. Error("exists") \in Reply
        BY DEF Codes
      <3> QED BY <1>10, <2>2, <3>1, AnswerTyped DEF CheckExists, TypeInv, FileInv
    <2> QED BY <1>10, <2>1, <2>2 DEF CheckExists
  <1>11. CASE ReplaceTarget(t)
    <2>1. CASE part = NoFile
      <3>1. Error("internal_error") \in Reply
        BY DEF Codes
      <3> QED BY <1>11, <2>1, <3>1, AnswerTyped DEF ReplaceTarget, TypeInv, FileInv
    <2>2. CASE part # NoFile
      <3>1. ThreadsOK(Renamed(thr)) /\ OpenFileExists(Renamed(thr), NoFile, part)
        BY <2>2, RenamedThreads DEF TypeInv
      <3>2. JobInv' /\ ThreadsOK(thr)' /\ OpenFileExists(thr', NoFile, part)
        BY <1>11, <1>ok, <2>2, <3>1, AnswerKeeps DEF ReplaceTarget, TypeInv, ok
      <3>3. FileInv'
        BY <1>11, <2>2, <3>2 DEF ReplaceTarget, TypeInv, FileInv, OpenFileExists
      <3> QED BY <3>2, <3>3 DEF TypeInv
    <2> QED BY <2>1, <2>2
  <1> QED
    BY <1>1, <1>2, <1>3, <1>4, AppendTyped, <1>5, <1>6, <1>7, <1>8, <1>9, <1>10, <1>11 DEF Handle

LEMMA EnvironmentTyped ==
    ASSUME TypeInv, CleanupPartial \/ DeleteTarget \/ RestartServer
    PROVE  TypeInv'
  <1>1. CASE CleanupPartial
    <2>1. ThreadsOK(Detached(thr)) /\ OpenFileExists(Detached(thr), NoFile, target)
      BY DetachedThreads DEF TypeInv, FileInv
    <2>2. ThreadsOK(thr)' /\ OpenFileExists(thr', part', target')
      BY <1>1, <2>1 DEF CleanupPartial, ThreadsOK, OpenFileExists
    <2> QED BY <1>1, <2>2 DEF CleanupPartial, TypeInv, JobInv, FileInv, OpenFileExists,
               Running, SourceEnd
  <1>2. CASE DeleteTarget
    <2>1. \A t \in Threads : thr[t] \in ThreadState
      BY DEF TypeInv, ThreadsOK
    <2>2. \A t \in Threads :
              /\ thr'[t] \in ThreadState
              /\ thr'[t].pc = thr[t].pc /\ thr'[t].pos = thr[t].pos
              /\ thr'[t].end = thr[t].end /\ thr'[t].job = thr[t].job
              /\ thr'[t].file # "target"
              /\ thr'[t].file = "part" => thr[t].file = "part"
      BY <1>2, <2>1 DEF DeleteTarget, ThreadState
    <2>3. thr' \in [Threads -> ThreadState]
      BY <1>2, <2>2 DEF DeleteTarget
    <2>4. ThreadsOK(thr)'
      BY <2>2, <2>3 DEF ThreadsOK, TypeInv
    <2>5. FileInv'
      BY <1>2, <2>2 DEF DeleteTarget, TypeInv, FileInv, OpenFileExists
    <2>6. JobInv'
      BY <1>2 DEF DeleteTarget, TypeInv, JobInv, Running, SourceEnd
    <2> QED BY <2>4, <2>5, <2>6 DEF TypeInv
  <1>3. CASE RestartServer
    <2> DEFINE rec == [IdleJob EXCEPT !.pc = "error", !.err = "bad_token"]
    <2>1. rec \in JobState /\ rec.pc = "error"
      BY IdleTypes DEF JobState, Ended, Codes, IdleJob
    <2>2. job' = [j \in Jobs |-> IF Running(j) THEN rec ELSE job[j]]
      BY <1>3 DEF RestartServer
    <2> HIDE DEF rec
    <2>3. job' \in [Jobs -> JobState]
      BY <2>1, <2>2 DEF TypeInv, JobInv
    <2>4. \A j \in Jobs : job'[j].pc \notin Calls
      BY <2>1, <2>2 DEF Running, Calls
    <2>5. JobInv'
      BY <2>3, <2>4 DEF JobInv, Running, Calls
    <2>6. ThreadsOK(thr)'
      BY <1>3, IdleTypes DEF RestartServer, ThreadsOK, IdleThread
    <2>7. FileInv'
      BY <1>3 DEF RestartServer, TypeInv, FileInv, OpenFileExists, IdleThread
    <2> QED BY <2>5, <2>6, <2>7 DEF TypeInv
  <1> QED BY <1>1, <1>2, <1>3

LEMMA TypeStep == TypeInv /\ [Next]_vars => TypeInv'
  <1> SUFFICES ASSUME TypeInv, [Next]_vars PROVE TypeInv'
    OBVIOUS
  <1>1. CASE UNCHANGED vars
    BY <1>1 DEF vars, TypeInv, JobInv, ThreadsOK, FileInv, OpenFileExists, Running, SourceEnd
  <1>2. CASE Next
    BY <1>2, ClientTyped, SendTyped, HandlerTyped, EnvironmentTyped DEF Next
  <1> QED BY <1>1, <1>2

THEOREM TypeInvariance == Spec => []TypeInv
  <1>1. Init => TypeInv
    BY TypeInit
  <1>2. TypeInv /\ [Next]_vars => TypeInv'
    BY TypeStep
  <1> QED BY <1>1, <1>2, PTL DEF Spec

\* Only an append, or the opening of the partial for one, changes the history.
LEMMA RacedOnly ==
    ASSUME [Next]_vars
    PROVE  raced' = raced \/ \E t \in Threads :
               raced' \in BOOLEAN /\ (OpenPart(t) \/ AppendUnit(t))
  <1>1. ASSUME NEW j \in Jobs, Start(j) \/ Receive(j) \/ Fault(j) \/ \E t \in Threads : Send(j, t)
        PROVE  raced' = raced
    BY <1>1 DEF Start, Receive, ReceiveStatus, ReceiveChunk, ReceiveFinish, Fault, RequestLost,
       AttemptTimeout, Retry, Disconnected, Cancel, Send
  <1>2. ASSUME NEW t \in Threads, Handle(t) \/ ShortRead(t), ~OpenPart(t), ~AppendUnit(t)
        PROVE  raced' = raced
    BY <1>2 DEF Handle, HandleStatus, StatusDiscard, HandleChunk, HandleFinish, FinishWithoutPart,
       WriteEmpty, CheckHash, CheckExists, ReplaceTarget, ShortRead
  <1>3. ASSUME NEW t \in Threads, OpenPart(t) \/ AppendUnit(t)
        PROVE  raced' \in BOOLEAN
    BY <1>3 DEF OpenPart, AppendUnit
  <1>4. CleanupPartial \/ DeleteTarget \/ RestartServer => raced' = raced
    BY DEF CleanupPartial, DeleteTarget, RestartServer
  <1> QED BY <1>1, <1>2, <1>3, <1>4 DEF Next, vars

\* Every variable keeps its type, whatever overlaps: in particular no handler
\* reads past its chunk or appends to a file that is gone, and no job makes an
\* attempt beyond its budget.
THEOREM TypeCorrectness == Spec => []TypeOK
  <1>1. TypeInv /\ raced \in BOOLEAN => TypeOK
    BY DEF TypeInv, JobInv, ThreadsOK, FileInv, TypeOK
  <1>2. Init => raced \in BOOLEAN
    BY DEF Init
  <1>3. raced \in BOOLEAN /\ [Next]_vars => (raced \in BOOLEAN)'
    BY RacedOnly
  <1> QED BY <1>1, <1>2, <1>3, TypeInvariance, PTL DEF Spec

-----------------------------------------------------------------------------
(* Safety.                                                                 *)

\* The handlers of the path run one at a time.
Serial == \A t, u \in Threads : t = u

\* The call that a step of a handler belongs to.
CallOf(pc) == CASE pc \in {"status", "discard"} -> "status"
                [] pc \in Reads -> "chunk"
                [] OTHER -> "finish"

\* A job that reports success was acknowledged by the server.
DoneIsAcknowledged == \A j \in Jobs : job[j].pc = "done" => j \in acked

\* A handler whose answer a job still waits for handles that job's current
\* call, and the answer ok to a finish is only given with an acknowledgement.
AckInv ==
    /\ \A t \in Threads : LET j == thr[t].job IN
           thr[t].pc # "idle" /\ job[j].via = t => job[j].pc = CallOf(thr[t].pc)
    /\ \A j \in Jobs : job[j].pc = "finish" /\ job[j].reply.code = "ok" => j \in acked
    /\ DoneIsAcknowledged

LEMMA Idle == IdleThread.pc = "idle" /\ IdleThread.file = "none" /\ IdleJob.pc = "idle"
  BY DEF IdleThread, IdleJob

LEMMA AckInit == Init => AckInv
  <1> SUFFICES ASSUME Init PROVE AckInv
    OBVIOUS
  <1>1. \A t \in Threads : thr[t].pc = "idle"
    BY Idle DEF Init
  <1>2. \A j \in Jobs : job[j].pc = "idle"
    BY Idle DEF Init
  <1> QED BY <1>1, <1>2 DEF AckInv, DoneIsAcknowledged

\* A step of the client: its job no longer waits for any handler.
LEMMA ClientAck ==
    ASSUME TypeInv, AckInv, NEW j \in Jobs, NEW rec, job' = [job EXCEPT ![j] = rec],
           rec.via = NoThread, rec.pc = "finish" => rec.reply = NoReply,
           rec.pc = "done" => j \in acked, UNCHANGED <<thr, acked>>
    PROVE  AckInv'
  <1>1. \A i \in Jobs : job'[i] = IF i = j THEN rec ELSE job[i]
    BY DEF TypeInv, JobInv
  <1>2. \A t \in Threads : thr[t].job \in Jobs
    BY ThreadFacts
  <1>3. \A t \in Threads : LET i == thr[t].job IN
            thr[t].pc # "idle" /\ job'[i].via = t => job'[i].pc = CallOf(thr[t].pc)
    BY <1>1, <1>2, UploadAssumption DEF AckInv
  <1>4. NoReply.code # "ok"
    BY DEF NoReply
  <1> QED BY <1>1, <1>3, <1>4 DEF AckInv, DoneIsAcknowledged

LEMMA EndAck ==
    ASSUME TypeInv, AckInv, NEW j \in Jobs, NEW pc \in Ended, NEW err, End(j, pc, err),
           pc = "done" => j \in acked, UNCHANGED <<thr, acked>>
    PROVE  AckInv'
  <1> DEFINE rec == [job[j] EXCEPT !.pc = pc, !.via = NoThread, !.reply = NoReply, !.err = err]
  <1>1. job[j] \in JobState
    BY ReplyFacts
  <1>2. rec.pc = pc /\ rec.via = NoThread /\ rec.reply = NoReply
    BY <1>1 DEF JobState
  <1>3. job' = [job EXCEPT ![j] = rec]
    BY DEF End
  <1> HIDE DEF rec
  <1> QED BY <1>2, <1>3, ClientAck

LEMMA CallAck ==
    ASSUME TypeInv, AckInv, NEW j \in Jobs, NEW pc \in Calls, NEW off, Call(j, pc, off),
           UNCHANGED <<thr, acked>>
    PROVE  AckInv'
  <1> DEFINE rec == [job[j] EXCEPT !.pc = pc, !.off = off, !.left = MaxAttempts,
                                   !.via = NoThread, !.reply = NoReply]
  <1>1. job[j] \in JobState
    BY ReplyFacts
  <1>2. rec.pc = pc /\ rec.via = NoThread /\ rec.reply = NoReply
    BY <1>1 DEF JobState
  <1>3. job' = [job EXCEPT ![j] = rec]
    BY DEF Call
  <1> HIDE DEF rec
  <1> QED BY <1>2, <1>3, ClientAck DEF Calls

LEMMA RetryAck ==
    ASSUME TypeInv, AckInv, NEW j \in Jobs, NEW left, Running(j), Retry(j, left)
    PROVE  AckInv'
  <1> DEFINE rec == [job[j] EXCEPT !.via = NoThread, !.reply = NoReply, !.left = left]
  <1>1. job[j] \in JobState /\ job[j].pc \in Calls
    BY ReplyFacts DEF Running
  <1>2. rec.pc = job[j].pc /\ rec.via = NoThread /\ rec.reply = NoReply
    BY <1>1 DEF JobState
  <1>3. CASE left = 0
    BY <1>3, EndAck DEF Retry, Ended
  <1>4. CASE left # 0
    <2>1. job' = [job EXCEPT ![j] = rec]
      BY <1>1, <1>4 DEF Retry, TypeInv, JobInv, JobState
    <2> HIDE DEF rec
    <2> QED BY <1>1, <1>2, <1>4, <2>1, ClientAck DEF Retry, Calls
  <1> QED BY <1>3, <1>4

LEMMA ClientKeepsAck ==
    ASSUME TypeInv, AckInv, NEW j \in Jobs, Start(j) \/ Receive(j) \/ Fault(j)
    PROVE  AckInv'
  <1>1. CASE Start(j)
    BY <1>1, CallAck DEF Start, Calls
  <1>2. CASE ReceiveStatus(j)
    <2>1. CASE \E err : End(j, "error", err)
      BY <1>2, <2>1, EndAck DEF ReceiveStatus, Ended
    <2>2. CASE Proceed(j, job[j].reply.num)
      BY <1>2, <2>2, CallAck DEF ReceiveStatus, Proceed, Calls
    <2> QED BY <1>2, <2>1, <2>2 DEF ReceiveStatus
  <1>3. CASE ReceiveChunk(j)
    <2>1. CASE \E err : End(j, "error", err)
      BY <1>3, <2>1, EndAck DEF ReceiveChunk, Ended
    <2>2. CASE Proceed(j, job[j].reply.num)
      BY <1>3, <2>2, CallAck DEF ReceiveChunk, Proceed, Calls
    <2> QED BY <1>3, <2>1, <2>2 DEF ReceiveChunk
  <1>4. CASE ReceiveFinish(j)
    <2>1. CASE FinishConfirmed(j)
      <3>1. j \in acked
        BY <1>4, <2>1 DEF ReceiveFinish, FinishConfirmed, AckInv
      <3> QED BY <1>4, <2>1, <3>1, EndAck DEF ReceiveFinish, Ended
    <2>2. CASE ~FinishConfirmed(j) /\ MayRestart(j)
      <3> DEFINE rec == [IdleJob EXCEPT !.pc = "status", !.retried = TRUE, !.left = MaxAttempts]
      <3>1. rec.pc = "status" /\ rec.via = NoThread
        BY DEF IdleJob
      <3>2. job' = [job EXCEPT ![j] = rec]
        BY <1>4, <2>2 DEF ReceiveFinish
      <3> HIDE DEF rec
      <3> QED BY <1>4, <3>1, <3>2, ClientAck DEF ReceiveFinish
    <2>3. CASE ~FinishConfirmed(j) /\ ~MayRestart(j)
      BY <1>4, <2>3, EndAck DEF ReceiveFinish, Ended
    <2> QED BY <2>1, <2>2, <2>3
  <1>5. CASE RequestLost(j) \/ AttemptTimeout(j)
    BY <1>5, RetryAck DEF RequestLost, AttemptTimeout
  <1>6. CASE Disconnected(j) \/ Cancel(j)
    BY <1>6, EndAck DEF Disconnected, Cancel, Ended
  <1> QED BY <1>1, <1>2, <1>3, <1>4, <1>5, <1>6 DEF Receive, Fault

LEMMA SendKeepsAck ==
    ASSUME TypeInv, AckInv, NEW j \in Jobs, NEW t \in Threads, Send(j, t)
    PROVE  AckInv'
  <1>1. /\ job[j] \in JobState
        /\ \A i \in Jobs : /\ job'[i].pc = job[i].pc /\ job'[i].reply = job[i].reply
                           /\ job'[i].via = IF i = j THEN t ELSE job[i].via
    BY ReplyFacts DEF Send, TypeInv, JobInv, JobState
  <1>2. \A u \in Threads : u # t => thr'[u] = thr[u]
    BY DEF Send, TypeInv, ThreadsOK
  <1>3. thr'[t].job = j /\ thr'[t].pc = job[j].pc
    BY DEF Send, TypeInv, ThreadsOK
  <1>4. job[j].pc \in Calls => CallOf(job[j].pc) = job[j].pc
    BY DEF CallOf, Calls, Reads
  <1>5. ASSUME NEW u \in Threads, thr'[u].pc # "idle", job'[thr'[u].job].via = u
        PROVE  job'[thr'[u].job].pc = CallOf(thr'[u].pc)
    <2>1. CASE u = t
      BY <1>1, <1>3, <1>4, <2>1 DEF Send, Running
    <2>2. CASE u # t
      <3>1. thr[u].job \in Jobs
        BY ThreadFacts
      <3> QED BY <1>1, <1>2, <1>5, <2>2, <3>1 DEF AckInv
    <2> QED BY <2>1, <2>2
  <1>6. \A i \in Jobs : /\ job'[i].pc = "finish" /\ job'[i].reply.code = "ok" => i \in acked'
                        /\ job'[i].pc = "done" => i \in acked'
    BY <1>1 DEF AckInv, DoneIsAcknowledged, Send
  <1> QED BY <1>5, <1>6 DEF AckInv, DoneIsAcknowledged

\* An answer: if it is ok and ends a finish, it comes with an acknowledgement.
LEMMA AnswerAck ==
    ASSUME TypeInv, AckInv, NEW t \in Threads, NEW reply, NEW ts,
           ts \in [Threads -> ThreadState],
           \A u \in Threads : ts[u].pc = thr[u].pc /\ ts[u].job = thr[u].job,
           AnswerFrom(t, ts, reply), thr[t].pc # "idle", acked \subseteq acked',
           CallOf(thr[t].pc) = "finish" /\ reply.code = "ok" => thr[t].job \in acked'
    PROVE  AckInv'
  <1> DEFINE i == thr[t].job
  <1>1. i \in Jobs /\ job[i] \in JobState
    BY ThreadFacts, ReplyFacts
  <1>2. \A j \in Jobs : /\ job'[j].pc = job[j].pc /\ job'[j].via = job[j].via
                        /\ job'[j].reply = IF j = i /\ job[i].via = t THEN reply ELSE job[j].reply
    BY <1>1 DEF AnswerFrom, TypeInv, JobInv, JobState
  <1>3. \A u \in Threads : thr'[u] = IF u = t THEN IdleThread ELSE ts[u]
    BY DEF AnswerFrom
  <1>4. ASSUME NEW u \in Threads, thr'[u].pc # "idle", job'[thr'[u].job].via = u
        PROVE  job'[thr'[u].job].pc = CallOf(thr'[u].pc)
    <2>1. u # t
      BY <1>3, <1>4, Idle
    <2>2. thr[u].job \in Jobs
      BY ThreadFacts
    <2> QED BY <1>2, <1>3, <1>4, <2>1, <2>2 DEF AckInv
  <1>5. ASSUME NEW j \in Jobs, job'[j].pc = "finish", job'[j].reply.code = "ok"
        PROVE  j \in acked'
    <2>1. CASE j = i /\ job[i].via = t
      BY <1>2, <1>5, <2>1 DEF AckInv
    <2>2. CASE ~(j = i /\ job[i].via = t)
      BY <1>2, <1>5, <2>2 DEF AckInv
    <2> QED BY <2>1, <2>2
  <1>6. \A j \in Jobs : job'[j].pc = "done" => j \in acked'
    BY <1>2 DEF AckInv, DoneIsAcknowledged
  <1> QED BY <1>4, <1>5, <1>6 DEF AckInv, DoneIsAcknowledged

\* A step of a handler within its call.
LEMMA MoveAck ==
    ASSUME TypeInv, AckInv, job' = job, acked' = acked,
           \A u \in Threads : /\ thr'[u].job = thr[u].job
                              /\ thr'[u].pc # "idle" => thr[u].pc # "idle"
                              /\ CallOf(thr'[u].pc) = CallOf(thr[u].pc)
    PROVE  AckInv'
  BY DEF AckInv, DoneIsAcknowledged

LEMMA GotoAck ==
    ASSUME TypeInv, AckInv, NEW t \in Threads, NEW pc, Goto(t, pc), acked' = acked,
           thr[t].pc # "idle", CallOf(pc) = CallOf(thr[t].pc)
    PROVE  AckInv'
  <1>1. \A u \in Threads : thr[u] \in ThreadState
    BY ThreadFacts
  <1>2. \A u \in Threads : thr'[u].job = thr[u].job
                           /\ thr'[u].pc = IF u = t THEN pc ELSE thr[u].pc
    BY <1>1 DEF Goto, TypeInv, ThreadsOK, ThreadState
  <1> QED BY <1>2, MoveAck DEF Goto

LEMMA SameCalls ==
    ASSUME TypeInv
    PROVE  /\ thr \in [Threads -> ThreadState]
           /\ Detached(thr) \in [Threads -> ThreadState]
           /\ Renamed(thr) \in [Threads -> ThreadState]
           /\ \A u \in Threads : /\ Detached(thr)[u].pc = thr[u].pc
                                 /\ Detached(thr)[u].job = thr[u].job
                                 /\ Renamed(thr)[u].pc = thr[u].pc
                                 /\ Renamed(thr)[u].job = thr[u].job
  <1>1. \A u \in Threads : thr[u] \in ThreadState
    BY ThreadFacts
  <1>2. \A u \in Threads :
            /\ Detached(thr)[u] \in ThreadState
            /\ Detached(thr)[u].pc = thr[u].pc /\ Detached(thr)[u].job = thr[u].job
    BY <1>1 DEF Detached, ThreadState
  <1>3. \A u \in Threads :
            /\ Renamed(thr)[u] \in ThreadState
            /\ Renamed(thr)[u].pc = thr[u].pc /\ Renamed(thr)[u].job = thr[u].job
    BY <1>1 DEF Renamed, ThreadState
  <1>4. Detached(thr) \in [Threads -> ThreadState]
    BY <1>2 DEF Detached
  <1>5. Renamed(thr) \in [Threads -> ThreadState]
    BY <1>3 DEF Renamed
  <1> QED BY <1>2, <1>3, <1>4, <1>5 DEF TypeInv, ThreadsOK

LEMMA HandlerKeepsAck ==
    ASSUME TypeInv, AckInv, NEW t \in Threads, Handle(t) \/ ShortRead(t)
    PROVE  AckInv'
  <1> USE SameCalls DEF At, Reads
  <1>1. CASE HandleStatus(t) \/ StatusDiscard(t)
    <2>1. CASE Goto(t, "discard")
      BY <1>1, <2>1, GotoAck DEF HandleStatus, StatusDiscard, CallOf
    <2>2. CASE \E reply : Answer(t, reply)
      BY <1>1, <2>2, AnswerAck DEF HandleStatus, StatusDiscard, Answer, CallOf
    <2>3. CASE \E reply : Discard(t, reply)
      BY <1>1, <2>3, AnswerAck DEF HandleStatus, StatusDiscard, Discard, CallOf
    <2> QED BY <1>1, <2>1, <2>2, <2>3 DEF HandleStatus, StatusDiscard
  <1>2. CASE HandleChunk(t)
    <2>1. CASE Goto(t, "open")
      BY <1>2, <2>1, GotoAck DEF HandleChunk, CallOf
    <2>2. CASE \E reply : Answer(t, reply)
      BY <1>2, <2>2, AnswerAck DEF HandleChunk, Answer, CallOf
    <2> QED BY <1>2, <2>1, <2>2 DEF HandleChunk
  <1>3. CASE OpenPart(t)
    <2>1. \A u \in Threads : thr[u] \in ThreadState
      BY ThreadFacts
    <2>2. \A u \in Threads : thr'[u].job = thr[u].job
                             /\ thr'[u].pc = IF u = t THEN "write" ELSE thr[u].pc
      BY <1>3, <2>1 DEF OpenPart, TypeInv, ThreadsOK, ThreadState
    <2> QED BY <1>3, <2>2, MoveAck DEF OpenPart, CallOf
  <1>4. CASE AppendUnit(t)
    <2>1. CASE \E reply : Answer(t, reply)
      BY <1>4, <2>1, AnswerAck DEF AppendUnit, Answer, CallOf
    <2>2. CASE thr' = [thr EXCEPT ![t].pos = @ + 1] /\ UNCHANGED job
      <3>1. \A u \in Threads : thr[u] \in ThreadState
        BY ThreadFacts
      <3>2. \A u \in Threads : thr'[u].job = thr[u].job /\ thr'[u].pc = thr[u].pc
        BY <2>2, <3>1 DEF TypeInv, ThreadsOK, ThreadState
      <3> QED BY <1>4, <2>2, <3>2, MoveAck DEF AppendUnit
    <2> QED BY <1>4, <2>1, <2>2 DEF AppendUnit
  <1>5. CASE ShortRead(t)
    BY <1>5, AnswerAck DEF ShortRead, Answer, CallOf
  <1>6. \A code \in Codes : Error(code).code = code
    BY DEF Error, NoReply
  <1>7. CASE HandleFinish(t)
    <2>1. CASE Goto(t, "no_part") \/ Goto(t, "hash")
      BY <1>7, <2>1, GotoAck DEF HandleFinish, CallOf
    <2>2. CASE Discard(t, Error("size_mismatch"))
      BY <1>6, <1>7, <2>2, AnswerAck DEF HandleFinish, Discard, Codes
    <2> QED BY <1>7, <2>1, <2>2 DEF HandleFinish
  <1>8. CASE Acknowledge(t) /\ thr[t].pc # "idle"
    BY <1>8, AnswerAck DEF Acknowledge, Answer
  <1>9. CASE FinishWithoutPart(t)
    <2>1. CASE Goto(t, "empty") /\ UNCHANGED acked
      BY <1>9, <2>1, GotoAck DEF FinishWithoutPart, CallOf
    <2>2. CASE /\ \/ Answer(t, Error("missing_partial")) \/ Answer(t, Error("exists"))
                  \/ Answer(t, Error("hash_mismatch"))
               /\ UNCHANGED acked
      BY <1>6, <1>9, <2>2, AnswerAck DEF FinishWithoutPart, Answer, Codes
    <2> QED BY <1>8, <1>9, <2>1, <2>2 DEF FinishWithoutPart
  <1>10. CASE WriteEmpty(t)
    BY <1>8, <1>10 DEF WriteEmpty
  <1>11. CASE CheckHash(t)
    <2>1. CASE Goto(t, "exists")
      BY <1>11, <2>1, GotoAck DEF CheckHash, CallOf
    <2>2. CASE Answer(t, Error("internal_error"))
      BY <1>6, <1>11, <2>2, AnswerAck DEF CheckHash, Answer, Codes
    <2>3. CASE Discard(t, Error("hash_mismatch"))
      BY <1>6, <1>11, <2>3, AnswerAck DEF CheckHash, Discard, Codes
    <2> QED BY <1>11, <2>1, <2>2, <2>3 DEF CheckHash
  <1>12. CASE CheckExists(t)
    <2>1. CASE Goto(t, "replace")
      BY <1>12, <2>1, GotoAck DEF CheckExists, CallOf
    <2>2. CASE Answer(t, Error("exists"))
      BY <1>6, <1>12, <2>2, AnswerAck DEF CheckExists, Answer, Codes
    <2> QED BY <1>12, <2>1, <2>2 DEF CheckExists
  <1>13. CASE ReplaceTarget(t)
    <2>1. CASE part = NoFile
      BY <1>6, <1>13, <2>1, AnswerAck DEF ReplaceTarget, Answer, Codes
    <2>2. CASE part # NoFile
      BY <1>13, <2>2, AnswerAck DEF ReplaceTarget
    <2> QED BY <2>1, <2>2
  <1> QED BY <1>1, <1>2, <1>3, <1>4, <1>5, <1>7, <1>9, <1>10, <1>11, <1>12, <1>13 DEF Handle

LEMMA EnvironmentKeepsAck ==
    ASSUME TypeInv, AckInv, CleanupPartial \/ DeleteTarget \/ RestartServer
    PROVE  AckInv'
  <1>1. CASE CleanupPartial
    BY <1>1, SameCalls, MoveAck DEF CleanupPartial
  <1>2. CASE DeleteTarget
    <2>1. \A u \in Threads : thr[u] \in ThreadState
      BY ThreadFacts
    <2>2. \A u \in Threads : thr'[u].job = thr[u].job /\ thr'[u].pc = thr[u].pc
      BY <1>2, <2>1 DEF DeleteTarget, ThreadState
    <2> QED BY <1>2, <2>2, MoveAck DEF DeleteTarget
  <1>3. CASE RestartServer
    <2>1. \A u \in Threads : thr'[u].pc = "idle"
      BY <1>3 DEF RestartServer, IdleThread
    <2>2. \A j \in Jobs : job'[j].pc = "error" \/ (job'[j] = job[j] /\ ~Running(j))
      BY <1>3 DEF RestartServer, IdleJob
    <2> QED BY <1>3, <2>1, <2>2 DEF AckInv, DoneIsAcknowledged, RestartServer, Running, Calls
  <1> QED BY <1>1, <1>2, <1>3

LEMMA AckStep == TypeInv /\ AckInv /\ [Next]_vars => AckInv'
  <1> SUFFICES ASSUME TypeInv, AckInv, [Next]_vars PROVE AckInv'
    OBVIOUS
  <1>1. CASE UNCHANGED vars
    BY <1>1 DEF vars, AckInv, DoneIsAcknowledged
  <1>2. CASE Next
    BY <1>2, ClientKeepsAck, SendKeepsAck, HandlerKeepsAck, EnvironmentKeepsAck DEF Next
  <1> QED BY <1>1, <1>2

\* A job that reports success was acknowledged by the server, whatever handlers
\* overlap, whatever is lost, and whichever answer arrives late.
THEOREM Acknowledgement == Spec => []DoneIsAcknowledged
  <1>1. AckInv => DoneIsAcknowledged
    BY DEF AckInv
  <1> QED BY <1>1, AckInit, AckStep, TypeInvariance, PTL DEF Spec

-----------------------------------------------------------------------------
(* Any number of overlapping handlers.                                     *)

\* As long as no append got in between, a finish that has checked the hash finds
\* what it hashed, or nothing, when it renames; an empty file is only created for
\* the digest of one.
LateInv ==
    /\ raced \/ NoSilentCorruption
    /\ \A t \in Threads : thr[t].pc \in {"exists", "replace"} =>
           raced \/ part \in {NoFile, Digest[thr[t].job]}
    /\ \A t \in Threads : thr[t].pc = "empty" => Digest[thr[t].job] = <<>>

LEMMA LateInit == Init => LateInv
  <1> SUFFICES ASSUME Init PROVE LateInv
    OBVIOUS
  <1>1. \A t \in Threads : thr[t].pc = "idle"
    BY Idle DEF Init
  <1> QED BY <1>1 DEF Init, LateInv, NoSilentCorruption

\* One handler moves, and the partial stays or goes.
LEMMA LateMove ==
    ASSUME LateInv, NEW t \in Threads, part' \in {part, NoFile}, UNCHANGED raced,
           raced \/ NoSilentCorruption',
           \A u \in Threads : u # t => thr'[u].pc = thr[u].pc /\ thr'[u].job = thr[u].job,
           thr'[t].pc \in {"exists", "replace"} =>
               raced \/ part' \in {NoFile, Digest[thr'[t].job]},
           thr'[t].pc = "empty" => Digest[thr'[t].job] = <<>>
    PROVE  LateInv'
  BY DEF LateInv

LEMMA LateAnswer ==
    ASSUME TypeInv, LateInv, NEW t \in Threads, NEW ts \in {thr, Detached(thr), Renamed(thr)},
           NEW reply, AnswerFrom(t, ts, reply), part' \in {part, NoFile}, UNCHANGED raced,
           raced \/ NoSilentCorruption'
    PROVE  LateInv'
  <1>1. thr'[t].pc = "idle"
    BY SameCalls, Idle DEF AnswerFrom
  <1>2. \A u \in Threads : u # t => thr'[u].pc = thr[u].pc /\ thr'[u].job = thr[u].job
    BY SameCalls DEF AnswerFrom
  <1> QED BY <1>1, <1>2, LateMove

LEMMA LateGoto ==
    ASSUME TypeInv, LateInv, NEW t \in Threads, NEW pc, Goto(t, pc), UNCHANGED <<target, part, raced>>,
           pc \in {"exists", "replace"} => raced \/ part \in {NoFile, Digest[thr[t].job]},
           pc = "empty" => Digest[thr[t].job] = <<>>
    PROVE  LateInv'
  <1>1. \A u \in Threads : /\ thr'[u].job = thr[u].job
                           /\ thr'[u].pc = IF u = t THEN pc ELSE thr[u].pc
    BY ThreadFacts DEF Goto, TypeInv, ThreadsOK, ThreadState
  <1>2. raced \/ NoSilentCorruption'
    BY DEF LateInv, NoSilentCorruption
  <1> QED BY <1>1, <1>2, LateMove

\* A chunk handler opens the partial or appends to it: unless this is recorded, no
\* finish is past its hash check and the file is not the installed one.
LEMMA LateAppend ==
    ASSUME TypeInv, LateInv, NEW t \in Threads, OpenPart(t) \/ AppendUnit(t)
    PROVE  LateInv'
  <1>1. \A u \in Threads : thr[u] \in ThreadState
    BY ThreadFacts
  <1>2. \A u \in Threads : u # t => thr'[u].pc = thr[u].pc /\ thr'[u].job = thr[u].job
    BY <1>1 DEF OpenPart, AppendUnit, Answer, AnswerFrom, TypeInv, ThreadsOK
  <1>3. thr'[t].pc \in {"idle", "write"}
    <2>1. CASE OpenPart(t)
      BY <1>1, <2>1 DEF OpenPart, TypeInv, ThreadsOK, ThreadState
    <2>2. CASE AppendUnit(t) /\ thr' = [thr EXCEPT ![t].pos = @ + 1]
      BY <1>1, <2>2 DEF AppendUnit, At, TypeInv, ThreadsOK, ThreadState
    <2>3. CASE AppendUnit(t) /\ \E reply : Answer(t, reply)
      BY <1>1, <2>3, Idle DEF Answer, AnswerFrom, TypeInv, ThreadsOK
    <2> QED BY <2>1, <2>2, <2>3 DEF AppendUnit
  <1>4. CASE raced'
    BY <1>2, <1>3, <1>4 DEF LateInv
  <1>5. CASE ~raced'
    <2>1. ~raced /\ ~Finishing /\ target' = target
      BY <1>5 DEF OpenPart, AppendUnit
    <2>2. NoSilentCorruption'
      BY <2>1 DEF LateInv, NoSilentCorruption
    <2> QED BY <1>2, <1>3, <2>1, <2>2 DEF LateInv, Finishing
  <1> QED BY <1>4, <1>5

LEMMA HandlerLate ==
    ASSUME TypeInv, LateInv, NEW t \in Threads, Handle(t) \/ ShortRead(t)
    PROVE  LateInv'
  <1> DEFINE j == thr[t].job
  <1>0. j \in Jobs /\ (UNCHANGED <<target, raced>> => raced \/ NoSilentCorruption')
    BY ThreadFacts DEF LateInv, NoSilentCorruption
  <1>1. ASSUME NEW reply, Answer(t, reply) \/ Discard(t, reply), UNCHANGED <<target, raced>>,
               part' \in {part, NoFile}
        PROVE  LateInv'
    BY <1>0, <1>1, LateAnswer DEF Answer, Discard
  <1>2. CASE HandleStatus(t) \/ StatusDiscard(t)
    BY <1>1, <1>2, LateGoto DEF HandleStatus, StatusDiscard, Discard
  <1>3. CASE HandleChunk(t) \/ ShortRead(t)
    BY <1>1, <1>3, LateGoto DEF HandleChunk, ShortRead
  <1>4. CASE HandleFinish(t)
    BY <1>1, <1>4, LateGoto DEF HandleFinish, Discard
  <1>5. CASE FinishWithoutPart(t)
    BY <1>1, <1>5, LateGoto DEF FinishWithoutPart, Acknowledge
  <1>6. CASE WriteEmpty(t)
    <2>1. NoSilentCorruption'
      BY <1>0, <1>6 DEF WriteEmpty, At, LateInv, NoSilentCorruption
    <2> QED BY <1>6, <2>1, LateAnswer DEF WriteEmpty, Acknowledge, Answer
  <1>7. CASE CheckHash(t)
    <2>1. CASE Goto(t, "exists") /\ UNCHANGED part /\ HashMatches(j)
      BY <1>7, <2>1, LateGoto DEF CheckHash, HashMatches
    <2>2. CASE \/ Answer(t, Error("internal_error")) /\ UNCHANGED part
               \/ Discard(t, Error("hash_mismatch"))
      BY <1>1, <1>7, <2>2 DEF CheckHash, Discard
    <2> QED BY <1>7, <2>1, <2>2 DEF CheckHash
  <1>8. CASE CheckExists(t)
    <2>1. raced \/ part \in {NoFile, Digest[j]}
      BY <1>8 DEF CheckExists, At, LateInv
    <2> QED BY <1>1, <1>8, <2>1, LateGoto DEF CheckExists
  <1>9. CASE ReplaceTarget(t)
    <2>1. CASE part = NoFile
      BY <1>1, <1>9, <2>1 DEF ReplaceTarget
    <2>2. CASE part # NoFile
      <3>1. raced \/ NoSilentCorruption'
        BY <1>0, <1>9, <2>2 DEF ReplaceTarget, At, LateInv, NoSilentCorruption
      <3> QED BY <1>9, <2>2, <3>1, LateAnswer DEF ReplaceTarget
    <2> QED BY <2>1, <2>2
  <1> QED
    BY <1>2, <1>3, <1>4, <1>5, <1>6, <1>7, <1>8, <1>9, LateAppend DEF Handle

LEMMA LateStep == TypeInv /\ LateInv /\ [Next]_vars => LateInv'
  <1> SUFFICES ASSUME TypeInv, LateInv, [Next]_vars PROVE LateInv'
    OBVIOUS
  <1>0. target' \in {target, NoFile} /\ raced' = raced => raced \/ NoSilentCorruption'
    BY DEF LateInv, NoSilentCorruption
  <1>1. UNCHANGED <<target, part, thr, raced>> => LateInv'
    BY DEF LateInv, NoSilentCorruption
  <1>2. CASE UNCHANGED vars
    BY <1>1, <1>2 DEF vars
  <1>3. ASSUME NEW j \in Jobs, Start(j) \/ Receive(j) \/ Fault(j)
        PROVE  LateInv'
    BY <1>1, <1>3 DEF Start, Receive, ReceiveStatus, ReceiveChunk, ReceiveFinish, Fault,
       RequestLost, AttemptTimeout, Retry, Disconnected, Cancel
  <1>4. ASSUME NEW j \in Jobs, NEW t \in Threads, Send(j, t)
        PROVE  LateInv'
    <2>1. thr'[t].pc \in Calls
      BY <1>4 DEF Send, Running, TypeInv, ThreadsOK
    <2>2. \A u \in Threads : u # t => thr'[u].pc = thr[u].pc /\ thr'[u].job = thr[u].job
      BY <1>4 DEF Send, TypeInv, ThreadsOK
    <2> QED BY <1>0, <1>4, <2>1, <2>2, LateMove DEF Send, Calls
  <1>5. CASE CleanupPartial
    <2>1. \A u \in Threads : thr'[u].pc = thr[u].pc /\ thr'[u].job = thr[u].job
      BY <1>5, SameCalls DEF CleanupPartial
    <2> QED BY <1>0, <1>5, <2>1 DEF CleanupPartial, LateInv
  <1>6. CASE DeleteTarget
    <2>1. \A u \in Threads : thr'[u].pc = thr[u].pc /\ thr'[u].job = thr[u].job
      BY <1>6, ThreadFacts DEF DeleteTarget, ThreadState
    <2> QED BY <1>0, <1>6, <2>1 DEF DeleteTarget, LateInv
  <1>7. CASE RestartServer
    <2>1. \A u \in Threads : thr'[u].pc = "idle"
      BY <1>7, Idle DEF RestartServer
    <2> QED BY <1>0, <1>7, <2>1 DEF RestartServer, LateInv
  <1> QED BY <1>2, <1>3, <1>4, <1>5, <1>6, <1>7, HandlerLate DEF Next

\* However many handlers overlap, the target is only corrupted when a chunk handler
\* opened or appended to the partial between a finish's hash check and its rename,
\* or went on appending to the file that had been renamed (upload/finish with the
\* descriptors of upload/chunk), for any contents, jobs, cleanups and restarts.
THEOREM CorruptionNeedsALateAppend == Spec => []OnlyLateAppendsCorrupt
  <1>1. LateInv => OnlyLateAppendsCorrupt
    BY DEF LateInv, OnlyLateAppendsCorrupt
  <1> QED BY <1>1, LateInit, LateStep, TypeInvariance, PTL DEF Spec

-----------------------------------------------------------------------------
(* Handlers one at a time.                                                 *)

\* A descriptor never outlives the rename of its file, and between its checks
\* and the rename a finish handler sees what it checked.
HandlerSafe(t) ==
    LET j == thr[t].job IN
    /\ thr[t].file # "target"
    /\ thr[t].pc \in {"exists", "replace"} => part \in {NoFile, Digest[j]}
    /\ thr[t].pc \in {"replace", "empty"} => Replaceable(j)
    /\ thr[t].pc = "empty" => Digest[j] = <<>>

SafeInv == NoSilentCorruption /\ \A t \in Threads : HandlerSafe(t)

\* The handler answers: with it, no handler is left.
LEMMA AnswerSafe ==
    ASSUME Serial, TypeInv, NEW t \in Threads, NEW ts \in [Threads -> ThreadState], NEW reply,
           AnswerFrom(t, ts, reply), NoSilentCorruption'
    PROVE  SafeInv'
  <1>1. thr'[t].pc = "idle" /\ thr'[t].file = "none"
    BY Idle DEF AnswerFrom
  <1>2. \A u \in Threads : u = t
    BY DEF Serial
  <1> QED BY <1>1, <1>2 DEF SafeInv, HandlerSafe

LEMMA GotoSafe ==
    ASSUME Serial, TypeInv, SafeInv, NEW t \in Threads, NEW pc, Goto(t, pc),
           UNCHANGED <<target, part>>,
           pc \in {"exists", "replace"} => part \in {NoFile, Digest[thr[t].job]},
           pc \in {"replace", "empty"} => Replaceable(thr[t].job),
           pc = "empty" => Digest[thr[t].job] = <<>>
    PROVE  SafeInv'
  <1>1. thr[t] \in ThreadState
    BY ThreadFacts
  <1>2. thr'[t].pc = pc /\ thr'[t].job = thr[t].job /\ thr'[t].file = thr[t].file
    BY <1>1 DEF Goto, TypeInv, ThreadsOK, ThreadState
  <1>3. \A u \in Threads : u = t
    BY DEF Serial
  <1> QED BY <1>2, <1>3 DEF SafeInv, HandlerSafe, NoSilentCorruption, Replaceable

LEMMA SafeInit == Init => SafeInv
  <1> SUFFICES ASSUME Init PROVE SafeInv
    OBVIOUS
  <1>1. \A t \in Threads : thr[t].pc = "idle" /\ thr[t].file = "none"
    BY Idle DEF Init
  <1> QED BY <1>1 DEF Init, SafeInv, HandlerSafe, NoSilentCorruption

LEMMA ClientKeepsFiles ==
    ASSUME NEW j \in Jobs, Start(j) \/ Receive(j) \/ Fault(j)
    PROVE  UNCHANGED <<target, part, thr, acked>>
  BY DEF Start, Receive, ReceiveStatus, ReceiveChunk, ReceiveFinish, Fault, RequestLost,
         AttemptTimeout, Retry, Disconnected, Cancel

LEMMA SendSafe ==
    ASSUME Serial, TypeInv, SafeInv, NEW j \in Jobs, NEW t \in Threads, Send(j, t)
    PROVE  SafeInv'
  <1>1. thr'[t].pc \in Calls /\ thr'[t].file = "none"
    BY DEF Send, Running, TypeInv, ThreadsOK
  <1>2. \A u \in Threads : u = t
    BY DEF Serial
  <1> QED BY <1>1, <1>2 DEF SafeInv, HandlerSafe, NoSilentCorruption, Calls, Send

\* No handler is about to append to the file at the path.
LEMMA AppendSafe ==
    ASSUME Serial, TypeInv, SafeInv, NEW t \in Threads, AppendUnit(t)
    PROVE  SafeInv' /\ target' = target
  <1>1. target' = target
    BY DEF AppendUnit, SafeInv, HandlerSafe
  <1>2. NoSilentCorruption'
    BY <1>1 DEF SafeInv, NoSilentCorruption
  <1>3. CASE \E reply : Answer(t, reply)
    BY <1>1, <1>2, <1>3, SameCalls, AnswerSafe DEF Answer
  <1>4. CASE thr' = [thr EXCEPT ![t].pos = @ + 1]
    <2>1. thr'[t].pc = "write" /\ thr'[t].file = thr[t].file
      BY <1>4, ThreadFacts DEF AppendUnit, At, TypeInv, ThreadsOK, ThreadState
    <2>2. \A u \in Threads : u = t
      BY DEF Serial
    <2> QED BY <1>1, <1>2, <2>1, <2>2 DEF SafeInv, HandlerSafe
  <1> QED BY <1>1, <1>3, <1>4 DEF AppendUnit

LEMMA HandlerKeepsSafe ==
    ASSUME Serial, TypeInv, SafeInv, NEW t \in Threads, Handle(t) \/ ShortRead(t)
    PROVE  SafeInv'
  <1> USE SameCalls
  <1>0. UNCHANGED target => NoSilentCorruption'
    BY DEF SafeInv, NoSilentCorruption
  <1>1. CASE HandleStatus(t)
    BY <1>0, <1>1, GotoSafe, AnswerSafe DEF HandleStatus, Answer
  <1>2. CASE StatusDiscard(t)
    BY <1>0, <1>2, AnswerSafe DEF StatusDiscard, Discard
  <1>3. CASE HandleChunk(t)
    BY <1>0, <1>3, GotoSafe, AnswerSafe DEF HandleChunk, Answer
  <1>4. CASE OpenPart(t)
    <2>1. thr'[t].pc = "write" /\ thr'[t].file = "part"
      BY <1>4, ThreadFacts DEF OpenPart, TypeInv, ThreadsOK, ThreadState
    <2>2. \A u \in Threads : u = t
      BY DEF Serial
    <2> QED BY <1>0, <1>4, <2>1, <2>2 DEF OpenPart, SafeInv, HandlerSafe
  <1>5. CASE ShortRead(t)
    BY <1>0, <1>5, AnswerSafe DEF ShortRead, Answer
  <1>6. CASE HandleFinish(t)
    <2>1. CASE Goto(t, "no_part") /\ UNCHANGED part
      BY <1>6, <2>1, GotoSafe DEF HandleFinish
    <2>2. CASE Goto(t, "hash") /\ UNCHANGED part
      BY <1>6, <2>2, GotoSafe DEF HandleFinish
    <2>3. CASE \E reply : Discard(t, reply)
      BY <1>0, <1>6, <2>3, AnswerSafe DEF HandleFinish, Discard
    <2> QED BY <1>6, <2>1, <2>2, <2>3 DEF HandleFinish
  <1>7. CASE FinishWithoutPart(t)
    <2>1. CASE \E reply : Answer(t, reply)
      BY <1>0, <1>7, <2>1, AnswerSafe DEF FinishWithoutPart, Answer
    <2>2. CASE Goto(t, "empty") /\ Digest[thr[t].job] = <<>> /\ Replaceable(thr[t].job)
      BY <1>7, <2>2, GotoSafe DEF FinishWithoutPart
    <2> QED BY <1>7, <2>1, <2>2 DEF FinishWithoutPart, Acknowledge
  <1>8. CASE WriteEmpty(t)
    <2>1. Digest[thr[t].job] = <<>> /\ thr[t].job \in Jobs
      BY <1>8, ThreadFacts DEF WriteEmpty, At, SafeInv, HandlerSafe
    <2>2. NoSilentCorruption'
      BY <1>8, <2>1 DEF WriteEmpty, NoSilentCorruption
    <2> QED BY <1>8, <2>2, AnswerSafe DEF WriteEmpty, Acknowledge, Answer
  <1>9. CASE CheckHash(t)
    <2>1. CASE \E reply : Answer(t, reply)
      BY <1>0, <1>9, <2>1, AnswerSafe DEF CheckHash, Answer
    <2>2. CASE \E reply : Discard(t, reply)
      BY <1>0, <1>9, <2>2, AnswerSafe DEF CheckHash, Discard
    <2>3. CASE Goto(t, "exists") /\ UNCHANGED part /\ HashMatches(thr[t].job)
      BY <1>9, <2>3, GotoSafe DEF CheckHash, HashMatches
    <2> QED BY <1>9, <2>1, <2>2, <2>3 DEF CheckHash
  <1>10. CASE CheckExists(t)
    <2>1. CASE \E reply : Answer(t, reply)
      BY <1>0, <1>10, <2>1, AnswerSafe DEF CheckExists, Answer
    <2>2. CASE Goto(t, "replace") /\ Replaceable(thr[t].job)
      <3>1. part \in {NoFile, Digest[thr[t].job]}
        BY <1>10 DEF CheckExists, At, SafeInv, HandlerSafe
      <3> QED BY <1>10, <2>2, <3>1, GotoSafe DEF CheckExists
    <2> QED BY <1>10, <2>1, <2>2 DEF CheckExists
  <1>11. CASE ReplaceTarget(t)
    <2>1. thr[t].job \in Jobs /\ part \in {NoFile, Digest[thr[t].job]}
      BY <1>11, ThreadFacts DEF ReplaceTarget, At, SafeInv, HandlerSafe
    <2>2. NoSilentCorruption'
      BY <1>0, <1>11, <2>1 DEF ReplaceTarget, NoSilentCorruption
    <2> QED BY <1>11, <2>2, AnswerSafe DEF ReplaceTarget, Answer
  <1> QED
    BY <1>1, <1>2, <1>3, <1>4, AppendSafe, <1>5, <1>6, <1>7, <1>8, <1>9, <1>10, <1>11 DEF Handle

LEMMA EnvironmentKeepsSafe ==
    ASSUME TypeInv, SafeInv, CleanupPartial \/ DeleteTarget \/ RestartServer
    PROVE  SafeInv'
  <1>1. CASE CleanupPartial
    <2>1. \A t \in Threads : Detached(thr)[t].file = "target" => thr[t].file = "target"
      BY ThreadFacts DEF Detached, ThreadState
    <2> QED BY <1>1, <2>1, SameCalls DEF CleanupPartial, SafeInv, HandlerSafe,
               NoSilentCorruption, Replaceable
  <1>2. CASE DeleteTarget
    <2>1. \A t \in Threads : thr'[t].job = thr[t].job /\ thr'[t].pc = thr[t].pc
                             /\ thr'[t].file # "target"
      BY <1>2, ThreadFacts DEF DeleteTarget, ThreadState
    <2> QED BY <1>2, <2>1 DEF DeleteTarget, SafeInv, HandlerSafe, NoSilentCorruption, Replaceable
  <1>3. CASE RestartServer
    <2>1. \A t \in Threads : thr'[t].pc = "idle" /\ thr'[t].file = "none"
      BY <1>3, Idle DEF RestartServer
    <2> QED BY <1>3, <2>1 DEF RestartServer, SafeInv, HandlerSafe, NoSilentCorruption
  <1> QED BY <1>1, <1>2, <1>3

LEMMA SafeStep ==
    ASSUME Serial, TypeInv, SafeInv, [Next]_vars
    PROVE  SafeInv'
  <1>1. UNCHANGED <<target, part, thr>> => SafeInv'
    BY DEF SafeInv, HandlerSafe, NoSilentCorruption, Replaceable
  <1>2. CASE UNCHANGED vars
    BY <1>1, <1>2 DEF vars
  <1>3. CASE Next
    BY <1>1, <1>3, ClientKeepsFiles, SendSafe, HandlerKeepsSafe, EnvironmentKeepsSafe DEF Next
  <1> QED BY <1>2, <1>3

LEMMA SafeInvariance == ASSUME Serial PROVE Spec => []SafeInv
  <1>1. TypeInv /\ SafeInv /\ [Next]_vars => SafeInv'
    BY SafeStep
  <1> QED BY <1>1, SafeInit, TypeInvariance, PTL DEF Spec

\* No silent corruption, for any contents and any number of uploads, as long as
\* the handlers of the path do not overlap.
THEOREM Integrity == ASSUME Serial PROVE Spec => []NoSilentCorruption
  <1>1. SafeInv => NoSilentCorruption
    BY DEF SafeInv
  <1> QED BY <1>1, SafeInvariance, PTL

\* Every step of a handler is a step of AtomicInstall, or none.
LEMMA RefinementStep ==
    ASSUME Serial, TypeInv, SafeInv, [Next]_vars
    PROVE  [A!Next]_(A!vars)
  <1>1. UNCHANGED <<target, acked>> => UNCHANGED A!vars
    BY DEF A!vars
  <1>2. CASE UNCHANGED vars
    BY <1>1, <1>2 DEF vars
  <1>3. ASSUME NEW j \in Jobs, Start(j) \/ Receive(j) \/ Fault(j) \/ \E t \in Threads : Send(j, t)
        PROVE  UNCHANGED A!vars
    BY <1>1, <1>3, ClientKeepsFiles DEF Send
  <1>4. ASSUME NEW t \in Threads, Handle(t) \/ ShortRead(t)
        PROVE  [A!Next]_(A!vars)
    <2> DEFINE j == thr[t].job
    <2>0. j \in Jobs /\ HandlerSafe(t)
      BY ThreadFacts DEF SafeInv
    <2>1. CASE \/ HandleStatus(t) \/ StatusDiscard(t) \/ HandleChunk(t) \/ OpenPart(t)
               \/ HandleFinish(t) \/ CheckHash(t) \/ CheckExists(t) \/ ShortRead(t)
      BY <1>1, <2>1 DEF HandleStatus, StatusDiscard, HandleChunk, OpenPart, HandleFinish,
         CheckHash, CheckExists, ShortRead
    <2>2. CASE AppendUnit(t)
      BY <1>1, <2>2, AppendSafe DEF AppendUnit
    <2>3. CASE FinishWithoutPart(t)
      <3>1. CASE AlreadyInstalled(j)
        BY <2>0, <2>3, <3>1 DEF FinishWithoutPart, Acknowledge, AlreadyInstalled, A!Next, A!Confirm
      <3>2. CASE ~AlreadyInstalled(j)
        BY <1>1, <2>3, <3>2 DEF FinishWithoutPart
      <3> QED BY <3>1, <3>2
    <2>4. CASE WriteEmpty(t)
      <3>1. target' = Digest[j] /\ Replaceable(j)
        BY <2>0, <2>4 DEF WriteEmpty, At, HandlerSafe
      <3> QED BY <2>0, <2>4, <3>1 DEF WriteEmpty, Acknowledge, Replaceable, A!Next, A!Install
    <2>5. CASE ReplaceTarget(t)
      <3>1. CASE part = NoFile
        BY <1>1, <2>5, <3>1 DEF ReplaceTarget
      <3>2. CASE part # NoFile
        <4>1. part = Digest[j] /\ Replaceable(j)
          BY <2>0, <2>5, <3>2 DEF ReplaceTarget, At, HandlerSafe
        <4> QED BY <2>0, <2>5, <3>2, <4>1 DEF ReplaceTarget, Replaceable, A!Next, A!Install
      <3> QED BY <3>1, <3>2
    <2> QED BY <1>4, <2>1, <2>2, <2>3, <2>4, <2>5 DEF Handle
  <1>5. CASE CleanupPartial \/ RestartServer
    BY <1>1, <1>5 DEF CleanupPartial, RestartServer
  <1>6. CASE DeleteTarget
    BY <1>6 DEF DeleteTarget, A!Next, A!Delete
  <1> QED BY <1>2, <1>3, <1>4, <1>5, <1>6 DEF Next

\* The upload protocol keeps the promise of AtomicInstall, as long as the
\* handlers of the path do not overlap.
THEOREM Refinement == ASSUME Serial PROVE Spec => ImplementsAtomicInstall
  <1>1. Init => A!Init
    BY DEF Init, A!Init
  <1>2. TypeInv /\ SafeInv /\ [Next]_vars => [A!Next]_(A!vars)
    BY RefinementStep
  <1> QED BY <1>1, <1>2, TypeInvariance, SafeInvariance, PTL DEF Spec, ImplementsAtomicInstall, A!Spec

-----------------------------------------------------------------------------
(* Exactly-once append.                                                    *)

\* A chunk handler appends its next unit where that unit belongs.
Aligned(t) ==
    /\ thr[t].pc = "open" => PartSize + 1 = thr[t].pos
    /\ thr[t].pc = "write" => /\ thr[t].file = "part"
                              /\ PartSize + 1 = thr[t].pos

OffsetInv == EveryUnitAtItsOffset /\ \A t \in Threads : Aligned(t)

\* Removing the partial, or leaving the files alone with the handler gone.
LEMMA AnswerAligned ==
    ASSUME Serial, TypeInv, OffsetInv, NEW t \in Threads, NEW ts \in [Threads -> ThreadState],
           NEW reply, AnswerFrom(t, ts, reply), part' \in {part, NoFile}
    PROVE  OffsetInv'
  <1>1. thr'[t].pc = "idle"
    BY Idle DEF AnswerFrom
  <1>2. \A u \in Threads : u = t
    BY DEF Serial
  <1> QED BY <1>1, <1>2 DEF OffsetInv, Aligned, EveryUnitAtItsOffset

LEMMA GotoAligned ==
    ASSUME Serial, TypeInv, OffsetInv, NEW t \in Threads, NEW pc, Goto(t, pc), part' = part,
           pc # "write", pc = "open" => OffsetMatches(t)
    PROVE  OffsetInv'
  <1>1. thr'[t].pc = pc /\ thr'[t].pos = thr[t].pos
    BY ThreadFacts DEF Goto, TypeInv, ThreadsOK, ThreadState
  <1>2. \A u \in Threads : u = t
    BY DEF Serial
  <1> QED BY <1>1, <1>2 DEF OffsetInv, Aligned, EveryUnitAtItsOffset, OffsetMatches, PartSize

LEMMA OpenAligned ==
    ASSUME Serial, TypeInv, OffsetInv, NEW t \in Threads, OpenPart(t)
    PROVE  OffsetInv'
  <1>1. thr'[t].pc = "write" /\ thr'[t].file = "part" /\ thr'[t].pos = thr[t].pos
    BY ThreadFacts DEF OpenPart, TypeInv, ThreadsOK, ThreadState
  <1>2. PartSize' = PartSize /\ EveryUnitAtItsOffset'
    <2>1. CASE part = NoFile
      <3>1. part' = <<>> /\ Len(part') = 0 /\ part' # NoFile
        <4>1. <<>> \in Content /\ Len(<<>>) = 0
          BY DEF Content
        <4> QED BY <2>1, <4>1, UploadAssumption DEF OpenPart
      <3> QED BY <2>1, <3>1 DEF PartSize, EveryUnitAtItsOffset
    <2>2. CASE part # NoFile
      BY <2>2 DEF OpenPart, PartSize, OffsetInv, EveryUnitAtItsOffset
    <2> QED BY <2>1, <2>2
  <1>3. PartSize + 1 = thr[t].pos
    BY DEF OpenPart, At, OffsetInv, Aligned
  <1>4. \A u \in Threads : u = t
    BY DEF Serial
  <1> QED BY <1>1, <1>2, <1>3, <1>4 DEF OffsetInv, Aligned

LEMMA AppendAligned ==
    ASSUME Serial, TypeInv, OffsetInv, NEW t \in Threads, AppendUnit(t)
    PROVE  OffsetInv'
  <1> DEFINE j == thr[t].job
             unit == Data[j][thr[t].pos]
  <1>1. /\ j \in Jobs /\ thr[t].pos \in Nat
        /\ 1 <= thr[t].pos /\ thr[t].pos <= Len(Data[j])
    <2>1. thr[t].pc = "write" /\ thr[t].end \in Nat /\ Len(Data[j]) \in Nat
      BY ThreadFacts, Lengths DEF AppendUnit, At
    <2>2. 1 <= thr[t].pos /\ thr[t].pos <= thr[t].end /\ thr[t].end <= Len(Data[j])
      BY <2>1, ThreadFacts, Lengths DEF TypeInv, ThreadsOK
    <2> QED BY <2>1, <2>2, ThreadFacts
  <1>2. thr[t].file = "part" /\ part \in Content /\ Len(part) + 1 = thr[t].pos
    BY DEF AppendUnit, At, OffsetInv, Aligned, PartSize, TypeInv, FileInv, OpenFileExists
  <1>3. part' = Append(part, unit)
    BY <1>2 DEF AppendUnit
  <1>4. /\ part' # NoFile /\ Len(part') = thr[t].pos /\ part'[thr[t].pos] = unit
        /\ \A k \in 1 .. Len(part) : part'[k] = part[k]
    <2>1. unit \in Unit
      <3>1. Data[j] \in Seq(Unit)
        BY <1>1, UploadAssumption DEF Content
      <3>2. thr[t].pos \in 1 .. Len(Data[j])
        BY <1>1, <3>1
      <3> QED BY <3>1, <3>2
    <2> HIDE DEF unit
    <2>2. part \in Seq(Unit)
      BY <1>2 DEF Content
    <2>3. /\ part' \in Seq(Unit) /\ Len(part') = Len(part) + 1 /\ part'[Len(part) + 1] = unit
          /\ \A k \in 1 .. Len(part) : part'[k] = part[k]
      BY <1>3, <2>1, <2>2
    <2> QED BY <1>2, <2>3, UploadAssumption DEF Content
  <1>5. EveryUnitAtItsOffset'
    <2>1. part # NoFile /\ EveryUnitAtItsOffset
      BY <1>2, UploadAssumption DEF OffsetInv
    <2>2. ASSUME NEW k \in 1 .. thr[t].pos
          PROVE  \/ \E i \in Jobs : k <= Len(Data[i]) /\ part'[k] = Data[i][k]
                 \/ \E p \in InitialPartials \ {NoFile} : k <= Len(p) /\ part'[k] = p[k]
      <3>1. CASE k = thr[t].pos
        BY <1>1, <1>4, <3>1
      <3>2. CASE k # thr[t].pos
        <4>1. k \in 1 .. Len(part) /\ part'[k] = part[k]
          BY <1>1, <1>2, <1>4, <3>2 DEF Content
        <4> QED BY <2>1, <4>1 DEF EveryUnitAtItsOffset
      <3> QED BY <3>1, <3>2
    <2> QED BY <1>4, <2>2 DEF EveryUnitAtItsOffset
  <1>6. Aligned(t)'
    <2>1. CASE \E reply : Answer(t, reply)
      BY <2>1, Idle DEF Answer, AnswerFrom, TypeInv, ThreadsOK, Aligned
    <2>2. CASE thr' = [thr EXCEPT ![t].pos = @ + 1]
      <3>1. thr'[t].pc = "write" /\ thr'[t].file = "part" /\ thr'[t].pos = thr[t].pos + 1
        BY <1>2, <2>2, ThreadFacts DEF AppendUnit, At, TypeInv, ThreadsOK, ThreadState
      <3> QED BY <1>4, <3>1 DEF Aligned, PartSize
    <2> QED BY <2>1, <2>2 DEF AppendUnit
  <1>7. \A u \in Threads : u = t
    BY DEF Serial
  <1> QED BY <1>5, <1>6, <1>7 DEF OffsetInv

LEMMA HandlerAligned ==
    ASSUME Serial, TypeInv, OffsetInv, NEW t \in Threads, Handle(t) \/ ShortRead(t)
    PROVE  OffsetInv'
  <1> USE SameCalls
  <1>1. CASE HandleStatus(t) \/ StatusDiscard(t)
    BY <1>1, GotoAligned, AnswerAligned DEF HandleStatus, StatusDiscard, Answer, Discard
  <1>2. CASE HandleChunk(t)
    BY <1>2, GotoAligned, AnswerAligned DEF HandleChunk, Answer
  <1>3. CASE ShortRead(t)
    BY <1>3, AnswerAligned DEF ShortRead, Answer
  <1>4. CASE HandleFinish(t)
    <2>1. CASE \E pc \in {"no_part", "hash"} : Goto(t, pc) /\ UNCHANGED part
      BY <2>1, GotoAligned
    <2>2. CASE \E reply : Discard(t, reply)
      BY <2>2, AnswerAligned DEF Discard
    <2> QED BY <1>4, <2>1, <2>2 DEF HandleFinish
  <1>5. CASE FinishWithoutPart(t) \/ WriteEmpty(t)
    <2>1. CASE Goto(t, "empty")
      BY <1>5, <2>1, GotoAligned DEF FinishWithoutPart, WriteEmpty
    <2>2. CASE \E reply : Answer(t, reply)
      BY <1>5, <2>2, AnswerAligned DEF FinishWithoutPart, WriteEmpty, Answer
    <2> QED BY <1>5, <2>1, <2>2 DEF FinishWithoutPart, WriteEmpty, Acknowledge
  <1>6. CASE CheckHash(t)
    <2>1. CASE Goto(t, "exists") /\ UNCHANGED part
      BY <2>1, GotoAligned
    <2>2. CASE \E reply : Answer(t, reply) /\ UNCHANGED part
      BY <2>2, AnswerAligned DEF Answer
    <2>3. CASE \E reply : Discard(t, reply)
      BY <2>3, AnswerAligned DEF Discard
    <2> QED BY <1>6, <2>1, <2>2, <2>3 DEF CheckHash
  <1>7. CASE CheckExists(t)
    BY <1>7, GotoAligned, AnswerAligned DEF CheckExists, Answer
  <1>8. CASE ReplaceTarget(t)
    BY <1>8, AnswerAligned DEF ReplaceTarget, Answer
  <1> QED
    BY <1>1, <1>2, OpenAligned, AppendAligned, <1>3, <1>4, <1>5, <1>6, <1>7, <1>8 DEF Handle

LEMMA OffsetStep ==
    ASSUME Serial, "cleanup" \notin Operations, TypeInv, OffsetInv, [Next]_vars
    PROVE  OffsetInv'
  <1>1. UNCHANGED <<part, thr>> => OffsetInv'
    BY DEF OffsetInv, Aligned, EveryUnitAtItsOffset, PartSize
  <1>2. CASE UNCHANGED vars
    BY <1>1, <1>2 DEF vars
  <1>3. ASSUME NEW j \in Jobs, NEW t \in Threads, Send(j, t)
        PROVE  OffsetInv'
    <2>1. thr'[t].pc \in Calls
      BY <1>3 DEF Send, Running, TypeInv, ThreadsOK
    <2>2. \A u \in Threads : u = t
      BY DEF Serial
    <2> QED BY <1>3, <2>1, <2>2 DEF Send, OffsetInv, Aligned, EveryUnitAtItsOffset, Calls
  <1>4. CASE DeleteTarget
    <2>1. \A t \in Threads : /\ thr'[t].pc = thr[t].pc /\ thr'[t].pos = thr[t].pos
                             /\ thr[t].file = "part" => thr'[t].file = "part"
      BY <1>4, ThreadFacts DEF DeleteTarget, ThreadState
    <2> QED BY <1>4, <2>1 DEF DeleteTarget, OffsetInv, Aligned, EveryUnitAtItsOffset, PartSize
  <1>5. CASE RestartServer
    <2>1. \A t \in Threads : thr'[t].pc = "idle"
      BY <1>5, Idle DEF RestartServer
    <2> QED BY <1>5, <2>1 DEF RestartServer, OffsetInv, Aligned, EveryUnitAtItsOffset
  <1>6. ~CleanupPartial
    BY DEF CleanupPartial
  <1>7. CASE Next
    BY <1>1, <1>3, <1>4, <1>5, <1>6, <1>7, ClientKeepsFiles, HandlerAligned DEF Next
  <1> QED BY <1>2, <1>7

LEMMA OffsetInit == Init => OffsetInv
  <1> SUFFICES ASSUME Init PROVE OffsetInv
    OBVIOUS
  <1>1. \A t \in Threads : thr[t].pc = "idle"
    BY Idle DEF Init
  <1> QED BY <1>1 DEF Init, OffsetInv, Aligned, EveryUnitAtItsOffset

\* Exactly-once append, for any contents and any number of uploads sharing the
\* partial, as long as handlers do not overlap and nobody cleans up partials.
THEOREM ExactlyOnce ==
    ASSUME Serial, "cleanup" \notin Operations
    PROVE  Spec => []EveryUnitAtItsOffset
  <1>1. TypeInv /\ OffsetInv /\ [Next]_vars => OffsetInv'
    BY OffsetStep
  <1>2. OffsetInv => EveryUnitAtItsOffset
    BY DEF OffsetInv
  <1> QED BY <1>1, <1>2, OffsetInit, TypeInvariance, PTL DEF Spec
-----------------------------------------------------------------------------
(* What the final check refuses.                                           *)

\* Nothing but the content d has come to the partial.
Clean(d) ==
    \/ part = NoFile
    \/ Len(part) <= Len(d) /\ \A k \in 1 .. Len(part) : part[k] = d[k]

\* j's source kept its planned size until it was hashed, and nobody sends what
\* j did not hash.
Alone(j) == Size[j] = Len(Digest[j]) /\ \A i \in Jobs : ~Foreign(i, j)

Refusals == {"hash_mismatch", "size_mismatch"}

\* A refusal takes the partial away, and what comes after it is clean.
RefusedOK(j) ==
    LET code == job[j].reply.code IN
    /\ code \in Refusals => job[j].pc = "finish"
    /\ job[j].retried \/ code \in Refusals => Clean(Digest[j])
    /\ job[j].retried => code # "hash_mismatch"
    /\ job[j].err # "hash_mismatch"

HashInv ==
    /\ \A t \in Threads : thr[t].pc = "hash" => part = NoFile \/ Len(part) = Size[thr[t].job]
    /\ \A j \in Jobs : Alone(j) => RefusedOK(j)

LEMMA NoRefusals == NoReply.code = "none" /\ IdleJob.reply = NoReply /\ ~IdleJob.retried
                    /\ IdleJob.err = "none"
  BY DEF NoReply, IdleJob

\* A step of the client: its job waits for its next answer, or ends.
LEMMA ClientHash ==
    ASSUME TypeInv, HashInv, NEW j \in Jobs, NEW rec, job' = [job EXCEPT ![j] = rec],
           UNCHANGED <<part, thr>>, rec.reply = NoReply,
           Alone(j) => /\ rec.retried => Clean(Digest[j])
                       /\ rec.err # "hash_mismatch"
    PROVE  HashInv'
  <1>1. \A i \in Jobs : job'[i] = IF i = j THEN rec ELSE job[i]
    BY DEF TypeInv, JobInv
  <1>2. ASSUME NEW i \in Jobs, Alone(i)
        PROVE  RefusedOK(i)'
    <2>1. RefusedOK(i) /\ Clean(Digest[i])' = Clean(Digest[i])
      BY <1>2 DEF HashInv, Clean
    <2> QED BY <1>1, <1>2, <2>1, NoRefusals DEF RefusedOK, Refusals
  <1> QED BY <1>2 DEF HashInv

\* A job that goes on as it was, or ends with any error but a wrong hash.
LEMMA EndHash ==
    ASSUME TypeInv, HashInv, NEW j \in Jobs, NEW pc, NEW err, End(j, pc, err),
           UNCHANGED <<part, thr>>, Alone(j) => err # "hash_mismatch"
    PROVE  HashInv'
  <1> DEFINE rec == [job[j] EXCEPT !.pc = pc, !.via = NoThread, !.reply = NoReply, !.err = err]
  <1>1. rec.reply = NoReply /\ rec.retried = job[j].retried /\ rec.err = err
    BY ReplyFacts DEF JobState
  <1>2. job' = [job EXCEPT ![j] = rec]
    BY DEF End
  <1> HIDE DEF rec
  <1>3. Alone(j) => (job[j].retried => Clean(Digest[j]))
    BY DEF HashInv, RefusedOK
  <1> QED BY <1>1, <1>2, <1>3, ClientHash

LEMMA CallHash ==
    ASSUME TypeInv, HashInv, NEW j \in Jobs, NEW pc, NEW off, Call(j, pc, off),
           UNCHANGED <<part, thr>>
    PROVE  HashInv'
  <1> DEFINE rec == [job[j] EXCEPT !.pc = pc, !.off = off, !.left = MaxAttempts,
                                   !.via = NoThread, !.reply = NoReply]
  <1>1. rec.reply = NoReply /\ rec.retried = job[j].retried /\ rec.err = job[j].err
    BY ReplyFacts DEF JobState
  <1>2. job' = [job EXCEPT ![j] = rec]
    BY DEF Call
  <1> HIDE DEF rec
  <1>3. Alone(j) => /\ job[j].retried => Clean(Digest[j])
                    /\ job[j].err # "hash_mismatch"
    BY DEF HashInv, RefusedOK
  <1> QED BY <1>1, <1>2, <1>3, ClientHash

LEMMA RetryHash ==
    ASSUME TypeInv, HashInv, NEW j \in Jobs, NEW left, Retry(j, left)
    PROVE  HashInv'
  <1> DEFINE rec == [job[j] EXCEPT !.via = NoThread, !.reply = NoReply, !.left = left]
  <1>1. rec.reply = NoReply /\ rec.retried = job[j].retried /\ rec.err = job[j].err
    BY ReplyFacts DEF JobState
  <1>2. CASE left = 0
    BY <1>2, EndHash DEF Retry
  <1>3. CASE left # 0
    <2>1. job' = [job EXCEPT ![j] = rec] /\ UNCHANGED <<part, thr>>
      BY <1>3, ReplyFacts DEF Retry, TypeInv, JobInv, JobState
    <2> HIDE DEF rec
    <2>2. Alone(j) => /\ job[j].retried => Clean(Digest[j])
                      /\ job[j].err # "hash_mismatch"
      BY DEF HashInv, RefusedOK
    <2> QED BY <1>1, <2>1, <2>2, ClientHash
  <1> QED BY <1>2, <1>3

LEMMA ClientKeepsHash ==
    ASSUME TypeInv, HashInv, NEW j \in Jobs, Start(j) \/ Receive(j) \/ Fault(j)
    PROVE  HashInv'
  <1>1. UNCHANGED <<part, thr>>
    BY ClientKeepsFiles
  <1>2. CASE Start(j)
    BY <1>1, <1>2, CallHash DEF Start
  <1>3. Alone(j) => RefusedOK(j)
    BY DEF HashInv
  <1>4. CASE ReceiveStatus(j) \/ ReceiveChunk(j)
    <2>1. job[j].pc \in {"status", "chunk"}
      BY <1>4 DEF ReceiveStatus, ReceiveChunk
    <2>2. Alone(j) => job[j].reply.code # "hash_mismatch"
      BY <1>3, <2>1 DEF RefusedOK, Refusals
    <2>3. CASE \E err \in {job[j].reply.code, "exists", "bad_partial"} : End(j, "error", err)
      BY <1>1, <2>2, <2>3, EndHash
    <2>4. CASE Proceed(j, job[j].reply.num)
      BY <1>1, <2>4, CallHash DEF Proceed
    <2> QED BY <1>4, <2>3, <2>4 DEF ReceiveStatus, ReceiveChunk
  <1>5. CASE ReceiveFinish(j)
    <2>1. CASE FinishConfirmed(j)
      BY <1>1, <1>5, <2>1, EndHash DEF ReceiveFinish
    <2>2. CASE ~FinishConfirmed(j) /\ MayRestart(j)
      <3> DEFINE rec == [IdleJob EXCEPT !.pc = "status", !.retried = TRUE, !.left = MaxAttempts]
      <3>1. rec.reply = NoReply /\ rec.err = "none"
        BY DEF IdleJob
      <3>2. job' = [job EXCEPT ![j] = rec]
        BY <1>5, <2>2 DEF ReceiveFinish
      <3>3. Alone(j) => Clean(Digest[j])
        BY <1>3, <2>2 DEF MayRestart, RefusedOK, Refusals
      <3> HIDE DEF rec
      <3> QED BY <1>1, <3>1, <3>2, <3>3, ClientHash
    <2>3. CASE ~FinishConfirmed(j) /\ ~MayRestart(j)
      <3>1. Alone(j) => job[j].reply.code # "hash_mismatch"
        BY <1>3, <2>3 DEF MayRestart, RefusedOK
      <3> QED BY <1>1, <1>5, <2>3, <3>1, EndHash DEF ReceiveFinish
    <2> QED BY <2>1, <2>2, <2>3
  <1>6. CASE RequestLost(j) \/ AttemptTimeout(j)
    BY <1>6, RetryHash DEF RequestLost, AttemptTimeout
  <1>7. CASE Disconnected(j) \/ Cancel(j)
    BY <1>1, <1>7, EndHash DEF Disconnected, Cancel
  <1> QED BY <1>2, <1>4, <1>5, <1>6, <1>7 DEF Receive, Fault

LEMMA SendHash ==
    ASSUME Serial, TypeInv, HashInv, NEW j \in Jobs, NEW t \in Threads, Send(j, t)
    PROVE  HashInv'
  <1>1. \A i \in Jobs : /\ job'[i].pc = job[i].pc /\ job'[i].reply = job[i].reply
                        /\ job'[i].retried = job[i].retried /\ job'[i].err = job[i].err
    BY ReplyFacts DEF Send, TypeInv, JobInv, JobState
  <1>2. thr'[t].pc \in Calls /\ \A u \in Threads : u = t
    BY DEF Send, Running, TypeInv, ThreadsOK, Serial
  <1>3. \A i \in Jobs : Clean(Digest[i])' = Clean(Digest[i])
    BY DEF Send, Clean
  <1> QED BY <1>1, <1>2, <1>3 DEF HashInv, RefusedOK, Calls

\* The handler answers: a refusal says that the partial is gone, and that for a
\* wrong hash was not clean.
LEMMA AnswerHash ==
    ASSUME Serial, TypeInv, AckInv, HashInv, NEW t \in Threads,
           NEW ts \in [Threads -> ThreadState], NEW reply, AnswerFrom(t, ts, reply),
           thr[t].pc # "idle",
           \A j \in Jobs : Alone(j) /\ Clean(Digest[j]) => Clean(Digest[j])',
           reply.code \in Refusals /\ Alone(thr[t].job)
               => CallOf(thr[t].pc) = "finish" /\ part' = NoFile,
           reply.code = "hash_mismatch" /\ Alone(thr[t].job) => ~Clean(Digest[thr[t].job])
    PROVE  HashInv'
  <1> DEFINE i == thr[t].job
  <1>1. i \in Jobs /\ job[i] \in JobState
    BY ThreadFacts, ReplyFacts
  <1>2. \A j \in Jobs : /\ job'[j].pc = job[j].pc /\ job'[j].retried = job[j].retried
                        /\ job'[j].err = job[j].err
                        /\ job'[j].reply = IF j = i /\ job[i].via = t THEN reply ELSE job[j].reply
    BY <1>1 DEF AnswerFrom, TypeInv, JobInv, JobState
  <1>3. thr'[t].pc = "idle" /\ \A u \in Threads : u = t
    BY Idle DEF AnswerFrom, Serial
  <1>4. ASSUME NEW j \in Jobs, Alone(j)
        PROVE  RefusedOK(j)'
    <2>1. RefusedOK(j) /\ (Clean(Digest[j]) => Clean(Digest[j])')
      BY <1>4 DEF HashInv
    <2>2. CASE j = i /\ job[i].via = t
      <3>1. job'[j].reply = reply /\ job[i].pc = CallOf(thr[t].pc)
        BY <1>1, <1>2, <2>2 DEF AckInv
      <3>2. part' = NoFile => Clean(Digest[j])'
        BY DEF Clean
      <3> QED BY <1>2, <1>4, <2>1, <2>2, <3>1, <3>2 DEF RefusedOK
    <2>3. CASE ~(j = i /\ job[i].via = t)
      BY <1>2, <2>1, <2>3 DEF RefusedOK
    <2> QED BY <2>2, <2>3
  <1> QED BY <1>3, <1>4 DEF HashInv

\* A handler goes on, with the jobs and what is clean as they were.
LEMMA MoveHash ==
    ASSUME Serial, TypeInv, HashInv, NEW t \in Threads, job' = job,
           \A j \in Jobs : Alone(j) /\ Clean(Digest[j]) => Clean(Digest[j])',
           thr'[t].pc = "hash" => part' = NoFile \/ Len(part') = Size[thr'[t].job]
    PROVE  HashInv'
  <1>1. \A u \in Threads : u = t
    BY DEF Serial
  <1>2. \A j \in Jobs : Alone(j) => RefusedOK(j)'
    BY DEF HashInv, RefusedOK
  <1> QED BY <1>1, <1>2 DEF HashInv

LEMMA SameClean ==
    ASSUME part' \in {part, NoFile}
    PROVE  \A d : Clean(d) => Clean(d)'
  BY DEF Clean

\* The next unit of a clean partial is clean, and an empty partial is.
LEMMA AppendClean ==
    ASSUME Serial, TypeInv, OffsetInv, NEW t \in Threads, AppendUnit(t),
           NEW j \in Jobs, Alone(j), Clean(Digest[j])
    PROVE  Clean(Digest[j])'
  <1> DEFINE i == thr[t].job
             unit == Data[i][thr[t].pos]
             d == Digest[j]
  <1>1. /\ i \in Jobs /\ unit = d[thr[t].pos] /\ thr[t].pos \in Nat
        /\ 1 <= thr[t].pos /\ thr[t].pos <= Len(d)
    <2>1. thr[t].pc = "write" /\ thr[t].end \in Nat /\ SourceEnd(i) \in Nat /\ i \in Jobs
      BY ThreadFacts, Lengths DEF AppendUnit, At
    <2>2. 1 <= thr[t].pos /\ thr[t].pos <= thr[t].end /\ thr[t].end <= SourceEnd(i)
      BY <2>1 DEF TypeInv, ThreadsOK
    <2>3. thr[t].pos \in 1 .. SourceEnd(i) /\ thr[t].pos \in Nat
      BY <2>1, <2>2, ThreadFacts
    <2>4. ~(thr[t].pos > Len(d)) /\ Data[i][thr[t].pos] = d[thr[t].pos]
      BY <2>1, <2>3 DEF Alone, Foreign
    <2>5. Len(d) \in Nat
      BY UploadAssumption DEF Content
    <2> QED BY <2>1, <2>2, <2>3, <2>4, <2>5
  <1>2. part \in Content /\ Len(part) + 1 = thr[t].pos /\ part' = Append(part, d[thr[t].pos])
    BY <1>1 DEF AppendUnit, At, OffsetInv, Aligned, PartSize, TypeInv, FileInv, OpenFileExists
  <1>3. part # NoFile /\ \A k \in 1 .. Len(part) : part[k] = d[k]
    BY <1>2, UploadAssumption DEF Clean
  <1>4. d[thr[t].pos] \in Unit
    BY <1>1, UploadAssumption DEF Content
  <1>5. /\ Len(part') = thr[t].pos /\ part'[thr[t].pos] = d[thr[t].pos]
        /\ \A k \in 1 .. Len(part) : part'[k] = part[k]
    <2> DEFINE x == d[thr[t].pos]
    <2> HIDE DEF x
    <2>1. part \in Seq(Unit) /\ x \in Unit /\ part' = Append(part, x)
      BY <1>2, <1>4 DEF x, Content
    <2>2. /\ Len(part') = Len(part) + 1 /\ part'[Len(part) + 1] = x
          /\ \A k \in 1 .. Len(part) : part'[k] = part[k]
      BY <2>1
    <2> QED BY <1>2, <2>2 DEF x
  <1>6. ASSUME NEW k \in 1 .. Len(part')
        PROVE  part'[k] = d[k]
    <2>1. k = thr[t].pos \/ k \in 1 .. Len(part)
      BY <1>1, <1>2, <1>5 DEF Content
    <2> QED BY <1>3, <1>5, <2>1
  <1> QED BY <1>1, <1>5, <1>6 DEF Clean

LEMMA HandlerHash ==
    ASSUME Serial, TypeInv, AckInv, OffsetInv, HashInv, NEW t \in Threads,
           Handle(t) \/ ShortRead(t)
    PROVE  HashInv'
  <1> USE SameCalls
  <1>1. ASSUME NEW reply, NEW ts \in [Threads -> ThreadState], AnswerFrom(t, ts, reply),
               thr[t].pc # "idle", part' \in {part, NoFile}, reply.code \notin Refusals
        PROVE  HashInv'
    <2>1. reply.code # "hash_mismatch"
      BY <1>1 DEF Refusals
    <2> QED BY <1>1, <2>1, AnswerHash, SameClean
  <1>2. ASSUME NEW pc, Goto(t, pc), UNCHANGED part,
               pc = "hash" => Len(part) = Size[thr[t].job]
        PROVE  HashInv'
    <2>1. thr'[t].pc = pc /\ thr'[t].job = thr[t].job /\ job' = job
      BY <1>2, ThreadFacts DEF Goto, TypeInv, ThreadsOK, ThreadState
    <2> QED BY <1>2, <2>1, MoveHash, SameClean
  <1>3. /\ \A code \in Codes : Error(code).code = code
        /\ \A n : StatusReply(n).code = "ok"
        /\ "ok" \notin Refusals /\ Refusals \subseteq Codes
    BY DEF Error, NoReply, StatusReply, Refusals, Codes
  <1>4. {"exists", "short_read", "missing_partial", "internal_error"} \subseteq Codes \ Refusals
    BY DEF Codes, Refusals
  <1>5. CASE HandleStatus(t)
    BY <1>1, <1>2, <1>3, <1>5 DEF HandleStatus, Answer, At
  <1>6. CASE StatusDiscard(t)
    BY <1>1, <1>3, <1>6 DEF StatusDiscard, Discard, At
  <1>7. CASE HandleChunk(t)
    <2> DEFINE r == [code |-> "offset_mismatch", num |-> PartSize, exists |-> FALSE]
    <2>1. r.code \notin Refusals
      BY DEF Refusals
    <2> HIDE DEF r
    <2>2. CASE Answer(t, Error("exists")) \/ Answer(t, r)
      BY <1>1, <1>3, <1>4, <1>7, <2>1, <2>2 DEF HandleChunk, Answer, At
    <2>3. CASE Goto(t, "open")
      BY <1>2, <1>7, <2>3 DEF HandleChunk
    <2> QED BY <1>7, <2>2, <2>3 DEF HandleChunk, r
  <1>8. CASE OpenPart(t)
    <2>1. thr'[t].pc = "write" /\ job' = job
      BY <1>8, ThreadFacts DEF OpenPart, TypeInv, ThreadsOK, ThreadState
    <2>2. \A j \in Jobs : Clean(Digest[j]) => Clean(Digest[j])'
      <3>1. part' = part \/ Len(part') = 0
        BY <1>8 DEF OpenPart
      <3>2. \A j \in Jobs : Len(Digest[j]) \in Nat
        BY UploadAssumption DEF Content
      <3> QED BY <3>1, <3>2 DEF Clean
    <2> QED BY <2>1, <2>2, MoveHash
  <1>9. CASE AppendUnit(t)
    <2>1. \A j \in Jobs : Alone(j) /\ Clean(Digest[j]) => Clean(Digest[j])'
      BY <1>9, AppendClean
    <2>2. CASE thr' = [thr EXCEPT ![t].pos = @ + 1] /\ UNCHANGED job
      <3>1. thr'[t].pc = "write"
        BY <1>9, <2>2, ThreadFacts DEF AppendUnit, At, TypeInv, ThreadsOK, ThreadState
      <3> QED BY <2>1, <2>2, <3>1, MoveHash
    <2>3. CASE Answer(t, [code |-> "ok", num |-> thr[t].end, exists |-> FALSE])
      <3> DEFINE r == [code |-> "ok", num |-> thr[t].end, exists |-> FALSE]
      <3>1. r.code = "ok"
        OBVIOUS
      <3> HIDE DEF r
      <3>2. AnswerFrom(t, thr, r) /\ thr[t].pc # "idle"
        BY <1>9, <2>3 DEF Answer, AppendUnit, At, r
      <3> QED BY <1>3, <2>1, <3>1, <3>2, AnswerHash
    <2> QED BY <1>9, <2>2, <2>3 DEF AppendUnit
  <1>10. CASE ShortRead(t)
    BY <1>1, <1>3, <1>4, <1>10 DEF ShortRead, Answer, At
  <1>11. CASE HandleFinish(t)
    <2>1. CASE Goto(t, "no_part") /\ UNCHANGED part
      BY <1>2, <2>1
    <2>2. CASE Goto(t, "hash") /\ UNCHANGED part /\ Len(part) = Size[thr[t].job]
      BY <1>2, <2>2
    <2>3. CASE Discard(t, Error("size_mismatch"))
      <3>1. Error("size_mismatch").code = "size_mismatch" /\ thr[t].pc = "finish"
        BY <1>3, <1>11 DEF Refusals, HandleFinish, At
      <3>2. CallOf(thr[t].pc) = "finish"
        BY <3>1 DEF CallOf, Reads
      <3> QED BY <2>3, <3>1, <3>2, AnswerHash, SameClean DEF Discard
    <2> QED BY <1>11, <2>1, <2>2, <2>3 DEF HandleFinish
  <1>12. CASE FinishWithoutPart(t) \/ WriteEmpty(t)
    <2> DEFINE ok == [NoReply EXCEPT !.code = "ok"]
    <2>1. ok.code = "ok"
      BY DEF NoReply
    <2>2. part' = part /\ thr[t].pc # "idle"
      BY <1>12 DEF FinishWithoutPart, WriteEmpty, At
    <2>3. CASE Acknowledge(t)
      <3>1. Answer(t, ok)
        BY <2>3 DEF Acknowledge
      <3> HIDE DEF ok
      <3> QED BY <1>1, <1>3, <2>1, <2>2, <3>1 DEF Answer
    <2>4. CASE Answer(t, Error("missing_partial")) \/ Answer(t, Error("exists"))
      BY <1>1, <1>3, <1>4, <2>2, <2>4 DEF Answer
    <2>5. CASE Goto(t, "empty")
      BY <1>2, <2>2, <2>5
    <2>6. CASE ~(Size[thr[t].job] > 0) /\ Digest[thr[t].job] # <<>>
               /\ Answer(t, Error("hash_mismatch"))
      <3>1. ~Alone(thr[t].job)
        BY <2>6, ThreadFacts, UploadAssumption DEF Alone, Content
      <3> QED BY <2>2, <2>6, <3>1, AnswerHash, SameClean DEF Answer
    <2> QED BY <1>12, <2>3, <2>4, <2>5, <2>6 DEF FinishWithoutPart, WriteEmpty
  <1>13. CASE CheckHash(t)
    <2>1. CASE Answer(t, Error("internal_error")) /\ UNCHANGED part
      BY <1>1, <1>3, <1>4, <1>13, <2>1 DEF CheckHash, Answer, At
    <2>2. CASE Goto(t, "exists") /\ UNCHANGED part
      BY <1>2, <2>2
    <2>3. CASE part # NoFile /\ ~HashMatches(thr[t].job) /\ Discard(t, Error("hash_mismatch"))
      <3> DEFINE j == thr[t].job
      <3>1. Error("hash_mismatch").code = "hash_mismatch" /\ thr[t].pc = "hash" /\ j \in Jobs
        BY <1>3, <1>13, ThreadFacts DEF Refusals, CheckHash, At
      <3>2. CallOf(thr[t].pc) = "finish"
        BY <3>1 DEF CallOf, Reads
      <3>3. ASSUME Alone(j) PROVE ~Clean(Digest[j])
        <4>1. Len(part) = Len(Digest[j]) /\ part # Digest[j]
          BY <2>3, <3>1, <3>3 DEF HashInv, HashMatches, Alone
        <4>2. part \in Seq(Unit) /\ Digest[j] \in Seq(Unit)
          BY <2>3, <3>1, UploadAssumption DEF TypeInv, FileInv, Content
        <4>3. \E k \in 1 .. Len(part) : part[k] # Digest[j][k]
          BY <4>1, <4>2, SeqEqual
        <4> QED BY <2>3, <4>3 DEF Clean
      <3> QED BY <2>3, <3>1, <3>2, <3>3, AnswerHash, SameClean DEF Discard
    <2> QED BY <1>13, <2>1, <2>2, <2>3 DEF CheckHash
  <1>14. CASE CheckExists(t)
    BY <1>1, <1>2, <1>3, <1>4, <1>14 DEF CheckExists, Answer, At
  <1>15. CASE ReplaceTarget(t)
    <2> DEFINE ok == [NoReply EXCEPT !.code = "ok"]
    <2>1. ok.code = "ok"
      BY DEF NoReply
    <2> HIDE DEF ok
    <2>2. CASE part = NoFile
      BY <1>1, <1>3, <1>4, <1>15, <2>2 DEF ReplaceTarget, Answer, At
    <2>3. CASE part # NoFile
      BY <1>1, <1>3, <1>15, <2>1, <2>3 DEF ReplaceTarget, At, ok
    <2> QED BY <2>2, <2>3
  <1> QED
    BY <1>5, <1>6, <1>7, <1>8, <1>9, <1>10, <1>11, <1>12, <1>13, <1>14, <1>15 DEF Handle

LEMMA HashStep ==
    ASSUME Serial, "cleanup" \notin Operations, TypeInv, AckInv, OffsetInv, HashInv, [Next]_vars
    PROVE  HashInv'
  <1>1. CASE UNCHANGED vars
    BY <1>1 DEF vars, HashInv, RefusedOK, Clean
  <1>2. CASE DeleteTarget
    <2>1. \A t \in Threads : thr'[t].pc = thr[t].pc /\ thr'[t].job = thr[t].job
      BY <1>2, ThreadFacts DEF DeleteTarget, ThreadState
    <2> QED BY <1>2, <2>1 DEF DeleteTarget, HashInv, RefusedOK, Clean
  <1>3. CASE RestartServer
    <2>1. \A t \in Threads : thr'[t].pc = "idle"
      BY <1>3, Idle DEF RestartServer
    <2> DEFINE rec == [IdleJob EXCEPT !.pc = "error", !.err = "bad_token"]
    <2>2. rec.reply = NoReply /\ rec.err = "bad_token" /\ ~rec.retried
      BY NoRefusals DEF IdleJob
    <2>3. \A j \in Jobs : job'[j] \in {rec, job[j]}
      BY <1>3 DEF RestartServer
    <2> HIDE DEF rec
    <2>4. ASSUME NEW j \in Jobs, Alone(j)
          PROVE  RefusedOK(j)'
      <3>1. RefusedOK(j) /\ Clean(Digest[j])' = Clean(Digest[j])
        BY <1>3, <2>4 DEF HashInv, Clean, RestartServer
      <3> QED BY <2>2, <2>3, <3>1, NoRefusals DEF RefusedOK, Refusals
    <2> QED BY <2>1, <2>4 DEF HashInv
  <1>4. ~CleanupPartial
    BY DEF CleanupPartial
  <1>5. CASE Next
    BY <1>2, <1>3, <1>4, <1>5, ClientKeepsHash, SendHash, HandlerHash DEF Next
  <1> QED BY <1>1, <1>5

LEMMA HashInit == Init => HashInv
  <1> SUFFICES ASSUME Init PROVE HashInv
    OBVIOUS
  <1>1. \A t \in Threads : thr[t].pc = "idle"
    BY Idle DEF Init
  <1>2. \A j \in Jobs : job[j] = IdleJob
    BY DEF Init
  <1> QED BY <1>1, <1>2, NoRefusals DEF HashInv, RefusedOK, Refusals

\* A job whose source kept its planned size until it was hashed fails for a wrong
\* hash only when somebody sends units it did not hash, for any partial left from
\* earlier times, any number of uploads, lost answers, restarts and cancellations, as
\* long as handlers do not overlap and nobody cleans up partials (a refused upload
\* starts over once, upload/finish having taken the partial away).
THEOREM Refusal ==
    ASSUME Serial, "cleanup" \notin Operations
    PROVE  Spec => []HashRefusesOnlyForeignUnits
  <1>1. HashInv => HashRefusesOnlyForeignUnits
    BY DEF HashInv, RefusedOK, Alone, HashRefusesOnlyForeignUnits
  <1>2. Init => TypeInv /\ AckInv /\ OffsetInv /\ HashInv
    BY TypeInit, AckInit, OffsetInit, HashInit
  <1>3. TypeInv /\ AckInv /\ OffsetInv /\ HashInv /\ [Next]_vars
        => TypeInv' /\ AckInv' /\ OffsetInv' /\ HashInv'
    BY TypeStep, AckStep, OffsetStep, HashStep
  <1> QED BY <1>1, <1>2, <1>3, PTL DEF Spec
=============================================================================
