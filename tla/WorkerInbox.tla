----------------------------- MODULE WorkerInbox -----------------------------
(***************************************************************************)
(* The inbox of a slave and the workers that serve it: handle_instruction  *)
(* creates a manifest, and rewrites it when the caller gave a callback     *)
(* alias; run_worker_loop selects a received manifest, claims it, records  *)
(* a plan, executes, delivers the report and writes the final state.       *)
(*                                                                         *)
(* A manifest is a JSON file without any lock.  Every update reads the     *)
(* whole file and later writes the whole file, by a truncation and a write *)
(* (Path.write_text), so that updates can be lost, a reader can find the   *)
(* file empty, and a shorter text written over a longer one by a writer    *)
(* that opened the file earlier leaves a file that does not parse.         *)
(*                                                                         *)
(* Left out: a person who has one instruction run by its id, which runs a  *)
(* claimed one without claiming it again.                                  *)
(***************************************************************************)
EXTENDS Naturals, FiniteSets, FiniteSetsExt

CONSTANTS Instructions,   \* ids, in the order of list_instructions' names
          Workers,        \* worker loops (embedded in the slave or started alone)
          Kind,           \* "commands", "blocked" (by a policy) or "text", of each instruction
          AutoRun,        \* those the caller marked autoRun
          Callback,       \* those with a callback alias, which has a saved connection
          Execute,        \* modes a worker is run in: "never", "ask", "yes"
          Bridge,         \* workers with an agent command for natural-language tasks
          Operations      \* of "crash", "restart", "refuse", "unreachable": those that happen

ASSUME InboxAssumption ==
    /\ Instructions \subseteq Nat /\ IsFiniteSet(Instructions) /\ Instructions # {}
    /\ Bridge \subseteq Workers
    /\ Kind \in [Instructions -> {"commands", "blocked", "text"}]
    /\ Execute \in [Workers -> SUBSET {"never", "ask", "yes"}]
    /\ AutoRun \cup Callback \subseteq Instructions

VARIABLES manifest,   \* the manifest files
          poster,     \* the handler of POST /api/instructions, for each instruction
          worker,     \* the worker loops
          executed,   \* history: how often the task of each instruction was run
          reported,   \* history: instructions some report was delivered for
          dry,        \* history: instructions a dry run has left to a person
          lost        \* history: some write overwrote what its writer had not read

vars == <<manifest, poster, worker, executed, reported, dry, lost>>

-----------------------------------------------------------------------------
Final == {"completed", "failed", "blocked"}
States == {"received", "claimed"} \cup Final

\* torn: the file does not parse; state is then what it held before.  size
\* orders the lengths of the texts: every update adds keys to the manifest.
Manifest == [there : BOOLEAN, torn : BOOLEAN, state : States, size : 0 .. 4]
Absent == [there |-> FALSE, torn |-> FALSE, state |-> "received", size |-> 0]
Received == [there |-> TRUE, torn |-> FALSE, state |-> "received", size |-> 1]

Writes == {"claim_open", "claim_fill", "plan_open", "plan_fill", "final_open", "final_fill"}
WorkerSteps == {"claim_read", "plan_read", "decide", "approval", "run", "deliver", "final_read"}
               \cup Writes

\* copy: the manifest as read and changed, to be written; stale: the file was
\* written by another since it was read.
WorkerState == [pc : {"idle", "dead"} \cup WorkerSteps, inst : Instructions,
                copy : Manifest, stale : BOOLEAN, outcome : Final]
IdleWorker == [pc |-> "idle", inst |-> CHOOSE i \in Instructions : TRUE,
               copy |-> Received, stale |-> FALSE, outcome |-> "blocked"]

\* The handler's second write is of the manifest create_instruction returned.
PosterState == [pc : {"idle", "create", "reopen", "refill", "done", "dead"}, stale : BOOLEAN]

TypeOK ==
    /\ manifest \in [Instructions -> Manifest]
    /\ poster \in [Instructions -> PosterState]
    /\ worker \in [Workers -> WorkerState]
    /\ executed \in [Instructions -> Nat]
    /\ reported \cup dry \subseteq Instructions
    /\ lost \in BOOLEAN

Init ==
    /\ manifest = [i \in Instructions |-> Absent]
    /\ poster = [i \in Instructions |-> [pc |-> "idle", stale |-> FALSE]]
    /\ worker = [w \in Workers |-> IdleWorker]
    /\ executed = [i \in Instructions |-> 0]
    /\ reported = {} /\ dry = {}
    /\ lost = FALSE

-----------------------------------------------------------------------------
(* Reading and writing manifests.                                          *)

Readable(i) == manifest[i].there /\ ~manifest[i].torn

Truncate(i) == manifest' = [manifest EXCEPT ![i].there = TRUE, ![i].torn = TRUE, ![i].size = 0]

\* The text is written from the start of the file: where another writer has
\* written since the file was opened, the tail of a longer text stays, and that
\* of a text of the same kind may (names and times vary in length).
Fill(i, content) ==
    \/ /\ manifest[i].size <= content.size
       /\ manifest' = [manifest EXCEPT ![i] = content]
    \/ /\ manifest[i].size >= content.size
       /\ manifest' = [manifest EXCEPT ![i].torn = TRUE]

\* Whoever has read the manifest of i and will write it back is now behind.
StaleWorkers(i, ws) ==
    [w \in Workers |-> IF ws[w].inst = i /\ ws[w].pc \in Writes
                       THEN [ws[w] EXCEPT !.stale = TRUE] ELSE ws[w]]
StalePoster(i) ==
    poster' = [poster EXCEPT ![i].stale = @ \/ poster[i].pc \in {"reopen", "refill"}]

-----------------------------------------------------------------------------
(* handle_instruction                                                      *)

MoveTo(i, pc) == poster' = [poster EXCEPT ![i].pc = pc]

\* The folder is made and the manifest is created, still empty.
CreateInstruction(i) ==
    /\ poster[i].pc = "idle"
    /\ Truncate(i)
    /\ MoveTo(i, "create")
    /\ UNCHANGED <<worker, executed, reported, dry, lost>>

WriteReceived(i) ==
    /\ poster[i].pc = "create"
    /\ Fill(i, Received)
    /\ MoveTo(i, IF i \in Callback THEN "reopen" ELSE "done")
    /\ UNCHANGED <<worker, executed, reported, dry, lost>>

\* The manifest is written once more, with its callbackAlias.
ReopenManifest(i) ==
    /\ poster[i].pc = "reopen"
    /\ Truncate(i)
    /\ MoveTo(i, "refill")
    /\ UNCHANGED <<worker, executed, reported, dry, lost>>

RewriteReceived(i) ==
    /\ poster[i].pc = "refill"
    /\ Fill(i, Received)
    /\ MoveTo(i, "done")
    /\ worker' = StaleWorkers(i, worker)
    /\ lost' = (lost \/ poster[i].stale)
    /\ UNCHANGED <<executed, reported, dry>>

Post(i) == CreateInstruction(i) \/ WriteReceived(i) \/ ReopenManifest(i) \/ RewriteReceived(i)

-----------------------------------------------------------------------------
(* One worker loop.                                                        *)

Goto(w, pc) == worker' = [worker EXCEPT ![w].pc = pc]

\* An exception leaves run_worker_loop, which only goes on after
\* no_runnable_instruction.
Die(w) == worker' = [worker EXCEPT ![w] = [IdleWorker EXCEPT !.pc = "dead"]]
Finish(w) == worker' = [worker EXCEPT ![w] = IdleWorker]

Selectable(i) == Readable(i) /\ manifest[i].state = "received" /\ i \in AutoRun
MutOnlyNewest(i) == Selectable(i) /\ \A k \in Instructions : manifest[k].there => k <= i
Runnable(i) == Selectable(i)

\* list_instructions names the newest first; a torn manifest is listed as corrupt.
Select(w) ==
    /\ worker[w].pc = "idle"
    /\ \E i \in Instructions : Runnable(i)
    /\ worker' = [worker EXCEPT ![w].pc = "claim_read",
                                ![w].inst = Max({i \in Instructions : Runnable(i)})]
    /\ UNCHANGED <<manifest, poster, executed, reported, dry, lost>>

\* The worker holds content, to be written from step pc on.
Hold(w, content, pc) ==
    worker' = [worker EXCEPT ![w].copy = content, ![w].stale = FALSE, ![w].pc = pc]

MutAnyState(m) == TRUE
Claimable(m) == m.state = "received"

ClaimRead(w) ==
    /\ worker[w].pc = "claim_read"
    /\ LET i == worker[w].inst IN
       IF Readable(i) /\ Claimable(manifest[i])
       THEN Hold(w, [manifest[i] EXCEPT !.state = "claimed", !.size = 2], "claim_open")
       ELSE Die(w)
    /\ UNCHANGED <<manifest, poster, executed, reported, dry, lost>>

\* update_instruction_state, first with the plan and then with the outcome.
UpdateRead(w) ==
    /\ worker[w].pc \in {"plan_read", "final_read"}
    /\ LET i == worker[w].inst IN
       IF ~Readable(i) THEN Die(w)
       ELSE IF worker[w].pc = "plan_read"
            THEN Hold(w, [manifest[i] EXCEPT !.state = "claimed", !.size = Max({3, @})],
                      "plan_open")
            ELSE Hold(w, [manifest[i] EXCEPT !.state = worker[w].outcome, !.size = 4], "final_open")
    /\ UNCHANGED <<manifest, poster, executed, reported, dry, lost>>

OpenManifest(w) ==
    /\ worker[w].pc \in {"claim_open", "plan_open", "final_open"}
    /\ Truncate(worker[w].inst)
    /\ Goto(w, CASE worker[w].pc = "claim_open" -> "claim_fill"
                 [] worker[w].pc = "plan_open" -> "plan_fill"
                 [] worker[w].pc = "final_open" -> "final_fill")
    /\ UNCHANGED <<poster, executed, reported, dry, lost>>

FillManifest(w) ==
    /\ worker[w].pc \in {"claim_fill", "plan_fill", "final_fill"}
    /\ LET i == worker[w].inst
           next == CASE worker[w].pc = "claim_fill" -> "plan_read"
                     [] worker[w].pc = "plan_fill" -> "decide"
                     [] worker[w].pc = "final_fill" -> "idle"
       IN  /\ Fill(i, worker[w].copy)
           /\ worker' = StaleWorkers(i, [worker EXCEPT
                  ![w] = [IdleWorker EXCEPT !.pc = next,
                                            !.inst = IF next = "idle" THEN @ ELSE i]])
           /\ StalePoster(i)
    /\ lost' = (lost \/ worker[w].stale)
    /\ UNCHANGED <<executed, reported, dry>>

\* build_plan: all commands are run, or none if a single one is blocked; a task
\* without commands needs a bridge.
Verdict(w) ==
    CASE Kind[worker[w].inst] = "commands" -> "commands"
      [] Kind[worker[w].inst] = "text" /\ w \in Bridge -> "bridge"
      [] OTHER -> "blocked"

\* The task ends without being run, with a report that says why.
FinishUnexecuted(w) ==
    worker' = [worker EXCEPT ![w].pc = "deliver", ![w].outcome = "blocked"]

\* "ask" needs a terminal and a yes; without one the worker ends.
Approves(w) == Execute[w] # {"never"}
Disapproves(w) == "ask" \in Execute[w]

\* After the plan: a dry run stops here, leaving the instruction claimed.
Decide(w) ==
    /\ worker[w].pc = "decide"
    /\ \/ "never" \in Execute[w] /\ Finish(w) /\ dry' = dry \cup {worker[w].inst}
       \/ Disapproves(w) /\ Die(w) /\ UNCHANGED dry
       \/ /\ Approves(w)
          /\ IF Verdict(w) = "blocked" THEN FinishUnexecuted(w) ELSE Goto(w, "approval")
          /\ UNCHANGED dry
    /\ UNCHANGED <<manifest, poster, executed, reported, lost>>

\* require_approval: the policy or a person allows it, or it raises.
Approval(w) ==
    /\ worker[w].pc = "approval"
    /\ Goto(w, "run") \/ ("refuse" \in Operations /\ Die(w))
    /\ UNCHANGED <<manifest, poster, executed, reported, dry, lost>>

MutReportLast == "final_read"
AfterRun == "deliver"

MutRunOutcomes == {"completed", "error"}
RunOutcomes == {"completed", "failed"}

Run(w) ==
    /\ worker[w].pc = "run"
    /\ executed' = [executed EXCEPT ![worker[w].inst] = @ + 1]
    /\ \E outcome \in RunOutcomes :
          worker' = [worker EXCEPT ![w].pc = AfterRun, ![w].outcome = outcome]
    /\ UNCHANGED <<manifest, poster, reported, dry, lost>>

\* One process for each command, whatever became of those before it, or one for
\* the bridge; a timeout or a start that fails becomes an exit code.
ExecuteCommands(w) == Verdict(w) = "commands" /\ Run(w)
RunAgentBridge(w) == Verdict(w) = "bridge" /\ Run(w)

\* deliver_report: to the caller's host, whose failure is an exception and may
\* come after the report has arrived, or as a local handoff file.
Deliver(w) ==
    /\ worker[w].pc = "deliver"
    /\ LET i == worker[w].inst IN
       \/ reported' = reported \cup {i} /\ Goto(w, "final_read")
       \/ /\ i \in Callback /\ "unreachable" \in Operations
          /\ reported' \in {reported, reported \cup {i}}
          /\ Die(w)
    /\ UNCHANGED <<manifest, poster, executed, dry, lost>>

Work(w) == \/ Select(w) \/ ClaimRead(w) \/ UpdateRead(w) \/ OpenManifest(w) \/ FillManifest(w)
           \/ Decide(w) \/ Approval(w) \/ ExecuteCommands(w) \/ RunAgentBridge(w) \/ Deliver(w)

-----------------------------------------------------------------------------
(* A worker, or the slave with its handlers, is killed; another is started. *)

KillWorker(w) ==
    /\ "crash" \in Operations
    /\ worker[w].pc # "dead"
    /\ Die(w)
    /\ UNCHANGED <<manifest, poster, executed, reported, dry, lost>>

KillPoster(i) ==
    /\ "crash" \in Operations
    /\ poster[i].pc \in {"create", "reopen", "refill"}
    /\ MoveTo(i, "dead")
    /\ UNCHANGED <<manifest, worker, executed, reported, dry, lost>>

StartWorker(w) ==
    /\ "restart" \in Operations
    /\ worker[w].pc = "dead"
    /\ Finish(w)
    /\ UNCHANGED <<manifest, poster, executed, reported, dry, lost>>

Next ==
    \/ \E i \in Instructions : Post(i) \/ KillPoster(i)
    \/ \E w \in Workers : Work(w) \/ KillWorker(w) \/ StartWorker(w)

Spec == Init /\ [][Next]_vars

\* A handler and a worker go on with what they have begun, and a worker that
\* sleeps looks again.
FairSpec ==
    /\ Spec
    /\ \A i \in Instructions : WF_vars(poster[i].pc # "idle" /\ Post(i))
    /\ \A w \in Workers : WF_vars(Work(w))

-----------------------------------------------------------------------------
(* Properties                                                              *)

\* Claiming keeps two workers, and two rounds of one, from running the same
\* task, unless a write of the manifest was lost (claim_instruction's check of
\* the state it reads, with a manifest that is never set back).
ExecutedOnceUnlessLost == lost \/ \A i \in Instructions : executed[i] <= 1

\* "received -> claimed -> completed/failed/blocked" (docs/development-plan.md):
\* the states only advance, whatever crashes, unless a write was lost.
Rank(state) == CASE state = "received" -> 0 [] state = "claimed" -> 1 [] OTHER -> 2
StatesOnlyAdvance ==
    [][\A i \in Instructions :
          lost' \/ Rank(manifest'[i].state) >= Rank(manifest[i].state)]_vars

\* A final state is only written when the report has been delivered, so that a
\* caller who is told that the task ended can find its report.
FinalIsReported ==
    \A i \in Instructions : manifest[i].state \in Final => i \in reported

\* Every autoRun instruction that was received is brought to an end, or left to
\* a person by a dry run, as long as no handler or worker dies: also the
\* older ones, although the newest is always taken first.
Ended(i) == manifest[i].state \in Final \/ i \in dry
NobodyDies == /\ \A w \in Workers : worker[w].pc # "dead"
              /\ \A i \in Instructions : poster[i].pc # "dead"
EveryInstructionEnds == []NobodyDies => \A i \in AutoRun : manifest[i].there ~> Ended(i)

\* "Worker daemon loop: Runs for 30+ minutes without duplicate claims"
\* (docs/v0.1-fullscale-test-scenarios.md): no task is run again.
NoDuplicateRuns == \A i \in Instructions : executed[i] <= 1
=============================================================================
