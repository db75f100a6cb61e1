# TLA+ verification of agent-remote-sync

agent-remote-sync moves files and work handoffs between machines. A *slave*
(`slave.py`) serves one folder over HTTP. *Masters* (`master.py`, `headless.py`,
`sync.py`, `cli.py`) log in to it, push, pull and synchronise files, and leave
instructions in its inbox. A *worker* (`worker.py`), inside the slave or beside
it, claims instructions, executes them under an approval and a command policy,
and reports back. All durable state is files: partial transfers, JSON manifests,
the swarm state. There is no database, and almost no lock reaches beyond one
process; this is where the interesting behaviour comes from.

Source paths below are relative to `src/src/agentremote/`.

## 1. Inventory

What is "hard" names what tests hardly reach; the hazards in `PROJECT.json` give
the lines.

| Component | State | Operations | Hard | Correct means | Model |
|---|---|---|---|---|---|
| Resumable upload (`slave.py`, `master.py`, `headless.py`, `sync.py`) | target, one partial per path | status, chunk, finish; the client loop with retries | attempts that outlive their timeout, shared partials, cut chunks, restart, cleanup | whole contents or nothing, exactly-once append, success only when acknowledged, every upload ends | `ResumableUpload`, `AtomicInstall` |
| Resumable download (`master.py`, `headless.py`, `sync.py`, `slave.py`) | local target, local partial | plan, resume, ranged reads, size check, rename | the source changes, clients are killed in a write, two downloads share a partial | an undisturbed download is the source; no partial wedges its path | `ResumableDownload` |
| Instruction inbox (`inbox.py`, `slave.py`) | one manifest file per instruction | create, list, read, claim, update | whole-file writes without a lock, torn reads, the second write of the handler | states only advance | `WorkerInbox` |
| Worker (`worker.py`) | its loop | select, claim, plan, approve, run, report, final state | crash between steps, report undeliverable, two workers | a task runs once, a final state has a report, nothing waits for ever | `WorkerInbox` |
| Request guard, login, sessions, policy (`slave.py`, `security.py`) | windows, blocks, nonces, sessions, whitelist | challenge, login, token check, rate and block checks | times taken before a lock, check and use apart, whitelist edited by another process | a nonce makes one session, denied clients stay out, guessing is bounded | `AccessControl` |
| Approvals (`approval.py`) | one record file per request | create, decide, wait, expire, verify and use | check outside the lock, two deciders, decision racing expiry | a decision is final, a token is used once | `ApprovalBroker` |
| Swarm state (`swarm.py`, `cli.py`, `master.py`) | one JSON file: whitelist, routes, their health, node records | whitelist and route commands, probes, node status | whole-file writes of what was read before a probe, one reading for many writes | no change is lost unless a write overtook another | `StateFiles`, `SnapshotStore` |
| Route selection (`swarm.py`, `cli.py`) | two copies of each route's health | probe, choose the best, show and connect | a row set again forgets what the other copy remembers | the route shown is the route used, failures are counted in a row | `StateFiles` |
| Process registry, mobile devices (`swarm.py`) | a file each | register, heartbeat, forget; pair, verify, revoke | a heartbeat or a verification writes back what was forgotten or revoked | forgotten and revoked stay so | `StateFiles` |
| Connections, worker policy (`connections.py`, `worker_policy.py`) | a file each | set, remove; init, allow, remove | lost updates | a removed entry stays removed | `StateFiles` |
| Sync (`sync.py`) | a plan made of two listings | plan, compare hashes, confirm, items, deletions | both trees change between plan and application; failure after some items | nothing is replaced unconfirmed, deletes come last, an undisturbed sync converges | `PlannedTransfer` |
| Transfer jobs and saved plans (`master.py`) | job table, saved plans | start, cancel, save and use a plan | unlocked cancel, eviction of plans | a cancelled job stops, the oldest plans go | `PlannedTransfer` |
| File operations of the slave (`slave.py`) | the folder | rename, move, delete | the destination is looked at, then replaced | no unconfirmed overwrite | `PlannedTransfer`; delete also in `ResumableUpload` |
| Handoff, reports, call records (`headless.py`, `cli.py`, `handoff.py`) | pushed files, handoff files, call records | push, tell, cleanup, report, refresh, wait | a lost answer followed by cleanup, names chosen before the write, several readers | a task has its files, a record says what a report naming its call says, a reported call ends | `HandoffFlow` |
| Dashboard and mobile controller (`master.py`) | - | probes nodes, verifies devices | writes node records read before the probe | as for the swarm state | `StateFiles` |
| Transfer log, journal, daemon profiles (`state.py`, `workmem.py`, `daemon_profiles.py`) | append-only or settings files | append, rotate, edit | - | - | not modelled |
| Path rules, TLS, firewall, bootstrap, console, web page | - | pure functions, system calls, input and output | - | - | not modelled |

Interactions. A client call is an HTTP request handled on a thread of its own;
it passes `AccessControl`'s checks and then runs a handler of one of the others.
A client that times out sends again while the first handler may still run.
Uploads and downloads share their partial through the file system with other
jobs, with `cleanup_stale_partials` in any process, and with delete; a planned
transfer is a sequence of them. The inbox is shared between handlers and workers
through manifest files only. Approvals, policy and swarm state are files that the
slave, the master's dashboard and the command line all edit. A handoff is a
planned transfer, an instruction, and a report that comes back as an instruction.

## 2. Modules

| Module | Contents |
|---|---|
| `ResumableUpload` | client loop, three handlers, delete, cleanup, restart; safety, liveness, refinement |
| `AtomicInstall` | abstract specification: what an upload promises |
| `ResumableDownload` | the download loop, the range handler, edits of the source |
| `PlannedTransfer` | sync, push and pull commands, jobs with saved plans, rename and move, over trees that others edit |
| `WorkerInbox` | the handler that posts instructions, the manifests, the worker loop |
| `HandoffFlow` | push, tell, cleanup, reports, their notes, call records and their readers |
| `AccessControl` | the guard, login and session checks on concurrent threads |
| `ApprovalBroker` | callers of `require_approval`, and others that list, decide and verify |
| `StateFiles` | whatever reads and replaces one of the five shared JSON files |
| `SnapshotStore` | abstract specification: what these files promise together |
| `ResumableUploadProofs`, `ResumableDownloadProofs`, `WorkerInboxProofs`, `HandoffFlowProofs`, `AccessControlProofs`, `ApprovalBrokerProofs`, `StateFilesProofs`, `PlannedTransferProofs` | theorems |
| `MCUpload`, `MCDownload`, `MCPlannedTransfer`, `MCWorker`, `MCHandoffFlow`, `MCAccess`, `MCApproval`, `MCStateFiles` | constants of the TLC instances |

Definitions that begin with `Mut` are the plausible bugs that `PROJECT.json`
pairs with each property: with the definition they mirror replaced by them, TLC
finds the property violated.

### ResumableUpload

One remote path. `target` and `part` are the file and its
`.agentremote_partial` file, which `partial_paths` (`common.py`) finds from the
path alone. `job[j]` is one client: `run_upload_job`, `headless.push` and
`transfer_push_items` share a loop (status, chunks, finish, one restart after a
refused finish), which is `Start`, `Send` and `Receive*`. `RequestLost`,
`AttemptTimeout` and `Disconnected` are what `read_with_retries` and `put_bytes`
tell apart: a refused connection and a timeout use up one of `MaxAttempts`
attempts, a connection that breaks is not retried. `Cancel` stands for a cancelled
job or a killed process.

`thr[t]` is a handler of the threading server, one step per file access:
`HandleStatus`/`StatusDiscard`, `HandleChunk`/`OpenPart`/`AppendUnit`/`ShortRead`,
`HandleFinish` to `ReplaceTarget`. The field `file` tells what an open descriptor
refers to after the partial was renamed or unlinked: an append follows the
descriptor, not the path. `Answer` reaches the job only if it still waits for this
attempt. Contents are sequences of units (one block of the chunk handler); a
digest is the content it is of. A client looks at its source three times: `Size` is
the size when the upload was planned, `Digest` the source when it was hashed, `Data`
what was read afterwards, and the three need not agree. Finish compares the partial
with the size first, then with the digest. `raced` is history: a chunk handler opened
or appended to the partial between a hash check and its rename, or to the file it had
been renamed to. `RestartServer` loses
sessions and handlers and keeps the files.

### ResumableDownload

One local path. `remote` ranges over `Versions`; `EditRemote` changes it between
any two steps. `job[j]` is the loop of `run_download_job`, `headless.pull` and
`transfer_pull_items`: the size comes from the plan, a longer partial is dropped,
the rest is asked for in chunks that the server reads in two steps (`ServeRange`
takes the size, `ServeRead` opens and reads), an empty chunk is an error, then
size check, existence check and rename. `Kill` leaves part of the chunk being
written. The fields `alone`, `steady` and `genuine` are history: nobody shared
the partial, the source did not change since the plan, the partial resumed was a
prefix of it.

### PlannedTransfer

`tree[side][n]` is the file a side holds at a name: a content, a size and a
modification time (`Absent` for none). `task[t]` is a sync, a push or pull command,
a job of the browser page, or a rename or move. Planning is `ListSource`,
`ListTarget` and `CompareHashes` (`build_sync_plan`, `scan_local_tree`, the two
listings one after the other), which fill `copy`, `conflicts` and `deletes`; an item
is `StartItem`, `Verify`, `Install`, `Stamp` (the look at the target, the transfer,
the rename, the planned time set by name), and for a pull `ReadChunk` in between;
`Confirm` is the question at the terminal, or its absence. `Pushed` and `Pulled` say
what may arrive: an upload is checked against the hash of what the sender read, a
download against its size alone. `left[n]` is the set of contents that the local
partial of a name has units of: it stays when a pull stops, the next one goes on
with it unless it is longer than planned (`Resumed`), each `ReadChunk` adds what the
source holds by then, and what is installed is one of these contents or, of several,
a mixture (`Torn`). Each side dates its files by its own clock (`Ahead`).
`StampPlan` and `SavePlan` are apart because `createdAt` is taken before the lock;
`WithoutOldest` is the eviction. `CancelJob` sets its flag between any two steps;
the job looks at it between items, in the chunks, and once at the end. `Edit` is
anybody else.

The history variables say when nothing can be promised: `appeared` (a file came to
the place since the last look), `disturbed` (somebody else wrote since the sync
began), `blurred` (the times of a name tell nothing: a write of it was not dated
later than those before by more than the tolerance, or came between an install and
its stamp; two tasks carry it in opposite directions or pull it at once, `Crosses`;
or a pull went on with a partial of what its source does not hold).

### WorkerInbox

`manifest[i]` is the file of instruction `i`. `Path.write_text` is a
truncation and a write; in between the file is `torn` and a reader fails. `size`
orders the texts by length, since a shorter text written over a longer one by a
writer that opened the file earlier leaves a tail. `poster[i]` is
`handle_instruction`: it creates the manifest and, with a callback alias, writes
it a second time. `worker[w]` is `run_worker_loop`: newest `received` autoRun
instruction, claim, plan, decision, approval, run (`ExecuteCommands`, or
`RunAgentBridge` for a task in natural language), report, final state; each
update is read, truncate, fill. `Execute[w]` holds the modes a worker may be run
in; a dry run (`"never"`) leaves the instruction claimed and is noted in `dry`.
Any error except "nothing runnable" ends the loop (`Die`), as in the code. `lost`
records that a write overwrote what its writer had not read.

### HandoffFlow

`call[c]` is the command `handoff`: `Push`, `Tell`, then `Answered` and
`SaveCallRecord`, or `TellFails` and `Cleanup`, which deletes by path what was
pushed whether the receiver has the task or not. `letter[l]` is an instruction on
its way into an inbox, the task of a call or a report on it: `SendInstruction`,
`FileTask` or `NameNote`/`WriteNote` (`unique_path` looks, `create_handoff` writes
later), `ListLetter`. `About(l)` are the calls a report names: the `parentId` of its
note, and the ids in a text that begins like a report (`Named`), which may be those
of another call. `Matching` takes either, as `instruction_matches_call_report` does,
but takes the note from the file that the manifest names, whoever wrote it.
`notes[i]` is the handoff file with the `i`-th name; all
reports of one second share a slug, so that they differ in their number alone.
`record[c]` is the call record; `reader[r]` is `refresh_call_records`, by hand or
in the loop of `wait_for_handoff_report`: `ReadCalls`, `ReadInbox`, then one
`MatchCall` per open call, each of which writes the record whatever it has become.
`Crash(h)` restarts a slave and drops what its handlers were at.
`covered` and `clashed` are history: another handoff pushed to or cleaned up the
path, and two notes were given one name before either was written.

### AccessControl

`Arrive` takes one of `max_concurrent_requests` slots (the threads; a request
that finds none is answered 503 and changes nothing). `CheckBlocked` and
`CheckRate` are `run_guarded`/`check_rate`; `Challenge`, `Login`,
`RecordFailure`, `CountFailures`, `CheckLoginPolicy`, `Grant` are
`SlaveState.challenge` and `login`; `ReadSession`, `CheckSessionPolicy`,
`SlideSession` are `require_token`. Every method takes the time before its lock,
so the thread carries `at`, which may be behind `now`. `EditWhitelist` is another
process. Tokens are named by their nonce. `welcome` and `late` are history: the
policy admitted the client at some moment since the request arrived; the clock
last overtook, at this time, a failed login of the client between its comparison
and its count.

### ApprovalBroker

`record[r]` is the file of request `r`, replaced as a whole, so that nobody reads
half of it. `actor[r]` is the caller: `Ask` and `Create` are `require_approval`,
`Wait`, `Read`, `CheckAnswer` the loop of `wait_for_approval`. `actor[p]` is any
other party, a dashboard, a command line or a caller that verifies: `Begin`,
`Read` and `CheckTask` lead to `Decide` (`decide_approval`), `UseToken`
(`verify_approval_token`) or nothing (`list_approval_requests`). Whoever reads an
overdue pending record writes it back as expired, with a time taken before or
after the read as in the code (`MarkOverdue`, `Expire`). The module's lock covers
the atomic replacement alone, hence no step of the model. An actor carries the
`copy` it has read; `stale` says that the file was written since, and `lost`
records the requests of which such a stale copy was written back. A killed
process is an actor that takes no further step, which every action allows.

### StateFiles and SnapshotStore

`disk[f]` is the content of one of five files: the swarm (policy, routes with
their own health, `routeHealth`, node record of each node), the connections, the
paired devices, the process registry, the worker policy. An operation of an
`actor` reads a file (`Load`, or `PickRoute` and `ReadForHealth` around a probe)
and later replaces it (`Save`); `os.replace` makes the write whole. `Goes` is what
each function asks of the content before it writes, `Updated` what it makes of the
value at its key. `ProbeAllNodes`/`SaveAndProbeNext` is `nodes status --all`,
which reads once and writes after each probe. `Best` is `select_best_route` over the
two copies of the health; `Shown` is what the listing marks as selected, which ranks
the saved connection as a row of priority 1000, and `Used` what `resolve_target`
connects to: for a name with `::` (`Aliases`) a row whatever its priority, and the
saved connection only if there is no row; the others are hosts. `Ends` is a pairing
that expires or a process that ends without a word.

`kept` is history: a partial function on the facts that commands decide (`Facts`:
policy and status of a node, the priority of each route, the entry of a connection,
device, process or rule, the failures of a route), with what was last asked of each
(`Asked`, stated apart from `Updated`, which is what the code does to the content).
A change settles its fact when nobody else is between reading and writing the same
file as it is saved (`Alone`, `Settles`); one that meets another writer unsettles
it. A settled fact stays settled through everything that does not ask otherwise,
also through the writes of those who read later. `admitted` is history: devices let
in by a request made when it was settled that they are revoked. `SnapshotStore`
promises what holds whoever overtakes whom: a write is a content the writer has
read, with one key changed.

## 3. Runs

| Run | Distinct states | Question |
|---|---|---|
| `upload_faults` | 248 018 | a file that grew between its plan and its digest and the file as it was, uploaded to one path, handlers one at a time, a job cancelled, the target deleted, the process restarted, leftovers that are a prefix or foreign: whole contents, exactly-once append, the hash check refuses only the grown file, termination, refinement of `AtomicInstall` |
| `upload_concurrent` | 2 077 420 | handlers overlap on two threads, two attempts, truncated source, empty file, leftovers that are longer than the file or foreign of its size: nothing but a late append corrupts the target |
| `upload_overlap` | violation | a timed-out handler appends to the installed file |
| `download_faults` | 310 198 | two downloads, kills, edits, cleanup: undisturbed downloads are exact, no partial wedges its path, every download ends |
| `download_edited` | violation | a stale partial is continued with another version |
| `planned_transfer` | 6 048 592 | a pushing and a pulling task that may cross, over trees that somebody edits, with clocks that differ and a leftover partial: equal looks mean equal files, nothing replaced unconfirmed, deletions last, an undisturbed sync converges, cancelled jobs stop, oldest plans go |
| `worker_faults` | 1 424 628 | two workers, two instructions, crashes in every step: one execution unless a write is lost, states advance, final means reported, every instruction ends |
| `worker_rewrite` | violation | the second write of the handler makes the worker run a task twice |
| `handoff` | 751 922 | two handoffs that may fail after the receiver has the task, crashes, competing reports of which one names the other call, two readers: tasks keep their files, records say what a report naming their call said, a reported call ends |
| `approvals` | 3 130 782 | one request under a policy that changes, two other parties: unless a write is lost a decision stands and the caller acts on approval only |
| `access` | 5 904 063 | strict policy edited between any two steps, nonces, blocks and sessions expire: denied clients stay out, wrong proofs per window are bounded |
| `state_files` | 239 586 | two actors change, probe and verify: settled changes stand, revoked devices stay out, failures are counted in a row, the route shown for an alias is used but for two cases, refinement of `SnapshotStore` |

Bounds, and why they suffice.

- `ChunkLen = 2` and files of three units: two chunks, so that an attempt is cut
  inside a chunk and between chunks, the last chunk is short, and a resumed
  offset may or may not be a chunk boundary. Leftover partials are a prefix, or
  foreign, or longer than the file, or foreign and of its size. The file that grew has
  four units where three were planned, so that no content has its size and digest.
- Two jobs on one path: every conflict over a partial or a target is between two.
  `MaxAttempts = 2` has a first attempt, a retry and the exhausted budget. The
  versions of a download differ in length (a truncation) or keep the size
  (`download_edited`).
- Planned transfers: two names, so that one item is installed and the next one
  fails; three contents of two sizes, so that two files may look the same without
  being it, and a partial of the one the source no longer holds; the remote clock
  one ahead; two tasks (a pushing sync or a job with a saved plan; a pulling sync, a
  job without one, or a move) and one edit by somebody else; one name excluded;
  tolerance 1; `MaxPlans = 1`, so that the next plan already evicts.
- Two workers, which run in the modes `yes` and `ask`/`never`, and the bridge; two
  instructions of different kinds, one with a callback: claim against claim, claim
  against the handler's second write, an older instruction behind a newer one.
- Handoffs: two calls over two paths that overlap, one report on each of which the
  first names the second call in its text, two note names, one crash, one waiter and
  one refresher.
- Access: one client, three nonces, two threads. `MaxTime` and the lives and
  windows are 1 or 2 ticks: an event leaves its window, a block ends, a nonce and a
  session expire within the run. One login failure may happen in a window before
  the block.
- Approvals: one request (records are independent) and two other parties:
  decision against decision, decision against expiry, verification against
  verification.
- State files: two actors (every lost update is between two), an alias and a host,
  two endpoints, priorities before and behind that of a saved connection, one
  device, two processes, two rules, three operations, over files that are missing or
  left by earlier sessions.
- The counters `now`, `clock`, `plans`, `edits`, operations and crashes are bounded
  in guards by the constants `Max...`; nothing else is.
- Symmetry is used over the threads and nonces of `AccessControl`, the parties of
  `ApprovalBroker` and the actors of `StateFiles` only, in runs without liveness.

`CHECK_DEADLOCK FALSE` stands in every configuration because the systems really
stop: all jobs ended, all workers dead, the clock at its bound.

Fairness.

- Upload: a client goes on with its loop (WF of `Receive(j)` and of sending), a
  handler ends (WF of `Handle(t) \/ ShortRead(t)`): the connection has a socket
  timeout of 30 s (`slave.py:281`), so that a body that never arrives is cut.
  Nothing is assumed about starting jobs, faults, cleanup or restart.
- Download: WF of `Step(j) \/ AttemptLost(j)`: a request is answered or times out.
- Worker: WF of a handler that has begun and of `Work(w)`: the loop polls at its
  interval. Killed workers need not be restarted; `EveryInstructionEnds` is claimed
  while nobody dies.
- Handoff: WF of `Refreshes` of readers that do not stop by time: somebody who
  looks at the call records again does so to the end. Nothing is assumed about the
  calls, the reports or the waiter.
- `AccessControl`, `ApprovalBroker`, `StateFiles` and `PlannedTransfer` have no
  liveness property: a client may always be refused, nobody has to decide, and
  every task may fail.

What the violated runs show (quoted in full under `findings`).

- `upload_overlap`: a chunk handler whose client gave up keeps its descriptor;
  when the retried upload is installed by `os.replace`, it appends to the
  installed file.
- `download_edited`: a partial is resumed by its size alone and no digest is
  compared at the end.
- `worker_rewrite`: with a callback alias the manifest is written a second time
  from an old copy, which sets an instruction that was claimed, or run and finished, back to
  `received`.

These runs bound what the others claim: integrity of uploads is for handlers that do
not overlap, exactness of downloads asks for a genuine prefix,
`ExecutedOnceUnlessLost` and the properties of approvals name lost writes, those of
state files hold for what was settled. With cleanup, `EveryUnitAtItsOffset` of
uploads is false too (a partial that vanishes between the offset check and
`open("ab")` is begun in the middle); the hash check then refuses it, which
theorem `Integrity` covers.

What the models show beside that, in the conditions of the properties that hold:

- The running upload does not resume after a chunk was cut inside: the server's
  offset is in the middle of the chunk, the client accepts `offset_mismatch` only
  at its end (`master.py:202`, against `docs/transfer-state.md:101-103`).
- A cancellation that arrives after the last look of `start_job` ends in `done`
  (`master.py:320-341`, `docs/transfer-state.md:62-63`).
- Two deciders that both read `pending` are both told that their answer holds.
- A whitelist rule removed while its approval waits still lets the instruction run
  (`worker.py:135`), and a claimed instruction may be run again by its id
  (`worker.py:249-254`).
- `select_best_route` takes the best route and tries no other one
  (`docs/v0.1-true-fullscale-test-scenarios.md:185-186`).
- Overwriting, once confirmed for the conflicts that were listed, is for every
  item (`sync.py:172-193`): hence `appeared` or `overwrite` in
  `ReplacesOnlyConfirmed`. A delete candidate is deleted without another look
  (`sync.py:600`), and a transfer that fails leaves what it has installed.
- A sync pull resumes a leftover partial without a hash, as downloads do, and gives
  the result the planned time: after a killed pull and an edit of the source at its
  size, source and target look the same to every later plan and are not. Without the
  last exemption of `blurred` TLC finds `LooksSameIsSame` violated in this way.
- A source that grows between its plan and its digest can never be uploaded by that
  plan: finish refuses it twice with no foreign unit about, hence the condition on
  `Size` in `HashRefusesOnlyForeignUnits`.
- Changes to a state file that meet in time undo each other; `ChangesStand` is for
  the others. A route of priority 1000 or more is used although the saved connection
  is the one shown (`cli.py:661`, `1820-1833`).
- A report of another call that mentions the id of this one ends this one
  (`cli.py:2369-2378`).
- Cleanup after a failed `tell` deletes by path, also what another handoff pushed
  there (`headless.py:435-436`): the history variable `covered`. A sender that dies
  between the answer and `save_call_record` leaves no record.
- Reports of one second share a slug, and `unique_path` looks before the file is
  written, so that two notes may share one file: `clashed`. Two refreshers may
  change a final record, a text with "error" or "failed" in it makes a completed
  task `failed` (`cli.py:2404`), and the wait may say `timeout` of a call whose
  record becomes `reported`.

## 4. Theorems

All proofs are for every value of the constants that the module's named
assumption allows (types, nonempty sets, positive lengths and limits), so for any
number of jobs, threads, actors, names and clocks.

| Module | Theorem | States | Also assumes |
|---|---|---|---|
| `ResumableUploadProofs` | `TypeCorrectness` | `TypeOK` | - |
| | `CorruptionNeedsALateAppend` | `OnlyLateAppendsCorrupt` | - |
| | `Integrity` | `NoSilentCorruption` | `Serial` |
| | `Refinement` | `ImplementsAtomicInstall` | `Serial` |
| | `ExactlyOnce` | `EveryUnitAtItsOffset` | `Serial`, no cleanup |
| | `Refusal` | `HashRefusesOnlyForeignUnits` | `Serial`, no cleanup |
| `ResumableDownloadProofs` | `TypeInvariant` | `TypeOK` | - |
| | `MismatchTheorem` | `OnlyDisturbedPartialsMismatch` | - |
| | `FaithfulTheorem` | `FaithfulDownloadIsSource` | - |
| | `UnitsTheorem` | `EveryUnitAtItsOffset` | `LeftOversOK` |
| `PlannedTransferProofs` | `TypeInvariant` | `TypeOK` | - |
| | `ReplaceTheorem` | `ReplacesOnlyConfirmed` | - |
| | `PromiseTheorem` | `PromisedIsThere` | - |
| | `CancelTheorem` | `CancelledJobsStop` | - |
| | `PlansTheorem` | `PlanDropsOldest` | - |
| | `SyncTheorem` | `SyncConverges` | - |
| | `LooksSameTheorem` | `LooksSameIsSame` | - |
| `WorkerInboxProofs` | `TypeInvariant` | `TypeOK` | - |
| | `RunsOnce` | `ExecutedOnceUnlessLost` | - |
| | `ReportsFirst` | `FinalIsReported` | - |
| | `AdvanceTheorem` | `StatesOnlyAdvance` | - |
| `HandoffFlowProofs` | `TypeInvariant` | `TypeOK` | - |
| | `FilesTheorem` | `TaskHasItsFiles` | - |
| | `AnswersTheorem` | `AnswersAreOfTheCall` | - |
| `AccessControlProofs` | `TypeInvariant` | `TypeOK` | - |
| | `OneSessionPerNonce` | `NonceUsedOnce` | - |
| | `PolicyHolds` | `DeniedClientsStayOut` | - |
| | `GuessTheorem` | `GuessesBounded` | `Window < BlockTime` |
| `ApprovalBrokerProofs` | `TypeInvariant` | `TypeOK` | - |
| | `DecisionTheorem` | `DecisionStands` | - |
| | `ApprovalTheorem` | `ActsOnApproval` | - |
| | `TokenTheorem` | `TokenUsedOnce` | - |
| `StateFilesProofs` | `TypeInvariant` | `TypeOK` | - |
| | `ChangesTheorem` | `ChangesStand` | - |
| | `RevocationTheorem` | `RevokedStaysOut` | - |
| | `FailuresTheorem` | `FailuresAreConsecutive` | - |
| | `SelectionTheorem` | `ShownRouteIsUsed` | - |
| | `SnapshotTheorem` | `ImplementsSnapshotStore` | - |

`Serial` says that the handlers of one path do not overlap; `upload_overlap` shows
that `Integrity` fails without it. `LeftOversOK` says that the partials left from
before hold units of some version at their offsets. `Window < BlockTime` is the
code's setting, 60 s against 120 s (`security.py:19` and `64`; the configuration
made in `slave.py:728` changes neither). `NonceUsedOnce`, `TokenUsedOnce` and, in
the proofs of uploads, `DoneIsAcknowledged` are proved and no run checks them.

The arguments. Each invariant below is the strengthening that a step preserves;
the property alone is not inductive.

- Uploads. `TypeInv` says that the content a handler works on exists when it
  writes, without which `Append(part, ...)` has no type. `LateInv`: unless an append
  got in between, a finish that has checked the hash finds at its rename what it
  hashed, or nothing, and an empty file is only created for the digest of one.
  `SafeInv`: no descriptor outlives its rename, and between the checks of finish
  and the rename the partial is the announced content or gone, and the target
  replaceable. `Refinement` maps `ReplaceTarget` and `WriteEmpty` to `Install`,
  `FinishWithoutPart` to `Confirm` and everything else to `Delete` or a stutter.
  `OffsetInv`: a handler past the offset check appends its next unit at the end of
  the partial (`Aligned`). `HashInv` is about a job that is `Alone`, that is, its
  source kept its planned size until it was hashed and nobody sends a unit that it
  did not hash: the first refusal has taken the partial
  away, so from then on the partial is a prefix of the announced content (`Clean`),
  every append keeps it one, and a prefix as long as the content is the content,
  which no second check refuses.
- Downloads. `PlaceOK`: a job that runs alone is at the end of the partial, and its
  descriptor is on the partial, so that when the loop ends the partial has the
  size of the plan. `SourceOK`: as long as the source does not change, what it has
  been given is the source's, and a partial that began as a prefix of the source
  remains one (`PrefixGrows`). `AloneInv` ties both to the histories: nobody else
  runs beside a job that is alone, and unless `shared` every job that runs is.
  `UnitsInv` needs no more than that a chunk, whenever it was read, is of one
  version at the offset that the job is at.
- Planned transfers. `LookOK` is the heart of `ReplaceTheorem`: from the look to the
  replacement, the place is free, or overwriting was confirmed, or something came to
  it (`appeared`), whatever the other tasks do. `PromiseOK` follows the promise of a
  plan through its stages: the items *are* the promise, and when the stage is past
  them all are installed. `AfterOK`: a job that installed a file after its
  cancellation is at a step from which it can only end. `SavedOK` needs the lemma
  `Eviction`: with one plan too many, the least is among those that go, so the limit
  holds; and a plan that goes has fewer than `Dropped` older ones, so that, by
  counting, enough newer ones have been made. `SyncInv` says that a sync nobody
  disturbs knows both trees (`KnowsTrees`): what it has listed is there, what is
  neither installed nor planned looks the same on both sides, an installed item
  looks like its source. `NamesInv` is an invariant of each name that is not
  blurred: no file is newer than the last write of its name but one that waits for
  its stamp, tasks under way carry the name one way, and two files that look alike
  without being alike are such a file and its source. As long as the source of a
  pull has not become newer than the plan, its partial has nothing but what the
  source holds still (`ReadOK`). The proof found the model too small: with tasks in
  both directions on one name, two different files may come to look the same, which
  no instance of the run had shown; the run has them now, and `Crosses` names the
  condition.
- Workers. `StateInv` types the loop; `NewInv` says that no worker has touched an
  instruction that is being created. Unless a write was lost, `ClaimInv` says what
  each worker relies on about the manifests between its read and its write
  (`Relies`), that one worker at most is past the claim of an instruction
  (`Alone`), and that an instruction no worker has claimed was not run.
- Handoffs. `FilesInv`: a call that has not told its task has none on its way, and
  the file of an uncovered call that is under way is its own. `RecordsInv`: what a
  reader holds are letters that are listed, and unless names clashed (`NotesInv`)
  named notes have free and distinct names, written notes are their own, and a
  record that is answered says what a listed report says that is about that call.
- Access. `StateInv` types the threads and ties each step to its kind of request;
  `TimeInv` adds that a thread in a request has a time between 1 and now and that
  no bucket exceeds its limit, which needs what trimming a window does (`TrimOK`).
  `NonceInv` counts: for each nonce, either it is unspent and nobody holds it, or
  one thread holds it, or one session was made. `AdmissionInv` says that a thread
  past a policy check is welcome, and that a client whose standing admits it is
  welcome on every thread that serves it; it needs that the owner of a session
  never changes once it is made. `GuessInv` follows, for each client and each moment
  `s`, the wrong proofs compared from `s` to the end of its window: they are in the
  bucket, but for those of the threads that have yet to record theirs, while the
  bucket is below the limit (`CountsUp`); or the bucket is full and a thread on its
  way to the count will see it (`WillBlock`); or the client is blocked beyond the
  window and only the logins already past the block are left (`Blocks`). The
  lemmas are that trimming at a time within the window keeps its entries
  (`TrimKeeps`, by an injection of indices), that it does so only once (`TrimAgain`),
  and that the threads of two of these sets together are no more than all threads.
  Without `late` the bound is false, which the proof showed and TLC confirms with
  `Window = 0`, `BlockTime = 1`, the policy off and four nonces: a failure counted
  after a tick is missing from the window in which it was compared. In the same way
  a failure counted late replaces a newer block by one that ends earlier
  (`security.py:99-100`).
- Approvals. `StateInv` says what a copy looks like before it is written back.
  `DecisionInv` adds that a copy that is not stale *is* the record, that an
  approved copy or record implies that somebody was told, and that with no write
  lost the record agrees with everything told and with the uses (lemma
  `HandsBack`, for the three writes at once).
- State files. `KeptInv`: not only every file but also every copy about to be
  written agrees with all that is settled about its file, for who wrote a fact while
  somebody held a copy did not settle it; and no request made under a settled
  revocation is under way with an answer. `SelectionTheorem` compares two choices of
  a best row, of the rows alone and of the rows with the saved connection (`IsBest`,
  `BestOfFewer`), for priorities that are any integers (`LeastInteger`).
  `SnapshotTheorem` maps every `Save` to one change of one key of a content that its
  writer has read, and every other step to a stutter or a read.

Only model-checked: liveness (`EveryJobEnds`, `EveryDownloadEnds`,
`EveryInstructionEnds`, `ReportEndsCall`), which with ENABLED and fairness is
beyond the proof system. Every invariant and action property that a passing run
checks is also a theorem.

## 5. Not modelled

- Transfers: the partial's meta file (written, never read), full disks,
  directories (they are made before the files and never taken away), links, the
  syntax of exclude patterns, the chunks of a planned item, which
  `ResumableUpload` and `ResumableDownload` model.
- Worker: runs of one instruction by `--instruction`, the matching of commands to
  rules (the kind of an instruction stands for its outcome). In `WorkerInbox` an
  approval is one step that is granted or refused; `ApprovalBroker` has its inside,
  without the text of a request and without unreadable record files, which the
  code skips.
- Access: the transfer bucket, the overload counter with its shutdown on a flood,
  CIDR entries of the whitelist.
- State files: project policies and aliases, and the stop of a process, which
  changes none of them: it signals a process id that was checked against the
  registry before an approval of up to 300 s (`master.py:1293-1327`,
  `swarm.py:1349-1368`) and that may belong to another process by then. That reuse
  is the operating system's, outside of any model here.
- Handoff: the text of a handoff, except for what a reader of records takes from it.
- Transfer log, work journal, daemon profiles: written for people, or read and
  replaced whole as the files of `StateFiles`; nothing decides by them.
- Path and file-name rules are pure functions of strings; names are model values
  here. TLS, firewall, bootstrap, console and the web page are calls of the system,
  of external programs, and output.

## 6. Plan

Done: every component of section 1 that keeps state which another part relies on,
the two abstract specifications (`AtomicInstall`, `SnapshotStore`) with their
refinements checked and proved, and the theorems above.

Left, in order of importance.

1. `WorkerInbox` with its approval replaced by the steps of `ApprovalBroker`, and
   `PlannedTransfer` with its items replaced by `ResumableUpload`.
2. The refusal of foreign units, and exactly-once append, under cleanup: which
   condition on the age of the partial is enough.
3. Process stop, once the reuse of process ids is given as an environment.
