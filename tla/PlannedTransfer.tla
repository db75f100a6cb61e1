---------------------------- MODULE PlannedTransfer ----------------------------
(***************************************************************************)
(* Transfers that are planned before they happen: folder sync, the push    *)
(* and pull commands, and the jobs of the browser page with their saved    *)
(* plans; and the renames and moves of single files.  Nothing is locked    *)
(* between looking at the two trees and changing one of them, and other    *)
(* programs edit both.                                                     *)
(*                                                                         *)
(* A pull that stops leaves its partial, and the next one goes on with it   *)
(* by its size, whatever the source holds by then.  Each side dates its     *)
(* files by its own clock.                                                 *)
(*                                                                         *)
(* Left out: directories (they are made before the files and never taken   *)
(* away), empty files, and the offsets of chunks, which ResumableUpload    *)
(* and ResumableDownload model: a partial of a pull is known by the         *)
(* contents it has units of, and what two pulls at once append to one       *)
(* partial is told apart no further; a push installs what its hash says.   *)
(***************************************************************************)
EXTENDS Naturals, FiniteSets

CONSTANTS Names,         \* relative paths, in the order the plans sort them
          Contents, SizeOf,
          Torn,          \* content read from a file while it was rewritten
          Tolerance,     \* of two modification times that count as equal
          Excluded,      \* names that the patterns of a sync push exclude
          Tasks,         \* commands and jobs
          Requests,      \* what each task may ask for
          Beginnings,    \* trees that the runs begin with
          Leftovers,     \* contents that earlier pulls left in the partial of a name
          Ahead,         \* how far the clock of each side is ahead
          MaxPlans, Dropped,   \* plans the page keeps, and how many it drops beyond
          MaxClock, MaxEdits, MaxOthers    \* bounds: clock, edits, plans of others

Sides == {"local", "remote"}
Other(side) == IF side = "local" THEN "remote" ELSE "local"

Sizes == {SizeOf[c] : c \in Contents}
File == {f \in [content : Contents \cup {Torn}, size : Sizes, mtime : Nat] :
            f.content = Torn \/ f.size = SizeOf[f.content]}
Absent == [content |-> "absent", size |-> 0, mtime |-> 0]
Tree == [Names -> File \cup {Absent}]

\* What a user, a command line or the page asks for.
RequestState ==
    [tool : {"sync", "command", "job", "move"}, to : Sides, overwrite : BOOLEAN,
     delete : BOOLEAN, hash : BOOLEAN, saved : BOOLEAN, from : Names, dest : Names]

ASSUME PlannedTransferAssumption ==
    /\ Names \subseteq Nat \ {0} /\ IsFiniteSet(Names)
    /\ SizeOf \in [Contents -> Nat \ {0}]
    /\ "absent" \notin Contents \cup {Torn} /\ Torn \notin Contents
    /\ Tolerance \in Nat /\ MaxPlans \in Nat /\ Dropped \in 1 .. MaxPlans
    /\ MaxClock \in Nat /\ MaxEdits \in Nat /\ MaxOthers \in Nat
    /\ Beginnings \subseteq [Sides -> Tree] /\ Ahead \in [Sides -> Nat]
    /\ Leftovers \in [Names -> SUBSET (Contents \cup {Torn})]
    /\ \A t \in Tasks : Requests[t] \subseteq RequestState

VARIABLES tree,        \* what each side holds
          left,        \* contents the local partial of a name may have units of
          task,
          saved,       \* plans the page keeps, each named by its createdAt
          plans,       \* plans made for the page so far
          clock, edits,
          appeared,    \* history: a file came to where the task writes since it looked
          disturbed,   \* history: another wrote since the task began
          blurred,     \* history: names whose times tell nothing, see Blurs
          last,        \* history: the latest time that a write of a name was given
          after        \* history: files a job installed after its cancellation

vars == <<tree, left, task, saved, plans, clock, edits, appeared, disturbed, blurred, last,
          after>>

Final == {"done", "failed", "cancelled"}
Planning == {"source", "target", "hashes"}
Transferring == {"item", "copying", "installing", "stamping", "ending", "closing"}
Stages == {"idle", "planned", "stamped", "saved", "queued", "confirm", "deletes",
           "look", "moving"} \cup Planning \cup Transferring \cup Final

NoRequest == [tool |-> "none"]
AskedFor == UNION {Requests[t] : t \in Tasks}
TaskState ==
    [req : AskedFor \cup {NoRequest}, stage : Stages,
     listing : Tree, copy : SUBSET Names, conflicts : SUBSET Names, deletes : SUBSET Names,
     items : SUBSET Names, overwrite : BOOLEAN, deleting : BOOLEAN, item : Names \cup {0},
     seen : File \cup {Absent}, installed : SUBSET Names, cancel : BOOLEAN, created : Nat]
Idle == [req |-> NoRequest, stage |-> "idle", listing |-> [n \in Names |-> Absent],
         copy |-> {}, conflicts |-> {}, deletes |-> {}, items |-> {}, overwrite |-> FALSE,
         deleting |-> FALSE, item |-> 0, seen |-> Absent, installed |-> {},
         cancel |-> FALSE, created |-> 0]

-----------------------------------------------------------------------------
(* Plans.                                                                  *)

Near(a, b) == a <= b + Tolerance /\ b <= a + Tolerance

Same(f, g) == f.size = g.size /\ Near(f.mtime, g.mtime)

\* A sync push skips what its patterns exclude in the local tree, and nothing in
\* the remote one.
SyncListing(to, side) ==
    [n \in Names |-> IF to = "remote" /\ side = "local" /\ n \in Excluded
                     THEN Absent ELSE tree[side][n]]

\* The files a plan sees.
Listing(t, side) ==
    IF task[t].req.tool = "sync" THEN SyncListing(task[t].req.to, side) ELSE tree[side]

Files(listing) == {n \in Names : listing[n] # Absent}

\* Both files of a name, for a sync only if they look different.
Conflicts(t, target) ==
    {n \in Files(task[t].listing) \cap Files(target) :
        task[t].req.tool = "sync" => ~Same(task[t].listing[n], target[n])}

\* Everything the source does not hold, with the names that were excluded.
DeleteCandidates(t, target) ==
    IF task[t].req.tool = "sync" THEN Files(target) \ Files(task[t].listing) ELSE {}

Least(S) == CHOOSE x \in S : \A y \in S : x <= y

\* Missing files go first, then the conflicts.
NextItem(t) ==
    LET missing == task[t].items \cap task[t].copy IN
    IF missing \ task[t].installed # {} THEN Least(missing \ task[t].installed)
    ELSE Least(task[t].items \ task[t].installed)

\* No plan is ever dropped.
MutKept(kept) == kept

\* The newest plans are dropped.
MutNewest(kept) ==
    IF Cardinality(kept) <= MaxPlans THEN kept
    ELSE {p \in kept : Cardinality({q \in kept : q > p}) >= Dropped}

WithoutOldest(kept) ==
    IF Cardinality(kept) <= MaxPlans THEN kept
    ELSE {p \in kept : Cardinality({q \in kept : q < p}) >= Dropped}

-----------------------------------------------------------------------------
(* History.                                                                *)

Holds(side, n) == tree[side][n] # Absent

\* Where the task writes next.
Place(t) == task[t].item

Emerges(t) ==
    LET to == task[t].req.to IN
    Place(t) # 0 /\ tree[to][Place(t)] = Absent /\ tree'[to][Place(t)] # Absent
Depends(t) == task[t].req.tool = "sync"

\* Kept by every step: looks says that me looks at its place in this step.
Watches(me, looks) ==
    /\ appeared' = [t \in Tasks |-> /\ ~(t = me /\ looks)
                                    /\ task'[t].item # 0
                                    /\ appeared[t] \/ (t # me /\ Emerges(t))]
    /\ disturbed' = [t \in Tasks |->
                        Depends(t) /\ (disturbed[t] \/ (t # me /\ tree' # tree))]

\* A name's times tell nothing once a write of it is not dated later than those
\* before by more than the tolerance, its file is written, planned or left behind
\* between its install and its stamp, it is carried both ways or pulled twice at
\* once, or a pull goes on with a partial of what the source does not hold.
Blurs(n) == blurred' = blurred \cup {n}
Later(a, b) == IF a < b THEN b ELSE a
Twins(n) ==
    /\ Holds("local", n) /\ Holds("remote", n)
    /\ Same(tree["local"][n], tree["remote"][n])
    /\ tree["local"][n].content # tree["remote"][n].content
Stamping(n) == \E t \in Tasks : task[t].stage = "stamping" /\ task[t].item = n

Pulls(t) == task[t].req.to = "local"

\* Another task carries n the other way, or pulls it too.
Crosses(t, n) ==
    \E u \in Tasks : /\ task[u].item = n /\ (task[u].req.to # task[t].req.to \/ Pulls(t))
                     /\ task[u].stage \in {"copying", "installing", "stamping"}

-----------------------------------------------------------------------------
Init ==
    /\ tree \in Beginnings /\ left = Leftovers
    /\ task = [t \in Tasks |-> Idle]
    /\ saved = {} /\ plans = 0 /\ edits = 0
    /\ last = [n \in Names |-> Later(tree["local"][n].mtime, tree["remote"][n].mtime)]
    /\ clock \in {last[n] : n \in Names} /\ \A n \in Names : last[n] <= clock
    /\ appeared = [t \in Tasks |-> FALSE] /\ disturbed = [t \in Tasks |-> FALSE]
    /\ blurred = {n \in Names : Twins(n)} /\ after = [t \in Tasks |-> 0]

Goes(t, new) == task' = [task EXCEPT ![t] = new]
To(t, stage) == Goes(t, [task[t] EXCEPT !.stage = stage])
Ends(t, stage) ==
    IF stage = "done" THEN Goes(t, [task[t] EXCEPT !.stage = stage, !.listing = Idle.listing,
                                              !.item = 0, !.seen = Absent])
    ELSE Goes(t, [Idle EXCEPT !.stage = stage, !.cancel = task[t].cancel])
At(t, stage) == task[t].stage = stage

Apart == UNCHANGED <<saved, plans, clock, edits>>
Still == UNCHANGED <<tree, left, blurred, last, after>>
Quiet(t) == Apart /\ Still /\ Watches(t, FALSE)

Begin(t, r, stage) ==
    /\ At(t, "idle")
    /\ Goes(t, [Idle EXCEPT !.req = r, !.overwrite = r.overwrite, !.stage = stage])
    /\ Quiet(t)

BeginCommand(t, r) == r.tool \in {"sync", "command"} /\ Begin(t, r, "source")

\* The page starts a job at once, or has its plan made first and starts the job
\* with the plan's id; or it renames or moves a file.
BeginOnPage(t, r) ==
    \/ r.tool = "job" /\ ~r.saved /\ Begin(t, r, "queued")
    \/ r.tool = "job" /\ r.saved /\ Begin(t, r, "source")
    \/ r.tool = "move" /\ Begin(t, r, "look")

ListSource(t) ==
    /\ At(t, "source")
    /\ Goes(t, [task[t] EXCEPT !.listing = Listing(t, Other(task[t].req.to)),
                               !.stage = "target"])
    /\ blurred' = blurred \cup {n \in Names : Stamping(n)}
    /\ Apart /\ UNCHANGED <<tree, left, last, after>> /\ Watches(t, FALSE)

Planned(t) == IF task[t].req.tool = "job" /\ task[t].req.saved THEN "planned" ELSE "confirm"

ListTarget(t) ==
    /\ At(t, "target")
    /\ LET target == Listing(t, task[t].req.to) IN
       Goes(t, [task[t] EXCEPT
            !.copy = Files(task[t].listing) \ Files(target),
            !.conflicts = Conflicts(t, target),
            !.deletes = DeleteCandidates(t, target),
            !.stage = IF task[t].req.hash THEN "hashes" ELSE Planned(t)])
    /\ Quiet(t)

\* A conflict is none if the two files, as they are by now, have the same bytes.
CompareHashes(t) ==
    /\ At(t, "hashes")
    /\ Goes(t, [task[t] EXCEPT
            !.conflicts = {n \in task[t].conflicts :
                ~ (/\ Holds("local", n) /\ Holds("remote", n)
                   /\ tree["local"][n].content = tree["remote"][n].content)},
            !.stage = Planned(t)])
    /\ Quiet(t)

-----------------------------------------------------------------------------
(* Plans of the browser page and the jobs that use them.                   *)

\* createdAt is taken before the lock.
StampPlan(t) ==
    /\ At(t, "planned")
    /\ plans' = plans + 1
    /\ Goes(t, [task[t] EXCEPT !.created = plans + 1, !.stage = "stamped"])
    /\ UNCHANGED <<saved, clock, edits>> /\ Still /\ Watches(t, FALSE)

SavePlan(t) ==
    /\ At(t, "stamped")
    /\ saved' = WithoutOldest(saved \cup {task[t].created})
    /\ To(t, "saved")
    /\ UNCHANGED <<plans, clock, edits>> /\ Still /\ Watches(t, FALSE)

OtherPlan ==
    /\ \E t \in Tasks : task[t].stage \in {"planned", "stamped", "saved", "queued"}
                         /\ task[t].req.saved
    /\ plans < MaxOthers + Cardinality({t \in Tasks : task[t].created # 0})
    /\ plans' = plans + 1
    /\ saved' = WithoutOldest(saved \cup {plans + 1})
    /\ UNCHANGED <<tree, left, task, clock, edits, appeared, disturbed, blurred, last, after>>

StartJob(t) == At(t, "saved") /\ To(t, "queued") /\ Quiet(t)

RunJob(t) ==
    /\ At(t, "queued")
    /\ IF task[t].cancel THEN Ends(t, "cancelled")
       ELSE IF ~task[t].req.saved THEN To(t, "source")
       ELSE IF task[t].created \in saved THEN To(t, "confirm")
       ELSE Ends(t, "failed")
    /\ Quiet(t)

Started(t) ==
    /\ task[t].req.tool = "job"
    /\ task[t].stage \in {"queued", "confirm"} \cup Transferring
          \cup (IF task[t].req.saved THEN {} ELSE Planning)

\* The page asks for it; the flag is set without the lock.
CancelJob(t) ==
    /\ Started(t) /\ ~task[t].cancel
    /\ Goes(t, [task[t] EXCEPT !.cancel = TRUE])
    /\ Quiet(t)

-----------------------------------------------------------------------------
(* Transferring.                                                           *)

\* A job has its answer with the request.
MayReplace(t, answer) ==
    \/ task[t].conflicts = {} \/ task[t].req.overwrite
    \/ task[t].req.tool # "job" /\ answer = "yes"

AsksToDelete(t) == task[t].req.delete /\ task[t].deletes # {}

\* Whoever is at the terminal answers yes, no or nothing (end of file); a command
\* without one overwrites nothing and deletes what --delete allows it to.  To
\* overwrite is for all items, whether they were listed as conflicts or not.
Confirm(t) ==
    /\ At(t, "confirm")
    /\ \E overwrite, delete \in {"unattended", "yes", "no", "eof"} :
        IF ~MayReplace(t, overwrite) \/ (AsksToDelete(t) /\ delete = "no")
        THEN Ends(t, "failed")
        ELSE Goes(t, [task[t] EXCEPT
                 !.items = task[t].copy \cup task[t].conflicts,
                 !.overwrite = task[t].req.overwrite \/ task[t].conflicts # {},
                 !.deleting = AsksToDelete(t) /\ delete \in {"unattended", "yes"},
                 !.stage = "item"])
    /\ Quiet(t)

Cancelled(t) == task[t].req.tool = "job" /\ task[t].cancel

\* The target is looked at only to tell what the plan says.
MutBlocked(t, n) == n \in task[t].conflicts /\ ~task[t].overwrite

Blocked(t, n) == Holds(task[t].req.to, n) /\ ~task[t].overwrite

\* A cancellation is looked for in the chunks of a file only.
MutUnasked(t) == task[t].stage = "copying" /\ Cancelled(t)

Stops(t) == Cancelled(t)

Longer(c, size) == c = Torn \/ SizeOf[c] > size

\* What is in the partial as a pull of n begins: a partial longer than planned goes.
Resumed(t, n) ==
    {left[n]} \cup {rest \in {{}} : \E c \in left[n] : Longer(c, task[t].listing[n].size)}

\* The sender hashes the file; a pull takes the partial that is there by its size.
\* Both look whether the target exists.
StartItem(t) ==
    /\ At(t, "item") /\ task[t].items \ task[t].installed # {}
    /\ LET n == NextItem(t)
           source == tree[Other(task[t].req.to)][n]
           refused == Blocked(t, n) \/ (~Pulls(t) /\ source = Absent)
       IN \/ /\ Stops(t) /\ Ends(t, "cancelled") /\ UNCHANGED <<left, blurred>>
          \/ /\ ~Stops(t) /\ refused /\ Ends(t, "failed") /\ UNCHANGED <<left, blurred>>
          \/ /\ ~Stops(t) /\ ~refused
             /\ Goes(t, [task[t] EXCEPT !.item = n, !.stage = "copying",
                                        !.seen = IF Pulls(t) THEN Absent ELSE source])
             /\ \E rest \in (IF Pulls(t) THEN Resumed(t, n) ELSE {left[n]}) :
                 /\ left' = [left EXCEPT ![n] = rest]
                 /\ IF Crosses(t, n) \/ (Pulls(t) /\ ~(rest \subseteq {source.content} \ {Torn}))
                    THEN Blurs(n) ELSE UNCHANGED blurred
    /\ Apart /\ UNCHANGED <<tree, last, after>> /\ Watches(t, TRUE)

\* A chunk is read from the source as it is by now.
ReadChunk(t) ==
    LET n == task[t].item
        now == tree["remote"][n]
    IN /\ At(t, "copying") /\ Pulls(t) /\ ~Stops(t) /\ now # Absent
       /\ left' = [left EXCEPT ![n] = @ \cup {now.content}]
       /\ Apart /\ UNCHANGED <<tree, task, blurred, last, after>> /\ Watches(t, FALSE)

\* Every attempt and every chunk looks for a cancellation.
StopCopying(t) ==
    /\ At(t, "copying") /\ Stops(t)
    /\ Ends(t, "cancelled") /\ Quiet(t)

\* What the sender read when it hashed the file, if that still has its planned size.
Pushed(t) ==
    IF task[t].seen.size = task[t].listing[task[t].item].size
    THEN {task[t].seen.content} ELSE {}

\* A pull verifies the size alone: units of several contents make a file of that
\* size too, and so do the first units of a longer one.
Pulled(t) ==
    LET n == task[t].item
        size == task[t].listing[n].size
    IN {c \in left[n] \ {Torn} : SizeOf[c] = size}
         \cup {c \in {Torn} : \E d, e \in left[n] : d # e \/ Longer(d, size)}

Arrives(t) == IF Pulls(t) THEN Pulled(t) ELSE Pushed(t)

\* The time of the installation.
MutOwnTime(t) == clock + Ahead[task[t].req.to]

\* The time the source has by now.
MutLateTime(t) == tree[Other(task[t].req.to)][task[t].item].mtime

PlannedTime(t) == task[t].listing[task[t].item].mtime

Verify(t) ==
    /\ At(t, "copying")
    /\ \/ /\ Blocked(t, task[t].item)
          /\ Ends(t, "failed")
       \/ /\ ~Blocked(t, task[t].item)
          /\ \E c \in Arrives(t) :
              Goes(t, [task[t] EXCEPT
                    !.seen = [content |-> c, size |-> task[t].listing[task[t].item].size,
                              mtime |-> PlannedTime(t)],
                    !.stage = "installing"])
    /\ Apart /\ Still /\ Watches(t, TRUE)

Install(t) ==
    /\ At(t, "installing")
    /\ tree' = [tree EXCEPT ![task[t].req.to][task[t].item] =
                    [task[t].seen EXCEPT !.mtime = clock + Ahead[task[t].req.to]]]
    /\ left' = IF Pulls(t) THEN [left EXCEPT ![task[t].item] = {}] ELSE left
    /\ Goes(t, [task[t] EXCEPT !.installed = @ \cup {task[t].item}, !.stage = "stamping"])
    /\ after' = [after EXCEPT ![t] = @ + IF Cancelled(t) THEN 1 ELSE 0]
    /\ IF Stamping(task[t].item) THEN Blurs(task[t].item) ELSE UNCHANGED blurred
    /\ Apart /\ UNCHANGED last /\ Watches(t, FALSE)

\* The time is set by the name of the file, whoever has written it since.
Stamp(t) ==
    LET to == task[t].req.to
        n == task[t].item
    IN /\ At(t, "stamping")
       /\ IF Holds(to, n)
          THEN /\ tree' = [tree EXCEPT ![to][n].mtime = task[t].seen.mtime]
               /\ Goes(t, [task[t] EXCEPT !.item = 0, !.seen = Absent, !.stage = "item"])
          ELSE Ends(t, "failed") /\ UNCHANGED tree
       /\ Apart /\ UNCHANGED <<left, blurred, last, after>> /\ Watches(t, FALSE)

\* A file that cannot be transferred is skipped.
MutSkipped(t) ==
    IF At(t, "copying") THEN Goes(t, [task[t] EXCEPT !.items = @ \ {task[t].item},
                                            !.item = 0, !.seen = Absent, !.stage = "item"])
    ELSE Ends(t, "failed")

GivesUp(t) == Ends(t, "failed")

\* The network, a disk, the process: nothing more of the plan is done.
Fails(t) ==
    /\ task[t].stage \in Planning \cup Transferring \cup {"confirm", "deletes"}
    /\ GivesUp(t)
    /\ IF At(t, "stamping") THEN Blurs(task[t].item) ELSE UNCHANGED blurred
    /\ Apart /\ UNCHANGED <<tree, left, last, after>> /\ Watches(t, FALSE)

AllInstalled(t) ==
    /\ At(t, "item") /\ task[t].items \subseteq task[t].installed
    /\ IF task[t].req.tool = "job" THEN To(t, "ending")
       ELSE IF task[t].deleting THEN To(t, "deletes") ELSE Ends(t, "done")
    /\ Quiet(t)

\* start_job looks at the flag, then sets the state.
CheckCancelled(t) ==
    /\ At(t, "ending")
    /\ IF task[t].cancel THEN Ends(t, "cancelled") ELSE To(t, "closing")
    /\ Quiet(t)

JobDone(t) == At(t, "closing") /\ Ends(t, "done") /\ Quiet(t)

\* Nobody looks again what the file is by now; the remote side refuses a name it
\* does not hold any more.
DeleteItem(t) ==
    /\ At(t, "deletes")
    /\ LET n == Least(task[t].deletes)
           rest == task[t].deletes \ {n}
           to == task[t].req.to
       IN IF to = "remote" /\ ~Holds(to, n) THEN Ends(t, "failed") /\ UNCHANGED tree
          ELSE /\ tree' = [tree EXCEPT ![to][n] = Absent]
               /\ IF rest = {}
                  THEN Goes(t, [task[t] EXCEPT !.deletes = {}, !.stage = "done",
                                               !.listing = Idle.listing])
                  ELSE Goes(t, [task[t] EXCEPT !.deletes = rest])
    /\ Apart /\ UNCHANGED <<left, blurred, last, after>> /\ Watches(t, FALSE)

-----------------------------------------------------------------------------
(* Rename and move of one file, on the slave or in the local root.         *)

LookForDestination(t) ==
    LET r == task[t].req IN
    /\ At(t, "look")
    /\ IF ~Holds(r.to, r.from) \/ Blocked(t, r.dest) THEN Ends(t, "failed")
       ELSE Goes(t, [task[t] EXCEPT !.item = r.dest, !.stage = "moving"])
    /\ Apart /\ Still /\ Watches(t, TRUE)

\* Renaming replaces a file that has come to the destination.
Move(t) ==
    LET r == task[t].req IN
    /\ At(t, "moving")
    /\ IF ~Holds(r.to, r.from) THEN Ends(t, "failed") /\ UNCHANGED <<tree, blurred>>
       ELSE /\ tree' = [tree EXCEPT ![r.to][r.dest] = tree[r.to][r.from],
                                    ![r.to][r.from] = Absent]
            /\ Ends(t, "done")
            /\ blurred' = blurred \cup {r.from, r.dest}
    /\ Apart /\ UNCHANGED <<left, last, after>> /\ Watches(t, FALSE)

\* Somebody writes, creates or deletes a file: a user, an agent, another handler.
Edit(side, n, c) ==
    /\ edits < MaxEdits /\ edits' = edits + 1
    /\ \E t \in Tasks : task[t].stage \notin Final \cup {"idle"}
    /\ clock' \in {clock + 1, clock + Tolerance + 1} /\ clock' <= MaxClock
    /\ LET time == clock' + Ahead[side] IN
       \/ /\ c \in Contents
          /\ tree' = [tree EXCEPT ![side][n] =
                          [content |-> c, size |-> SizeOf[c], mtime |-> time]]
          /\ last' = [last EXCEPT ![n] = Later(time, @)]
          /\ IF time <= last[n] + Tolerance \/ Stamping(n) THEN Blurs(n)
             ELSE UNCHANGED blurred
       \/ /\ c = "absent" /\ Holds(side, n)
          /\ tree' = [tree EXCEPT ![side][n] = Absent]
          /\ UNCHANGED <<last, blurred>>
    /\ UNCHANGED <<left, task, saved, plans, after>>
    /\ appeared' = [t \in Tasks |-> appeared[t] \/ Emerges(t)]
    /\ disturbed' = [t \in Tasks |-> Depends(t)]

-----------------------------------------------------------------------------
Proceeds(t) ==
    \/ ListSource(t) \/ ListTarget(t) \/ CompareHashes(t)
    \/ StampPlan(t) \/ SavePlan(t) \/ RunJob(t) \/ Confirm(t)
    \/ StartItem(t) \/ ReadChunk(t) \/ StopCopying(t) \/ Verify(t) \/ Install(t) \/ Stamp(t)
    \/ AllInstalled(t) \/ CheckCancelled(t) \/ JobDone(t) \/ DeleteItem(t)
    \/ LookForDestination(t) \/ Move(t)

Next ==
    \/ \E t \in Tasks :
        \/ \E r \in Requests[t] : BeginCommand(t, r) \/ BeginOnPage(t, r)
        \/ StartJob(t) \/ CancelJob(t) \/ Fails(t)
        \/ Proceeds(t)
    \/ OtherPlan
    \/ \E side \in Sides, n \in Names, c \in Contents \cup {"absent"} : Edit(side, n, c)

Spec == Init /\ [][Next]_vars

-----------------------------------------------------------------------------
(* Properties.                                                             *)

\* Every variable has its type, and the page keeps no more plans than it may.
TypeOK ==
    /\ tree \in [Sides -> Tree] /\ left \in [Names -> SUBSET (Contents \cup {Torn})]
    /\ task \in [Tasks -> TaskState]
    /\ plans \in Nat /\ saved \subseteq 1 .. plans /\ Cardinality(saved) <= MaxPlans
    /\ clock \in Nat /\ edits \in 0 .. MaxEdits /\ last \in [Names -> Nat]
    /\ appeared \in [Tasks -> BOOLEAN] /\ disturbed \in [Tasks -> BOOLEAN]
    /\ blurred \subseteq Names /\ after \in [Tasks -> Nat]

\* Two files of one name that a plan takes for the same are the same, whatever
\* transfers of older states were under way and wherever they stopped: each transfer
\* sets the time of its own plan (build_sync_plan goes by sizes and times, which
\* items take from their plan).  Exempt is a name that was written with a time not
\* later than those before by more than the tolerance, or between an install and its
\* stamp; that was carried both ways or pulled twice at once; and one whose pull went
\* on with a partial of what the source did not hold any more, which the size alone
\* lets pass.
LooksSameIsSame ==
    \A n \in Names \ blurred : Twins(n) => Stamping(n)

\* No item and no move replaces a file, unless overwriting was confirmed or the
\* file came after the last look at its place: the look before the transfer is not
\* the last one (transfer_push_items, transfer_pull_items, handle_move).
ReplacesOnlyConfirmed ==
    [][\A t \in Tasks :
        LET to == task[t].req.to IN
        /\ task[t].stage \in {"installing", "moving"}
        /\ Holds(to, task[t].item) /\ tree'[to] # tree[to] /\ task'[t] # task[t]
        => task[t].overwrite \/ appeared[t]]_vars

\* What a plan promised is all there before a candidate is deleted and when the
\* task is said to be done: no failure on the way is passed over.
PromisedIsThere ==
    \A t \in Tasks :
        task[t].req.tool # "move" /\ task[t].stage \in {"deletes", "done"}
        => task[t].copy \cup task[t].conflicts \subseteq task[t].installed

\* A sync that is done, with the deletes it found if any, leaves nothing to do: had
\* nobody else written since it began, the next plan would be empty.
SyncConverges ==
    \A t \in Tasks :
        LET source == Listing(t, Other(task[t].req.to))
            target == tree[task[t].req.to]
        IN /\ At(t, "done") /\ task[t].req.tool = "sync"
           /\ task[t].deletes = {} /\ ~disturbed[t]
           => \A n \in Names :
                /\ (source[n] = Absent) = (target[n] = Absent)
                /\ \/ Same(source[n], target[n])
                   \/ task[t].req.hash /\ source[n].content = target[n].content

\* Once its cancellation is confirmed a job installs one more file at most, the one
\* it was at (raise_if_cancelled, cancel_job).
CancelledJobsStop == \A t \in Tasks : after[t] <= 1

\* A saved plan that a job does not find any more gave way to newer ones only, of
\* which at least MaxPlans + 1 - Dropped came later.
PlanDropsOldest ==
    \A t \in Tasks :
        task[t].stage \in {"saved", "queued"} /\ task[t].created \in 1 .. plans \ saved
        => plans - task[t].created >= MaxPlans + 1 - Dropped

=============================================================================
