------------------------- MODULE PlannedTransferProofs -------------------------
(***************************************************************************)
(* Proofs about PlannedTransfer, for any names, trees, tasks and edits:    *)
(* no item and no move replaces a file unconfirmed, deletions come after   *)
(* all that was promised, a cancelled job stops, the oldest saved plans    *)
(* are the ones that go, a sync leaves nothing to do, and files that look  *)
(* the same are the same.                                                  *)
(***************************************************************************)
EXTENDS PlannedTransfer, FiniteSetTheorems, WellFoundedInduction, TLAPS

-----------------------------------------------------------------------------
(* Numbers: the least of some names, and the plans that are kept.          *)

LEMMA SmallestExists ==
    ASSUME NEW S \in SUBSET Nat, S # {}
    PROVE  \E x \in S : \A y \in S : x <= y
  <1> DEFINE R == OpToRel(<, Nat)
  <1>1. \A x, y \in Nat : y < x => <<y, x>> \in R
    <2> SUFFICES ASSUME NEW x \in Nat, NEW y \in Nat, y < x PROVE <<y, x>> \in R
      OBVIOUS
    <2>1. <<y, x>> \in Nat \X Nat /\ <<y, x>>[1] = y /\ <<y, x>>[2] = x
      OBVIOUS
    <2> QED BY <2>1, Zenon DEF OpToRel
  <1>2. IsWellFoundedOn(R, Nat)
    BY NatLessThanWellFounded
  <1> HIDE DEF R
  <1>3. PICK x \in S : \A y \in S : ~(<<y, x>> \in R)
    BY <1>2, WFMin
  <1>4. ASSUME NEW y \in S
        PROVE  x <= y
    <2>1. x \in Nat /\ y \in Nat /\ ~(<<y, x>> \in R)
      BY <1>3
    <2>2. ~(y < x)
      BY <1>1, <2>1, Zenon
    <2> QED BY <2>1, <2>2
  <1> QED BY <1>3, <1>4

LEMMA LeastOK == \A S \in SUBSET Names : S # {} => Least(S) \in S
  <1> SUFFICES ASSUME NEW S \in SUBSET Names, S # {} PROVE Least(S) \in S
    OBVIOUS
  <1>1. S \in SUBSET Nat
    BY PlannedTransferAssumption
  <1>2. \E x \in S : \A y \in S : x <= y
    BY <1>1, SmallestExists
  <1> QED BY <1>2 DEF Least

\* With one plan too many the oldest go, and enough newer ones have been made.
LEMMA Eviction ==
    ASSUME NEW n \in Nat, NEW kept \in SUBSET (1 .. n), Cardinality(kept) <= MaxPlans + 1
    PROVE  /\ WithoutOldest(kept) \subseteq kept
           /\ Cardinality(WithoutOldest(kept)) <= MaxPlans
           /\ \A p \in kept \ WithoutOldest(kept) : n - p >= MaxPlans + 1 - Dropped
  <1>0. MaxPlans \in Nat /\ Dropped \in 1 .. MaxPlans
    BY PlannedTransferAssumption
  <1>1. IsFiniteSet(kept) /\ Cardinality(kept) \in Nat
    <2>1. IsFiniteSet(1 .. n)
      BY FS_Interval
    <2>2. IsFiniteSet(kept)
      BY <2>1, FS_Subset
    <2> QED BY <2>2, FS_CardinalityType
  <1>2. kept \in SUBSET Nat
    <2>1. \A q \in 1 .. n : q \in Nat
      OBVIOUS
    <2> QED BY <2>1, Zenon
  <1>3. CASE Cardinality(kept) <= MaxPlans
    BY <1>3 DEF WithoutOldest
  <1>4. CASE Cardinality(kept) > MaxPlans
    <2> DEFINE Below(p) == {q \in kept : q < p}
               W == {p \in kept : Cardinality(Below(p)) >= Dropped}
    <2>1. WithoutOldest(kept) = W
      BY <1>0, <1>1, <1>4 DEF WithoutOldest
    <2>2. Cardinality(kept) = MaxPlans + 1
      BY <1>0, <1>1, <1>4
    <2>3. \A p \in kept : Below(p) \in SUBSET kept /\ IsFiniteSet(Below(p))
                           /\ Cardinality(Below(p)) \in Nat
      BY <1>1, FS_Subset, FS_CardinalityType
    <2>4. PICK x \in kept : \A y \in kept : x <= y
      <3>1. kept # {}
        BY <1>0, <2>2, FS_EmptySet
      <3> QED BY <1>2, <3>1, SmallestExists
    <2>5. Cardinality(Below(x)) = 0
      <3>1. ASSUME NEW q \in Below(x)
            PROVE  FALSE
        <4>1. q \in kept /\ q < x /\ x <= q
          BY <2>4
        <4>2. q \in Nat /\ x \in Nat
          BY <1>2, <4>1
        <4> QED BY <4>1, <4>2
      <3>2. Below(x) = {}
        BY <3>1, Zenon
      <3> QED BY <3>2, FS_EmptySet
    <2>6. x \notin W /\ W \in SUBSET (kept \ {x})
      BY <1>0, <2>5
    <2>7. Cardinality(W) <= MaxPlans
      <3> HIDE DEF W
      <3>1. IsFiniteSet(kept \ {x}) /\ Cardinality(kept \ {x}) = MaxPlans
        BY <1>0, <1>1, <2>2, FS_RemoveElement
      <3> QED BY <2>6, <3>1, FS_Subset
    <2>8. ASSUME NEW p \in kept \ W
          PROVE  n - p >= MaxPlans + 1 - Dropped
      <3> DEFINE B == Below(p)
                 C == kept \ B
      <3>1. B \in SUBSET kept /\ Cardinality(B) \in Nat /\ Cardinality(B) < Dropped
        BY <1>0, <2>3
      <3>2. C \in SUBSET (p .. n) /\ p \in 1 .. n
        <4>1. p \in kept /\ p \in 1 .. n
          OBVIOUS
        <4>2. ASSUME NEW q \in C
              PROVE  q \in p .. n
          <5>1. q \in kept /\ ~(q < p)
            OBVIOUS
          <5>2. q \in 1 .. n
            BY <5>1
          <5> QED BY <4>1, <5>1, <5>2
        <4> QED BY <4>1, <4>2
      <3> HIDE DEF B
      <3>3. IsFiniteSet(C) /\ Cardinality(C) = Cardinality(kept) - Cardinality(B)
        <4>1. kept \cap B = B
          BY <3>1
        <4> QED BY <1>1, <4>1, FS_Difference
      <3>4. IsFiniteSet(p .. n) /\ Cardinality(p .. n) = n - p + 1
        BY <3>2, FS_Interval
      <3>5. Cardinality(C) <= Cardinality(p .. n)
        BY <3>2, <3>4, FS_Subset
      <3> HIDE DEF C
      <3> QED BY <1>0, <2>2, <3>1, <3>2, <3>3, <3>4, <3>5
    <2> QED BY <2>1, <2>6, <2>7, <2>8
  <1> QED BY <1>0, <1>1, <1>3, <1>4

-----------------------------------------------------------------------------
(* The state.                                                              *)

\* Only what has not begun, or has ended early, asks for nothing; looking and
\* moving is what moves do.
AskOK(x) ==
    /\ x.stage \notin {"idle", "failed", "cancelled"} => x.req \in RequestState
    /\ x.stage \in {"look", "moving"} => x.req.tool = "move"
    /\ x.stage \in {"planned", "stamped", "saved"} => x.req.saved
    /\ x.stage = "stamped" => x.created # 0

Promised(x) == x.copy \cup x.conflicts

\* A plan promises what its source listing holds, and its items are the promise.
PromiseOK(x) ==
    /\ x.stage \notin Final => Promised(x) \subseteq Files(x.listing)
    /\ (x.stage = "source" \/ (x.stage = "queued" /\ ~x.req.saved)) => Promised(x) = {}
    /\ x.stage \in Transferring => x.items = Promised(x)
    /\ x.stage = "deletes" \/ (x.stage \in Transferring /\ x.deleting) => x.deletes # {}
    /\ (\/ x.stage \in {"ending", "closing", "deletes"}
        \/ x.stage = "done" /\ x.req.tool # "move") => Promised(x) \subseteq x.installed

\* An item under way is one of the items.
ItemOK(x) ==
    /\ x.stage \in {"copying", "installing", "stamping"} =>
        x.item \in x.items /\ (x.seen \in File \/ (x.stage = "copying" /\ x.req.to = "local"))
    /\ x.stage = "moving" => x.item = x.req.dest

TaskOK(x) == x \in TaskState /\ AskOK(x) /\ PromiseOK(x) /\ ItemOK(x)

TreesOK ==
    /\ tree \in [Sides -> Tree]
    /\ clock \in Nat /\ edits \in 0 .. MaxEdits /\ last \in [Names -> Nat]
    /\ appeared \in [Tasks -> BOOLEAN] /\ disturbed \in [Tasks -> BOOLEAN]
    /\ blurred \subseteq Names

TasksOK == task = [t \in Tasks |-> task[t]] /\ \A t \in Tasks : TaskOK(task[t])

\* Nothing but contents is in a partial.
LeftOK == left \in [Names -> SUBSET (Contents \cup {Torn})]

\* What is about to be replaced was not there, unless it may be or has come since.
LookOK(t) ==
    task[t].stage \in {"copying", "installing", "moving"} =>
        \/ task[t].overwrite \/ appeared[t]
        \/ tree[task[t].req.to][task[t].item] = Absent

\* A job that installed a file after its cancellation is on its way out.
AfterOK(t) ==
    /\ after[t] \in 0 .. 1
    /\ after[t] = 1 =>
        \/ task[t].stage \in Final
        \/ /\ task[t].stage \in {"stamping", "item", "ending", "closing"}
           /\ Cancelled(t)

SavedOK ==
    /\ plans \in Nat /\ saved \in SUBSET (1 .. plans) /\ Cardinality(saved) <= MaxPlans
    /\ \A t \in Tasks : task[t].created \in 0 .. plans
    /\ PlanDropsOldest

Inv == /\ TreesOK /\ TasksOK /\ SavedOK
       /\ after = [t \in Tasks |-> after[t]] /\ \A t \in Tasks : LookOK(t) /\ AfterOK(t)

LEMMA AbsentOK == Absent \notin File /\ Absent.mtime \in Nat /\ 0 \notin Names
  BY PlannedTransferAssumption DEF Absent, File

LEMMA IdleOK ==
    /\ Idle \in TaskState /\ Idle.stage = "idle" /\ Idle.req = NoRequest
    /\ Idle.created = 0 /\ Idle.item = 0 /\ Promised(Idle) = {} /\ Idle.listing \in Tree
  <1>1. Idle.listing \in Tree
    BY DEF Idle, Tree
  <1>2. Idle \in TaskState
    <2>1. FALSE \in BOOLEAN /\ "idle" \in Stages
      BY DEF Stages
    <2> QED BY <1>1, <2>1 DEF Idle, TaskState
  <1> QED BY <1>1, <1>2 DEF Idle, Promised

\* A task that ended early is as an idle one, but for its stage and its cancellation.
LEMMA EndedOK ==
    ASSUME NEW stage \in {"idle", "failed", "cancelled"}, NEW cancel \in BOOLEAN
    PROVE  LET x == [Idle EXCEPT !.stage = stage, !.cancel = cancel]
           IN  TaskOK(x) /\ x.stage = stage /\ x.cancel = cancel /\ x.created = 0 /\ x.item = 0
  <1> DEFINE x == [Idle EXCEPT !.stage = stage, !.cancel = cancel]
  <1>1. stage \in Stages
    BY DEF Stages, Final
  <1>2. /\ x \in TaskState /\ x.stage = stage /\ x.cancel = cancel /\ x.created = 0 /\ x.item = 0
        /\ x.copy = Idle.copy /\ x.conflicts = Idle.conflicts
    BY <1>1, IdleOK DEF TaskState
  <1> HIDE DEF x
  <1>3. Promised(x) = {}
    BY <1>2, IdleOK DEF Promised
  <1>4. TaskOK(x)
    BY <1>2, <1>3 DEF TaskOK, AskOK, PromiseOK, ItemOK, Transferring
  <1> QED BY <1>2, <1>4 DEF x

LEMMA InitSafe == Init => Inv
  <1> SUFFICES ASSUME Init PROVE Inv
    OBVIOUS
  <1>1. tree \in [Sides -> Tree]
    BY PlannedTransferAssumption DEF Init
  <1>2. \A n \in Names : tree["local"][n].mtime \in Nat /\ tree["remote"][n].mtime \in Nat
    <2>1. \A side \in Sides, n \in Names : tree[side][n] \in File \cup {Absent}
      BY <1>1 DEF Tree
    <2>2. \A f \in File \cup {Absent} : f.mtime \in Nat
      BY AbsentOK DEF File
    <2> QED BY <2>1, <2>2 DEF Sides
  <1>3. last \in [Names -> Nat]
    BY <1>2 DEF Init, Later
  <1>4. TreesOK
    <2>1. clock \in Nat /\ blurred \subseteq Names
      BY <1>3 DEF Init
    <2>2. edits \in 0 .. MaxEdits
      BY PlannedTransferAssumption DEF Init
    <2>3. appeared \in [Tasks -> BOOLEAN] /\ disturbed \in [Tasks -> BOOLEAN]
      <3>1. FALSE \in BOOLEAN
        OBVIOUS
      <3> QED BY <3>1, Zenon DEF Init
    <2> QED BY <1>1, <1>3, <2>1, <2>2, <2>3 DEF TreesOK
  <1>5. TaskOK(Idle)
    BY IdleOK DEF TaskOK, AskOK, PromiseOK, ItemOK, Transferring
  <1>6. TasksOK
    BY <1>5 DEF Init, TasksOK
  <1>7. SavedOK
    <2>1. Cardinality({}) = 0
      BY FS_EmptySet
    <2> QED BY <2>1, IdleOK, PlannedTransferAssumption DEF Init, SavedOK, PlanDropsOldest
  <1>8. \A t \in Tasks : LookOK(t) /\ AfterOK(t)
    BY IdleOK DEF Init, LookOK, AfterOK
  <1> QED BY <1>4, <1>6, <1>7, <1>8 DEF Inv, Init

-----------------------------------------------------------------------------
(* Steps of one task.                                                      *)

LEMMA TaskGoes ==
    ASSUME TasksOK, NEW t \in Tasks, NEW x, TaskOK(x), Goes(t, x)
    PROVE  TasksOK' /\ task'[t] = x /\ \A u \in Tasks \ {t} : task'[u] = task[u]
  <1>1. task' = [u \in Tasks |-> IF u = t THEN x ELSE task[u]]
    BY DEF TasksOK, Goes
  <1>2. task'[t] = x /\ \A u \in Tasks \ {t} : task'[u] = task[u]
    BY <1>1
  <1>3. task' = [u \in Tasks |-> task'[u]]
    BY <1>1, Zenon
  <1>4. \A u \in Tasks : TaskOK(task'[u])
    BY <1>2 DEF TasksOK
  <1> QED BY <1>2, <1>3, <1>4 DEF TasksOK

\* The place of an item under way has a name.
LEMMA PlaceOK ==
    ASSUME NEW x, TaskOK(x), x.stage \in {"copying", "installing", "stamping", "moving"}
    PROVE  x.item \in Names /\ x.item # 0 /\ x.req.to \in Sides /\ x.req \in RequestState
  <1>1. x.req \in RequestState
    BY DEF TaskOK, AskOK
  <1>2. x.item \in Names
    BY <1>1 DEF TaskOK, ItemOK, TaskState, RequestState
  <1> QED BY <1>1, <1>2, AbsentOK DEF RequestState

LEMMA WatchesOK ==
    ASSUME TreesOK, NEW t \in Tasks, NEW looks \in BOOLEAN, Watches(t, looks)
    PROVE  appeared' \in [Tasks -> BOOLEAN] /\ disturbed' \in [Tasks -> BOOLEAN]
  <1> DEFINE A(u) == /\ ~(u = t /\ looks) /\ task'[u].item # 0
                     /\ appeared[u] \/ (u # t /\ Emerges(u))
             D(u) == Depends(u) /\ (disturbed[u] \/ (u # t /\ tree' # tree))
  <1>1. appeared' = [u \in Tasks |-> A(u)] /\ disturbed' = [u \in Tasks |-> D(u)]
    BY DEF Watches
  <1>2. \A u \in Tasks : A(u) \in BOOLEAN /\ D(u) \in BOOLEAN
    BY Zenon
  <1> HIDE DEF A, D
  <1> QED BY <1>1, <1>2

\* What others are about to replace was not there, or comes now.
LEMMA OthersLook ==
    ASSUME Inv, NEW t \in Tasks, NEW looks \in BOOLEAN, Watches(t, looks),
           NEW u \in Tasks, u # t, task'[u] = task[u]
    PROVE  LookOK(u)'
  <1> SUFFICES ASSUME task[u].stage \in {"copying", "installing", "moving"}
               PROVE  \/ task[u].overwrite \/ appeared'[u]
                      \/ tree'[task[u].req.to][task[u].item] = Absent
    BY DEF LookOK
  <1>1. task[u].item # 0
    BY PlaceOK DEF Inv, TasksOK
  <1>2. appeared'[u] = (appeared[u] \/ Emerges(u))
    <2>1. appeared'[u] = (/\ ~(u = t /\ looks) /\ task'[u].item # 0
                          /\ appeared[u] \/ (u # t /\ Emerges(u)))
      BY DEF Watches
    <2> QED BY <1>1, <2>1, Zenon
  <1>3. \/ task[u].overwrite \/ appeared[u]
        \/ tree[task[u].req.to][task[u].item] = Absent
    BY DEF Inv, LookOK
  <1> QED BY <1>1, <1>2, <1>3 DEF Emerges, Place

Leaving == {"stamping", "item", "ending", "closing"}

LEMMA TaskStep ==
    ASSUME Inv, NEW t \in Tasks, NEW x, TaskOK(x), Goes(t, x),
           NEW looks \in BOOLEAN, Watches(t, looks),
           tree' \in [Sides -> Tree], blurred' \subseteq Names, UNCHANGED <<clock, edits, last>>,
           x.stage \in {"copying", "installing", "moving"} =>
               /\ tree' = tree
               /\ \/ x.overwrite \/ (~looks /\ appeared[t])
                  \/ tree[x.req.to][x.item] = Absent,
           NEW k \in 0 .. 1, after' = [after EXCEPT ![t] = k],
           k = 1 => \/ x.stage \in Final
                    \/ x.stage \in Leaving /\ x.req.tool = "job" /\ x.cancel,
           SavedOK'
    PROVE  Inv'
  <1>1. TasksOK' /\ task'[t] = x /\ \A u \in Tasks \ {t} : task'[u] = task[u]
    BY TaskGoes DEF Inv
  <1>2. TreesOK'
    BY WatchesOK DEF Inv, TreesOK
  <1>3. /\ after' = [u \in Tasks |-> after'[u]] /\ after'[t] = k
        /\ \A u \in Tasks \ {t} : after'[u] = after[u]
    BY DEF Inv
  <1>4. ASSUME NEW u \in Tasks, u # t
        PROVE  LookOK(u)' /\ AfterOK(u)'
    <2>1. LookOK(u)'
      BY <1>1, <1>4, OthersLook
    <2>2. AfterOK(u)'
      BY <1>1, <1>3, <1>4 DEF Inv, AfterOK, Cancelled
    <2> QED BY <2>1, <2>2
  <1>5. LookOK(t)'
    <2> SUFFICES ASSUME x.stage \in {"copying", "installing", "moving"}
                 PROVE  \/ x.overwrite \/ appeared'[t]
                        \/ tree'[x.req.to][x.item] = Absent
      BY <1>1 DEF LookOK
    <2>1. x.item # 0
      BY PlaceOK
    <2>2. ~looks /\ appeared[t] => appeared'[t]
      <3>1. appeared'[t] = (/\ ~(t = t /\ looks) /\ task'[t].item # 0
                            /\ appeared[t] \/ (t # t /\ Emerges(t)))
        BY DEF Watches
      <3> QED BY <1>1, <2>1, <3>1, Zenon
    <2> QED BY <2>2
  <1>6. AfterOK(t)'
    BY <1>1, <1>3 DEF AfterOK, Cancelled, Leaving
  <1> QED BY <1>1, <1>2, <1>3, <1>4, <1>5, <1>6 DEF Inv

\* The plans that the page keeps are not touched.
LEMMA SavedSame ==
    ASSUME Inv, NEW t \in Tasks, NEW x, TaskOK(x), Goes(t, x), UNCHANGED <<saved, plans>>,
           x.created \in {0, task[t].created},
           x.stage \in {"saved", "queued"} =>
               x.created = 0 \/ task[t].stage \in {"saved", "queued"}
    PROVE  SavedOK'
  <1>1. task'[t] = x /\ \A u \in Tasks \ {t} : task'[u] = task[u]
    BY TaskGoes DEF Inv
  <1>2. plans \in Nat /\ \A u \in Tasks : task'[u].created \in 0 .. plans
    BY <1>1 DEF Inv, SavedOK
  <1>3. PlanDropsOldest'
    <2> SUFFICES ASSUME NEW u \in Tasks, task'[u].stage \in {"saved", "queued"},
                        task'[u].created \in 1 .. plans \ saved
                 PROVE  plans - task'[u].created >= MaxPlans + 1 - Dropped
      BY DEF PlanDropsOldest
    <2>1. task[u].stage \in {"saved", "queued"} /\ task[u].created = task'[u].created
      BY <1>1, <1>2
    <2> QED BY <2>1 DEF Inv, SavedOK, PlanDropsOldest
  <1> QED BY <1>2, <1>3 DEF Inv, SavedOK

\* A step of a task that changes no file.
LEMMA QuietStep ==
    ASSUME Inv, NEW t \in Tasks, NEW x, TaskOK(x), Goes(t, x), Apart,
           UNCHANGED <<tree, last, after>>, blurred' \subseteq Names,
           NEW looks \in BOOLEAN, Watches(t, looks),
           x.created \in {0, task[t].created},
           x.stage \in {"saved", "queued"} =>
               x.created = 0 \/ task[t].stage \in {"saved", "queued"},
           x.stage \in {"copying", "installing", "moving"} =>
               \/ x.overwrite \/ (~looks /\ appeared[t])
               \/ tree[x.req.to][x.item] = Absent,
           task[t].stage \notin Final,
           task[t].stage \in Leaving =>
               \/ x.stage \in Final
               \/ /\ x.stage \in Leaving /\ x.req = task[t].req
                  /\ task[t].cancel => x.cancel
               \/ ~(task[t].req.tool = "job" /\ task[t].cancel)
    PROVE  Inv'
  <1>1. SavedOK'
    BY SavedSame DEF Apart
  <1>2. after[t] \in 0 .. 1 /\ after' = [after EXCEPT ![t] = after[t]]
    BY DEF Inv, AfterOK
  <1>3. after[t] = 1 => \/ x.stage \in Final
                        \/ x.stage \in Leaving /\ x.req.tool = "job" /\ x.cancel
    BY DEF Inv, AfterOK, Leaving, Cancelled
  <1>4. tree' \in [Sides -> Tree] /\ UNCHANGED <<clock, edits, last>>
    BY DEF Inv, TreesOK, Apart
  <1> QED BY <1>1, <1>2, <1>3, <1>4, TaskStep

\* A task ends early.
LEMMA EndsSafe ==
    ASSUME Inv, NEW t \in Tasks, NEW stage \in {"failed", "cancelled"}, Ends(t, stage), Apart,
           UNCHANGED <<tree, last, after>>, blurred' \subseteq Names,
           NEW looks \in BOOLEAN, Watches(t, looks), task[t].stage \notin Final
    PROVE  Inv'
  <1> DEFINE x == [Idle EXCEPT !.stage = stage, !.cancel = task[t].cancel]
  <1>1. Goes(t, x)
    BY DEF Ends
  <1>2. task[t].cancel \in BOOLEAN
    BY DEF Inv, TasksOK, TaskOK, TaskState
  <1>3. TaskOK(x) /\ x.stage = stage /\ x.created = 0
    BY <1>2, EndedOK
  <1>4. stage \in Final /\ stage \notin {"copying", "installing", "moving", "saved", "queued"}
    BY DEF Final
  <1> HIDE DEF x
  <1> QED BY <1>1, <1>3, <1>4, QuietStep

LEMMA TaskParts ==
    ASSUME Inv, NEW t \in Tasks
    PROVE  /\ TaskOK(task[t]) /\ task[t] \in TaskState /\ task[t].cancel \in BOOLEAN
           /\ blurred \subseteq Names /\ tree \in [Sides -> Tree]
  BY DEF Inv, TreesOK, TasksOK, TaskOK, TaskState

LEMMA AskedOK == \A t \in Tasks : \A r \in Requests[t] : r \in RequestState /\ r \in AskedFor
  BY PlannedTransferAssumption DEF AskedFor

LEMMA BeginSafe ==
    ASSUME Inv, NEW t \in Tasks, NEW r \in Requests[t],
           NEW stage \in {"source", "queued", "look"}, Begin(t, r, stage),
           stage = "look" => r.tool = "move", stage = "queued" => ~r.saved
    PROVE  Inv'
  <1> DEFINE x == [Idle EXCEPT !.req = r, !.overwrite = r.overwrite, !.stage = stage]
  <1>1. r \in RequestState /\ r \in AskedFor
    BY AskedOK
  <1>2. r.overwrite \in BOOLEAN /\ stage \in Stages
    BY <1>1 DEF RequestState, Stages, Planning
  <1>3. /\ x \in TaskState /\ x.stage = stage /\ x.req = r /\ x.created = 0
        /\ x.copy = Idle.copy /\ x.conflicts = Idle.conflicts
    BY <1>1, <1>2, IdleOK DEF TaskState
  <1>4. Goes(t, x) /\ Quiet(t) /\ task[t].stage = "idle"
    BY DEF Begin, At
  <1> HIDE DEF x
  <1>5. Promised(x) = {}
    BY <1>3, IdleOK DEF Promised
  <1>6. TaskOK(x)
    BY <1>1, <1>3, <1>5 DEF TaskOK, AskOK, PromiseOK, ItemOK, Transferring, Final
  <1> QED BY <1>3, <1>4, <1>6, TaskParts, QuietStep DEF Quiet, Still, Final, Leaving

LEMMA BeginCommandSafe ==
    ASSUME Inv, NEW t \in Tasks, NEW r \in Requests[t], BeginCommand(t, r)
    PROVE  Inv'
  BY BeginSafe DEF BeginCommand

LEMMA BeginOnPageSafe ==
    ASSUME Inv, NEW t \in Tasks, NEW r \in Requests[t], BeginOnPage(t, r)
    PROVE  Inv'
  BY BeginSafe DEF BeginOnPage

LEMMA ListingOK ==
    ASSUME Inv, NEW t \in Tasks, NEW side \in Sides
    PROVE  Listing(t, side) \in Tree
  <1>1. tree[side] \in Tree
    BY TaskParts
  <1>2. SyncListing(task[t].req.to, side) \in Tree
    BY <1>1 DEF SyncListing, Tree
  <1> QED BY <1>1, <1>2 DEF Listing

LEMMA OtherSide == \A side \in Sides : Other(side) \in Sides
  BY DEF Sides, Other

LEMMA ListSourceSafe ==
    ASSUME Inv, NEW t \in Tasks, ListSource(t)
    PROVE  Inv'
  <1> DEFINE old == task[t]
             l == Listing(t, Other(old.req.to))
             x == [old EXCEPT !.listing = l, !.stage = "target"]
  <1>1. old \in TaskState /\ AskOK(old) /\ PromiseOK(old) /\ old.stage = "source"
    BY TaskParts DEF ListSource, At, TaskOK
  <1>2. old.req \in RequestState /\ l \in Tree /\ "target" \in Stages
    <2>1. old.req \in RequestState
      BY <1>1 DEF AskOK
    <2>2. Other(old.req.to) \in Sides
      BY <2>1, OtherSide DEF RequestState
    <2> QED BY <2>1, <2>2, ListingOK DEF Stages, Planning
  <1>3. Goes(t, x) /\ Apart /\ UNCHANGED <<tree, last, after>> /\ Watches(t, FALSE)
        /\ blurred' \subseteq Names
    BY TaskParts DEF ListSource
  <1> HIDE DEF l
  <1>4. /\ x \in TaskState /\ x.stage = "target" /\ x.req = old.req /\ x.created = old.created
        /\ x.copy = old.copy /\ x.conflicts = old.conflicts
    BY <1>1, <1>2 DEF TaskState
  <1>5. Promised(x) = {}
    BY <1>1, <1>4 DEF PromiseOK, Promised
  <1> HIDE DEF x
  <1>6. TaskOK(x)
    BY <1>2, <1>4, <1>5 DEF TaskOK, AskOK, PromiseOK, ItemOK, Transferring, Final
  <1> QED BY <1>1, <1>3, <1>4, <1>6, QuietStep DEF Final, Leaving

LEMMA PlannedOK == \A t \in Tasks : Planned(t) \in {"planned", "confirm"}
                       /\ (Planned(t) = "planned" => task[t].req.saved)
  BY DEF Planned

LEMMA ListTargetSafe ==
    ASSUME Inv, NEW t \in Tasks, ListTarget(t)
    PROVE  Inv'
  <1> DEFINE old == task[t]
             target == Listing(t, old.req.to)
             c == Files(old.listing) \ Files(target)
             f == Conflicts(t, target)
             d == DeleteCandidates(t, target)
             s == IF old.req.hash THEN "hashes" ELSE Planned(t)
             x == [old EXCEPT !.copy = c, !.conflicts = f, !.deletes = d, !.stage = s]
  <1>1. old \in TaskState /\ AskOK(old) /\ PromiseOK(old) /\ old.stage = "target"
    BY TaskParts DEF ListTarget, At, TaskOK
  <1>2. old.req \in RequestState
    BY <1>1 DEF AskOK
  <1>3. Goes(t, x) /\ Quiet(t)
    BY DEF ListTarget
  <1>4. s \in Stages /\ s \in {"hashes", "planned", "confirm"} /\ (s = "planned" => old.req.saved)
    BY PlannedOK DEF Stages, Planning
  <1>5. /\ c \subseteq Files(old.listing) /\ f \subseteq Files(old.listing)
        /\ c \in SUBSET Names /\ f \in SUBSET Names /\ d \in SUBSET Names
    BY DEF Conflicts, DeleteCandidates, Files
  <1> HIDE DEF c, f, d, s
  <1>6. /\ x \in TaskState /\ x.stage = s /\ x.req = old.req /\ x.created = old.created
        /\ x.copy = c /\ x.conflicts = f /\ x.listing = old.listing
    BY <1>1, <1>4, <1>5 DEF TaskState
  <1> HIDE DEF x
  <1>7. Promised(x) \subseteq Files(x.listing)
    BY <1>5, <1>6 DEF Promised
  <1>8. TaskOK(x)
    BY <1>2, <1>4, <1>6, <1>7 DEF TaskOK, AskOK, PromiseOK, ItemOK, Transferring, Final
  <1> QED BY <1>1, <1>3, <1>4, <1>6, <1>8, TaskParts, QuietStep DEF Quiet, Still, Final, Leaving

LEMMA CompareHashesSafe ==
    ASSUME Inv, NEW t \in Tasks, CompareHashes(t)
    PROVE  Inv'
  <1> DEFINE old == task[t]
             f == {n \in old.conflicts :
                     ~ (/\ Holds("local", n) /\ Holds("remote", n)
                        /\ tree["local"][n].content = tree["remote"][n].content)}
             s == Planned(t)
             x == [old EXCEPT !.conflicts = f, !.stage = s]
  <1>1. old \in TaskState /\ AskOK(old) /\ PromiseOK(old) /\ old.stage = "hashes"
    BY TaskParts DEF CompareHashes, At, TaskOK
  <1>2. old.req \in RequestState
    BY <1>1 DEF AskOK
  <1>3. Goes(t, x) /\ Quiet(t)
    BY DEF CompareHashes
  <1>4. s \in Stages /\ s \in {"planned", "confirm"} /\ (s = "planned" => old.req.saved)
    BY PlannedOK DEF Stages
  <1>5. f \subseteq old.conflicts
    OBVIOUS
  <1> HIDE DEF f, s
  <1>6. /\ x \in TaskState /\ x.stage = s /\ x.req = old.req /\ x.created = old.created
        /\ x.copy = old.copy /\ x.conflicts = f /\ x.listing = old.listing
    BY <1>1, <1>4, <1>5 DEF TaskState
  <1> HIDE DEF x
  <1>7. Promised(x) \subseteq Files(x.listing)
    BY <1>1, <1>5, <1>6 DEF Promised, PromiseOK, Final
  <1>8. TaskOK(x)
    BY <1>2, <1>4, <1>6, <1>7 DEF TaskOK, AskOK, PromiseOK, ItemOK, Transferring, Final
  <1> QED BY <1>1, <1>3, <1>4, <1>6, <1>8, TaskParts, QuietStep DEF Quiet, Still, Final, Leaving

LEMMA StageOnly ==
    ASSUME NEW y \in TaskState, NEW s \in Stages
    PROVE  LET x == [y EXCEPT !.stage = s]
           IN  /\ x \in TaskState /\ x.stage = s /\ x.req = y.req /\ x.created = y.created
               /\ x.copy = y.copy /\ x.conflicts = y.conflicts /\ x.listing = y.listing
               /\ x.items = y.items /\ x.deletes = y.deletes /\ x.installed = y.installed
               /\ x.deleting = y.deleting /\ x.item = y.item /\ x.seen = y.seen
               /\ x.overwrite = y.overwrite /\ x.cancel = y.cancel
  BY DEF TaskState

\* A step that has no more to do with files.
LEMMA PlanStep ==
    ASSUME Inv, NEW t \in Tasks, NEW x, TaskOK(x), Goes(t, x), Watches(t, FALSE),
           tree' = tree, blurred' = blurred, UNCHANGED <<clock, edits, last>>,
           x.stage \notin {"copying", "installing", "moving"},
           after' = [after EXCEPT ![t] = 0], SavedOK'
    PROVE  Inv'
  <1>1. 0 \in 0 .. 1 /\ ~(0 = 1)
    OBVIOUS
  <1>2. FALSE \in BOOLEAN
    OBVIOUS
  <1>3. tree' \in [Sides -> Tree] /\ blurred' \subseteq Names
    BY TaskParts
  <1> QED BY <1>1, <1>2, <1>3, TaskStep, Zenon

\* The plan of a page: its name is taken, later it is saved.
LEMMA StampPlanSafe ==
    ASSUME Inv, NEW t \in Tasks, StampPlan(t)
    PROVE  Inv'
  <1> DEFINE old == task[t]
             x == [old EXCEPT !.created = plans + 1, !.stage = "stamped"]
  <1>1. old \in TaskState /\ AskOK(old) /\ PromiseOK(old) /\ old.stage = "planned"
    BY TaskParts DEF StampPlan, At, TaskOK
  <1>2. plans \in Nat /\ plans' = plans + 1 /\ saved' = saved /\ "stamped" \in Stages
    BY DEF StampPlan, Inv, SavedOK, Stages
  <1>3. Goes(t, x)
    BY DEF StampPlan
  <1>4. /\ x \in TaskState /\ x.stage = "stamped" /\ x.req = old.req /\ x.created = plans + 1
        /\ x.copy = old.copy /\ x.conflicts = old.conflicts /\ x.listing = old.listing
    <2>1. plans + 1 \in Nat
      BY <1>2
    <2> QED BY <1>1, <1>2, <2>1 DEF TaskState
  <1> HIDE DEF x
  <1>5. Promised(x) \subseteq Files(x.listing)
    BY <1>1, <1>4 DEF Promised, PromiseOK, Final
  <1>6. TaskOK(x)
    BY <1>1, <1>2, <1>4, <1>5 DEF TaskOK, AskOK, PromiseOK, ItemOK, Transferring, Final
  <1>7. task'[t] = x /\ \A u \in Tasks \ {t} : task'[u] = task[u]
    BY <1>3, <1>6, TaskGoes DEF Inv
  <1>8. SavedOK'
    <2>1. saved' \in SUBSET (1 .. plans') /\ Cardinality(saved') <= MaxPlans
      BY <1>2 DEF Inv, SavedOK
    <2>2. \A u \in Tasks : task'[u].created \in 0 .. plans'
      BY <1>2, <1>4, <1>7 DEF Inv, SavedOK
    <2>3. PlanDropsOldest'
      <3> SUFFICES ASSUME NEW u \in Tasks, task'[u].stage \in {"saved", "queued"},
                          task'[u].created \in 1 .. plans' \ saved'
                   PROVE  plans' - task'[u].created >= MaxPlans + 1 - Dropped
        BY DEF PlanDropsOldest
      <3>1. task'[u] = task[u] /\ task[u].created \in 0 .. plans
        BY <1>4, <1>7 DEF Inv, SavedOK
      <3>2. plans - task[u].created >= MaxPlans + 1 - Dropped
        BY <1>2, <3>1 DEF Inv, SavedOK, PlanDropsOldest
      <3> QED BY <1>2, <3>1, <3>2, PlannedTransferAssumption
    <2> QED BY <1>2, <2>1, <2>2, <2>3 DEF SavedOK
  <1>9. after[t] = 0 /\ after' = [after EXCEPT ![t] = 0]
    <2>1. after[t] = 0
      BY <1>1 DEF Inv, AfterOK, Final
    <2> QED BY <2>1 DEF Inv, StampPlan, Still
  <1>11. /\ Watches(t, FALSE) /\ UNCHANGED <<clock, edits, last, tree, blurred>>
         /\ tree \in [Sides -> Tree] /\ blurred \subseteq Names
    BY TaskParts DEF StampPlan, Still
  <1>12. x.stage \notin {"copying", "installing", "moving"}
    BY <1>4
  <1> QED BY <1>3, <1>6, <1>8, <1>9, <1>11, <1>12, PlanStep

\* Saving a plan drops the oldest ones.
LEMMA KeepSafe ==
    ASSUME Inv, NEW n \in Nat, n >= plans, NEW p \in 1 .. n,
           saved' = WithoutOldest(saved \cup {p})
    PROVE  /\ saved' \in SUBSET (1 .. n) /\ Cardinality(saved') <= MaxPlans
           /\ \A q \in (saved \cup {p}) \ saved' : n - q >= MaxPlans + 1 - Dropped
  <1> DEFINE kept == saved \cup {p}
  <1>1. plans \in Nat /\ saved \in SUBSET (1 .. plans) /\ Cardinality(saved) <= MaxPlans
    BY DEF Inv, SavedOK
  <1>2. kept \in SUBSET (1 .. n)
    BY <1>1
  <1>3. Cardinality(kept) <= MaxPlans + 1
    <2>1. IsFiniteSet(1 .. plans)
      BY <1>1, FS_Interval
    <2>2. IsFiniteSet(saved) /\ Cardinality(saved) \in Nat
      BY <1>1, <2>1, FS_Subset, FS_CardinalityType
    <2>3. \/ Cardinality(kept) = Cardinality(saved)
          \/ Cardinality(kept) = Cardinality(saved) + 1
      BY <2>2, FS_AddElement
    <2> QED BY <1>1, <2>2, <2>3, PlannedTransferAssumption
  <1> HIDE DEF kept
  <1>4. /\ WithoutOldest(kept) \subseteq kept
        /\ Cardinality(WithoutOldest(kept)) <= MaxPlans
        /\ \A q \in kept \ WithoutOldest(kept) : n - q >= MaxPlans + 1 - Dropped
    BY <1>2, <1>3, Eviction
  <1> QED BY <1>2, <1>4 DEF kept

LEMMA SavePlanSafe ==
    ASSUME Inv, NEW t \in Tasks, SavePlan(t)
    PROVE  Inv'
  <1> DEFINE old == task[t]
             x == [old EXCEPT !.stage = "saved"]
  <1>1. old \in TaskState /\ AskOK(old) /\ PromiseOK(old) /\ old.stage = "stamped"
    BY TaskParts DEF SavePlan, At, TaskOK
  <1>2. /\ plans \in Nat /\ plans' = plans /\ saved' = WithoutOldest(saved \cup {old.created})
        /\ "saved" \in Stages
    BY DEF SavePlan, Inv, SavedOK, Stages
  <1>3. Goes(t, x)
    BY DEF SavePlan, To
  <1>4. /\ x \in TaskState /\ x.stage = "saved" /\ x.req = old.req /\ x.created = old.created
        /\ x.copy = old.copy /\ x.conflicts = old.conflicts /\ x.listing = old.listing
    BY <1>1, <1>2, StageOnly
  <1> HIDE DEF x
  <1>5. Promised(x) \subseteq Files(x.listing)
    BY <1>1, <1>4 DEF Promised, PromiseOK, Final
  <1>6. TaskOK(x)
    BY <1>1, <1>4, <1>5 DEF TaskOK, AskOK, PromiseOK, ItemOK, Transferring, Final
  <1>7. task'[t] = x /\ \A u \in Tasks \ {t} : task'[u] = task[u]
    BY <1>3, <1>6, TaskGoes DEF Inv
  <1>8. \A u \in Tasks : task'[u].created = task[u].created
    BY <1>4, <1>7
  <1>9. SavedOK'
    <2>0. old.created \in 1 .. plans
      BY <1>1 DEF AskOK, Inv, SavedOK
    <2>1. /\ saved' \in SUBSET (1 .. plans) /\ Cardinality(saved') <= MaxPlans
          /\ \A q \in (saved \cup {old.created}) \ saved' : plans - q >= MaxPlans + 1 - Dropped
      <3>1. plans >= plans
        BY <1>2
      <3> QED BY <1>2, <2>0, <3>1, KeepSafe, Zenon
    <2>2. PlanDropsOldest'
      <3> SUFFICES ASSUME NEW u \in Tasks, task'[u].stage \in {"saved", "queued"},
                          task'[u].created \in 1 .. plans \ saved'
                   PROVE  plans - task'[u].created >= MaxPlans + 1 - Dropped
        BY <1>2 DEF PlanDropsOldest
      <3>1. CASE task'[u].created \in saved \cup {old.created}
        BY <2>1, <3>1
      <3>2. CASE task'[u].created \notin saved \cup {old.created}
        <4>1. u # t /\ task'[u] = task[u]
          BY <1>4, <1>7, <3>2
        <4> QED BY <3>2, <4>1 DEF Inv, SavedOK, PlanDropsOldest
      <3> QED BY <3>1, <3>2
    <2>3. \A u \in Tasks : task'[u].created \in 0 .. plans'
      BY <1>2, <1>8 DEF Inv, SavedOK
    <2> QED BY <1>2, <2>1, <2>2, <2>3 DEF SavedOK
  <1>10. after[t] = 0 /\ after' = [after EXCEPT ![t] = 0]
    <2>1. after[t] = 0
      BY <1>1 DEF Inv, AfterOK, Final
    <2> QED BY <2>1 DEF Inv, SavePlan, Still
  <1>11. /\ Watches(t, FALSE) /\ UNCHANGED <<clock, edits, last, tree, blurred>>
         /\ tree \in [Sides -> Tree] /\ blurred \subseteq Names
    BY TaskParts DEF SavePlan, Still
  <1>12. x.stage \notin {"copying", "installing", "moving"}
    BY <1>4
  <1> QED BY <1>3, <1>6, <1>9, <1>10, <1>11, <1>12, PlanStep

LEMMA OtherPlanSafe == Inv /\ OtherPlan => Inv'
  <1> SUFFICES ASSUME Inv, OtherPlan PROVE Inv'
    OBVIOUS
  <1>1. /\ plans \in Nat /\ plans' = plans + 1 /\ saved' = WithoutOldest(saved \cup {plans + 1})
        /\ UNCHANGED <<tree, task, clock, edits, appeared, disturbed, blurred, last, after>>
    BY DEF OtherPlan, Inv, SavedOK
  <1>2. /\ saved' \in SUBSET (1 .. plans') /\ Cardinality(saved') <= MaxPlans
        /\ \A q \in (saved \cup {plans + 1}) \ saved' : plans' - q >= MaxPlans + 1 - Dropped
    <2>1. plans' \in Nat /\ plans' >= plans /\ plans' \in 1 .. plans'
      BY <1>1
    <2>2. saved' = WithoutOldest(saved \cup {plans'})
      BY <1>1
    <2>3. /\ saved' \in SUBSET (1 .. plans') /\ Cardinality(saved') <= MaxPlans
          /\ \A q \in (saved \cup {plans'}) \ saved' : plans' - q >= MaxPlans + 1 - Dropped
      BY <2>1, <2>2, KeepSafe, Zenon
    <2> QED BY <1>1, <2>3
  <1>3. PlanDropsOldest'
    <2> SUFFICES ASSUME NEW u \in Tasks, task[u].stage \in {"saved", "queued"},
                        task[u].created \in 1 .. plans' \ saved'
                 PROVE  plans' - task[u].created >= MaxPlans + 1 - Dropped
      BY <1>1 DEF PlanDropsOldest
    <2>1. task[u].created \in 0 .. plans
      BY DEF Inv, SavedOK
    <2>2. CASE task[u].created \in saved
      BY <1>2, <2>2
    <2>3. CASE task[u].created \notin saved
      <3>1. plans - task[u].created >= MaxPlans + 1 - Dropped
        BY <1>1, <2>1, <2>3 DEF Inv, SavedOK, PlanDropsOldest
      <3> QED BY <1>1, <2>1, <3>1, PlannedTransferAssumption
    <2> QED BY <2>2, <2>3
  <1>4. SavedOK'
    <2>1. \A u \in Tasks : task'[u].created \in 0 .. plans'
      BY <1>1 DEF Inv, SavedOK
    <2>2. plans' \in Nat
      BY <1>1
    <2> QED BY <1>2, <1>3, <2>1, <2>2, Zenon DEF SavedOK
  <1>5. TreesOK' /\ TasksOK'
    BY <1>1 DEF Inv, TreesOK, TasksOK, TaskOK, AskOK, PromiseOK, ItemOK
  <1>6. \A t \in Tasks : LookOK(t)' /\ AfterOK(t)'
    BY <1>1 DEF Inv, LookOK, AfterOK, Cancelled
  <1> QED BY <1>1, <1>4, <1>5, <1>6 DEF Inv

LEMMA StartJobSafe ==
    ASSUME Inv, NEW t \in Tasks, StartJob(t)
    PROVE  Inv'
  <1> DEFINE old == task[t]
             x == [old EXCEPT !.stage = "queued"]
  <1>1. old \in TaskState /\ AskOK(old) /\ PromiseOK(old) /\ old.stage = "saved"
    BY TaskParts DEF StartJob, At, TaskOK
  <1>2. Goes(t, x) /\ Quiet(t) /\ "queued" \in Stages
    BY DEF StartJob, To, Stages
  <1>3. /\ x \in TaskState /\ x.stage = "queued" /\ x.req = old.req /\ x.created = old.created
        /\ x.copy = old.copy /\ x.conflicts = old.conflicts /\ x.listing = old.listing
    BY <1>1, <1>2, StageOnly
  <1> HIDE DEF x
  <1>4. Promised(x) \subseteq Files(x.listing)
    BY <1>1, <1>3 DEF Promised, PromiseOK, Final
  <1>5. TaskOK(x)
    BY <1>1, <1>3, <1>4 DEF TaskOK, AskOK, PromiseOK, ItemOK, Transferring, Final
  <1> QED BY <1>1, <1>2, <1>3, <1>5, TaskParts, QuietStep DEF Quiet, Still, Final, Leaving

\* Every end of a task that changes no file.
LEMMA FailsQuietly ==
    ASSUME Inv, NEW t \in Tasks, NEW stage \in {"failed", "cancelled"}, Ends(t, stage),
           Apart, Still, NEW looks \in BOOLEAN, Watches(t, looks), task[t].stage \notin Final
    PROVE  Inv'
  <1>1. UNCHANGED <<tree, last, after>> /\ blurred' \subseteq Names
    BY TaskParts DEF Still
  <1> QED BY <1>1, EndsSafe

LEMMA RunJobSafe ==
    ASSUME Inv, NEW t \in Tasks, RunJob(t)
    PROVE  Inv'
  <1> DEFINE old == task[t]
  <1>1. old \in TaskState /\ AskOK(old) /\ PromiseOK(old) /\ old.stage = "queued"
    BY TaskParts DEF RunJob, At, TaskOK
  <1>2. Quiet(t) /\ Apart /\ Still /\ Watches(t, FALSE) /\ FALSE \in BOOLEAN
    BY DEF RunJob, Quiet
  <1>3. old.stage \notin Final
    BY <1>1 DEF Final
  <1>4. CASE Ends(t, "cancelled") \/ Ends(t, "failed")
    BY <1>2, <1>3, <1>4, FailsQuietly
  <1>5. ASSUME NEW s \in {"source", "confirm"}, Goes(t, [old EXCEPT !.stage = s]),
               s = "source" => ~old.req.saved
        PROVE  Inv'
    <2> DEFINE x == [old EXCEPT !.stage = s]
    <2>1. s \in Stages
      BY DEF Stages, Planning
    <2>2. /\ x \in TaskState /\ x.stage = s /\ x.req = old.req /\ x.created = old.created
          /\ x.copy = old.copy /\ x.conflicts = old.conflicts /\ x.listing = old.listing
      BY <1>1, <2>1, StageOnly
    <2>3. Goes(t, x)
      BY <1>5
    <2> HIDE DEF x
    <2>4. Promised(x) \subseteq Files(x.listing) /\ Promised(x) = Promised(old)
      BY <1>1, <2>2 DEF Promised, PromiseOK, Final
    <2>5. s = "source" => Promised(x) = {}
      BY <1>1, <1>5, <2>4 DEF PromiseOK
    <2>6. TaskOK(x)
      BY <1>1, <2>2, <2>4, <2>5 DEF TaskOK, AskOK, PromiseOK, ItemOK, Transferring, Final
    <2> QED BY <1>1, <1>2, <1>3, <2>2, <2>3, <2>6, TaskParts, QuietStep DEF Still, Leaving
  <1>6. \/ Ends(t, "cancelled") \/ Ends(t, "failed")
        \/ ~old.req.saved /\ Goes(t, [old EXCEPT !.stage = "source"])
        \/ Goes(t, [old EXCEPT !.stage = "confirm"])
    BY DEF RunJob, To
  <1> QED BY <1>4, <1>5, <1>6

LEMMA CancelJobSafe ==
    ASSUME Inv, NEW t \in Tasks, CancelJob(t)
    PROVE  Inv'
  <1> DEFINE old == task[t]
             x == [old EXCEPT !.cancel = TRUE]
  <1>1. /\ old \in TaskState /\ AskOK(old) /\ PromiseOK(old) /\ ItemOK(old)
        /\ old.stage \notin Final \cup {"idle", "moving"}
    BY TaskParts DEF CancelJob, Started, TaskOK, Transferring, Planning, Final
  <1>2. Goes(t, x) /\ Quiet(t) /\ TRUE \in BOOLEAN
    BY DEF CancelJob
  <1>3. /\ x \in TaskState /\ x.stage = old.stage /\ x.req = old.req /\ x.created = old.created
        /\ x.copy = old.copy /\ x.conflicts = old.conflicts /\ x.listing = old.listing
        /\ x.items = old.items /\ x.deletes = old.deletes /\ x.installed = old.installed
        /\ x.deleting = old.deleting /\ x.item = old.item /\ x.seen = old.seen
        /\ x.overwrite = old.overwrite /\ x.cancel
    BY <1>1, <1>2 DEF TaskState
  <1> HIDE DEF x
  <1>4. Promised(x) = Promised(old)
    BY <1>3 DEF Promised
  <1>5. TaskOK(x)
    <2>1. AskOK(x) /\ ItemOK(x)
      BY <1>1, <1>3 DEF AskOK, ItemOK
    <2>2. PromiseOK(x)
      BY <1>1, <1>3, <1>4 DEF PromiseOK
    <2> QED BY <1>3, <2>1, <2>2 DEF TaskOK
  <1>6. old.stage \in {"copying", "installing", "moving"} =>
            \/ old.overwrite \/ appeared[t] \/ tree[old.req.to][old.item] = Absent
    BY DEF Inv, LookOK
  <1> QED BY <1>1, <1>2, <1>3, <1>5, <1>6, TaskParts, QuietStep DEF Quiet, Still

LEMMA ConfirmSafe ==
    ASSUME Inv, NEW t \in Tasks, Confirm(t)
    PROVE  Inv'
  <1> DEFINE old == task[t]
             i == old.copy \cup old.conflicts
             o == old.req.overwrite \/ old.conflicts # {}
  <1>1. old \in TaskState /\ AskOK(old) /\ PromiseOK(old) /\ old.stage = "confirm"
    BY TaskParts DEF Confirm, At, TaskOK
  <1>2. Apart /\ Still /\ Watches(t, FALSE) /\ FALSE \in BOOLEAN
    BY DEF Confirm, Quiet
  <1>3. old.stage \notin Final /\ old.req \in RequestState
    BY <1>1 DEF Final, AskOK
  <1>4. CASE Ends(t, "failed")
    BY <1>2, <1>3, <1>4, FailsQuietly
  <1>5. ASSUME NEW answer,
               Goes(t, [old EXCEPT !.items = i, !.overwrite = o,
                                   !.deleting = AsksToDelete(t) /\ answer \in {"unattended", "yes"},
                                   !.stage = "item"])
        PROVE  Inv'
    <2> DEFINE d == AsksToDelete(t) /\ answer \in {"unattended", "yes"}
               x == [old EXCEPT !.items = i, !.overwrite = o, !.deleting = d, !.stage = "item"]
    <2>1. o \in BOOLEAN /\ d \in BOOLEAN
      BY Zenon
    <2>2. i \in SUBSET Names /\ "item" \in Stages
      BY <1>1 DEF TaskState, Stages, Transferring
    <2>3. Goes(t, x)
      BY <1>5
    <2>4. d => old.deletes # {}
      BY DEF AsksToDelete
    <2> HIDE DEF o, d, i
    <2>5. /\ x \in TaskState /\ x.stage = "item" /\ x.req = old.req /\ x.created = old.created
          /\ x.copy = old.copy /\ x.conflicts = old.conflicts /\ x.listing = old.listing
          /\ x.items = i /\ x.deletes = old.deletes /\ x.deleting = d
      BY <1>1, <2>1, <2>2 DEF TaskState
    <2> HIDE DEF x
    <2>6. Promised(x) \subseteq Files(x.listing) /\ x.items = Promised(x)
      BY <1>1, <2>5 DEF Promised, PromiseOK, Final, i
    <2>7. TaskOK(x)
      BY <1>1, <1>3, <2>4, <2>5, <2>6 DEF TaskOK, AskOK, PromiseOK, ItemOK, Final
    <2> QED BY <1>1, <1>2, <1>3, <2>3, <2>5, <2>7, TaskParts, QuietStep DEF Still, Leaving
  <1>6. \/ Ends(t, "failed")
        \/ \E answer :
             Goes(t, [old EXCEPT !.items = i, !.overwrite = o,
                                 !.deleting = AsksToDelete(t) /\ answer \in {"unattended", "yes"},
                                 !.stage = "item"])
    <2>1. PICK overwrite \in {"unattended", "yes", "no", "eof"},
               delete \in {"unattended", "yes", "no", "eof"} :
            IF ~MayReplace(t, overwrite) \/ (AsksToDelete(t) /\ delete = "no")
            THEN Ends(t, "failed")
            ELSE Goes(t, [old EXCEPT !.items = i, !.overwrite = o,
                              !.deleting = AsksToDelete(t) /\ delete \in {"unattended", "yes"},
                              !.stage = "item"])
      BY Zenon DEF Confirm
    <2> QED BY <2>1, Zenon
  <1> QED BY <1>4, <1>5, <1>6, Zenon

LEMMA FailSafe ==
    ASSUME Inv, NEW t \in Tasks, Fails(t)
    PROVE  Inv'
  <1>1. /\ Ends(t, "failed") /\ Apart /\ UNCHANGED <<tree, last, after>> /\ Watches(t, FALSE)
        /\ task[t].stage \notin Final
    BY DEF Fails, GivesUp, Final, Planning, Transferring
  <1>2. blurred' \subseteq Names
    <2>1. CASE task[t].stage = "stamping"
      <3>1. task[t].item \in Names
        BY <2>1, TaskParts, PlaceOK
      <3> QED BY <2>1, <3>1, TaskParts DEF Fails, Blurs, At
    <2>2. CASE task[t].stage # "stamping"
      BY <2>2, TaskParts DEF Fails, At
    <2> QED BY <2>1, <2>2
  <1>3. FALSE \in BOOLEAN /\ "failed" \in {"failed", "cancelled"}
    OBVIOUS
  <1> QED BY <1>1, <1>2, <1>3, EndsSafe

LEMMA StopCopyingSafe ==
    ASSUME Inv, NEW t \in Tasks, StopCopying(t)
    PROVE  Inv'
  <1>1. FALSE \in BOOLEAN /\ task[t].stage \notin Final
    BY DEF StopCopying, At, Final
  <1> QED BY <1>1, FailsQuietly DEF StopCopying, Quiet

\* The next item is one that is not installed yet.
LEMMA NextItemOK ==
    ASSUME Inv, NEW t \in Tasks, task[t].items \ task[t].installed # {}
    PROVE  NextItem(t) \in task[t].items /\ NextItem(t) \in Names
  <1> DEFINE missing == (task[t].items \cap task[t].copy) \ task[t].installed
             rest == task[t].items \ task[t].installed
  <1>1. task[t].items \in SUBSET Names
    BY TaskParts DEF TaskState
  <1>2. missing \in SUBSET Names /\ rest \in SUBSET Names /\ rest # {}
    BY <1>1
  <1>3. missing # {} => Least(missing) \in missing
    BY <1>2, LeastOK, Zenon
  <1>4. Least(rest) \in rest
    BY <1>2, LeastOK, Zenon
  <1>5. NextItem(t) = IF missing # {} THEN Least(missing) ELSE Least(rest)
    BY DEF NextItem
  <1>6. NextItem(t) \in task[t].items
    <2> HIDE DEF NextItem
    <2> QED BY <1>3, <1>4, <1>5
  <1> QED BY <1>1, <1>6

LEMMA StartItemSafe ==
    ASSUME Inv, NEW t \in Tasks, StartItem(t)
    PROVE  Inv'
  <1> DEFINE old == task[t]
             n == NextItem(t)
             source == tree[Other(old.req.to)][n]
             seen == IF Pulls(t) THEN Absent ELSE source
             x == [old EXCEPT !.item = n, !.stage = "copying", !.seen = seen]
  <1>1. old \in TaskState /\ AskOK(old) /\ PromiseOK(old) /\ old.stage = "item"
    BY TaskParts DEF StartItem, At, TaskOK
  <1>2. Apart /\ UNCHANGED <<tree, last, after>> /\ Watches(t, TRUE) /\ TRUE \in BOOLEAN
    BY DEF StartItem
  <1>3. old.stage \notin Final /\ old.req \in RequestState /\ old.req.to \in Sides
    BY <1>1 DEF Final, AskOK, RequestState
  <1>4. CASE (Ends(t, "failed") \/ Ends(t, "cancelled")) /\ UNCHANGED <<left, blurred>>
    BY <1>2, <1>3, <1>4, FailsQuietly DEF Still
  <1>5. ASSUME ~Stops(t), Pulls(t) \/ source # Absent, ~Blocked(t, n), Goes(t, x),
               Blurs(n) \/ UNCHANGED blurred
        PROVE  Inv'
    <2>1. n \in old.items /\ n \in Names /\ "copying" \in Stages
      BY NextItemOK DEF StartItem, Stages, Transferring
    <2>2. seen \in File \cup {Absent} /\ (seen \in File \/ old.req.to = "local")
      <3>1. Other(old.req.to) \in Sides
        BY <1>3, OtherSide
      <3>2. source \in File \cup {Absent}
        BY <2>1, <3>1, TaskParts DEF Tree
      <3> QED BY <1>5, <3>2 DEF Pulls
    <2>8. blurred' \subseteq Names
      BY <1>5, <2>1, TaskParts DEF Blurs
    <2> HIDE DEF n, seen
    <2>3. /\ x \in TaskState /\ x.stage = "copying" /\ x.req = old.req /\ x.created = old.created
          /\ x.copy = old.copy /\ x.conflicts = old.conflicts /\ x.listing = old.listing
          /\ x.items = old.items /\ x.deletes = old.deletes /\ x.installed = old.installed
          /\ x.deleting = old.deleting /\ x.item = n /\ x.seen = seen
          /\ x.overwrite = old.overwrite
      BY <1>1, <2>1, <2>2 DEF TaskState
    <2> HIDE DEF x
    <2>4. Promised(x) = Promised(old)
      BY <2>3 DEF Promised
    <2>5. TaskOK(x)
      <3>1. AskOK(x) /\ ItemOK(x)
        BY <1>1, <1>3, <2>1, <2>2, <2>3 DEF AskOK, ItemOK
      <3>2. PromiseOK(x)
        BY <1>1, <2>3, <2>4 DEF PromiseOK, Final, Transferring
      <3> QED BY <2>3, <3>1, <3>2 DEF TaskOK
    <2>6. x.overwrite \/ tree[x.req.to][x.item] = Absent
      BY <1>5, <2>3 DEF Blocked, Holds
    <2>7. Goes(t, x) /\ ~(old.req.tool = "job" /\ old.cancel)
      BY <1>5 DEF Stops, Cancelled
    <2> QED BY <1>1, <1>2, <1>3, <2>3, <2>5, <2>6, <2>7, <2>8, QuietStep DEF Leaving
  <1>6. \/ (Ends(t, "failed") \/ Ends(t, "cancelled")) /\ UNCHANGED <<left, blurred>>
        \/ /\ ~Stops(t) /\ (Pulls(t) \/ source # Absent) /\ ~Blocked(t, n) /\ Goes(t, x)
           /\ Blurs(n) \/ UNCHANGED blurred
    BY DEF StartItem
  <1> QED BY <1>4, <1>5, <1>6

LEMMA ReadChunkSafe ==
    ASSUME Inv, NEW t \in Tasks, ReadChunk(t)
    PROVE  Inv'
  <1> DEFINE old == task[t]
  <1>1. /\ UNCHANGED <<tree, task, blurred, last, after, saved, plans, clock, edits>>
        /\ Watches(t, FALSE) /\ old.stage = "copying"
    BY DEF ReadChunk, Apart, At
  <1>2. TreesOK' /\ TasksOK' /\ SavedOK'
    <2>1. appeared' \in [Tasks -> BOOLEAN] /\ disturbed' \in [Tasks -> BOOLEAN]
      BY <1>1, WatchesOK DEF Inv
    <2> QED BY <1>1, <2>1 DEF Inv, TreesOK, TasksOK, TaskOK, AskOK, PromiseOK, ItemOK, SavedOK,
                              PlanDropsOldest
  <1>3. ASSUME NEW u \in Tasks
        PROVE  LookOK(u)' /\ AfterOK(u)'
    <2>1. AfterOK(u)'
      BY <1>1 DEF Inv, AfterOK, Cancelled
    <2>2. CASE u # t
      BY <1>1, <2>1, <2>2, OthersLook
    <2>3. CASE u = t
      <3>1. old.item # 0
        BY <1>1, TaskParts, PlaceOK
      <3>2. appeared'[t] = appeared[t]
        <4>1. appeared'[t] = (/\ ~(t = t /\ FALSE) /\ task'[t].item # 0
                              /\ appeared[t] \/ (t # t /\ Emerges(t)))
          BY <1>1 DEF Watches
        <4>2. appeared[t] \in BOOLEAN
          BY DEF Inv, TreesOK
        <4> QED BY <1>1, <3>1, <4>1, <4>2
      <3> QED BY <1>1, <2>1, <2>3, <3>2 DEF Inv, LookOK
    <2> QED BY <2>2, <2>3
  <1> QED BY <1>1, <1>2, <1>3 DEF Inv

\* What arrives is content of a file, or torn.
LEMMA ArrivesOK ==
    ASSUME Inv, LeftOK, NEW t \in Tasks, task[t].stage = "copying", NEW c \in Arrives(t)
    PROVE  [content |-> c, size |-> task[t].listing[task[t].item].size,
            mtime |-> PlannedTime(t)] \in File
  <1> DEFINE old == task[t]
             n == old.item
             f == old.listing[n]
  <1>1. old \in TaskState /\ PromiseOK(old) /\ ItemOK(old) /\ n \in old.items
    BY TaskParts DEF TaskOK, ItemOK
  <1>2. n \in Names /\ n \in Files(old.listing) /\ old.req.to \in Sides
    <2>1. n \in Names /\ old.req.to \in Sides
      BY TaskParts, PlaceOK
    <2>2. old.items = Promised(old) /\ Promised(old) \subseteq Files(old.listing)
      BY <1>1 DEF PromiseOK, Transferring, Final
    <2> QED BY <1>1, <2>1, <2>2
  <1>3. f \in File
    <2>1. old.listing \in Tree
      BY <1>1 DEF TaskState
    <2> QED BY <1>2, <2>1 DEF Tree, Files
  <1>4. c \in Contents \cup {Torn} /\ (c = Torn \/ f.size = SizeOf[c])
    <2>1. CASE Pulls(t)
      <3>1. left[n] \in SUBSET (Contents \cup {Torn})
        BY <1>2 DEF LeftOK
      <3> QED BY <2>1, <3>1 DEF Arrives, Pulled
    <2>2. CASE ~Pulls(t)
      <3>1. old.seen \in File
        BY <1>1, <2>2 DEF ItemOK, Pulls
      <3>2. c = old.seen.content /\ old.seen.size = f.size
        BY <2>2 DEF Arrives, Pushed
      <3> QED BY <3>1, <3>2 DEF File
    <2> QED BY <2>1, <2>2
  <1> DEFINE g == [content |-> c, size |-> f.size, mtime |-> PlannedTime(t)]
  <1>5. g \in [content : Contents \cup {Torn}, size : Sizes, mtime : Nat]
    BY <1>3, <1>4 DEF File, PlannedTime
  <1>6. g.content = c /\ g.size = f.size
    OBVIOUS
  <1> QED BY <1>4, <1>5, <1>6 DEF File

LEMMA VerifySafe ==
    ASSUME Inv, LeftOK, NEW t \in Tasks, Verify(t)
    PROVE  Inv'
  <1> DEFINE old == task[t]
             File1(c) == [content |-> c, size |-> old.listing[old.item].size,
                          mtime |-> PlannedTime(t)]
  <1>1. old \in TaskState /\ AskOK(old) /\ PromiseOK(old) /\ ItemOK(old) /\ old.stage = "copying"
    BY TaskParts DEF Verify, At, TaskOK
  <1>2. Apart /\ Still /\ Watches(t, TRUE) /\ TRUE \in BOOLEAN
    BY DEF Verify
  <1>3. old.stage \notin Final
    BY <1>1 DEF Final
  <1>4. CASE Ends(t, "failed")
    BY <1>2, <1>3, <1>4, FailsQuietly
  <1>5. ASSUME ~Blocked(t, old.item), NEW c \in Arrives(t),
               Goes(t, [old EXCEPT !.seen = File1(c), !.stage = "installing"])
        PROVE  Inv'
    <2> DEFINE s == File1(c)
               x == [old EXCEPT !.seen = s, !.stage = "installing"]
    <2>1. s \in File /\ "installing" \in Stages
      BY <1>1, ArrivesOK DEF Stages, Transferring
    <2>2. Goes(t, x)
      BY <1>5
    <2> HIDE DEF s
    <2>3. /\ x \in TaskState /\ x.stage = "installing" /\ x.req = old.req
          /\ x.created = old.created
          /\ x.copy = old.copy /\ x.conflicts = old.conflicts /\ x.listing = old.listing
          /\ x.items = old.items /\ x.deletes = old.deletes /\ x.installed = old.installed
          /\ x.deleting = old.deleting /\ x.item = old.item /\ x.seen = s
          /\ x.overwrite = old.overwrite
      BY <1>1, <2>1 DEF TaskState
    <2> HIDE DEF x
    <2>4. Promised(x) = Promised(old)
      BY <2>3 DEF Promised
    <2>5. TaskOK(x)
      <3>1. AskOK(x) /\ ItemOK(x)
        BY <1>1, <2>1, <2>3 DEF AskOK, ItemOK
      <3>2. PromiseOK(x)
        BY <1>1, <2>3, <2>4 DEF PromiseOK, Final, Transferring
      <3> QED BY <2>3, <3>1, <3>2 DEF TaskOK
    <2>6. x.overwrite \/ tree[x.req.to][x.item] = Absent
      BY <1>5, <2>3 DEF Blocked, Holds
    <2> QED BY <1>1, <1>2, <1>3, <2>2, <2>3, <2>5, <2>6, TaskParts, QuietStep
            DEF Still, Leaving
  <1> QED BY <1>4, <1>5 DEF Verify

\* A step of a task that changes a file.
LEMMA TreeStep ==
    ASSUME Inv, NEW t \in Tasks, NEW x, TaskOK(x), Goes(t, x), Apart,
           UNCHANGED <<last, after>>, tree' \in [Sides -> Tree], blurred' \subseteq Names,
           Watches(t, FALSE), x.created \in {0, task[t].created},
           x.stage \notin {"copying", "installing", "moving", "saved", "queued"},
           task[t].stage \notin Final,
           \/ task[t].stage \notin Leaving \/ x.stage \in Final
           \/ x.stage \in Leaving /\ x.req = task[t].req /\ x.cancel = task[t].cancel
    PROVE  Inv'
  <1>1. SavedOK'
    BY SavedSame DEF Apart
  <1>2. after[t] \in 0 .. 1 /\ after' = [after EXCEPT ![t] = after[t]]
    BY DEF Inv, AfterOK
  <1>3. after[t] = 1 => \/ x.stage \in Final
                        \/ x.stage \in Leaving /\ x.req.tool = "job" /\ x.cancel
    BY DEF Inv, AfterOK, Leaving, Cancelled
  <1>4. UNCHANGED <<clock, edits, last>> /\ FALSE \in BOOLEAN
    BY DEF Apart
  <1> QED BY <1>1, <1>2, <1>3, <1>4, TaskStep

LEMMA TreeChange ==
    ASSUME Inv, NEW side \in Sides, NEW n \in Names, NEW f \in File \cup {Absent}
    PROVE  [tree EXCEPT ![side][n] = f] \in [Sides -> Tree]
  <1>1. tree \in [Sides -> Tree] /\ tree[side] \in Tree
    BY DEF Inv, TreesOK
  <1>2. [tree[side] EXCEPT ![n] = f] \in Tree
    BY <1>1 DEF Tree
  <1> QED BY <1>1, <1>2

LEMMA DatedOK == \A f \in File : \A time \in Nat : [f EXCEPT !.mtime = time] \in File
  BY DEF File

LEMMA InstallSafe ==
    ASSUME Inv, NEW t \in Tasks, Install(t)
    PROVE  Inv'
  <1> DEFINE old == task[t]
             i == old.installed \cup {old.item}
             x == [old EXCEPT !.installed = i, !.stage = "stamping"]
             k == IF Cancelled(t) THEN 1 ELSE 0
  <1>1. old \in TaskState /\ AskOK(old) /\ PromiseOK(old) /\ ItemOK(old) /\ old.stage = "installing"
    BY TaskParts DEF Install, At, TaskOK
  <1>2. old.item \in Names /\ old.req \in RequestState /\ old.req.to \in Sides
    BY <1>1, TaskParts, PlaceOK
  <1>3. i \in SUBSET Names /\ "stamping" \in Stages
    BY <1>1, <1>2 DEF TaskState, Stages, Transferring
  <1>4. Goes(t, x) /\ Apart /\ last' = last /\ Watches(t, FALSE) /\ FALSE \in BOOLEAN
    BY DEF Install
  <1> HIDE DEF i
  <1>5. /\ x \in TaskState /\ x.stage = "stamping" /\ x.req = old.req /\ x.created = old.created
        /\ x.copy = old.copy /\ x.conflicts = old.conflicts /\ x.listing = old.listing
        /\ x.items = old.items /\ x.deletes = old.deletes /\ x.deleting = old.deleting
        /\ x.item = old.item /\ x.seen = old.seen /\ x.cancel = old.cancel
    BY <1>1, <1>3 DEF TaskState
  <1> HIDE DEF x
  <1>6. Promised(x) = Promised(old)
    BY <1>5 DEF Promised
  <1>7. TaskOK(x)
    <2>1. AskOK(x) /\ ItemOK(x)
      BY <1>1, <1>2, <1>5 DEF AskOK, ItemOK
    <2>2. PromiseOK(x)
      BY <1>1, <1>5, <1>6 DEF PromiseOK, Final, Transferring
    <2> QED BY <1>5, <2>1, <2>2 DEF TaskOK
  <1>8. tree' \in [Sides -> Tree]
    <2> DEFINE time == clock + Ahead[old.req.to]
    <2>1. time \in Nat /\ old.seen \in File
      BY <1>1, <1>2, PlannedTransferAssumption DEF Inv, TreesOK, ItemOK
    <2>2. tree' = [tree EXCEPT ![old.req.to][old.item] = [old.seen EXCEPT !.mtime = time]]
      BY DEF Install
    <2> HIDE DEF time
    <2>3. [old.seen EXCEPT !.mtime = time] \in File \cup {Absent}
      BY <2>1, DatedOK
    <2> QED BY <1>2, <2>2, <2>3, TreeChange
  <1>9. blurred' \subseteq Names
    BY <1>2, TaskParts DEF Install, Blurs
  <1>10. k \in 0 .. 1 /\ after' = [after EXCEPT ![t] = k]
    <2>1. after[t] = 0
      BY <1>1 DEF Inv, AfterOK, Final
    <2>2. after' = [after EXCEPT ![t] = after[t] + k]
      BY DEF Install
    <2>3. k \in 0 .. 1 /\ 0 + k = k
      OBVIOUS
    <2> QED BY <2>1, <2>2, <2>3
  <1>11. k = 1 => x.stage \in Leaving /\ x.req.tool = "job" /\ x.cancel
    BY <1>5 DEF Cancelled, Leaving
  <1> HIDE DEF k
  <1>12. SavedOK'
    BY <1>4, <1>5, <1>7, SavedSame DEF Apart
  <1>13. UNCHANGED <<clock, edits, last>>
    BY <1>4 DEF Apart
  <1> QED BY <1>4, <1>5, <1>7, <1>8, <1>9, <1>10, <1>11, <1>12, <1>13, TaskStep

LEMMA StampSafe ==
    ASSUME Inv, NEW t \in Tasks, Stamp(t)
    PROVE  Inv'
  <1> DEFINE old == task[t]
             x == [old EXCEPT !.item = 0, !.seen = Absent, !.stage = "item"]
  <1>1. old \in TaskState /\ AskOK(old) /\ PromiseOK(old) /\ ItemOK(old) /\ old.stage = "stamping"
    BY TaskParts DEF Stamp, At, TaskOK
  <1>2. old.item \in Names /\ old.req \in RequestState /\ old.req.to \in Sides
    BY <1>1, TaskParts, PlaceOK
  <1>3. /\ Apart /\ UNCHANGED <<left, blurred, last, after>> /\ Watches(t, FALSE) /\ FALSE \in BOOLEAN
        /\ old.stage \notin Final
    BY <1>1 DEF Stamp, Final
  <1>4. CASE Ends(t, "failed") /\ tree' = tree
    <2>1. Still /\ Apart
      BY <1>3, <1>4 DEF Still
    <2> QED BY <1>3, <1>4, <2>1, FailsQuietly
  <1>5. CASE /\ Holds(old.req.to, old.item) /\ Goes(t, x)
             /\ tree' = [tree EXCEPT ![old.req.to][old.item].mtime = old.seen.mtime]
    <2>1. "item" \in Stages
      BY DEF Stages, Transferring
    <2>2. /\ x \in TaskState /\ x.stage = "item" /\ x.req = old.req /\ x.created = old.created
          /\ x.copy = old.copy /\ x.conflicts = old.conflicts /\ x.listing = old.listing
          /\ x.items = old.items /\ x.deletes = old.deletes /\ x.deleting = old.deleting
          /\ x.cancel = old.cancel
      BY <1>1, <2>1 DEF TaskState
    <2> HIDE DEF x
    <2>3. Promised(x) = Promised(old)
      BY <2>2 DEF Promised
    <2>4. TaskOK(x)
      <3>1. AskOK(x) /\ ItemOK(x)
        BY <1>1, <1>2, <2>2 DEF AskOK, ItemOK
      <3>2. PromiseOK(x)
        BY <1>1, <2>2, <2>3 DEF PromiseOK, Final, Transferring
      <3> QED BY <2>2, <3>1, <3>2 DEF TaskOK
    <2>5. tree' \in [Sides -> Tree]
      <3> DEFINE f == tree[old.req.to][old.item]
                 g == [f EXCEPT !.mtime = old.seen.mtime]
      <3>1. f \in File
        BY <1>2, <1>5, TaskParts DEF Tree, Holds
      <3>2. old.seen.mtime \in Nat
        BY <1>1 DEF ItemOK, File
      <3>3. g \in File \cup {Absent}
        BY <3>1, <3>2, DatedOK
      <3>4. tree' = [tree EXCEPT ![old.req.to][old.item] = g]
        BY <1>5
      <3> HIDE DEF g
      <3> QED BY <1>2, <3>3, <3>4, TreeChange
    <2>6. x.stage \in Leaving /\ blurred' \subseteq Names
      BY <1>3, <2>2, TaskParts DEF Leaving
    <2> QED BY <1>3, <1>5, <2>2, <2>4, <2>5, <2>6, TreeStep
  <1> QED BY <1>4, <1>5 DEF Stamp

\* A task that is done keeps what it installed.
LEMMA DoneOK ==
    ASSUME NEW y, TaskOK(y), y.stage \notin {"idle", "failed", "cancelled"},
           y.req.tool = "move" \/ Promised(y) \subseteq y.installed
    PROVE  LET x == [y EXCEPT !.stage = "done", !.listing = Idle.listing, !.item = 0,
                              !.seen = Absent]
           IN  TaskOK(x) /\ x.stage = "done" /\ x.created = y.created
  <1> DEFINE x == [y EXCEPT !.stage = "done", !.listing = Idle.listing, !.item = 0,
                            !.seen = Absent]
  <1>1. y \in TaskState /\ AskOK(y)
    BY DEF TaskOK
  <1>2. "done" \in Stages
    BY DEF Stages, Final
  <1>3. /\ x \in TaskState /\ x.stage = "done" /\ x.req = y.req /\ x.created = y.created
        /\ x.copy = y.copy /\ x.conflicts = y.conflicts /\ x.installed = y.installed
    BY <1>1, <1>2, IdleOK DEF TaskState
  <1> HIDE DEF x
  <1>4. Promised(x) = Promised(y)
    BY <1>3 DEF Promised
  <1>5. TaskOK(x)
    BY <1>1, <1>3, <1>4 DEF TaskOK, AskOK, PromiseOK, ItemOK, Final, Transferring
  <1> QED BY <1>3, <1>5 DEF x

LEMMA DoneQuietly ==
    ASSUME Inv, NEW t \in Tasks, Ends(t, "done"), Quiet(t),
           task[t].stage \notin Final \cup {"idle"}, Promised(task[t]) \subseteq task[t].installed
    PROVE  Inv'
  <1> DEFINE x == [task[t] EXCEPT !.stage = "done", !.listing = Idle.listing, !.item = 0,
                                  !.seen = Absent]
  <1>1. TaskOK(x) /\ x.stage = "done" /\ x.created = task[t].created
    BY TaskParts, DoneOK DEF Final
  <1>2. Goes(t, x)
    BY DEF Ends
  <1> HIDE DEF x
  <1>3. FALSE \in BOOLEAN /\ x.stage \in Final
    BY <1>1 DEF Final
  <1> QED BY <1>1, <1>2, <1>3, TaskParts, QuietStep DEF Quiet, Still

LEMMA CloseSafe ==
    ASSUME Inv, NEW t \in Tasks, NEW s \in {"ending", "closing", "deletes"}, To(t, s), Quiet(t),
           task[t].stage \in {"item", "ending"}, Promised(task[t]) \subseteq task[t].installed,
           s = "deletes" => task[t].deleting /\ task[t].req.tool # "job"
    PROVE  Inv'
  <1> DEFINE old == task[t]
             x == [old EXCEPT !.stage = s]
  <1>1. old \in TaskState /\ AskOK(old) /\ PromiseOK(old)
    BY TaskParts DEF TaskOK
  <1>2. s \in Stages /\ Goes(t, x)
    BY DEF Stages, Transferring, To
  <1>3. /\ x \in TaskState /\ x.stage = s /\ x.req = old.req /\ x.created = old.created
        /\ x.copy = old.copy /\ x.conflicts = old.conflicts /\ x.listing = old.listing
        /\ x.items = old.items /\ x.deletes = old.deletes /\ x.installed = old.installed
        /\ x.deleting = old.deleting /\ x.cancel = old.cancel
    BY <1>1, <1>2, StageOnly
  <1> HIDE DEF x
  <1>4. Promised(x) = Promised(old)
    BY <1>3 DEF Promised
  <1>5. TaskOK(x)
    <2>1. AskOK(x) /\ ItemOK(x)
      BY <1>1, <1>3 DEF AskOK, ItemOK
    <2>2. PromiseOK(x)
      BY <1>1, <1>3, <1>4 DEF PromiseOK, Final, Transferring
    <2> QED BY <1>3, <2>1, <2>2 DEF TaskOK
  <1>6. old.stage \notin Final /\ FALSE \in BOOLEAN
    BY DEF Final
  <1> QED BY <1>2, <1>3, <1>5, <1>6, TaskParts, QuietStep DEF Quiet, Still, Leaving

LEMMA AllInstalledSafe ==
    ASSUME Inv, NEW t \in Tasks, AllInstalled(t)
    PROVE  Inv'
  <1>1. /\ task[t].stage = "item" /\ Quiet(t) /\ Promised(task[t]) \subseteq task[t].installed
    BY TaskParts DEF AllInstalled, At, TaskOK, PromiseOK, Transferring
  <1>2. CASE Ends(t, "done")
    BY <1>1, <1>2, DoneQuietly DEF Final
  <1>3. CASE task[t].req.tool = "job" /\ To(t, "ending")
    BY <1>1, <1>3, CloseSafe
  <1>4. CASE task[t].req.tool # "job" /\ task[t].deleting /\ To(t, "deletes")
    BY <1>1, <1>4, CloseSafe
  <1> QED BY <1>2, <1>3, <1>4 DEF AllInstalled

LEMMA CheckCancelledSafe ==
    ASSUME Inv, NEW t \in Tasks, CheckCancelled(t)
    PROVE  Inv'
  <1>1. /\ task[t].stage = "ending" /\ Quiet(t) /\ Promised(task[t]) \subseteq task[t].installed
    BY TaskParts DEF CheckCancelled, At, TaskOK, PromiseOK
  <1>2. CASE Ends(t, "cancelled")
    <2>1. FALSE \in BOOLEAN /\ task[t].stage \notin Final
      BY <1>1 DEF Final
    <2> QED BY <1>1, <1>2, <2>1, FailsQuietly DEF Quiet
  <1>3. CASE To(t, "closing")
    BY <1>1, <1>3, CloseSafe
  <1> QED BY <1>2, <1>3 DEF CheckCancelled

LEMMA JobDoneSafe ==
    ASSUME Inv, NEW t \in Tasks, JobDone(t)
    PROVE  Inv'
  <1>1. /\ task[t].stage = "closing" /\ Quiet(t) /\ Promised(task[t]) \subseteq task[t].installed
        /\ Ends(t, "done")
    BY TaskParts DEF JobDone, At, TaskOK, PromiseOK
  <1> QED BY <1>1, DoneQuietly DEF Final

LEMMA DeleteItemSafe ==
    ASSUME Inv, NEW t \in Tasks, DeleteItem(t)
    PROVE  Inv'
  <1> DEFINE old == task[t]
             n == Least(old.deletes)
             rest == old.deletes \ {n}
             to == old.req.to
             finished == [old EXCEPT !.deletes = {}, !.stage = "done", !.listing = Idle.listing]
             onward == [old EXCEPT !.deletes = rest]
  <1>1. old \in TaskState /\ AskOK(old) /\ PromiseOK(old) /\ old.stage = "deletes"
    BY TaskParts DEF DeleteItem, At, TaskOK
  <1>2. /\ old.deletes \in SUBSET Names /\ old.deletes # {} /\ to \in Sides
        /\ Promised(old) \subseteq old.installed /\ Promised(old) \subseteq Files(old.listing)
    BY <1>1 DEF TaskState, AskOK, RequestState, PromiseOK, Final
  <1>3. n \in Names
    BY <1>2, LeastOK, Zenon
  <1>4. /\ Apart /\ UNCHANGED <<left, blurred, last, after>> /\ Watches(t, FALSE) /\ FALSE \in BOOLEAN
        /\ old.stage \notin Final /\ old.stage \notin Leaving /\ blurred' \subseteq Names
    BY <1>1, TaskParts DEF DeleteItem, Final, Leaving
  <1>5. CASE Ends(t, "failed") /\ tree' = tree
    <2>1. Still /\ Apart
      BY <1>4, <1>5 DEF Still
    <2> QED BY <1>4, <1>5, <2>1, FailsQuietly
  <1>6. ASSUME tree' = [tree EXCEPT ![to][n] = Absent]
        PROVE  tree' \in [Sides -> Tree]
    BY <1>2, <1>3, <1>6, TreeChange
  <1>7. CASE tree' = [tree EXCEPT ![to][n] = Absent] /\ Goes(t, finished)
    <2> DEFINE x == finished
    <2>1. "done" \in Stages /\ {} \in SUBSET Names
      BY DEF Stages, Final
    <2>2. /\ x \in TaskState /\ x.stage = "done" /\ x.req = old.req /\ x.created = old.created
          /\ x.copy = old.copy /\ x.conflicts = old.conflicts /\ x.installed = old.installed
      BY <1>1, <2>1, IdleOK DEF TaskState
    <2> HIDE DEF x
    <2>3. Promised(x) = Promised(old)
      BY <2>2 DEF Promised
    <2>4. TaskOK(x)
      BY <1>1, <1>2, <2>2, <2>3 DEF TaskOK, AskOK, PromiseOK, ItemOK, Final, Transferring
    <2>5. Goes(t, x)
      BY <1>7 DEF x
    <2> QED BY <1>4, <1>6, <1>7, <2>2, <2>4, <2>5, TreeStep
  <1>8. CASE tree' = [tree EXCEPT ![to][n] = Absent] /\ rest # {} /\ Goes(t, onward)
    <2> DEFINE x == onward
    <2>1. rest \in SUBSET Names
      BY <1>2
    <2>2. Goes(t, x) /\ rest # {}
      BY <1>8
    <2> HIDE DEF rest
    <2>3. /\ x \in TaskState /\ x.stage = "deletes" /\ x.req = old.req /\ x.created = old.created
          /\ x.copy = old.copy /\ x.conflicts = old.conflicts /\ x.installed = old.installed
          /\ x.deletes = rest /\ x.listing = old.listing
      BY <1>1, <2>1 DEF TaskState
    <2> HIDE DEF x
    <2>4. Promised(x) = Promised(old)
      BY <2>3 DEF Promised
    <2>5. TaskOK(x)
      BY <1>1, <1>2, <2>2, <2>3, <2>4 DEF TaskOK, AskOK, PromiseOK, ItemOK, Final, Transferring
    <2> QED BY <1>4, <1>6, <1>8, <2>2, <2>3, <2>5, TreeStep
  <1> HIDE DEF finished, onward
  <1>9. \/ Ends(t, "failed") /\ tree' = tree
        \/ tree' = [tree EXCEPT ![to][n] = Absent] /\ Goes(t, finished)
        \/ tree' = [tree EXCEPT ![to][n] = Absent] /\ rest # {} /\ Goes(t, onward)
    BY DEF DeleteItem, finished, onward
  <1> QED BY <1>5, <1>7, <1>8, <1>9

LEMMA LookForDestinationSafe ==
    ASSUME Inv, NEW t \in Tasks, LookForDestination(t)
    PROVE  Inv'
  <1> DEFINE old == task[t]
             x == [old EXCEPT !.item = old.req.dest, !.stage = "moving"]
  <1>1. old \in TaskState /\ AskOK(old) /\ PromiseOK(old) /\ old.stage = "look"
    BY TaskParts DEF LookForDestination, At, TaskOK
  <1>2. Apart /\ Still /\ Watches(t, TRUE) /\ TRUE \in BOOLEAN
    BY DEF LookForDestination
  <1>3. old.stage \notin Final /\ old.req \in RequestState /\ old.req.tool = "move"
    BY <1>1 DEF Final, AskOK
  <1>4. CASE Ends(t, "failed")
    BY <1>2, <1>3, <1>4, FailsQuietly
  <1>5. CASE Goes(t, x) /\ ~Blocked(t, old.req.dest)
    <2>1. "moving" \in Stages /\ old.req.dest \in Names
      BY <1>3 DEF Stages, RequestState
    <2>2. /\ x \in TaskState /\ x.stage = "moving" /\ x.req = old.req /\ x.created = old.created
          /\ x.copy = old.copy /\ x.conflicts = old.conflicts /\ x.listing = old.listing
          /\ x.item = old.req.dest /\ x.overwrite = old.overwrite
      BY <1>1, <2>1 DEF TaskState
    <2> HIDE DEF x
    <2>3. Promised(x) \subseteq Files(x.listing)
      BY <1>1, <2>2 DEF Promised, PromiseOK, Final
    <2>4. TaskOK(x)
      BY <1>3, <2>2, <2>3 DEF TaskOK, AskOK, PromiseOK, ItemOK, Final, Transferring
    <2>5. x.overwrite \/ tree[x.req.to][x.item] = Absent
      BY <1>5, <2>2 DEF Blocked, Holds
    <2> QED BY <1>1, <1>2, <1>3, <1>5, <2>2, <2>4, <2>5, TaskParts, QuietStep
            DEF Still, Leaving
  <1> QED BY <1>4, <1>5 DEF LookForDestination

LEMMA MoveSafe ==
    ASSUME Inv, NEW t \in Tasks, Move(t)
    PROVE  Inv'
  <1> DEFINE old == task[t]
             r == old.req
             x == [old EXCEPT !.stage = "done", !.listing = Idle.listing, !.item = 0,
                              !.seen = Absent]
  <1>1. old \in TaskState /\ AskOK(old) /\ old.stage = "moving" /\ TaskOK(old)
    BY TaskParts DEF Move, At, TaskOK
  <1>2. /\ Apart /\ UNCHANGED <<left, last, after>> /\ Watches(t, FALSE) /\ FALSE \in BOOLEAN
        /\ old.stage \notin Final /\ old.stage \notin Leaving
    BY <1>1 DEF Move, Final, Leaving
  <1>3. r \in RequestState /\ r.tool = "move"
    BY <1>1 DEF AskOK
  <1>4. CASE Ends(t, "failed") /\ UNCHANGED <<tree, blurred>>
    <2>1. Still /\ Apart
      BY <1>2, <1>4 DEF Still
    <2> QED BY <1>2, <1>4, <2>1, FailsQuietly
  <1>5. CASE /\ tree' = [tree EXCEPT ![r.to][r.dest] = tree[r.to][r.from],
                                     ![r.to][r.from] = Absent]
             /\ Goes(t, x) /\ blurred' = blurred \cup {r.from, r.dest}
    <2>1. TaskOK(x) /\ x.stage = "done" /\ x.created = old.created
      BY <1>1, <1>3, DoneOK
    <2> HIDE DEF x
    <2>2. r.to \in Sides /\ r.from \in Names /\ r.dest \in Names
      BY <1>3 DEF RequestState
    <2>3. blurred' \subseteq Names
      BY <1>5, <2>2, TaskParts
    <2>4. tree' \in [Sides -> Tree]
      <3>1. tree \in [Sides -> Tree] /\ tree[r.to] \in Tree /\ tree[r.to][r.from] \in File \cup {Absent}
        BY <2>2, TaskParts DEF Tree
      <3>2. tree' = [tree EXCEPT ![r.to] =
                        [tree[r.to] EXCEPT ![r.dest] = tree[r.to][r.from], ![r.from] = Absent]]
        BY <1>5, <2>2, <3>1
      <3>3. [tree[r.to] EXCEPT ![r.dest] = tree[r.to][r.from], ![r.from] = Absent] \in Tree
        BY <2>2, <3>1 DEF Tree
      <3> QED BY <2>2, <3>1, <3>2, <3>3
    <2>5. x.stage \in Final /\ x.stage \notin {"copying", "installing", "moving", "saved", "queued"}
      BY <2>1 DEF Final
    <2> QED BY <1>2, <1>5, <2>1, <2>3, <2>4, <2>5, TreeStep
  <1> QED BY <1>4, <1>5 DEF Move, Ends

\* What an edit writes, or Absent; a time that is not clearly later than all before
\* blurs the name.
LEMMA EditParts ==
    ASSUME Inv, NEW side \in Sides, NEW n \in Names, NEW c \in Contents \cup {"absent"},
           Edit(side, n, c)
    PROVE  \E file \in File \cup {Absent} :
              /\ tree' = [tree EXCEPT ![side][n] = file]
              /\ file = Absent => last' = last /\ blurred' = blurred
              /\ file # Absent =>
                   /\ last' = [last EXCEPT ![n] = Later(file.mtime, last[n])]
                   /\ IF file.mtime <= last[n] + Tolerance \/ Stamping(n) THEN Blurs(n)
                      ELSE blurred' = blurred
  <1> DEFINE time == clock' + Ahead[side]
             g == [content |-> c, size |-> SizeOf[c], mtime |-> time]
  <1>1. CASE /\ c = "absent" /\ tree' = [tree EXCEPT ![side][n] = Absent]
             /\ UNCHANGED <<last, blurred>>
    BY <1>1
  <1>2. CASE /\ c \in Contents /\ tree' = [tree EXCEPT ![side][n] = g]
             /\ last' = [last EXCEPT ![n] = Later(time, @)]
             /\ IF time <= last[n] + Tolerance \/ Stamping(n) THEN Blurs(n)
                ELSE UNCHANGED blurred
    <2>1. time \in Nat
      BY PlannedTransferAssumption DEF Edit, Inv, TreesOK
    <2>2. g.content = c /\ g.size = SizeOf[c] /\ g.mtime = time
      OBVIOUS
    <2>3. g \in [content : Contents \cup {Torn}, size : Sizes, mtime : Nat]
      BY <1>2, <2>1, PlannedTransferAssumption DEF Sizes
    <2>4. last' = [last EXCEPT ![n] = Later(g.mtime, last[n])]
      BY <1>2, <2>2
    <2>5. g \in File
      BY <2>2, <2>3 DEF File
    <2> HIDE DEF g, time
    <2>6. g # Absent
      BY <2>5, AbsentOK
    <2> QED BY <1>2, <2>2, <2>4, <2>5, <2>6
  <1> QED BY <1>1, <1>2 DEF Edit

LEMMA EditSafe ==
    ASSUME Inv, NEW side \in Sides, NEW n \in Names, NEW c \in Contents \cup {"absent"},
           Edit(side, n, c)
    PROVE  Inv'
  <1>1. /\ UNCHANGED <<task, saved, plans, after>> /\ clock' \in Nat
        /\ edits < MaxEdits /\ edits' = edits + 1
        /\ appeared' = [t \in Tasks |-> appeared[t] \/ Emerges(t)]
        /\ disturbed' = [t \in Tasks |-> Depends(t)]
    BY PlannedTransferAssumption DEF Edit, Inv, TreesOK
  <1>0. PICK file \in File \cup {Absent} :
           /\ tree' = [tree EXCEPT ![side][n] = file]
           /\ file = Absent => last' = last /\ blurred' = blurred
           /\ file # Absent =>
                /\ last' = [last EXCEPT ![n] = Later(file.mtime, last[n])]
                /\ Blurs(n) \/ blurred' = blurred
    BY EditParts
  <1>2. TreesOK'
    <2>1. tree' \in [Sides -> Tree]
      BY <1>0, TreeChange
    <2>2. edits' \in 0 .. MaxEdits
      BY <1>1, PlannedTransferAssumption DEF Inv, TreesOK
    <2>3. last' \in [Names -> Nat]
      BY <1>0 DEF Inv, TreesOK, Later, File
    <2>4. appeared' \in [Tasks -> BOOLEAN] /\ disturbed' \in [Tasks -> BOOLEAN]
      <3>1. \A t \in Tasks : (appeared[t] \/ Emerges(t)) \in BOOLEAN /\ Depends(t) \in BOOLEAN
        BY Zenon DEF Depends
      <3> QED BY <1>1, <3>1
    <2>5. blurred' \subseteq Names
      BY <1>0 DEF Blurs, Inv, TreesOK
    <2> QED BY <1>1, <2>1, <2>2, <2>3, <2>4, <2>5 DEF TreesOK
  <1>3. TasksOK'
    BY <1>1 DEF Inv, TasksOK, TaskOK, AskOK, PromiseOK, ItemOK
  <1>4. SavedOK'
    BY <1>1 DEF Inv, SavedOK, PlanDropsOldest
  <1>5. ASSUME NEW t \in Tasks
        PROVE  LookOK(t)' /\ AfterOK(t)'
    <2>1. AfterOK(t)'
      BY <1>1 DEF Inv, AfterOK, Cancelled
    <2>2. LookOK(t)'
      <3> SUFFICES ASSUME task[t].stage \in {"copying", "installing", "moving"}
                   PROVE  \/ task[t].overwrite \/ appeared'[t]
                          \/ tree'[task[t].req.to][task[t].item] = Absent
        BY <1>1 DEF LookOK
      <3>1. task[t].item # 0
        BY TaskParts, PlaceOK
      <3>2. appeared'[t] = (appeared[t] \/ Emerges(t))
        BY <1>1, Zenon
      <3>3. \/ task[t].overwrite \/ appeared[t]
            \/ tree[task[t].req.to][task[t].item] = Absent
        BY DEF Inv, LookOK
      <3> QED BY <3>1, <3>2, <3>3 DEF Emerges, Place
    <2> QED BY <2>1, <2>2
  <1> QED BY <1>1, <1>2, <1>3, <1>4, <1>5 DEF Inv

LEMMA ProceedsSafe ==
    ASSUME Inv, LeftOK, NEW t \in Tasks, Proceeds(t)
    PROVE  Inv'
  BY Zenon, ListSourceSafe, ListTargetSafe, CompareHashesSafe, StampPlanSafe, SavePlanSafe,
     RunJobSafe, ConfirmSafe, StartItemSafe, ReadChunkSafe, StopCopyingSafe, VerifySafe, InstallSafe, StampSafe,
     AllInstalledSafe, CheckCancelledSafe, JobDoneSafe, DeleteItemSafe, LookForDestinationSafe,
     MoveSafe DEF Proceeds

LEMMA NextSafe == Inv /\ LeftOK /\ [Next]_vars => Inv'
  <1> SUFFICES ASSUME Inv, LeftOK, [Next]_vars PROVE Inv'
    OBVIOUS
  <1>1. CASE UNCHANGED vars
    <2>1. TreesOK' /\ TasksOK' /\ SavedOK'
      BY <1>1 DEF vars, Inv, TreesOK, TasksOK, TaskOK, AskOK, PromiseOK, ItemOK, SavedOK,
                  PlanDropsOldest
    <2>2. \A t \in Tasks : LookOK(t)' /\ AfterOK(t)'
      BY <1>1 DEF vars, Inv, LookOK, AfterOK, Cancelled
    <2> QED BY <1>1, <2>1, <2>2 DEF vars, Inv
  <1>2. ASSUME NEW t \in Tasks, NEW r \in Requests[t], BeginCommand(t, r) \/ BeginOnPage(t, r)
        PROVE  Inv'
    BY <1>2, BeginCommandSafe, BeginOnPageSafe
  <1>3. ASSUME NEW t \in Tasks, StartJob(t) \/ CancelJob(t) \/ Fails(t) \/ Proceeds(t)
        PROVE  Inv'
    BY <1>3, StartJobSafe, CancelJobSafe, FailSafe, ProceedsSafe
  <1>4. CASE OtherPlan
    BY <1>4, OtherPlanSafe
  <1>5. ASSUME NEW side \in Sides, NEW n \in Names, NEW c \in Contents \cup {"absent"},
               Edit(side, n, c)
        PROVE  Inv'
    BY <1>5, EditSafe
  <1> QED BY <1>1, <1>2, <1>3, <1>4, <1>5, Zenon DEF Next

LEMMA LeftNext == Inv /\ LeftOK /\ [Next]_vars => LeftOK'
  <1> SUFFICES ASSUME Inv, LeftOK, [Next]_vars PROVE LeftOK'
    OBVIOUS
  <1>1. ASSUME NEW t \in Tasks, StartItem(t)
        PROVE  LeftOK'
    <2>1. /\ NextItem(t) \in Names
          /\ left[NextItem(t)] \in SUBSET (Contents \cup {Torn})
      BY <1>1, NextItemOK DEF StartItem, LeftOK
    <2>2. \A rest \in Resumed(t, NextItem(t)) : rest \in SUBSET (Contents \cup {Torn})
      BY <2>1 DEF Resumed
    <2>3. \/ left' = left
          \/ \E rest \in Resumed(t, NextItem(t)) \cup {left[NextItem(t)]} :
                left' = [left EXCEPT ![NextItem(t)] = rest]
      BY <1>1, Zenon DEF StartItem
    <2> QED BY <2>1, <2>2, <2>3 DEF LeftOK
  <1>2. ASSUME NEW t \in Tasks, ReadChunk(t)
        PROVE  LeftOK'
    <2> DEFINE n == task[t].item
               now == tree["remote"][n]
    <2>1. n \in Names
      BY <1>2, TaskParts, PlaceOK DEF ReadChunk, At
    <2>2. now \in File
      BY <1>2, <2>1, TaskParts DEF ReadChunk, Tree, Sides
    <2>3. now.content \in Contents \cup {Torn}
      BY <2>2 DEF File
    <2>4. left' = [left EXCEPT ![n] = left[n] \cup {now.content}]
      BY <1>2 DEF ReadChunk
    <2> QED BY <2>1, <2>3, <2>4 DEF LeftOK
  <1>3. ASSUME NEW t \in Tasks, Install(t)
        PROVE  LeftOK'
    BY <1>3 DEF Install, LeftOK
  <1>4. CASE UNCHANGED left
    BY <1>4 DEF LeftOK
  <1>5. ASSUME NEW t \in Tasks, Proceeds(t),
               ~StartItem(t), ~ReadChunk(t), ~Install(t)
        PROVE  UNCHANGED left
    BY <1>5 DEF Proceeds, ListSource, ListTarget, CompareHashes, StampPlan, SavePlan, RunJob,
       Confirm, StopCopying, Verify, Stamp, AllInstalled, CheckCancelled, JobDone, DeleteItem,
       LookForDestination, Move, Quiet, Still
  <1>6. ASSUME NEW t \in Tasks, NEW r \in Requests[t], BeginCommand(t, r) \/ BeginOnPage(t, r)
        PROVE  UNCHANGED left
    BY <1>6 DEF BeginCommand, BeginOnPage, Begin, Quiet, Still
  <1>7. ASSUME NEW t \in Tasks, StartJob(t) \/ CancelJob(t) \/ Fails(t)
        PROVE  UNCHANGED left
    BY <1>7 DEF StartJob, CancelJob, Fails, Quiet, Still
  <1>8. CASE OtherPlan \/ UNCHANGED vars
    BY <1>4, <1>8 DEF OtherPlan, vars
  <1>9. ASSUME NEW side \in Sides, NEW n \in Names, NEW c \in Contents \cup {"absent"},
               Edit(side, n, c)
        PROVE  UNCHANGED left
    BY <1>9 DEF Edit
  <1> QED BY <1>1, <1>2, <1>3, <1>4, <1>5, <1>6, <1>7, <1>8, <1>9, Zenon DEF Next

\* The strengthened invariant holds: what the theorems below follow from.
THEOREM Invariance == Spec => [](Inv /\ LeftOK)
  <1>1. Init => LeftOK
    BY PlannedTransferAssumption DEF Init, LeftOK
  <1> QED BY <1>1, InitSafe, NextSafe, LeftNext, PTL DEF Spec

-----------------------------------------------------------------------------
(* What is promised.                                                       *)

\* Every variable keeps its type, and the page keeps MaxPlans plans at most.
THEOREM TypeInvariant == Spec => []TypeOK
  <1>1. Inv /\ LeftOK => TypeOK
    <2> SUFFICES ASSUME Inv, LeftOK PROVE TypeOK
      OBVIOUS
    <2>1. task \in [Tasks -> TaskState]
      BY DEF Inv, TasksOK, TaskOK
    <2>2. after \in [Tasks -> Nat]
      <3>1. \A t \in Tasks : after[t] \in Nat
        BY DEF Inv, AfterOK
      <3> QED BY <3>1 DEF Inv
    <2>3. /\ plans \in Nat /\ saved \subseteq 1 .. plans /\ Cardinality(saved) <= MaxPlans
      BY DEF Inv, SavedOK
    <2>4. TreesOK
      BY DEF Inv
    <2> QED BY <2>1, <2>2, <2>3, <2>4, Zenon DEF TreesOK, LeftOK, TypeOK
  <1> QED BY <1>1, Invariance, PTL

\* Deletions of a sync and the word "done" come after everything that was promised
\* (run_job, sync_push, sync_pull).
THEOREM PromiseTheorem == Spec => []PromisedIsThere
  <1>1. Inv => PromisedIsThere
    BY DEF Inv, TasksOK, TaskOK, PromiseOK, PromisedIsThere, Promised
  <1> QED BY <1>1, Invariance, PTL

\* A job installs one file at most after its cancellation, however many tasks there
\* are and whatever fails (raise_if_cancelled).
THEOREM CancelTheorem == Spec => []CancelledJobsStop
  <1>1. Inv => CancelledJobsStop
    BY DEF Inv, AfterOK, CancelledJobsStop
  <1> QED BY <1>1, Invariance, PTL

\* A plan that is gone made room for newer ones only (save_plan).
THEOREM PlansTheorem == Spec => []PlanDropsOldest
  <1>1. Inv => PlanDropsOldest
    BY DEF Inv, SavedOK
  <1> QED BY <1>1, Invariance, PTL

\* Nothing is replaced that was there when the task looked last, unless overwriting
\* was confirmed (transfer_push_items, transfer_pull_items, handle_move).
THEOREM ReplaceTheorem == Spec => ReplacesOnlyConfirmed
  <1>1. Inv => [\A t \in Tasks :
                  LET to == task[t].req.to IN
                  /\ task[t].stage \in {"installing", "moving"}
                  /\ Holds(to, task[t].item) /\ tree'[to] # tree[to] /\ task'[t] # task[t]
                  => task[t].overwrite \/ appeared[t]]_vars
    BY DEF Inv, LookOK, Holds
  <1> QED BY <1>1, Invariance, PTL DEF ReplacesOnlyConfirmed

-----------------------------------------------------------------------------
(* What a sync leaves.                                                     *)

\* The source in these trees as a sync in this direction lists it.
SourceIn(trees, to) ==
    [n \in Names |-> IF to = "remote" /\ n \in Excluded THEN Absent ELSE trees[Other(to)][n]]

SyncPlanned == {"hashes", "confirm", "item", "copying", "installing", "stamping", "deletes", "done"}
SyncStages == {"source", "target"} \cup SyncPlanned

Alike(x, f, g) == Same(f, g) \/ (x.req.hash /\ f.content = g.content)

\* What is installed looks like its source, but for the time that is set next.
InstalledOK(x, source, target) ==
    \A n \in x.installed :
        /\ target[n] # Absent /\ source[n].size = target[n].size
        /\ ~(x.stage = "stamping" /\ x.item = n) => Same(source[n], target[n])

\* What is not to be transferred is alike already, and what the source does not
\* hold is a candidate for deletion or is not there.
PlanOK(x, source, target) ==
    /\ \A n \in Promised(x) \cup x.installed : source[n] # Absent
    /\ \A n \in x.deletes : source[n] = Absent
    /\ \A n \in Names : source[n] = Absent => n \in x.deletes \/ target[n] = Absent
    /\ \A n \in Names : source[n] # Absent =>
          n \in Promised(x) \/ (target[n] # Absent /\ Alike(x, source[n], target[n]))

\* A sync whose trees nobody else has changed knows both.
KnowsTrees(x, source, target) ==
    /\ x.stage \notin {"source", "done"} => x.listing = source
    /\ x.stage \in {"source", "target", "hashes", "confirm"} => x.installed = {}
    /\ x.stage = "hashes" => x.req.hash
    /\ x.stage \in {"installing", "stamping"} =>
        x.seen.size = source[x.item].size /\ x.seen.mtime = source[x.item].mtime
    /\ x.stage \in SyncPlanned => PlanOK(x, source, target) /\ InstalledOK(x, source, target)

SyncOK(t) ==
    task[t].req.tool = "sync" =>
        /\ task[t].stage \in SyncStages
        /\ ~disturbed[t] =>
              KnowsTrees(task[t], SourceIn(tree, task[t].req.to), tree[task[t].req.to])

SyncInv == \A t \in Tasks : SyncOK(t)

LEMMA GoesOK ==
    ASSUME Inv, NEW t \in Tasks, NEW x, Goes(t, x)
    PROVE  task'[t] = x /\ \A u \in Tasks \ {t} : task'[u] = task[u]
  <1>1. task = [u \in Tasks |-> task[u]]
    BY DEF Inv, TasksOK
  <1> QED BY <1>1 DEF Goes

LEMMA SyncStep ==
    ASSUME Inv, SyncInv, NEW t \in Tasks, NEW x, Goes(t, x), NEW looks, Watches(t, looks),
           x.req.tool = "sync" =>
               /\ x.stage \in SyncStages
               /\ ~disturbed'[t] => KnowsTrees(x, SourceIn(tree', x.req.to), tree'[x.req.to])
    PROVE  SyncInv'
  <1>1. task'[t] = x /\ \A u \in Tasks \ {t} : task'[u] = task[u]
    BY GoesOK
  <1>2. SyncOK(t)'
    BY <1>1 DEF SyncOK
  <1>3. ASSUME NEW u \in Tasks, u # t
        PROVE  SyncOK(u)'
    <2>1. task'[u] = task[u] /\ SyncOK(u)
      BY <1>1, <1>3 DEF SyncInv
    <2>2. ASSUME task[u].req.tool = "sync", ~disturbed'[u]
          PROVE  ~disturbed[u] /\ tree' = tree
      <3>1. disturbed'[u] = (Depends(u) /\ (disturbed[u] \/ (u # t /\ tree' # tree)))
        BY DEF Watches
      <3>2. Depends(u)
        BY <2>2 DEF Depends
      <3> QED BY <1>3, <2>2, <3>1, <3>2, Zenon
    <2> QED BY <2>1, <2>2 DEF SyncOK
  <1> QED BY <1>2, <1>3 DEF SyncInv

\* A task that does not go on as a sync.
LEMMA NoSyncStep ==
    ASSUME Inv, SyncInv, NEW t \in Tasks, NEW x, Goes(t, x), NEW looks, Watches(t, looks),
           x.req.tool # "sync"
    PROVE  SyncInv'
  BY SyncStep

LEMMA EndsNoSync ==
    ASSUME Inv, SyncInv, NEW t \in Tasks, NEW stage \in {"failed", "cancelled"}, Ends(t, stage),
           NEW looks, Watches(t, looks)
    PROVE  SyncInv'
  <1> DEFINE x == [Idle EXCEPT !.stage = stage, !.cancel = task[t].cancel]
  <1>1. Goes(t, x) /\ x.req.tool # "sync"
    BY DEF Ends, Idle, NoRequest
  <1> HIDE DEF x
  <1> QED BY <1>1, NoSyncStep

\* Stages that a sync does not reach.
LEMMA NoSync ==
    ASSUME Inv, SyncInv, NEW t \in Tasks,
           task[t].stage \in {"planned", "stamped", "saved", "queued", "ending", "closing",
                              "look", "moving"}
    PROVE  task[t].req.tool # "sync"
  BY DEF SyncInv, SyncOK, SyncStages, SyncPlanned

\* Before a step of its own, a sync that nobody disturbs is undisturbed.
LEMMA Undisturbed ==
    ASSUME SyncInv, NEW t \in Tasks, NEW looks, Watches(t, looks),
           task[t].req.tool = "sync", ~disturbed'[t]
    PROVE  KnowsTrees(task[t], SourceIn(tree, task[t].req.to), tree[task[t].req.to])
  <1>1. disturbed'[t] = (Depends(t) /\ (disturbed[t] \/ (t # t /\ tree' # tree)))
    BY DEF Watches
  <1>2. ~disturbed[t]
    BY <1>1, Zenon DEF Depends
  <1> QED BY <1>2 DEF SyncInv, SyncOK

\* The same plan after a step that changes no file.
LEMMA SamePlan ==
    ASSUME NEW x, NEW y, NEW source, NEW target, KnowsTrees(y, source, target),
           x.copy = y.copy, x.conflicts = y.conflicts, x.deletes = y.deletes,
           x.installed = y.installed, x.req = y.req, x.listing = y.listing \/ x.stage = "done",
           y.stage \in SyncPlanned \ {"done", "stamping"},
           x.stage \in {"item", "copying", "installing", "deletes", "done"},
           x.stage = "installing" =>
               x.seen.size = y.listing[x.item].size /\ x.seen.mtime = y.listing[x.item].mtime
    PROVE  KnowsTrees(x, source, target)
  <1>1. y.listing = source
    BY DEF KnowsTrees, SyncPlanned
  <1>2. Promised(x) = Promised(y)
    BY DEF Promised
  <1>3. PlanOK(x, source, target)
    BY <1>2 DEF KnowsTrees, PlanOK, Alike
  <1>4. InstalledOK(x, source, target)
    BY DEF KnowsTrees, InstalledOK
  <1> QED BY <1>1, <1>3, <1>4 DEF KnowsTrees

LEMMA SourceOK ==
    ASSUME NEW t \in Tasks, task[t].req.tool = "sync", task[t].req.to \in Sides
    PROVE  Listing(t, Other(task[t].req.to)) = SourceIn(tree, task[t].req.to)
  BY DEF Listing, SyncListing, SourceIn, Sides, Other

LEMMA PlainSyncStep ==
    ASSUME Inv, SyncInv, NEW t \in Tasks, NEW x, Goes(t, x), NEW looks, Watches(t, looks),
           tree' = tree, x.req = task[t].req,
           x.copy = task[t].copy, x.conflicts = task[t].conflicts,
           x.deletes = task[t].deletes, x.installed = task[t].installed,
           x.listing = task[t].listing \/ x.stage = "done",
           task[t].stage \in SyncPlanned \ {"done", "stamping"},
           x.stage \in {"item", "copying", "installing", "deletes", "done"},
           x.stage = "installing" =>
               /\ x.seen.size = task[t].listing[x.item].size
               /\ x.seen.mtime = task[t].listing[x.item].mtime
    PROVE  SyncInv'
  <1>1. ASSUME x.req.tool = "sync", ~disturbed'[t]
        PROVE  KnowsTrees(x, SourceIn(tree', x.req.to), tree'[x.req.to])
    <2>1. KnowsTrees(task[t], SourceIn(tree, x.req.to), tree[x.req.to])
      BY <1>1, Undisturbed
    <2>2. KnowsTrees(x, SourceIn(tree, x.req.to), tree[x.req.to])
      BY <2>1, SamePlan
    <2> QED BY <2>2
  <1>2. x.stage \in SyncStages
    BY DEF SyncStages, SyncPlanned
  <1> QED BY <1>1, <1>2, SyncStep

LEMMA BeginSync ==
    ASSUME Inv, SyncInv, NEW t \in Tasks, NEW r \in Requests[t],
           BeginCommand(t, r) \/ BeginOnPage(t, r)
    PROVE  SyncInv'
  <1>1. ASSUME NEW stage, Begin(t, r, stage), r.tool = "sync" => stage = "source"
        PROVE  SyncInv'
    <2> DEFINE x == [Idle EXCEPT !.req = r, !.overwrite = r.overwrite, !.stage = stage]
    <2>1. x.req = r /\ x.stage = stage /\ x.installed = {}
      BY DEF Idle
    <2>2. Goes(t, x) /\ Watches(t, FALSE)
      BY <1>1 DEF Begin, Quiet
    <2> HIDE DEF x
    <2>3. ASSUME NEW source, NEW target, stage = "source"
          PROVE  KnowsTrees(x, source, target)
      BY <2>1, <2>3 DEF KnowsTrees, SyncPlanned
    <2>4. "source" \in SyncStages
      BY DEF SyncStages
    <2> QED BY <1>1, <2>1, <2>2, <2>3, <2>4, SyncStep
  <1> QED BY <1>1 DEF BeginCommand, BeginOnPage

LEMMA ListSourceSync ==
    ASSUME Inv, SyncInv, NEW t \in Tasks, ListSource(t)
    PROVE  SyncInv'
  <1> DEFINE old == task[t]
             l == Listing(t, Other(old.req.to))
             x == [old EXCEPT !.listing = l, !.stage = "target"]
  <1>1. old \in TaskState /\ old.stage = "source" /\ old.req.to \in Sides
    BY TaskParts DEF ListSource, At, TaskOK, AskOK, RequestState
  <1>2. Goes(t, x) /\ Watches(t, FALSE) /\ tree' = tree
    BY DEF ListSource
  <1>3. old.req.tool = "sync" => l = SourceIn(tree, old.req.to)
    BY <1>1, SourceOK
  <1> HIDE DEF l
  <1>4. x.stage = "target" /\ x.req = old.req /\ x.installed = old.installed /\ x.listing = l
    BY <1>1 DEF TaskState
  <1> HIDE DEF x
  <1>5. ASSUME x.req.tool = "sync", ~disturbed'[t]
        PROVE  KnowsTrees(x, SourceIn(tree', x.req.to), tree'[x.req.to])
    <2>1. KnowsTrees(old, SourceIn(tree, old.req.to), tree[old.req.to])
      BY <1>2, <1>4, <1>5, Undisturbed
    <2>2. x.installed = {}
      BY <1>1, <1>4, <2>1 DEF KnowsTrees
    <2>3. SourceIn(tree', x.req.to) = l
      BY <1>2, <1>3, <1>4, <1>5
    <2> QED BY <1>4, <2>2, <2>3 DEF KnowsTrees, SyncPlanned
  <1>6. x.stage \in SyncStages
    BY <1>4 DEF SyncStages
  <1> QED BY <1>2, <1>5, <1>6, SyncStep

LEMMA ListTargetSync ==
    ASSUME Inv, SyncInv, NEW t \in Tasks, ListTarget(t)
    PROVE  SyncInv'
  <1> DEFINE old == task[t]
             target == Listing(t, old.req.to)
             c == Files(old.listing) \ Files(target)
             f == Conflicts(t, target)
             d == DeleteCandidates(t, target)
             s == IF old.req.hash THEN "hashes" ELSE Planned(t)
             x == [old EXCEPT !.copy = c, !.conflicts = f, !.deletes = d, !.stage = s]
  <1>1. old \in TaskState /\ old.stage = "target" /\ old.req \in RequestState
    BY TaskParts DEF ListTarget, At, TaskOK, AskOK
  <1>2. Goes(t, x) /\ Watches(t, FALSE) /\ tree' = tree
    BY DEF ListTarget, Quiet, Still
  <1>3. \A n \in Names : target[n] = tree[old.req.to][n]
    <2>1. old.req.to \in Sides
      BY <1>1 DEF RequestState
    <2> QED BY <2>1 DEF Listing, SyncListing, Sides
  <1>4. /\ c \in SUBSET Names /\ f \in SUBSET Names /\ d \in SUBSET Names
        /\ s \in Stages
    BY PlannedOK DEF Conflicts, DeleteCandidates, Files, Stages, Planning
  <1>5. old.req.tool = "sync" => s \in {"hashes", "confirm"} /\ (s = "hashes" => old.req.hash)
    BY DEF Planned
  <1>6. old.req.tool = "sync" => /\ f = {n \in Files(old.listing) \cap Files(target) :
                                            ~Same(old.listing[n], target[n])}
                                 /\ d = Files(target) \ Files(old.listing)
    BY DEF Conflicts, DeleteCandidates
  <1> DEFINE cf == c \cup f
  <1>7. /\ x.stage = s /\ x.req = old.req /\ x.installed = old.installed
        /\ x.listing = old.listing /\ x.deletes = d /\ Promised(x) = cf
    <2>1. /\ x.stage = s /\ x.req = old.req /\ x.installed = old.installed
          /\ x.listing = old.listing /\ x.deletes = d /\ x.copy = c /\ x.conflicts = f
      <3> HIDE DEF c, f, d, s
      <3> QED BY <1>1 DEF TaskState
    <2> QED BY <2>1 DEF Promised
  <1> HIDE DEF x, s
  <1>8. ASSUME x.req.tool = "sync", ~disturbed'[t]
        PROVE  KnowsTrees(x, SourceIn(tree', x.req.to), tree'[x.req.to])
    <2> DEFINE S == SourceIn(tree, old.req.to)
               T == tree[old.req.to]
    <2>1. KnowsTrees(old, S, T)
      BY <1>2, <1>7, <1>8, Undisturbed
    <2>2. old.listing = S /\ old.installed = {}
      BY <1>1, <2>1 DEF KnowsTrees
    <2>3. \A n \in Names : (n \in Files(target)) = (T[n] # Absent)
      BY <1>3 DEF Files
    <2>4. \A n \in Names : (n \in Files(S)) = (S[n] # Absent)
      BY DEF Files
    <2> HIDE DEF S, target, T
    <2>5. Files(S) \subseteq Names /\ Files(target) \subseteq Names
      BY DEF Files
    <2>6. PlanOK(x, S, T)
      <3>1. \A n \in cf : n \in Names /\ S[n] # Absent
        BY <1>6, <1>7, <1>8, <2>2, <2>4, <2>5
      <3>2. \A n \in d : n \in Names /\ S[n] = Absent
        BY <1>6, <1>7, <1>8, <2>2, <2>4, <2>5
      <3>3. \A n \in Names : S[n] = Absent => n \in d \/ T[n] = Absent
        BY <1>6, <1>7, <1>8, <2>2, <2>3, <2>4
      <3>4. ASSUME NEW n \in Names, S[n] # Absent, n \notin cf
            PROVE  T[n] # Absent /\ Same(S[n], T[n])
        <4>1. T[n] # Absent
          BY <2>2, <2>3, <2>4, <3>4
        <4>2. target[n] = T[n]
          BY <1>3 DEF T
        <4> QED BY <1>6, <1>7, <1>8, <2>2, <2>3, <2>4, <3>4, <4>1, <4>2
      <3> HIDE DEF c, f, d, cf
      <3> QED BY <1>7, <2>2, <3>1, <3>2, <3>3, <3>4 DEF PlanOK, Alike
    <2>7. InstalledOK(x, S, T)
      BY <1>7, <2>2 DEF InstalledOK
    <2>8. KnowsTrees(x, S, T)
      BY <1>5, <1>7, <1>8, <2>2, <2>6, <2>7 DEF KnowsTrees
    <2>9. SourceIn(tree', x.req.to) = S /\ tree'[x.req.to] = T
      BY <1>2, <1>7 DEF S, T
    <2> QED BY <2>8, <2>9
  <1>9. x.req.tool = "sync" => x.stage \in SyncStages
    BY <1>5, <1>7 DEF SyncStages, SyncPlanned
  <1> QED BY <1>2, <1>8, <1>9, SyncStep

LEMMA CompareHashesSync ==
    ASSUME Inv, SyncInv, NEW t \in Tasks, CompareHashes(t)
    PROVE  SyncInv'
  <1> DEFINE old == task[t]
             Eq(n) == /\ Holds("local", n) /\ Holds("remote", n)
                      /\ tree["local"][n].content = tree["remote"][n].content
             f == {n \in old.conflicts : ~Eq(n)}
             s == Planned(t)
             x == [old EXCEPT !.conflicts = f, !.stage = s]
  <1>1. old \in TaskState /\ old.stage = "hashes" /\ old.req \in RequestState
    BY TaskParts DEF CompareHashes, At, TaskOK, AskOK
  <1>2. Goes(t, x) /\ Watches(t, FALSE) /\ tree' = tree
    BY DEF CompareHashes, Quiet, Still
  <1>3. old.req.tool = "sync" => s = "confirm"
    BY DEF Planned
  <1>4. /\ x.stage = s /\ x.req = old.req /\ x.installed = old.installed
        /\ x.listing = old.listing /\ x.deletes = old.deletes /\ x.copy = old.copy
        /\ x.conflicts = f
    <2> HIDE DEF f, s
    <2> QED BY <1>1 DEF TaskState
  <1> HIDE DEF x, s
  <1>5. ASSUME x.req.tool = "sync", ~disturbed'[t]
        PROVE  KnowsTrees(x, SourceIn(tree', x.req.to), tree'[x.req.to])
    <2> DEFINE S == SourceIn(tree, old.req.to)
               T == tree[old.req.to]
    <2>1. KnowsTrees(old, S, T)
      BY <1>2, <1>4, <1>5, Undisturbed
    <2>2. old.listing = S /\ old.installed = {} /\ PlanOK(old, S, T) /\ InstalledOK(old, S, T)
      BY <1>1, <2>1 DEF KnowsTrees, SyncPlanned
    <2>3. old.req.hash
      BY <1>1, <2>1 DEF KnowsTrees
    <2>4. ASSUME NEW n \in Names, Eq(n), S[n] # Absent
          PROVE  T[n] # Absent /\ S[n].content = T[n].content
      <3>1. old.req.to \in Sides
        BY <1>1 DEF RequestState
      <3>2. S[n] = tree[Other(old.req.to)][n]
        BY <2>4 DEF SourceIn
      <3> QED BY <2>4, <3>1, <3>2 DEF Sides, Other, Holds
    <2> HIDE DEF S, T, Eq
    <2>5. PlanOK(x, S, T)
      BY <1>4, <2>2, <2>3, <2>4 DEF PlanOK, Alike, Promised
    <2>6. InstalledOK(x, S, T)
      BY <1>4, <2>2 DEF InstalledOK
    <2>7. KnowsTrees(x, S, T)
      BY <1>3, <1>4, <1>5, <2>2, <2>5, <2>6 DEF KnowsTrees
    <2>8. SourceIn(tree', x.req.to) = S /\ tree'[x.req.to] = T
      BY <1>2, <1>4 DEF S, T
    <2> QED BY <2>7, <2>8
  <1>6. x.req.tool = "sync" => x.stage \in SyncStages
    BY <1>3, <1>4 DEF SyncStages, SyncPlanned
  <1> QED BY <1>2, <1>5, <1>6, SyncStep

LEMMA ConfirmSync ==
    ASSUME Inv, SyncInv, NEW t \in Tasks, Confirm(t)
    PROVE  SyncInv'
  <1> DEFINE old == task[t]
             i == old.copy \cup old.conflicts
             o == old.req.overwrite \/ old.conflicts # {}
  <1>1. old \in TaskState /\ old.stage = "confirm" /\ Watches(t, FALSE) /\ tree' = tree
    BY TaskParts DEF Confirm, At, Quiet, Still
  <1>2. CASE Ends(t, "failed")
    BY <1>1, <1>2, EndsNoSync
  <1>3. ASSUME NEW answer,
               Goes(t, [old EXCEPT !.items = i, !.overwrite = o,
                                   !.deleting = AsksToDelete(t) /\ answer \in {"unattended", "yes"},
                                   !.stage = "item"])
        PROVE  SyncInv'
    <2> DEFINE d == AsksToDelete(t) /\ answer \in {"unattended", "yes"}
               x == [old EXCEPT !.items = i, !.overwrite = o, !.deleting = d, !.stage = "item"]
    <2>1. Goes(t, x)
      BY <1>3
    <2> HIDE DEF i, o, d
    <2>2. /\ x.stage = "item" /\ x.req = old.req /\ x.copy = old.copy
          /\ x.conflicts = old.conflicts /\ x.deletes = old.deletes
          /\ x.installed = old.installed /\ x.listing = old.listing
      BY <1>1 DEF TaskState
    <2> HIDE DEF x
    <2>3. old.stage \in SyncPlanned \ {"done", "stamping"}
      BY <1>1 DEF SyncPlanned
    <2> QED BY <1>1, <2>1, <2>2, <2>3, PlainSyncStep
  <1>4. \/ Ends(t, "failed")
        \/ \E answer :
             Goes(t, [old EXCEPT !.items = i, !.overwrite = o,
                                 !.deleting = AsksToDelete(t) /\ answer \in {"unattended", "yes"},
                                 !.stage = "item"])
    <2>1. PICK overwrite \in {"unattended", "yes", "no", "eof"},
               delete \in {"unattended", "yes", "no", "eof"} :
            IF ~MayReplace(t, overwrite) \/ (AsksToDelete(t) /\ delete = "no")
            THEN Ends(t, "failed")
            ELSE Goes(t, [old EXCEPT !.items = i, !.overwrite = o,
                              !.deleting = AsksToDelete(t) /\ delete \in {"unattended", "yes"},
                              !.stage = "item"])
      BY Zenon DEF Confirm
    <2> QED BY <2>1, Zenon
  <1> QED BY <1>2, <1>3, <1>4, Zenon

LEMMA StartItemSync ==
    ASSUME Inv, SyncInv, NEW t \in Tasks, StartItem(t)
    PROVE  SyncInv'
  <1> DEFINE old == task[t]
             n == NextItem(t)
             source == tree[Other(old.req.to)][n]
             seen == IF Pulls(t) THEN Absent ELSE source
             x == [old EXCEPT !.item = n, !.stage = "copying", !.seen = seen]
  <1>1. old \in TaskState /\ old.stage = "item" /\ Watches(t, TRUE) /\ tree' = tree
    BY TaskParts DEF StartItem, At
  <1>2. Ends(t, "cancelled") \/ Ends(t, "failed") \/ Goes(t, x)
    BY DEF StartItem
  <1>3. CASE Ends(t, "cancelled") \/ Ends(t, "failed")
    BY <1>1, <1>3, EndsNoSync
  <1>4. CASE Goes(t, x)
    <2> HIDE DEF n, seen
    <2>1. /\ x.stage = "copying" /\ x.req = old.req /\ x.copy = old.copy
          /\ x.conflicts = old.conflicts /\ x.deletes = old.deletes
          /\ x.installed = old.installed /\ x.listing = old.listing
      BY <1>1 DEF TaskState
    <2>2. Goes(t, x)
      BY <1>4
    <2> HIDE DEF x
    <2>3. old.stage \in SyncPlanned \ {"done", "stamping"}
      BY <1>1 DEF SyncPlanned
    <2> QED BY <1>1, <2>1, <2>2, <2>3, PlainSyncStep
  <1> QED BY <1>2, <1>3, <1>4

LEMMA ReadChunkSync ==
    ASSUME Inv, SyncInv, NEW t \in Tasks, ReadChunk(t)
    PROVE  SyncInv'
  <1>1. task' = task /\ tree' = tree
    BY DEF ReadChunk
  <1> SUFFICES ASSUME NEW u \in Tasks PROVE SyncOK(u)'
    BY DEF SyncInv
  <1>2. disturbed'[u] = (Depends(u) /\ (disturbed[u] \/ (u # t /\ tree' # tree)))
    BY DEF ReadChunk, Watches
  <1>3. task[u].req.tool = "sync" /\ ~disturbed'[u] => ~disturbed[u]
    BY <1>2 DEF Depends
  <1> QED BY <1>1, <1>3 DEF SyncInv, SyncOK

LEMMA VerifySync ==
    ASSUME Inv, SyncInv, NEW t \in Tasks, Verify(t)
    PROVE  SyncInv'
  <1> DEFINE old == task[t]
             File1(c) == [content |-> c, size |-> old.listing[old.item].size,
                          mtime |-> PlannedTime(t)]
  <1>1. old \in TaskState /\ old.stage = "copying" /\ Watches(t, TRUE) /\ tree' = tree
    BY TaskParts DEF Verify, At, Still
  <1>2. CASE Ends(t, "failed")
    BY <1>1, <1>2, EndsNoSync
  <1>3. ASSUME NEW c, Goes(t, [old EXCEPT !.seen = File1(c), !.stage = "installing"])
        PROVE  SyncInv'
    <2> DEFINE s == File1(c)
               x == [old EXCEPT !.seen = s, !.stage = "installing"]
    <2>1. s.size = old.listing[old.item].size /\ s.mtime = old.listing[old.item].mtime
      BY DEF PlannedTime
    <2>2. Goes(t, x)
      BY <1>3
    <2> HIDE DEF s
    <2>3. /\ x.stage = "installing" /\ x.req = old.req /\ x.copy = old.copy
          /\ x.conflicts = old.conflicts /\ x.deletes = old.deletes
          /\ x.installed = old.installed /\ x.listing = old.listing
          /\ x.item = old.item /\ x.seen = s
      BY <1>1 DEF TaskState
    <2> HIDE DEF x
    <2>4. old.stage \in SyncPlanned \ {"done", "stamping"}
      BY <1>1 DEF SyncPlanned
    <2> QED BY <1>1, <2>1, <2>2, <2>3, <2>4, PlainSyncStep
  <1> QED BY <1>2, <1>3 DEF Verify

LEMMA SourceKept ==
    ASSUME NEW trees, NEW trees2, NEW to \in Sides,
           \A side \in Sides : side # to => trees2[side] = trees[side]
    PROVE  SourceIn(trees2, to) = SourceIn(trees, to)
  <1>1. Other(to) \in Sides /\ Other(to) # to
    BY DEF Sides, Other
  <1>2. trees2[Other(to)] = trees[Other(to)]
    BY <1>1
  <1> QED BY <1>2 DEF SourceIn

\* What a step that changes one file leaves.
LEMMA OneFile ==
    ASSUME Inv, NEW side \in Sides, NEW n \in Names, NEW f,
           tree' = [tree EXCEPT ![side][n] = f]
    PROVE  /\ tree'[side][n] = f
           /\ \A m \in Names : m # n => tree'[side][m] = tree[side][m]
           /\ \A other \in Sides : other # side => tree'[other] = tree[other]
  <1>1. tree \in [Sides -> Tree] /\ tree[side] \in Tree
    BY DEF Inv, TreesOK
  <1> QED BY <1>1 DEF Tree

LEMMA InstallSync ==
    ASSUME Inv, SyncInv, NEW t \in Tasks, Install(t)
    PROVE  SyncInv'
  <1> DEFINE old == task[t]
             to == old.req.to
             i == old.installed \cup {old.item}
             f == [old.seen EXCEPT !.mtime = clock + Ahead[to]]
             x == [old EXCEPT !.installed = i, !.stage = "stamping"]
  <1>1. /\ old \in TaskState /\ old.stage = "installing" /\ PromiseOK(old) /\ ItemOK(old)
        /\ Watches(t, FALSE) /\ Goes(t, x) /\ tree' = [tree EXCEPT ![to][old.item] = f]
    BY TaskParts DEF Install, At, TaskOK
  <1>2. old.item \in Names /\ to \in Sides /\ old.seen \in File /\ old.item \in Promised(old)
        /\ Promised(old) \subseteq Names /\ Promised(old) \subseteq Files(old.listing)
    <2>1. old.item \in Names /\ to \in Sides
      BY <1>1, TaskParts, PlaceOK
    <2>2. Promised(old) \subseteq Names
      BY <1>1 DEF Promised, TaskState
    <2> QED BY <1>1, <2>1, <2>2 DEF ItemOK, PromiseOK, Transferring, Final
  <1>3. f.size = old.seen.size /\ f # Absent
    <2>1. clock + Ahead[to] \in Nat
      BY <1>2, PlannedTransferAssumption DEF Inv, TreesOK
    <2> QED BY <1>2, <2>1, AbsentOK, DatedOK DEF File
  <1>4. /\ tree'[to][old.item] = f
        /\ \A m \in Names : m # old.item => tree'[to][m] = tree[to][m]
        /\ \A other \in Sides : other # to => tree'[other] = tree[other]
    <2> HIDE DEF f, x
    <2> QED BY <1>1, <1>2, OneFile
  <1>5. /\ x.stage = "stamping" /\ x.req = old.req /\ x.copy = old.copy
        /\ x.conflicts = old.conflicts /\ x.deletes = old.deletes
        /\ x.installed = i /\ x.listing = old.listing /\ x.item = old.item /\ x.seen = old.seen
        /\ Promised(x) = Promised(old)
    <2> HIDE DEF i
    <2>1. /\ x.stage = "stamping" /\ x.req = old.req /\ x.copy = old.copy
          /\ x.conflicts = old.conflicts /\ x.deletes = old.deletes
          /\ x.installed = i /\ x.listing = old.listing /\ x.item = old.item /\ x.seen = old.seen
      BY <1>1 DEF TaskState
    <2> QED BY <2>1 DEF Promised
  <1> HIDE DEF x, f
  <1>6. ASSUME x.req.tool = "sync", ~disturbed'[t]
        PROVE  KnowsTrees(x, SourceIn(tree', x.req.to), tree'[x.req.to])
    <2> DEFINE S == SourceIn(tree, to)
               T == tree[to]
               U == tree'[to]
    <2>1. KnowsTrees(old, S, T)
      BY <1>1, <1>5, <1>6, Undisturbed
    <2>2. SourceIn(tree', to) = S
      BY <1>2, <1>4, SourceKept
    <2>3. /\ old.listing = S /\ PlanOK(old, S, T) /\ InstalledOK(old, S, T)
          /\ old.seen.size = S[old.item].size /\ old.seen.mtime = S[old.item].mtime
      BY <1>1, <2>1 DEF KnowsTrees, SyncPlanned
    <2>4. U[old.item] = f /\ \A m \in Names : m # old.item => U[m] = T[m]
      BY <1>4
    <2>5. old.item \notin old.deletes /\ S[old.item] # Absent /\ old.installed \in SUBSET Names
      BY <1>1, <1>2, <2>3 DEF PlanOK, TaskState
    <2> HIDE DEF S, T, U
    <2>6. PlanOK(x, S, U)
      BY <1>2, <1>5, <2>3, <2>4, <2>5 DEF PlanOK, Alike
    <2>7. InstalledOK(x, S, U)
      BY <1>1, <1>2, <1>3, <1>5, <2>3, <2>4, <2>5 DEF InstalledOK
    <2>8. KnowsTrees(x, S, U)
      BY <1>5, <2>3, <2>6, <2>7 DEF KnowsTrees
    <2> QED BY <1>5, <2>2, <2>8 DEF U
  <1>7. x.stage \in SyncStages
    BY <1>5 DEF SyncStages, SyncPlanned
  <1> QED BY <1>1, <1>6, <1>7, SyncStep

LEMMA SameTimes == \A a \in Nat : Near(a, a)
  BY PlannedTransferAssumption DEF Near

LEMMA StampSync ==
    ASSUME Inv, SyncInv, NEW t \in Tasks, Stamp(t)
    PROVE  SyncInv'
  <1> DEFINE old == task[t]
             to == old.req.to
             f == [tree[to][old.item] EXCEPT !.mtime = old.seen.mtime]
             x == [old EXCEPT !.item = 0, !.seen = Absent, !.stage = "item"]
  <1>1. /\ old \in TaskState /\ old.stage = "stamping" /\ PromiseOK(old) /\ ItemOK(old)
        /\ Watches(t, FALSE)
    BY TaskParts DEF Stamp, At, TaskOK
  <1>2. old.item \in Names /\ to \in Sides /\ old.seen \in File /\ old.item \in Promised(old)
        /\ Promised(old) \subseteq Names
    <2>1. old.item \in Names /\ to \in Sides
      BY <1>1, TaskParts, PlaceOK
    <2>2. Promised(old) \subseteq Names
      BY <1>1 DEF Promised, TaskState
    <2> QED BY <1>1, <2>1, <2>2 DEF ItemOK, PromiseOK, Transferring, Final
  <1>3. CASE Ends(t, "failed")
    BY <1>1, <1>3, EndsNoSync
  <1>4. CASE Holds(to, old.item) /\ tree' = [tree EXCEPT ![to][old.item] = f] /\ Goes(t, x)
    <2>0. tree[to][old.item] \in File
      BY <1>2, <1>4, TaskParts DEF Holds, Tree
    <2>1. f.size = tree[to][old.item].size /\ f.mtime = old.seen.mtime /\ f # Absent
      <3>1. old.seen.mtime \in Nat
        BY <1>2 DEF File
      <3> QED BY <2>0, <3>1, AbsentOK, DatedOK DEF File
    <2>2. /\ tree'[to][old.item] = f
          /\ \A m \in Names : m # old.item => tree'[to][m] = tree[to][m]
          /\ \A other \in Sides : other # to => tree'[other] = tree[other]
      <3> HIDE DEF f, x
      <3> QED BY <1>2, <1>4, OneFile
    <2>3. /\ x.stage = "item" /\ x.req = old.req /\ x.copy = old.copy
          /\ x.conflicts = old.conflicts /\ x.deletes = old.deletes
          /\ x.installed = old.installed /\ x.listing = old.listing
          /\ Promised(x) = Promised(old)
      BY <1>1 DEF TaskState, Promised
    <2>4. Goes(t, x)
      BY <1>4
    <2> HIDE DEF x, f
    <2>5. ASSUME x.req.tool = "sync", ~disturbed'[t]
          PROVE  KnowsTrees(x, SourceIn(tree', x.req.to), tree'[x.req.to])
      <3> DEFINE S == SourceIn(tree, to)
                 T == tree[to]
                 U == tree'[to]
      <3>1. KnowsTrees(old, S, T)
        BY <1>1, <2>3, <2>5, Undisturbed
      <3>2. SourceIn(tree', to) = S
        BY <1>2, <2>2, SourceKept
      <3>3. /\ old.listing = S /\ PlanOK(old, S, T) /\ InstalledOK(old, S, T)
            /\ old.seen.size = S[old.item].size /\ old.seen.mtime = S[old.item].mtime
        BY <1>1, <3>1 DEF KnowsTrees, SyncPlanned
      <3>4. U[old.item] = f /\ \A m \in Names : m # old.item => U[m] = T[m]
        BY <2>2
      <3>5. /\ old.item \notin old.deletes /\ S[old.item] # Absent
            /\ old.installed \in SUBSET Names /\ f.size = T[old.item].size
        BY <1>1, <1>2, <2>1, <3>3 DEF PlanOK, TaskState
      <3>6. old.item \in old.installed => Same(S[old.item], f)
        <4>1. old.seen.mtime \in Nat
          BY <1>2, PlannedTransferAssumption DEF File
        <4>2. old.item \in old.installed => S[old.item].size = T[old.item].size
          BY <3>3 DEF InstalledOK
        <4> QED BY <2>1, <3>3, <3>5, <4>1, <4>2, SameTimes DEF Same
      <3> HIDE DEF S, T, U
      <3>7. PlanOK(x, S, U)
        BY <1>2, <2>1, <2>3, <3>3, <3>4, <3>5 DEF PlanOK, Alike
      <3>8. InstalledOK(x, S, U)
        <4> SUFFICES ASSUME NEW n \in old.installed
                     PROVE  U[n] # Absent /\ S[n].size = U[n].size /\ Same(S[n], U[n])
          BY <2>3 DEF InstalledOK
        <4>1. CASE n = old.item
          BY <2>1, <3>3, <3>4, <3>5, <3>6, <4>1 DEF InstalledOK
        <4>2. CASE n # old.item
          BY <3>3, <3>4, <3>5, <4>2 DEF InstalledOK
        <4> QED BY <4>1, <4>2
      <3>9. KnowsTrees(x, S, U)
        BY <2>3, <3>3, <3>7, <3>8 DEF KnowsTrees
      <3> QED BY <2>3, <3>2, <3>9 DEF U
    <2>6. x.stage \in SyncStages
      BY <2>3 DEF SyncStages, SyncPlanned
    <2> QED BY <1>1, <2>4, <2>5, <2>6, SyncStep
  <1>5. \/ Ends(t, "failed")
        \/ Holds(to, old.item) /\ tree' = [tree EXCEPT ![to][old.item] = f] /\ Goes(t, x)
    BY DEF Stamp
  <1> QED BY <1>3, <1>4, <1>5

LEMMA AllInstalledSync ==
    ASSUME Inv, SyncInv, NEW t \in Tasks, AllInstalled(t)
    PROVE  SyncInv'
  <1> DEFINE old == task[t]
             finished == [old EXCEPT !.stage = "done", !.listing = Idle.listing, !.item = 0,
                                     !.seen = Absent]
             onward(s) == [old EXCEPT !.stage = s]
  <1>1. old \in TaskState /\ old.stage = "item" /\ Watches(t, FALSE) /\ tree' = tree
    BY TaskParts DEF AllInstalled, At, Quiet, Still
  <1>2. old.stage \in SyncPlanned \ {"done", "stamping"}
    BY <1>1 DEF SyncPlanned
  <1>3. CASE Goes(t, finished)
    <2> DEFINE x == finished
    <2>1. /\ x.stage = "done" /\ x.req = old.req /\ x.copy = old.copy
          /\ x.conflicts = old.conflicts /\ x.deletes = old.deletes
          /\ x.installed = old.installed
      BY <1>1 DEF TaskState
    <2> HIDE DEF finished
    <2> QED BY <1>1, <1>2, <1>3, <2>1, PlainSyncStep
  <1>4. CASE old.req.tool = "job" /\ Goes(t, onward("ending"))
    <2> DEFINE x == onward("ending")
    <2>1. x.req = old.req
      BY <1>1 DEF TaskState
    <2> HIDE DEF onward
    <2> QED BY <1>1, <1>4, <2>1, NoSyncStep
  <1>5. CASE Goes(t, onward("deletes"))
    <2> DEFINE x == onward("deletes")
    <2>1. /\ x.stage = "deletes" /\ x.req = old.req /\ x.copy = old.copy
          /\ x.conflicts = old.conflicts /\ x.deletes = old.deletes
          /\ x.installed = old.installed /\ x.listing = old.listing
      BY <1>1 DEF TaskState
    <2> HIDE DEF onward
    <2> QED BY <1>1, <1>2, <1>5, <2>1, PlainSyncStep
  <1> QED BY <1>3, <1>4, <1>5 DEF AllInstalled, Ends, To

LEMMA DeleteItemSync ==
    ASSUME Inv, SyncInv, NEW t \in Tasks, DeleteItem(t)
    PROVE  SyncInv'
  <1> DEFINE old == task[t]
             n == Least(old.deletes)
             rest == old.deletes \ {n}
             to == old.req.to
             finished == [old EXCEPT !.deletes = {}, !.stage = "done", !.listing = Idle.listing]
             onward == [old EXCEPT !.deletes = rest]
  <1>1. /\ old \in TaskState /\ old.stage = "deletes" /\ PromiseOK(old) /\ AskOK(old)
        /\ Watches(t, FALSE)
    BY TaskParts DEF DeleteItem, At, TaskOK
  <1>2. n \in old.deletes /\ n \in Names /\ to \in Sides
    <2>1. old.deletes \in SUBSET Names /\ old.deletes # {} /\ to \in Sides
      BY <1>1 DEF TaskState, PromiseOK, AskOK, RequestState
    <2> QED BY <2>1, LeastOK, Zenon
  <1>3. CASE Ends(t, "failed")
    BY <1>1, <1>3, EndsNoSync
  <1>4. ASSUME NEW x, Goes(t, x), tree' = [tree EXCEPT ![to][n] = Absent],
               x.req = old.req, x.copy = old.copy, x.conflicts = old.conflicts,
               x.installed = old.installed, x.deletes = rest,
               x.stage = "done" \/ (x.stage = "deletes" /\ x.listing = old.listing)
        PROVE  SyncInv'
    <2>1. /\ tree'[to][n] = Absent
          /\ \A m \in Names : m # n => tree'[to][m] = tree[to][m]
          /\ \A other \in Sides : other # to => tree'[other] = tree[other]
      BY <1>2, <1>4, OneFile
    <2>2. Promised(x) = Promised(old)
      BY <1>4 DEF Promised
    <2>3. ASSUME x.req.tool = "sync", ~disturbed'[t]
          PROVE  KnowsTrees(x, SourceIn(tree', x.req.to), tree'[x.req.to])
      <3> DEFINE S == SourceIn(tree, to)
                 T == tree[to]
                 U == tree'[to]
      <3>1. KnowsTrees(old, S, T)
        BY <1>1, <1>4, <2>3, Undisturbed
      <3>2. SourceIn(tree', to) = S
        BY <1>2, <2>1, SourceKept
      <3>3. old.listing = S /\ PlanOK(old, S, T) /\ InstalledOK(old, S, T)
        BY <1>1, <3>1 DEF KnowsTrees, SyncPlanned
      <3>4. U[n] = Absent /\ \A m \in Names : m # n => U[m] = T[m]
        BY <2>1
      <3>5. /\ S[n] = Absent /\ n \notin Promised(old) \cup old.installed
            /\ old.installed \in SUBSET Names
        BY <1>1, <1>2, <3>3 DEF PlanOK, TaskState
      <3> HIDE DEF S, T, U, n
      <3>6. PlanOK(x, S, U)
        BY <1>2, <1>4, <2>2, <3>3, <3>4, <3>5 DEF PlanOK, Alike
      <3>7. InstalledOK(x, S, U)
        BY <1>1, <1>4, <3>3, <3>4, <3>5 DEF InstalledOK
      <3>8. KnowsTrees(x, S, U)
        BY <1>4, <3>3, <3>6, <3>7 DEF KnowsTrees
      <3> QED BY <1>4, <3>2, <3>8 DEF U
    <2>4. x.stage \in SyncStages
      BY <1>4 DEF SyncStages, SyncPlanned
    <2> QED BY <1>1, <1>4, <2>3, <2>4, SyncStep
  <1>5. CASE tree' = [tree EXCEPT ![to][n] = Absent] /\ rest = {} /\ Goes(t, finished)
    <2> DEFINE x == finished
    <2> HIDE DEF rest
    <2>1. /\ x.stage = "done" /\ x.req = old.req /\ x.copy = old.copy
          /\ x.conflicts = old.conflicts /\ x.deletes = rest /\ x.installed = old.installed
      BY <1>1, <1>5 DEF TaskState
    <2> HIDE DEF finished
    <2> QED BY <1>4, <1>5, <2>1
  <1>6. CASE tree' = [tree EXCEPT ![to][n] = Absent] /\ Goes(t, onward)
    <2> DEFINE x == onward
    <2> HIDE DEF rest
    <2>1. /\ x.stage = "deletes" /\ x.req = old.req /\ x.copy = old.copy
          /\ x.conflicts = old.conflicts /\ x.deletes = rest /\ x.installed = old.installed
          /\ x.listing = old.listing
      BY <1>1 DEF TaskState
    <2> HIDE DEF onward
    <2> QED BY <1>4, <1>6, <2>1
  <1> HIDE DEF finished, onward
  <1>7. \/ Ends(t, "failed")
        \/ tree' = [tree EXCEPT ![to][n] = Absent] /\ rest = {} /\ Goes(t, finished)
        \/ tree' = [tree EXCEPT ![to][n] = Absent] /\ Goes(t, onward)
    BY DEF DeleteItem, finished, onward
  <1> QED BY <1>3, <1>5, <1>6, <1>7

\* Steps of tasks that are no syncs, or that end one.
LEMMA OthersSync ==
    ASSUME Inv, SyncInv, NEW t \in Tasks,
           \/ StampPlan(t) \/ SavePlan(t) \/ StartJob(t) \/ RunJob(t) \/ CancelJob(t)
           \/ StopCopying(t) \/ Fails(t) \/ CheckCancelled(t) \/ JobDone(t)
           \/ LookForDestination(t) \/ Move(t)
    PROVE  SyncInv'
  <1> DEFINE old == task[t]
  <1>1. old \in TaskState
    BY TaskParts
  <1>2. Watches(t, FALSE) \/ Watches(t, TRUE)
    BY DEF StampPlan, SavePlan, StartJob, RunJob, CancelJob, StopCopying, Fails,
           CheckCancelled, JobDone, LookForDestination, Move, Quiet
  <1>3. CASE Ends(t, "failed") \/ Ends(t, "cancelled")
    BY <1>2, <1>3, EndsNoSync
  <1>4. ASSUME NEW x, Goes(t, x), x.req = old.req, old.req.tool # "sync"
        PROVE  SyncInv'
    BY <1>2, <1>4, NoSyncStep
  <1>5. CASE StampPlan(t) \/ SavePlan(t) \/ StartJob(t)
    <2>1. old.req.tool # "sync"
      BY <1>5, NoSync DEF StampPlan, SavePlan, StartJob, At
    <2>2. \A c, s : /\ [old EXCEPT !.created = c, !.stage = s].req = old.req
                    /\ [old EXCEPT !.stage = s].req = old.req
      BY <1>1 DEF TaskState
    <2>3. \E x : Goes(t, x) /\ x.req = old.req
      BY <1>5, <2>2, Zenon DEF StampPlan, SavePlan, StartJob, To
    <2> QED BY <1>4, <2>1, <2>3
  <1>6. CASE CancelJob(t)
    <2>1. Goes(t, [old EXCEPT !.cancel = TRUE]) /\ old.req.tool # "sync"
      BY <1>6 DEF CancelJob, Started
    <2>2. [old EXCEPT !.cancel = TRUE].req = old.req
      BY <1>1 DEF TaskState
    <2> QED BY <1>4, <2>1, <2>2
  <1>7. CASE RunJob(t) \/ CheckCancelled(t) \/ JobDone(t)
    <2>1. old.req.tool # "sync"
      BY <1>7, NoSync DEF RunJob, CheckCancelled, JobDone, At
    <2>2. \/ Ends(t, "failed") \/ Ends(t, "cancelled") \/ Ends(t, "done")
          \/ To(t, "source") \/ To(t, "confirm") \/ To(t, "closing")
      BY <1>7 DEF RunJob, CheckCancelled, JobDone
    <2>3. CASE Ends(t, "done")
      <3>1. /\ Goes(t, [old EXCEPT !.stage = "done", !.listing = Idle.listing, !.item = 0,
                                   !.seen = Absent])
            /\ [old EXCEPT !.stage = "done", !.listing = Idle.listing, !.item = 0,
                           !.seen = Absent].req = old.req
        BY <1>1, <2>3 DEF Ends, TaskState
      <3> QED BY <1>4, <2>1, <3>1
    <2>4. ASSUME NEW s, To(t, s)
          PROVE  SyncInv'
      <3>1. Goes(t, [old EXCEPT !.stage = s]) /\ [old EXCEPT !.stage = s].req = old.req
        BY <1>1, <2>4 DEF To, TaskState
      <3> QED BY <1>4, <2>1, <3>1
    <2> QED BY <1>3, <2>2, <2>3, <2>4
  <1>8. CASE StopCopying(t) \/ Fails(t)
    BY <1>3, <1>8 DEF StopCopying, Fails, GivesUp
  <1>9. CASE LookForDestination(t) \/ Move(t)
    <2>1. old.req.tool # "sync"
      BY <1>9, NoSync DEF LookForDestination, Move, At
    <2>2. Ends(t, "failed") \/ \E x : Goes(t, x) /\ x.req = old.req
      <3>1. \A s, i : [old EXCEPT !.item = i, !.stage = s].req = old.req
        BY <1>1 DEF TaskState
      <3>2. [old EXCEPT !.stage = "done", !.listing = Idle.listing, !.item = 0,
                        !.seen = Absent].req = old.req
        BY <1>1 DEF TaskState
      <3>3. CASE LookForDestination(t)
        BY <3>1, <3>3 DEF LookForDestination
      <3>4. CASE Move(t)
        BY <3>2, <3>4 DEF Move, Ends
      <3> QED BY <1>9, <3>3, <3>4
    <2> QED BY <1>3, <1>4, <2>1, <2>2
  <1> QED BY <1>5, <1>6, <1>7, <1>8, <1>9

LEMMA EditSync ==
    ASSUME SyncInv, NEW side \in Sides, NEW n \in Names, NEW c, Edit(side, n, c)
    PROVE  SyncInv'
  <1> SUFFICES ASSUME NEW t \in Tasks PROVE SyncOK(t)'
    BY DEF SyncInv
  <1>1. task' = task /\ disturbed' = [u \in Tasks |-> Depends(u)] /\ SyncOK(t)
    BY DEF Edit, SyncInv
  <1>2. task[t].req.tool = "sync" => disturbed'[t]
    BY <1>1 DEF Depends
  <1> QED BY <1>1, <1>2 DEF SyncOK

LEMMA SyncNext == Inv /\ SyncInv /\ [Next]_vars => SyncInv'
  <1> SUFFICES ASSUME Inv, SyncInv, [Next]_vars PROVE SyncInv'
    OBVIOUS
  <1>1. CASE UNCHANGED <<task, disturbed, tree>>
    BY <1>1 DEF SyncInv, SyncOK
  <1>2. CASE UNCHANGED vars \/ OtherPlan
    BY <1>1, <1>2 DEF vars, OtherPlan
  <1>3. ASSUME NEW t \in Tasks, NEW r \in Requests[t], BeginCommand(t, r) \/ BeginOnPage(t, r)
        PROVE  SyncInv'
    BY <1>3, BeginSync
  <1>4. ASSUME NEW t \in Tasks, StartJob(t) \/ CancelJob(t) \/ Fails(t)
        PROVE  SyncInv'
    BY <1>4, OthersSync
  <1>5. ASSUME NEW t \in Tasks, Proceeds(t)
        PROVE  SyncInv'
    BY Zenon, <1>5, ListSourceSync, ListTargetSync, CompareHashesSync, ConfirmSync,
       StartItemSync, ReadChunkSync, VerifySync, InstallSync, StampSync, AllInstalledSync, DeleteItemSync,
       OthersSync DEF Proceeds
  <1>6. ASSUME NEW side \in Sides, NEW n \in Names, NEW c, Edit(side, n, c)
        PROVE  SyncInv'
    BY <1>6, EditSync
  <1> QED BY <1>2, <1>3, <1>4, <1>5, <1>6, Zenon DEF Next

LEMMA SyncInit == Init => SyncInv
  BY DEF Init, SyncInv, SyncOK, Idle, NoRequest

\* A sync that is done leaves nothing to do, unless somebody else wrote since it began,
\* for any trees, patterns, items and deletions and beside any other tasks
\* (build_sync_plan of the next sync would be empty).
THEOREM SyncTheorem == Spec => []SyncConverges
  <1>1. Inv /\ SyncInv => SyncConverges
    <2> SUFFICES ASSUME Inv, SyncInv, NEW t \in Tasks, task[t].stage = "done",
                        task[t].req.tool = "sync", task[t].deletes = {}, ~disturbed[t],
                        NEW n \in Names
                 PROVE  LET source == Listing(t, Other(task[t].req.to))
                            target == tree[task[t].req.to]
                        IN  /\ (source[n] = Absent) = (target[n] = Absent)
                            /\ \/ Same(source[n], target[n])
                               \/ task[t].req.hash /\ source[n].content = target[n].content
      BY DEF SyncConverges, At
    <2> DEFINE x == task[t]
               S == SourceIn(tree, x.req.to)
               T == tree[x.req.to]
    <2>1. x.req.to \in Sides /\ Promised(x) \subseteq x.installed
      BY TaskParts DEF TaskOK, AskOK, PromiseOK, RequestState
    <2>2. Listing(t, Other(x.req.to)) = S
      BY <2>1, SourceOK
    <2>3. PlanOK(x, S, T) /\ InstalledOK(x, S, T)
      BY DEF SyncInv, SyncOK, KnowsTrees, SyncPlanned
    <2> HIDE DEF S, T
    <2>4. CASE S[n] = Absent
      <3>1. T[n] = Absent
        BY <2>3, <2>4 DEF PlanOK
      <3>2. Absent.mtime \in Nat
        BY DEF Absent
      <3> QED BY <2>2, <2>4, <3>1, <3>2, SameTimes DEF Same, T
    <2>5. CASE S[n] # Absent /\ n \in x.installed
      BY <2>2, <2>3, <2>5 DEF InstalledOK, T
    <2>6. CASE S[n] # Absent /\ n \notin x.installed
      BY <2>1, <2>2, <2>3, <2>6 DEF PlanOK, Alike, T
    <2> QED BY <2>4, <2>5, <2>6
  <1>2. Spec => []SyncInv
    BY SyncInit, SyncNext, Invariance, PTL DEF Spec
  <1> QED BY <1>1, <1>2, Invariance, PTL
-----------------------------------------------------------------------------
(* What looks the same.                                                    *)

InFlight == {"copying", "installing", "stamping"}
Under(t, n) == task[t].item = n /\ task[t].stage \in InFlight

\* No file is newer than the last write of its name, but one that is about to get
\* the time of its plan; no plan is newer either.
StampingAt(side, n) ==
    \E t \in Tasks : task[t].stage = "stamping" /\ task[t].item = n /\ task[t].req.to = side

TimesOK(n) ==
    /\ \A side \in Sides : tree[side][n].mtime <= last[n] \/ StampingAt(side, n)
    /\ \A t \in Tasks : task[t].listing[n].mtime <= last[n]

Source(t, n) == tree[Other(task[t].req.to)][n]

\* What was read is what the source holds still, or the source is newer than the plan.
ReadOK(t, n) ==
    \/ Source(t, n) = Absent
    \/ Source(t, n).mtime > task[t].listing[n].mtime + Tolerance
    \/ IF Pulls(t) THEN left[n] \subseteq {Source(t, n).content}
       ELSE task[t].seen.content = Source(t, n).content

\* What is going to be installed does not look like another content of the source.
SentOK(t, n) ==
    /\ task[t].seen.mtime = task[t].listing[n].mtime
    /\ \/ Source(t, n) = Absent \/ ~Same(task[t].seen, Source(t, n))
       \/ task[t].seen.content = Source(t, n).content

\* What was installed is there until its time is set.
PutOK(t, n) ==
    LET f == tree[task[t].req.to][n] IN
    f = Absent \/ (f.content = task[t].seen.content /\ f.size = task[t].seen.size)

UnderOK(t, n) ==
    /\ task[t].stage = "copying" => ReadOK(t, n)
    /\ task[t].stage \in {"installing", "stamping"} => SentOK(t, n)
    /\ task[t].stage = "stamping" => PutOK(t, n)

OneWay(n) ==
    \A t, u \in Tasks : Under(t, n) /\ Under(u, n) => task[t].req.to = task[u].req.to

NameOK(n) ==
    /\ TimesOK(n) /\ OneWay(n)
    /\ \A t \in Tasks : Under(t, n) => UnderOK(t, n)
    /\ Twins(n) => Stamping(n)

NamesInv == \A n \in Names \ blurred : NameOK(n)

LEMMA FileTimes ==
    ASSUME Inv, NEW n \in Names
    PROVE  /\ \A side \in Sides : tree[side][n] \in File \cup {Absent}
                                  /\ tree[side][n].mtime \in Nat
           /\ last[n] \in Nat /\ clock \in Nat
           /\ \A t \in Tasks : task[t].listing[n].mtime \in Nat
                               /\ task[t].listing[n] \in File \cup {Absent}
  <1>1. \A f \in File \cup {Absent} : f.mtime \in Nat
    BY AbsentOK, PlannedTransferAssumption DEF File
  <1>2. \A side \in Sides : tree[side][n] \in File \cup {Absent}
    BY DEF Inv, TreesOK, Tree
  <1>3. last[n] \in Nat /\ clock \in Nat
    BY PlannedTransferAssumption DEF Inv, TreesOK
  <1>4. \A t \in Tasks : task[t].listing[n] \in File \cup {Absent}
    BY DEF Inv, TasksOK, TaskOK, TaskState, Tree
  <1> QED BY <1>1, <1>2, <1>3, <1>4

LEMMA AbsentTime == Absent.mtime = 0
  BY DEF Absent

\* No two files of the name are twins as soon as one of them is absent, or their
\* times are apart, or their contents are the same.
LEMMA NoTwins ==
    ASSUME NEW n, NEW side \in Sides,
           \/ tree[side][n] = Absent \/ tree[Other(side)][n] = Absent
           \/ ~Same(tree[side][n], tree[Other(side)][n])
           \/ tree[side][n].content = tree[Other(side)][n].content
    PROVE  ~Twins(n)
  <1>1. \A f, g : Same(f, g) = Same(g, f)
    BY DEF Same, Near
  <1>2. CASE side = "local"
    BY <1>2 DEF Twins, Holds, Other
  <1>3. CASE side = "remote"
    BY <1>1, <1>3 DEF Twins, Holds, Other
  <1> QED BY <1>2, <1>3 DEF Sides

\* A step of t that leaves the files of n, or takes one away.
LEMMA NameStep ==
    ASSUME Inv, NEW t \in Tasks, NEW x, Goes(t, x), NEW n \in Names, NameOK(n),
           last' = last, left'[n] \subseteq left[n],
           \A side \in Sides : tree'[side][n] \in {tree[side][n], Absent},
           x.listing[n].mtime <= last[n],
           x.item = n /\ x.stage \in InFlight =>
               /\ UnderOK(t, n)'
               /\ \A u \in Tasks \ {t} : Under(u, n) => task[u].req.to = x.req.to,
           task[t].stage = "stamping" /\ task[t].item = n =>
               \/ x.stage = "stamping" /\ x.item = n /\ x.req.to = task[t].req.to
               \/ ~Twins(n)' /\ \A side \in Sides : tree'[side][n].mtime <= last[n]
    PROVE  NameOK(n)'
  <1>1. task'[t] = x /\ \A u \in Tasks \ {t} : task'[u] = task[u]
    BY GoesOK
  <1>2. \A side \in Sides : /\ tree'[side][n].mtime \in {tree[side][n].mtime, 0}
                            /\ tree'[side][n] = tree[side][n] \/ tree'[side][n] = Absent
    BY AbsentTime
  <1>3. last[n] \in Nat /\ TimesOK(n) /\ OneWay(n)
    BY FileTimes DEF NameOK
  <1>4. ASSUME NEW u \in Tasks, u # t, Under(u, n)
        PROVE  UnderOK(u, n)'
    <2>1. task'[u] = task[u] /\ UnderOK(u, n)
      BY <1>1, <1>4 DEF NameOK
    <2>2. task[u].req.to \in Sides /\ Other(task[u].req.to) \in Sides
      <3>1. task[u].req.to \in Sides
        BY <1>4, TaskParts, PlaceOK DEF Under, InFlight
      <3> QED BY <3>1, OtherSide
    <2>3. /\ tree'[task[u].req.to][n] = tree[task[u].req.to][n]
                \/ tree'[task[u].req.to][n] = Absent
          /\ Source(u, n)' = Source(u, n) \/ Source(u, n)' = Absent
      BY <1>2, <2>1, <2>2 DEF Source
    <2> QED BY <2>1, <2>3 DEF UnderOK, ReadOK, SentOK, PutOK, Pulls
  <1>5. OneWay(n)'
    BY <1>1, <1>3 DEF OneWay, Under
  <1>6. ASSUME NEW u \in Tasks, Under(u, n)'
        PROVE  UnderOK(u, n)'
    <2>1. CASE u = t
      BY <1>1, <1>6, <2>1 DEF Under
    <2>2. CASE u # t
      BY <1>1, <1>4, <1>6, <2>2 DEF Under
    <2> QED BY <2>1, <2>2
  <1>7. TimesOK(n)'
    <2>1. ASSUME NEW side \in Sides
          PROVE  tree'[side][n].mtime <= last[n] \/ StampingAt(side, n)'
      <3>1. CASE tree[side][n].mtime <= last[n]
        BY <1>2, <1>3, <3>1
      <3>2. CASE StampingAt(side, n)
        <4>1. PICK u \in Tasks : /\ task[u].stage = "stamping" /\ task[u].item = n
                                 /\ task[u].req.to = side
          BY <3>2 DEF StampingAt
        <4>2. CASE u # t
          BY <1>1, <4>1, <4>2 DEF StampingAt
        <4>3. CASE u = t
          BY <1>1, <4>1, <4>3 DEF StampingAt
        <4> QED BY <4>2, <4>3
      <3> QED BY <1>3, <3>1, <3>2 DEF TimesOK
    <2>2. \A u \in Tasks : task'[u].listing[n].mtime <= last[n]
      BY <1>1, <1>3 DEF TimesOK
    <2> QED BY <1>3, <2>1, <2>2 DEF TimesOK
  <1>8. Twins(n)' => Stamping(n)'
    <2> SUFFICES ASSUME Twins(n)' PROVE Stamping(n)'
      OBVIOUS
    <2>1. Twins(n)
      BY <1>2 DEF Twins, Holds, Sides
    <2>2. PICK u \in Tasks : task[u].stage = "stamping" /\ task[u].item = n
      BY <2>1 DEF NameOK, Stamping
    <2>3. CASE u = t
      BY <1>1, <2>2, <2>3 DEF Stamping
    <2>4. CASE u # t
      BY <1>1, <2>2, <2>4 DEF Stamping
    <2> QED BY <2>3, <2>4
  <1> QED BY <1>5, <1>6, <1>7, <1>8 DEF NameOK

\* A step of a task that carries nothing, or carries what it carried.
LEMMA QuietName ==
    ASSUME Inv, NamesInv, NEW t \in Tasks, NEW x, Goes(t, x),
           UNCHANGED <<left, last, tree>>, blurred \subseteq blurred',
           x.listing \in {task[t].listing, Idle.listing},
           x.stage \notin InFlight \/ x.item \in blurred',
           task[t].stage = "stamping" => task[t].item \in blurred'
    PROVE  NamesInv'
  <1> SUFFICES ASSUME NEW n \in Names \ blurred' PROVE NameOK(n)'
    BY DEF NamesInv
  <1>1. NameOK(n) /\ n \in Names
    BY DEF NamesInv
  <1>2. x.listing[n].mtime <= last[n]
    <2>1. last[n] \in Nat /\ 0 <= last[n]
      BY FileTimes
    <2>2. Idle.listing[n].mtime = 0
      BY AbsentTime DEF Idle
    <2> QED BY <1>1, <2>1, <2>2 DEF NameOK, TimesOK
  <1> QED BY <1>1, <1>2, NameStep
LEMMA EndsName ==
    ASSUME Inv, NamesInv, NEW t \in Tasks, NEW stage \in Final, Ends(t, stage),
           UNCHANGED <<left, last, tree>>, blurred \subseteq blurred',
           task[t].stage = "stamping" => task[t].item \in blurred'
    PROVE  NamesInv'
  <1> DEFINE early == [Idle EXCEPT !.stage = stage, !.cancel = task[t].cancel]
             x == [task[t] EXCEPT !.stage = stage, !.listing = Idle.listing, !.item = 0,
                                  !.seen = Absent]
  <1>1. stage \notin InFlight
    BY DEF Final, InFlight
  <1>2. CASE Goes(t, early)
    <2>1. early.stage = stage /\ early.listing = Idle.listing
      BY DEF Idle
    <2> HIDE DEF early
    <2> QED BY <1>1, <1>2, <2>1, QuietName
  <1>3. CASE Goes(t, x)
    <2>1. x.stage = stage /\ x.listing = Idle.listing
      BY TaskParts DEF TaskState
    <2> HIDE DEF x
    <2> QED BY <1>1, <1>3, <2>1, QuietName
  <1> QED BY <1>2, <1>3 DEF Ends

\* A step of a task that goes on and carries nothing before or after it.
LEMMA PlainName ==
    ASSUME Inv, NamesInv, NEW t \in Tasks, NEW x, Goes(t, x),
           UNCHANGED <<left, last, tree, blurred>>,
           x.listing = task[t].listing, x.stage \notin InFlight, task[t].stage # "stamping"
    PROVE  NamesInv'
  BY QuietName

LEMMA ToName ==
    ASSUME Inv, NamesInv, NEW t \in Tasks, NEW stage, To(t, stage),
           UNCHANGED <<left, last, tree, blurred>>,
           stage \notin InFlight, task[t].stage # "stamping"
    PROVE  NamesInv'
  <1> DEFINE x == [task[t] EXCEPT !.stage = stage]
  <1>1. x.listing = task[t].listing /\ x.stage = stage /\ Goes(t, x)
    BY TaskParts DEF To, TaskState
  <1> HIDE DEF x
  <1> QED BY <1>1, PlainName

LEMMA BeginName ==
    ASSUME Inv, NamesInv, NEW t \in Tasks, NEW r \in Requests[t],
           BeginCommand(t, r) \/ BeginOnPage(t, r)
    PROVE  NamesInv'
  <1>1. ASSUME NEW stage, Begin(t, r, stage), stage \notin InFlight
        PROVE  NamesInv'
    <2> DEFINE x == [Idle EXCEPT !.req = r, !.overwrite = r.overwrite, !.stage = stage]
    <2>1. x.stage = stage /\ x.listing = Idle.listing
      BY DEF Idle
    <2>2. /\ Goes(t, x) /\ UNCHANGED <<left, last, tree, blurred>>
          /\ task[t].stage # "stamping"
      BY <1>1 DEF Begin, At, Quiet, Apart, Still
    <2> HIDE DEF x
    <2> QED BY <1>1, <2>1, <2>2, QuietName
  <1>2. {"source", "queued", "look"} \cap InFlight = {}
    BY DEF InFlight
  <1> QED BY <1>1, <1>2 DEF BeginCommand, BeginOnPage

LEMMA ListSourceName ==
    ASSUME Inv, NamesInv, NEW t \in Tasks, ListSource(t)
    PROVE  NamesInv'
  <1> DEFINE l == Listing(t, Other(task[t].req.to))
             x == [task[t] EXCEPT !.listing = l, !.stage = "target"]
  <1>1. /\ Goes(t, x) /\ UNCHANGED <<left, last, tree>>
        /\ task[t].stage = "source" /\ task[t] \in TaskState /\ task[t].req.to \in Sides
        /\ \A n \in Names \ blurred' : n \notin blurred /\ ~Stamping(n)
    BY TaskParts DEF ListSource, Apart, At, TaskOK, AskOK, RequestState
  <1>2. \A n \in Names : l[n] \in {tree[Other(task[t].req.to)][n], Absent}
    BY DEF Listing, SyncListing
  <1> HIDE DEF l
  <1>3. x.stage = "target" /\ x.listing = l
    BY <1>1 DEF TaskState
  <1> HIDE DEF x
  <1> SUFFICES ASSUME NEW n \in Names \ blurred' PROVE NameOK(n)'
    BY DEF NamesInv
  <1>4. NameOK(n) /\ ~Stamping(n)
    BY <1>1 DEF NamesInv
  <1>5. x.listing[n].mtime <= last[n]
    <2>1. \A side \in Sides : tree[side][n].mtime <= last[n]
      BY <1>4 DEF NameOK, TimesOK, StampingAt, Stamping
    <2>2. 0 <= last[n]
      BY FileTimes
    <2>3. Other(task[t].req.to) \in Sides
      BY <1>1, OtherSide
    <2> QED BY <1>2, <1>3, <2>1, <2>2, <2>3, AbsentTime
  <1>6. x.stage \notin InFlight
    BY <1>3 DEF InFlight
  <1> QED BY <1>1, <1>4, <1>5, <1>6, NameStep

\* Steps that change no file and begin to carry none.
LEMMA QuietNames ==
    ASSUME Inv, NamesInv, NEW t \in Tasks,
           \/ ListTarget(t) \/ CompareHashes(t) \/ StampPlan(t) \/ SavePlan(t) \/ StartJob(t)
           \/ RunJob(t) \/ Confirm(t) \/ StopCopying(t) \/ Fails(t) \/ AllInstalled(t)
           \/ CheckCancelled(t) \/ JobDone(t) \/ LookForDestination(t)
    PROVE  NamesInv'
  <1> DEFINE old == task[t]
  <1>1. old \in TaskState /\ UNCHANGED <<left, last, tree>>
    BY TaskParts DEF ListTarget, CompareHashes, StampPlan, SavePlan, StartJob, RunJob, Confirm,
       StopCopying, Fails, AllInstalled, CheckCancelled, JobDone, LookForDestination, Quiet,
       Still, Apart
  <1>2. CASE Fails(t)
    <2>1. Ends(t, "failed") /\ "failed" \in Final
      BY <1>2 DEF Fails, GivesUp, Final
    <2>2. /\ blurred \subseteq blurred'
          /\ task[t].stage = "stamping" => task[t].item \in blurred'
      BY <1>2 DEF Fails, Blurs, At
    <2> QED BY <1>1, <2>1, <2>2, EndsName
  <1>3. ASSUME ~Fails(t)
        PROVE  blurred' = blurred /\ old.stage # "stamping"
    BY <1>3 DEF ListTarget, CompareHashes, StampPlan, SavePlan, StartJob, RunJob, Confirm,
       StopCopying, AllInstalled, CheckCancelled, JobDone, LookForDestination, Quiet,
       Still, At
  <1>4. ASSUME ~Fails(t), NEW s \in Final, Ends(t, s)
        PROVE  NamesInv'
    BY <1>1, <1>3, <1>4, EndsName
  <1>5. ASSUME ~Fails(t), NEW x, Goes(t, x), x.listing = old.listing, x.stage \notin InFlight
        PROVE  NamesInv'
    BY <1>1, <1>3, <1>5, PlainName
  <1>6. ASSUME ~Fails(t), NEW s \in Stages \ InFlight, To(t, s)
        PROVE  NamesInv'
    BY <1>1, <1>3, <1>6, ToName
  <1>7. /\ {"done", "failed", "cancelled"} = Final
        /\ {"saved", "queued", "source", "confirm", "ending", "closing", "deletes"}
              \subseteq Stages \ InFlight
    BY DEF Final, Stages, Planning, Transferring, InFlight
  <1>8. CASE ListTarget(t) /\ ~Fails(t)
    <2> DEFINE target == Listing(t, old.req.to)
               c == Files(old.listing) \ Files(target)
               f == Conflicts(t, target)
               d == DeleteCandidates(t, target)
               s == IF old.req.hash THEN "hashes" ELSE Planned(t)
               x == [old EXCEPT !.copy = c, !.conflicts = f, !.deletes = d, !.stage = s]
    <2>1. Goes(t, x)
      BY <1>8 DEF ListTarget
    <2>2. s \notin InFlight
      BY PlannedOK DEF InFlight
    <2> HIDE DEF c, f, d, s
    <2>3. x.listing = old.listing /\ x.stage = s
      BY <1>1 DEF TaskState
    <2> HIDE DEF x
    <2> QED BY <1>5, <1>8, <2>1, <2>2, <2>3
  <1>9. CASE CompareHashes(t) /\ ~Fails(t)
    <2>1. \A f, s : LET y == [old EXCEPT !.conflicts = f, !.stage = s]
                    IN  y.listing = old.listing /\ y.stage = s
      BY <1>1 DEF TaskState
    <2>2. \E f : Goes(t, [old EXCEPT !.conflicts = f, !.stage = Planned(t)])
      BY <1>9, Zenon DEF CompareHashes
    <2>3. Planned(t) \notin InFlight
      BY PlannedOK DEF InFlight
    <2> QED BY <1>5, <1>9, <2>1, <2>2, <2>3
  <1>10. CASE StampPlan(t) /\ ~Fails(t)
    <2>1. \A c : LET y == [old EXCEPT !.created = c, !.stage = "stamped"]
                 IN  y.listing = old.listing /\ y.stage = "stamped"
      BY <1>1 DEF TaskState
    <2>2. "stamped" \notin InFlight
      BY DEF InFlight
    <2> QED BY <1>5, <1>10, <2>1, <2>2 DEF StampPlan
  <1>11. CASE (SavePlan(t) \/ StartJob(t) \/ RunJob(t) \/ AllInstalled(t) \/ CheckCancelled(t)
               \/ JobDone(t) \/ StopCopying(t)) /\ ~Fails(t)
    BY <1>4, <1>6, <1>7, <1>11 DEF SavePlan, StartJob, RunJob, AllInstalled, CheckCancelled,
       JobDone, StopCopying
  <1>12. CASE Confirm(t) /\ ~Fails(t)
    <2>1. \A i, o, d : LET y == [old EXCEPT !.items = i, !.overwrite = o, !.deleting = d,
                                            !.stage = "item"]
                       IN  y.listing = old.listing /\ y.stage = "item"
      BY <1>1 DEF TaskState
    <2>2. \/ Ends(t, "failed")
          \/ \E i, o, d : Goes(t, [old EXCEPT !.items = i, !.overwrite = o, !.deleting = d,
                                              !.stage = "item"])
      BY <1>12, Zenon DEF Confirm
    <2>3. "item" \notin InFlight
      BY DEF InFlight
    <2> QED BY <1>4, <1>5, <1>7, <1>12, <2>1, <2>2, <2>3
  <1>13. CASE LookForDestination(t) /\ ~Fails(t)
    <2>1. \A i : LET y == [old EXCEPT !.item = i, !.stage = "moving"]
                 IN  y.listing = old.listing /\ y.stage = "moving"
      BY <1>1 DEF TaskState
    <2>2. "moving" \notin InFlight
      BY DEF InFlight
    <2> QED BY <1>4, <1>5, <1>7, <1>13, <2>1, <2>2 DEF LookForDestination
  <1> QED BY <1>2, <1>8, <1>9, <1>10, <1>11, <1>12, <1>13

LEMMA CancelJobName ==
    ASSUME Inv, NamesInv, NEW t \in Tasks, CancelJob(t)
    PROVE  NamesInv'
  <1> DEFINE x == [task[t] EXCEPT !.cancel = TRUE]
  <1>1. Goes(t, x) /\ UNCHANGED <<left, last, tree, blurred>> /\ task[t] \in TaskState
    BY TaskParts DEF CancelJob, Quiet, Still, Apart
  <1>2. /\ x.stage = task[t].stage /\ x.item = task[t].item /\ x.listing = task[t].listing
        /\ x.seen = task[t].seen /\ x.req = task[t].req
    BY <1>1 DEF TaskState
  <1> HIDE DEF x
  <1>3. task'[t] = x
    BY <1>1, GoesOK
  <1> SUFFICES ASSUME NEW n \in Names \ blurred PROVE NameOK(n)'
    BY <1>1 DEF NamesInv
  <1>4. NameOK(n)
    BY DEF NamesInv
  <1>5. x.listing[n].mtime <= last[n]
    BY <1>2, <1>4 DEF NameOK, TimesOK
  <1>6. ASSUME Under(t, n)
        PROVE  /\ UnderOK(t, n)'
               /\ \A u \in Tasks \ {t} : Under(u, n) => task[u].req.to = x.req.to
    <2>1. UnderOK(t, n)
      BY <1>4, <1>6 DEF NameOK
    <2>2. UnderOK(t, n)'
      BY <1>1, <1>2, <1>3, <2>1 DEF UnderOK, ReadOK, SentOK, PutOK, Source, Pulls
    <2> QED BY <1>2, <1>4, <1>6, <2>2 DEF NameOK, OneWay
  <1>7. \A side \in Sides : tree'[side][n] \in {tree[side][n], Absent}
    BY <1>1
  <1>8. x.item = n /\ x.stage \in InFlight => Under(t, n)
    BY <1>2 DEF Under
  <1> QED BY <1>1, <1>2, <1>4, <1>5, <1>6, <1>7, <1>8, NameStep

LEMMA StartItemName ==
    ASSUME Inv, LeftOK, NamesInv, NEW t \in Tasks, StartItem(t)
    PROVE  NamesInv'
  <1> DEFINE old == task[t]
             n == NextItem(t)
             source == tree[Other(old.req.to)][n]
             seen == IF Pulls(t) THEN Absent ELSE source
             x == [old EXCEPT !.item = n, !.stage = "copying", !.seen = seen]
             rests == IF Pulls(t) THEN Resumed(t, n) ELSE {left[n]}
             foreign(rest) == Pulls(t) /\ ~(rest \subseteq {source.content} \ {Torn})
  <1>1. /\ old \in TaskState /\ old.stage = "item" /\ UNCHANGED <<last, tree>>
        /\ "failed" \in Final /\ "cancelled" \in Final
    BY TaskParts DEF StartItem, At, Apart, Final
  <1>2. CASE (Ends(t, "failed") \/ Ends(t, "cancelled")) /\ UNCHANGED <<left, blurred>>
    BY <1>1, <1>2, EndsName
  <1>3. ASSUME NEW rest \in rests, Goes(t, x), left' = [left EXCEPT ![n] = rest],
               IF Crosses(t, n) \/ foreign(rest) THEN Blurs(n) ELSE UNCHANGED blurred
        PROVE  NamesInv'
    <2>0. rest = left[n] \/ rest = {}
      BY <1>3 DEF Resumed
    <2> SUFFICES ASSUME NEW m \in Names \ blurred' PROVE NameOK(m)'
      BY DEF NamesInv
    <2>4. NameOK(m) /\ (m = n => ~Crosses(t, n) /\ ~foreign(rest))
      BY <1>3 DEF NamesInv, Blurs
    <2>9. left'[m] \subseteq left[m] /\ (m = n /\ Pulls(t) => left'[m] \subseteq {source.content})
      <3>1. DOMAIN left = Names
        BY DEF LeftOK
      <3>2. left'[m] = IF m = n THEN rest ELSE left[m]
        BY <1>3, <3>1
      <3>3. m = n /\ Pulls(t) => rest \subseteq {source.content}
        BY <2>4
      <3> HIDE DEF n, source
      <3> QED BY <2>0, <3>2, <3>3
    <2> HIDE DEF n, seen, rests, foreign
    <2>1. /\ x.stage = "copying" /\ x.item = n /\ x.listing = old.listing
          /\ x.seen = seen /\ x.req = old.req
      BY <1>1 DEF TaskState
    <2>2. Goes(t, x)
      BY <1>3
    <2> HIDE DEF x
    <2>3. task'[t] = x
      BY <2>2, GoesOK
    <2>5. x.listing[m].mtime <= last[m]
      BY <2>1, <2>4 DEF NameOK, TimesOK
    <2>6. \A side \in Sides : tree'[side][m] \in {tree[side][m], Absent}
      BY <1>1
    <2>7. ASSUME x.item = m
          PROVE  /\ UnderOK(t, m)'
                 /\ \A u \in Tasks \ {t} : Under(u, m) => task[u].req.to = x.req.to
      <3>1. Source(t, m)' = source
        BY <1>1, <2>1, <2>3, <2>7 DEF Source
      <3>2. Pulls(t)' = Pulls(t)
        BY <2>1, <2>3 DEF Pulls
      <3>3. ReadOK(t, m)'
        BY <2>1, <2>3, <2>7, <2>9, <3>1, <3>2 DEF ReadOK, seen
      <3>4. UnderOK(t, m)'
        BY <2>1, <2>3, <3>3 DEF UnderOK
      <3>5. \A u \in Tasks : Under(u, m) => task[u].req.to = old.req.to
        BY <2>1, <2>4, <2>7 DEF Crosses, Under, InFlight
      <3> QED BY <2>1, <3>4, <3>5
    <2> QED BY <1>1, <2>2, <2>4, <2>5, <2>6, <2>7, <2>9, <2>1, NameStep DEF InFlight
  <1>4. \/ (Ends(t, "failed") \/ Ends(t, "cancelled")) /\ UNCHANGED <<left, blurred>>
        \/ /\ Goes(t, x)
           /\ \E rest \in rests :
                /\ left' = [left EXCEPT ![n] = rest]
                /\ IF Crosses(t, n) \/ foreign(rest) THEN Blurs(n) ELSE UNCHANGED blurred
    BY DEF StartItem
  <1> QED BY <1>2, <1>3, <1>4

\* A chunk adds what the source holds now.
LEMMA ReadChunkName ==
    ASSUME Inv, LeftOK, NamesInv, NEW t \in Tasks, ReadChunk(t)
    PROVE  NamesInv'
  <1> DEFINE k == task[t].item
  <1>1. /\ UNCHANGED <<tree, task, blurred, last>> /\ k \in Names
        /\ left' = [left EXCEPT ![k] = left[k] \cup {tree["remote"][k].content}]
    BY TaskParts, PlaceOK DEF ReadChunk, At
  <1> SUFFICES ASSUME NEW n \in Names \ blurred PROVE NameOK(n)'
    BY <1>1 DEF NamesInv
  <1>2. NameOK(n)
    BY DEF NamesInv
  <1>3. left'[n] \subseteq left[n] \cup {tree["remote"][n].content}
    BY <1>1 DEF LeftOK
  <1>4. ASSUME NEW u \in Tasks, Under(u, n)
        PROVE  UnderOK(u, n)'
    <2>1. UnderOK(u, n) /\ Source(u, n)' = Source(u, n) /\ Pulls(u)' = Pulls(u)
      BY <1>1, <1>2, <1>4 DEF NameOK, Source, Pulls
    <2>2. Pulls(u) => Source(u, n) = tree["remote"][n]
      BY DEF Pulls, Source, Other
    <2>3. ReadOK(u, n) => ReadOK(u, n)'
      BY <1>1, <1>3, <2>1, <2>2 DEF ReadOK
    <2>4. (SentOK(u, n) => SentOK(u, n)') /\ (PutOK(u, n) => PutOK(u, n)')
      BY <1>1, <2>1 DEF SentOK, PutOK
    <2> QED BY <1>1, <2>1, <2>3, <2>4 DEF UnderOK
  <1>5. TimesOK(n)' /\ OneWay(n)' /\ (Twins(n)' => Stamping(n)')
    BY <1>1, <1>2 DEF NameOK, TimesOK, StampingAt, OneWay, Under, Twins, Holds, Stamping
  <1> QED BY <1>1, <1>4, <1>5 DEF NameOK, Under

\* What arrives does not look like another content of the source.
LEMMA ArrivesSent ==
    ASSUME Inv, NEW t \in Tasks, task[t].stage = "copying", NEW n, n = task[t].item,
           ReadOK(t, n), NEW c \in Arrives(t), NEW g,
           g.content = c, g.size = task[t].listing[n].size,
           g.mtime = task[t].listing[n].mtime
    PROVE  \/ Source(t, n) = Absent \/ ~Same(g, Source(t, n))
           \/ g.content = Source(t, n).content
  <1> DEFINE f == Source(t, n)
             seen == task[t].seen
             size == task[t].listing[n].size
  <1>1. /\ n \in Names /\ task[t].req.to \in Sides /\ Other(task[t].req.to) \in Sides
        /\ (~Pulls(t) => seen \in File) /\ task[t].listing[n] \in File \cup {Absent}
        /\ f \in File \cup {Absent}
    <2>1. n \in Names /\ task[t].req.to \in Sides /\ (~Pulls(t) => seen \in File)
      BY TaskParts, PlaceOK DEF TaskOK, ItemOK, Pulls
    <2> QED BY <2>1, OtherSide, FileTimes DEF Source
  <1>2. \A h \in File \cup {Absent} : h.mtime \in Nat /\ h.size \in Nat
    <2>1. \A h \in File : h.mtime \in Nat /\ h.size \in Nat
      BY PlannedTransferAssumption DEF File, Sizes
    <2> QED BY <2>1 DEF Absent
  <1>3. CASE f.mtime > task[t].listing[n].mtime + Tolerance
    <2>1. ~Near(g.mtime, f.mtime)
      BY <1>1, <1>2, <1>3, PlannedTransferAssumption DEF Near
    <2> QED BY <2>1 DEF Same
  <1>4. CASE f # Absent /\ ~Pulls(t) /\ seen.content = f.content
    <2>1. c = seen.content
      BY <1>4 DEF Arrives, Pushed
    <2> QED BY <1>4, <2>1
  <1>5. CASE f # Absent /\ Pulls(t) /\ left[n] \subseteq {f.content}
    <2>1. f \in File /\ f.size \in Nat /\ size \in Nat
      BY <1>1, <1>2, <1>5
    <2>2. c \in Pulled(t)
      BY <1>5 DEF Arrives
    <2>3. CASE c \in left[n]
      BY <1>5, <2>3
    <2>4. CASE c = Torn /\ \E d \in left[n] : Longer(d, size)
      <3>1. Longer(f.content, size)
        BY <1>5, <2>4
      <3>2. CASE f.content = Torn
        BY <2>4, <3>2
      <3>3. CASE f.content # Torn
        <4>1. f.size = SizeOf[f.content] /\ SizeOf[f.content] > size
          BY <2>1, <3>1, <3>3 DEF File, Longer
        <4>2. g.size # f.size
          BY <2>1, <4>1
        <4> QED BY <4>2 DEF Same
      <3> QED BY <3>2, <3>3
    <2>5. \A d, e \in left[n] : d = e
      BY <1>5
    <2> HIDE DEF f
    <2> QED BY <2>2, <2>3, <2>4, <2>5 DEF Pulled
  <1> QED BY <1>3, <1>4, <1>5 DEF ReadOK

LEMMA VerifyName ==
    ASSUME Inv, NamesInv, NEW t \in Tasks, Verify(t)
    PROVE  NamesInv'
  <1> DEFINE old == task[t]
             File1(c) == [content |-> c, size |-> old.listing[old.item].size,
                          mtime |-> PlannedTime(t)]
  <1>1. /\ old \in TaskState /\ old.stage = "copying" /\ UNCHANGED <<left, last, tree, blurred>>
        /\ "failed" \in Final
    BY TaskParts DEF Verify, At, Still, Apart, Final
  <1>2. CASE Ends(t, "failed")
    BY <1>1, <1>2, EndsName
  <1>3. ASSUME NEW c \in Arrives(t), Goes(t, [old EXCEPT !.seen = File1(c), !.stage = "installing"])
        PROVE  NamesInv'
    <2> DEFINE g == File1(c)
               x == [old EXCEPT !.seen = g, !.stage = "installing"]
    <2>1. /\ g.content = c /\ g.size = old.listing[old.item].size
          /\ g.mtime = old.listing[old.item].mtime
      BY DEF PlannedTime
    <2>2. Goes(t, x)
      BY <1>3
    <2> HIDE DEF g
    <2>3. /\ x.stage = "installing" /\ x.item = old.item /\ x.listing = old.listing
          /\ x.seen = g /\ x.req = old.req
      BY <1>1 DEF TaskState
    <2> HIDE DEF x
    <2>4. task'[t] = x
      BY <2>2, GoesOK
    <2> SUFFICES ASSUME NEW n \in Names \ blurred' PROVE NameOK(n)'
      BY DEF NamesInv
    <2>5. NameOK(n)
      BY <1>1 DEF NamesInv
    <2>6. x.listing[n].mtime <= last[n]
      BY <2>3, <2>5 DEF NameOK, TimesOK
    <2>7. \A side \in Sides : tree'[side][n] \in {tree[side][n], Absent}
      BY <1>1
    <2>8. ASSUME x.item = n
          PROVE  /\ UnderOK(t, n)'
                 /\ \A u \in Tasks \ {t} : Under(u, n) => task[u].req.to = x.req.to
      <3>1. Under(t, n)
        BY <1>1, <2>3, <2>8 DEF Under, InFlight
      <3>2. ReadOK(t, n)
        BY <1>1, <2>5, <3>1 DEF NameOK, UnderOK
      <3>3. \/ Source(t, n) = Absent \/ ~Same(g, Source(t, n))
            \/ g.content = Source(t, n).content
        BY <1>1, <2>1, <2>3, <2>8, <3>2, ArrivesSent
      <3>4. Source(t, n)' = Source(t, n)
        BY <1>1, <2>3, <2>4 DEF Source
      <3>5. UnderOK(t, n)'
        BY <2>1, <2>3, <2>4, <2>8, <3>3, <3>4 DEF UnderOK, SentOK
      <3> QED BY <2>3, <2>5, <3>1, <3>5 DEF NameOK, OneWay
    <2> QED BY <1>1, <2>2, <2>5, <2>6, <2>7, <2>8, NameStep
  <1> QED BY <1>2, <1>3 DEF Verify

LEMMA NoTwinsNext ==
    ASSUME NEW n, NEW side \in Sides,
           \/ tree'[side][n] = Absent \/ tree'[Other(side)][n] = Absent
           \/ ~Same(tree'[side][n], tree'[Other(side)][n])
           \/ tree'[side][n].content = tree'[Other(side)][n].content
    PROVE  ~Twins(n)'
  <1>1. \A f, g : Same(f, g) = Same(g, f)
    BY DEF Same, Near
  <1>2. CASE side = "local"
    BY <1>2 DEF Twins, Holds, Other
  <1>3. CASE side = "remote"
    BY <1>1, <1>3 DEF Twins, Holds, Other
  <1> QED BY <1>2, <1>3 DEF Sides

LEMMA InstallName ==
    ASSUME Inv, LeftOK, NamesInv, NEW t \in Tasks, Install(t)
    PROVE  NamesInv'
  <1> DEFINE old == task[t]
             to == old.req.to
             k == old.item
             f == [old.seen EXCEPT !.mtime = clock + Ahead[to]]
             i == old.installed \cup {k}
             x == [old EXCEPT !.installed = i, !.stage = "stamping"]
  <1>1. /\ old \in TaskState /\ old.stage = "installing" /\ Goes(t, x) /\ ItemOK(old)
        /\ UNCHANGED last /\ tree' = [tree EXCEPT ![to][k] = f]
        /\ left' = IF Pulls(t) THEN [left EXCEPT ![k] = {}] ELSE left
        /\ IF Stamping(k) THEN Blurs(k) ELSE UNCHANGED blurred
    BY TaskParts DEF Install, At, Apart, TaskOK
  <1>2. k \in Names /\ to \in Sides /\ Other(to) \in Sides /\ Other(to) # to /\ old.seen \in File
    <2>1. k \in Names /\ to \in Sides
      BY <1>1, TaskParts, PlaceOK
    <2> QED BY <1>1, <2>1 DEF ItemOK, Sides, Other
  <1>3. f.content = old.seen.content /\ f.size = old.seen.size
    BY <1>2 DEF File
  <1>4. /\ x.stage = "stamping" /\ x.item = k /\ x.listing = old.listing
        /\ x.seen = old.seen /\ x.req = old.req
    <2> HIDE DEF i
    <2> QED BY <1>1 DEF TaskState
  <1>5. /\ tree'[to][k] = f
        /\ \A m \in Names : m # k => tree'[to][m] = tree[to][m]
        /\ \A other \in Sides : other # to => tree'[other] = tree[other]
    <2> HIDE DEF f, x
    <2> QED BY <1>1, <1>2, OneFile
  <1> HIDE DEF x, f
  <1>6. task'[t] = x /\ \A u \in Tasks \ {t} : task'[u] = task[u]
    BY <1>1, GoesOK
  <1> SUFFICES ASSUME NEW n \in Names \ blurred' PROVE NameOK(n)'
    BY DEF NamesInv
  <1>7. NameOK(n)
    BY <1>1 DEF NamesInv, Blurs
  <1>10. left'[n] \subseteq left[n]
    BY <1>1, <1>2 DEF LeftOK
  <1>8. CASE n # k
    <2>1. x.listing[n].mtime <= last[n]
      BY <1>4, <1>7 DEF NameOK, TimesOK
    <2>2. \A side \in Sides : tree'[side][n] \in {tree[side][n], Absent}
      BY <1>5, <1>8
    <2> QED BY <1>1, <1>4, <1>7, <1>8, <1>10, <2>1, <2>2, NameStep
  <1>9. CASE n = k
    <2>1. ~Stamping(n)
      BY <1>1, <1>9 DEF Blurs
    <2>2. Under(t, n) /\ \A u \in Tasks : Under(u, n) => task[u].req.to = to
      <3>1. Under(t, n)
        BY <1>1, <1>9 DEF Under, InFlight
      <3> QED BY <1>7, <3>1 DEF NameOK, OneWay
    <2>3. tree'[Other(to)][n] = tree[Other(to)][n]
      BY <1>2, <1>5
    <2>4. OneWay(n)'
      BY <1>4, <1>6, <2>2 DEF OneWay, Under
    <2>5. UnderOK(t, n)'
      <3>1. SentOK(t, n)
        BY <1>1, <1>7, <2>2 DEF NameOK, UnderOK
      <3>2. SentOK(t, n)'
        BY <1>4, <1>6, <2>3, <3>1 DEF SentOK, Source
      <3>3. PutOK(t, n)'
        BY <1>3, <1>4, <1>5, <1>6, <1>9 DEF PutOK
      <3> QED BY <1>4, <1>6, <3>2, <3>3 DEF UnderOK
    <2>6. ASSUME NEW u \in Tasks, u # t, Under(u, n)'
          PROVE  UnderOK(u, n)'
      <3>1. task'[u] = task[u] /\ Under(u, n) /\ task[u].req.to = to
        BY <1>6, <2>2, <2>6 DEF Under
      <3>2. UnderOK(u, n) /\ task[u].stage # "stamping"
        BY <1>7, <2>1, <3>1 DEF NameOK, Stamping, Under
      <3> QED BY <1>10, <2>3, <3>1, <3>2 DEF UnderOK, ReadOK, SentOK, Source, Pulls
    <2>7. TimesOK(n)'
      <3>1. \A side \in Sides : tree[side][n].mtime <= last[n]
        BY <1>7, <2>1 DEF NameOK, TimesOK, StampingAt, Stamping
      <3>2. ASSUME NEW side \in Sides, side = to
            PROVE  StampingAt(side, n)'
        BY <1>4, <1>6, <1>9, <3>2 DEF StampingAt
      <3>3. \A side \in Sides : side # to => tree'[side][n].mtime <= last[n]
        BY <1>5, <3>1
      <3>4. \A u \in Tasks : task'[u].listing = task[u].listing
        BY <1>4, <1>6
      <3> QED BY <1>1, <1>7, <3>2, <3>3, <3>4 DEF NameOK, TimesOK
    <2>8. Stamping(n)'
      BY <1>4, <1>6, <1>9 DEF Stamping
    <2> QED BY <2>4, <2>5, <2>6, <2>7, <2>8 DEF NameOK
  <1> QED BY <1>8, <1>9

LEMMA StampName ==
    ASSUME Inv, NamesInv, NEW t \in Tasks, Stamp(t)
    PROVE  NamesInv'
  <1> DEFINE old == task[t]
             to == old.req.to
             k == old.item
             g == tree[to][k]
             f == [g EXCEPT !.mtime = old.seen.mtime]
             x == [old EXCEPT !.item = 0, !.seen = Absent, !.stage = "item"]
  <1>1. /\ old \in TaskState /\ old.stage = "stamping" /\ ItemOK(old)
        /\ UNCHANGED <<left, last, blurred>> /\ old.seen \in File
    BY TaskParts DEF Stamp, At, Apart, TaskOK, ItemOK
  <1>2. k \in Names /\ to \in Sides /\ Other(to) \in Sides /\ Other(to) # to
    <2>1. k \in Names /\ to \in Sides
      BY <1>1, TaskParts, PlaceOK
    <2> QED BY <2>1 DEF Sides, Other
  <1>3. ASSUME NEW n \in Names \ blurred
        PROVE  /\ NameOK(n) /\ old.listing[n].mtime <= last[n] /\ 0 <= last[n]
               /\ n = k => SentOK(t, n) /\ PutOK(t, n)
                           /\ \A u \in Tasks : Under(u, n) => task[u].req.to = to
    <2>1. NameOK(n)
      BY DEF NamesInv
    <2>2. n = k => Under(t, n)
      BY <1>1 DEF Under, InFlight
    <2>3. n = k => SentOK(t, n) /\ PutOK(t, n)
      BY <1>1, <2>1, <2>2 DEF NameOK, UnderOK
    <2>4. n = k => \A u \in Tasks : Under(u, n) => task[u].req.to = to
      BY <2>1, <2>2 DEF NameOK, OneWay
    <2>5. 0 <= last[n]
      BY FileTimes
    <2> QED BY <2>1, <2>3, <2>4, <2>5 DEF NameOK, TimesOK
  <1>4. CASE Ends(t, "failed") /\ tree' = tree /\ ~Holds(to, k)
    <2> DEFINE y == [Idle EXCEPT !.stage = "failed", !.cancel = old.cancel]
    <2>1. Goes(t, y)
      BY <1>4 DEF Ends
    <2>2. y.stage = "failed" /\ y.listing = Idle.listing
      BY DEF Idle
    <2> HIDE DEF y
    <2> SUFFICES ASSUME NEW n \in Names \ blurred' PROVE NameOK(n)'
      BY DEF NamesInv
    <2>3. /\ NameOK(n) /\ 0 <= last[n]
          /\ n = k => \A u \in Tasks : Under(u, n) => task[u].req.to = to
      BY <1>1, <1>3
    <2>4. y.listing[n].mtime <= last[n]
      <3>1. Idle.listing[n].mtime = 0
        BY AbsentTime DEF Idle
      <3> QED BY <2>2, <2>3, <3>1
    <2>5. n = k => ~Twins(n)' /\ \A side \in Sides : tree'[side][n].mtime <= last[n]
      <3> SUFFICES ASSUME n = k
                   PROVE  ~Twins(n)' /\ \A side \in Sides : tree'[side][n].mtime <= last[n]
        OBVIOUS
      <3>1. tree[to][n] = Absent
        BY <1>4 DEF Holds
      <3>2. ~Twins(n)
        BY <1>2, <3>1, NoTwins
      <3>3. \A side \in Sides : side # to => ~StampingAt(side, n)
        BY <2>3 DEF StampingAt, Under, InFlight
      <3>4. \A side \in Sides : tree[side][n].mtime <= last[n]
        BY <2>3, <3>1, <3>3, AbsentTime DEF NameOK, TimesOK
      <3> QED BY <1>4, <3>2, <3>4 DEF Twins, Holds
    <2>6. \A side \in Sides : tree'[side][n] \in {tree[side][n], Absent}
      BY <1>4
    <2>7. y.stage \notin InFlight
      BY <2>2 DEF InFlight
    <2> QED BY <1>1, <2>1, <2>3, <2>4, <2>5, <2>6, <2>7, NameStep
  <1>5. CASE Holds(to, k) /\ tree' = [tree EXCEPT ![to][k] = f] /\ Goes(t, x)
    <2>1. /\ tree'[to][k] = f
          /\ \A m \in Names : m # k => tree'[to][m] = tree[to][m]
          /\ \A other \in Sides : other # to => tree'[other] = tree[other]
      <3> HIDE DEF f, x
      <3> QED BY <1>2, <1>5, OneFile
    <2>2. g \in File /\ f.content = g.content /\ f.size = g.size /\ f.mtime = old.seen.mtime
      <3>1. g \in File
        BY <1>2, <1>5, TaskParts DEF Holds, Tree
      <3> QED BY <3>1 DEF File
    <2>3. x.stage = "item" /\ x.listing = old.listing
      BY <1>1 DEF TaskState
    <2>4. Goes(t, x)
      BY <1>5
    <2> HIDE DEF x, f
    <2>5. task'[t] = x /\ \A u \in Tasks \ {t} : task'[u] = task[u]
      BY <2>4, GoesOK
    <2>6. x.stage \notin InFlight
      BY <2>3 DEF InFlight
    <2> SUFFICES ASSUME NEW n \in Names \ blurred' PROVE NameOK(n)'
      BY DEF NamesInv
    <2>7. NameOK(n) /\ old.listing[n].mtime <= last[n]
      BY <1>1, <1>3
    <2>8. CASE n # k
      <3>1. \A side \in Sides : tree'[side][n] \in {tree[side][n], Absent}
        BY <2>1, <2>8
      <3> QED BY <1>1, <2>3, <2>4, <2>6, <2>7, <2>8, <3>1, NameStep
    <2>9. CASE n = k
      <3>1. /\ SentOK(t, n) /\ PutOK(t, n)
            /\ \A u \in Tasks : Under(u, n) => task[u].req.to = to
        BY <1>1, <1>3, <2>9
      <3>2. g.content = old.seen.content /\ g.size = old.seen.size
        BY <1>5, <2>9, <3>1 DEF PutOK, Holds
      <3>3. tree'[Other(to)][n] = tree[Other(to)][n]
        BY <1>2, <2>1
      <3>4. ~Twins(n)'
        <4> DEFINE s == tree[Other(to)][n]
        <4>1. s = Absent \/ ~Same(f, s) \/ f.content = s.content
          BY <2>2, <3>1, <3>2 DEF SentOK, Source, Same
        <4> QED BY <1>2, <2>1, <2>9, <3>3, <4>1, NoTwinsNext
      <3>5. OneWay(n)'
        BY <2>5, <2>6, <3>1 DEF OneWay, Under
      <3>6. ASSUME NEW u \in Tasks, Under(u, n)'
            PROVE  UnderOK(u, n)'
        <4>1. u # t
          BY <2>5, <2>6, <3>6 DEF Under
        <4>2. task'[u] = task[u] /\ Under(u, n) /\ task[u].req.to = to /\ UnderOK(u, n)
          BY <2>5, <2>7, <3>1, <3>6, <4>1 DEF Under, NameOK
        <4>3. PutOK(u, n) => PutOK(u, n)'
          <5>1. g # Absent
            BY <1>5 DEF Holds
          <5> QED BY <2>1, <2>2, <2>9, <4>2, <5>1 DEF PutOK
        <4> QED BY <1>1, <3>3, <4>2, <4>3 DEF UnderOK, ReadOK, SentOK, Source, Pulls
      <3>7. TimesOK(n)'
        <4>1. f.mtime <= last[n]
          BY <2>2, <2>7, <3>1 DEF SentOK
        <4>2. \A side \in Sides : side # to => ~StampingAt(side, n)
          BY <3>1 DEF StampingAt, Under, InFlight
        <4>3. \A side \in Sides : tree'[side][n].mtime <= last[n]
          BY <2>1, <2>7, <2>9, <4>1, <4>2 DEF NameOK, TimesOK
        <4>4. \A u \in Tasks : task'[u].listing = task[u].listing
          BY <2>3, <2>5
        <4> QED BY <1>1, <2>7, <4>3, <4>4 DEF NameOK, TimesOK
      <3> QED BY <3>4, <3>5, <3>6, <3>7 DEF NameOK
    <2> QED BY <2>8, <2>9
  <1>6. \/ Ends(t, "failed") /\ tree' = tree /\ ~Holds(to, k)
        \/ Holds(to, k) /\ tree' = [tree EXCEPT ![to][k] = f] /\ Goes(t, x)
    BY DEF Stamp
  <1> QED BY <1>4, <1>5, <1>6

LEMMA DeleteItemName ==
    ASSUME Inv, NamesInv, NEW t \in Tasks, DeleteItem(t)
    PROVE  NamesInv'
  <1> DEFINE old == task[t]
             k == Least(old.deletes)
             rest == old.deletes \ {k}
             to == old.req.to
             finished == [old EXCEPT !.deletes = {}, !.stage = "done", !.listing = Idle.listing]
             onward == [old EXCEPT !.deletes = rest]
  <1>1. /\ old \in TaskState /\ old.stage = "deletes" /\ PromiseOK(old) /\ AskOK(old)
        /\ UNCHANGED <<left, last, blurred>> /\ "failed" \in Final
    BY TaskParts DEF DeleteItem, At, TaskOK, Apart, Final
  <1>2. k \in Names /\ to \in Sides
    <2>1. old.deletes \in SUBSET Names /\ old.deletes # {} /\ to \in Sides
      BY <1>1 DEF TaskState, PromiseOK, AskOK, RequestState
    <2> QED BY <2>1, LeastOK, Zenon
  <1>3. CASE Ends(t, "failed") /\ tree' = tree
    BY <1>1, <1>3, EndsName
  <1>4. ASSUME NEW x, Goes(t, x), tree' = [tree EXCEPT ![to][k] = Absent],
               x.listing \in {old.listing, Idle.listing}, x.stage \notin InFlight
        PROVE  NamesInv'
    <2>1. /\ tree'[to][k] = Absent
          /\ \A m \in Names : m # k => tree'[to][m] = tree[to][m]
          /\ \A other \in Sides : other # to => tree'[other] = tree[other]
      BY <1>2, <1>4, OneFile
    <2> SUFFICES ASSUME NEW n \in Names \ blurred' PROVE NameOK(n)'
      BY DEF NamesInv
    <2>2. NameOK(n)
      BY <1>1 DEF NamesInv
    <2>3. x.listing[n].mtime <= last[n]
      <3>1. Idle.listing[n].mtime = 0
        BY AbsentTime DEF Idle
      <3>2. 0 <= last[n]
        BY FileTimes
      <3> QED BY <1>4, <2>2, <3>1, <3>2 DEF NameOK, TimesOK
    <2>4. \A side \in Sides : tree'[side][n] \in {tree[side][n], Absent}
      BY <1>2, <2>1
    <2> QED BY <1>1, <1>4, <2>2, <2>3, <2>4, NameStep
  <1>5. CASE tree' = [tree EXCEPT ![to][k] = Absent] /\ Goes(t, finished)
    <2>1. finished.listing = Idle.listing /\ finished.stage \notin InFlight
      BY <1>1 DEF TaskState, InFlight
    <2> HIDE DEF finished
    <2> QED BY <1>4, <1>5, <2>1
  <1>6. CASE tree' = [tree EXCEPT ![to][k] = Absent] /\ Goes(t, onward)
    <2> HIDE DEF rest
    <2>1. onward.listing = old.listing /\ onward.stage \notin InFlight
      BY <1>1 DEF TaskState, InFlight
    <2> HIDE DEF onward
    <2> QED BY <1>4, <1>6, <2>1
  <1> HIDE DEF finished, onward
  <1>7. \/ Ends(t, "failed") /\ tree' = tree
        \/ tree' = [tree EXCEPT ![to][k] = Absent] /\ Goes(t, finished)
        \/ tree' = [tree EXCEPT ![to][k] = Absent] /\ Goes(t, onward)
    BY DEF DeleteItem, finished, onward
  <1> QED BY <1>3, <1>5, <1>6, <1>7

LEMMA MoveName ==
    ASSUME Inv, NamesInv, NEW t \in Tasks, Move(t)
    PROVE  NamesInv'
  <1> DEFINE old == task[t]
             r == old.req
             x == [old EXCEPT !.stage = "done", !.listing = Idle.listing, !.item = 0,
                              !.seen = Absent]
  <1>1. /\ old \in TaskState /\ old.stage = "moving" /\ UNCHANGED <<left, last>>
        /\ r \in RequestState /\ "failed" \in Final
    BY TaskParts DEF Move, At, Apart, TaskOK, AskOK, Final
  <1>2. CASE Ends(t, "failed") /\ UNCHANGED <<tree, blurred>>
    BY <1>1, <1>2, EndsName
  <1>3. CASE /\ tree' = [tree EXCEPT ![r.to][r.dest] = tree[r.to][r.from],
                                     ![r.to][r.from] = Absent]
             /\ Goes(t, x) /\ blurred' = blurred \cup {r.from, r.dest}
    <2>1. x.stage = "done" /\ x.listing = Idle.listing
      BY <1>1 DEF TaskState
    <2>2. Goes(t, x)
      BY <1>3
    <2> HIDE DEF x
    <2> SUFFICES ASSUME NEW n \in Names \ blurred' PROVE NameOK(n)'
      BY DEF NamesInv
    <2>3. n \notin {r.from, r.dest} /\ NameOK(n)
      BY <1>3 DEF NamesInv
    <2>4. \A side \in Sides : tree'[side][n] \in {tree[side][n], Absent}
      <3>1. /\ r.to \in Sides /\ r.from \in Names /\ r.dest \in Names
            /\ tree \in [Sides -> Tree] /\ tree[r.to] \in Tree
        BY <1>1, TaskParts DEF RequestState
      <3>2. tree' = [tree EXCEPT ![r.to] =
                        [tree[r.to] EXCEPT ![r.dest] = tree[r.to][r.from], ![r.from] = Absent]]
        BY <1>3, <3>1
      <3>3. tree'[r.to][n] = tree[r.to][n]
        BY <2>3, <3>1, <3>2 DEF Tree
      <3>4. \A side \in Sides : side # r.to => tree'[side] = tree[side]
        BY <3>1, <3>2
      <3> QED BY <3>3, <3>4
    <2>5. x.listing[n].mtime <= last[n]
      <3>1. Idle.listing[n].mtime = 0 /\ 0 <= last[n]
        BY AbsentTime, FileTimes DEF Idle
      <3> QED BY <2>1, <3>1
    <2>6. x.stage \notin InFlight
      BY <2>1 DEF InFlight
    <2> QED BY <1>1, <2>2, <2>3, <2>4, <2>5, <2>6, NameStep
  <1> QED BY <1>2, <1>3 DEF Move, Ends

\* No task steps: the files of n stay, or one of them is taken away.
LEMMA StillName ==
    ASSUME Inv, NEW n \in Names, NameOK(n), task' = task, left' = left,
           last'[n] = last[n], \A side \in Sides : tree'[side][n] \in {tree[side][n], Absent}
    PROVE  NameOK(n)'
  <1>1. \A side \in Sides : /\ tree'[side][n].mtime \in {tree[side][n].mtime, 0}
                            /\ tree'[side][n] = tree[side][n] \/ tree'[side][n] = Absent
    BY AbsentTime
  <1>2. last[n] \in Nat /\ TimesOK(n) /\ OneWay(n)
    BY FileTimes DEF NameOK
  <1>3. ASSUME NEW t \in Tasks, Under(t, n)
        PROVE  UnderOK(t, n)'
    <2>1. UnderOK(t, n) /\ task[t].req.to \in Sides
      BY <1>3, TaskParts, PlaceOK DEF NameOK, Under, InFlight
    <2>2. /\ tree'[task[t].req.to][n] = tree[task[t].req.to][n]
                \/ tree'[task[t].req.to][n] = Absent
          /\ Source(t, n)' = Source(t, n) \/ Source(t, n)' = Absent
      BY <1>1, <2>1, OtherSide DEF Source
    <2> QED BY <2>1, <2>2 DEF UnderOK, ReadOK, SentOK, PutOK, Pulls
  <1>4. TimesOK(n)'
    BY <1>1, <1>2 DEF TimesOK, StampingAt
  <1>5. Twins(n)' => Twins(n)
    BY <1>1 DEF Twins, Holds, Sides
  <1> QED BY <1>2, <1>3, <1>4, <1>5 DEF NameOK, OneWay, Under, Stamping

LEMMA EditName ==
    ASSUME Inv, NamesInv, NEW side \in Sides, NEW k \in Names,
           NEW c \in Contents \cup {"absent"}, Edit(side, k, c)
    PROVE  NamesInv'
  <1> SUFFICES ASSUME NEW n \in Names \ blurred' PROVE NameOK(n)'
    BY DEF NamesInv
  <1>0. PICK file \in File \cup {Absent} :
           /\ tree' = [tree EXCEPT ![side][k] = file]
           /\ file = Absent => last' = last /\ blurred' = blurred
           /\ file # Absent =>
                /\ last' = [last EXCEPT ![k] = Later(file.mtime, last[k])]
                /\ IF file.mtime <= last[k] + Tolerance \/ Stamping(k) THEN Blurs(k)
                   ELSE blurred' = blurred
    BY EditParts
  <1>1. task' = task /\ left' = left
    BY DEF Edit
  <1>2. /\ tree'[side][k] = file
        /\ \A m \in Names : m # k => tree'[side][m] = tree[side][m]
        /\ \A other \in Sides : other # side => tree'[other] = tree[other]
    BY <1>0, OneFile
  <1>3. NameOK(n) /\ last \in [Names -> Nat]
    BY <1>0 DEF NamesInv, Blurs, Inv, TreesOK
  <1>4. /\ last[n] \in Nat /\ Tolerance \in Nat /\ file.mtime \in Nat
    <2>1. file.mtime \in Nat
      BY <1>0, AbsentOK DEF File
    <2> QED BY <2>1, FileTimes, PlannedTransferAssumption
  <1>5. CASE n # k \/ file = Absent
    <2>1. last'[n] = last[n]
      BY <1>0, <1>3, <1>5
    <2>2. \A other \in Sides : tree'[other][n] \in {tree[other][n], Absent}
      BY <1>2, <1>5
    <2> QED BY <1>1, <1>3, <1>4, <2>1, <2>2, StillName
  <1>6. CASE n = k /\ file # Absent
    <2>1. /\ ~(file.mtime <= last[n] + Tolerance) /\ ~Stamping(n)
          /\ last'[n] = Later(file.mtime, last[n]) /\ tree'[side][n] = file
      BY <1>0, <1>2, <1>3, <1>6 DEF Blurs
    <2>2. file.mtime > last[n] + Tolerance /\ last'[n] = file.mtime
      BY <1>4, <2>1 DEF Later
    <2>3. /\ \A other \in Sides : tree[other][n].mtime <= last[n]
          /\ \A t \in Tasks : task[t].listing[n].mtime <= last[n]
      BY <1>3, <2>1 DEF NameOK, TimesOK, StampingAt, Stamping
    <2>4. /\ \A other \in Sides : tree[other][n].mtime \in Nat
          /\ \A t \in Tasks : task[t].listing[n].mtime \in Nat
      BY FileTimes
    <2>5. ASSUME NEW f, f.mtime \in Nat, f.mtime <= last[n]
          PROVE  ~Same(f, file) /\ ~Same(file, f)
      BY <1>4, <2>1, <2>2, <2>5 DEF Same, Near
    <2>6. TimesOK(n)'
      <3>1. \A other \in Sides : tree'[other][n].mtime <= file.mtime
        BY <1>2, <1>4, <2>1, <2>2, <2>3, <2>4
      <3>2. \A t \in Tasks : task'[t].listing[n].mtime <= file.mtime
        BY <1>1, <1>4, <2>2, <2>3, <2>4
      <3> QED BY <2>2, <3>1, <3>2 DEF TimesOK
    <2>7. ASSUME NEW t \in Tasks, Under(t, n)
          PROVE  UnderOK(t, n)'
      <3>1. UnderOK(t, n) /\ task[t].stage # "stamping" /\ task[t].req.to \in Sides
        BY <1>3, <2>1, <2>7, TaskParts, PlaceOK DEF NameOK, Under, InFlight, Stamping
      <3>2. CASE Other(task[t].req.to) = side
        <4>1. Source(t, n)' = file
          BY <1>1, <2>1, <3>2 DEF Source
        <4>2. ReadOK(t, n)'
          BY <1>1, <1>4, <2>1, <2>2, <2>3, <2>4, <4>1 DEF ReadOK
        <4>3. SentOK(t, n) => SentOK(t, n)'
          <5>1. SUFFICES ASSUME SentOK(t, n) PROVE ~Same(task[t].seen, file)
            BY <1>1, <4>1 DEF SentOK
          <5>2. task[t].seen.mtime \in Nat /\ task[t].seen.mtime <= last[n]
            BY <2>3, <2>4, <5>1 DEF SentOK
          <5> QED BY <2>5, <5>2
        <4> QED BY <1>1, <3>1, <4>2, <4>3 DEF UnderOK
      <3>3. CASE Other(task[t].req.to) # side
        <4>1. Source(t, n)' = Source(t, n)
          BY <1>1, <1>2, <3>1, <3>3, OtherSide DEF Source
        <4> QED BY <1>1, <3>1, <4>1 DEF UnderOK, ReadOK, SentOK, Pulls
      <3> QED BY <3>2, <3>3
    <2>8. ~Twins(n)'
      <3>1. Other(side) \in Sides /\ Other(side) # side
        BY DEF Sides, Other
      <3>2. tree'[Other(side)][n] = tree[Other(side)][n]
        BY <1>2, <3>1
      <3>3. ~Same(tree'[side][n], tree'[Other(side)][n])
        BY <2>1, <2>3, <2>4, <2>5, <3>1, <3>2
      <3> QED BY <3>3, NoTwinsNext
    <2>9. OneWay(n)'
      BY <1>1, <1>3 DEF NameOK, OneWay, Under
    <2>10. \A t \in Tasks : Under(t, n)' => UnderOK(t, n)'
      BY <1>1, <2>7 DEF Under
    <2> QED BY <2>6, <2>8, <2>9, <2>10 DEF NameOK
  <1> QED BY <1>5, <1>6

LEMMA NamesNext == Inv /\ LeftOK /\ NamesInv /\ [Next]_vars => NamesInv'
  <1> SUFFICES ASSUME Inv, LeftOK, NamesInv, [Next]_vars PROVE NamesInv'
    OBVIOUS
  <1>1. CASE UNCHANGED vars \/ OtherPlan
    <2>1. UNCHANGED <<tree, left, task, blurred, last>>
      BY <1>1 DEF vars, OtherPlan
    <2> SUFFICES ASSUME NEW n \in Names \ blurred' PROVE NameOK(n)'
      BY DEF NamesInv
    <2>2. NameOK(n)
      BY <2>1 DEF NamesInv
    <2> QED BY <2>1, <2>2, StillName
  <1>2. ASSUME NEW t \in Tasks, NEW r \in Requests[t], BeginCommand(t, r) \/ BeginOnPage(t, r)
        PROVE  NamesInv'
    BY <1>2, BeginName
  <1>3. ASSUME NEW t \in Tasks, StartJob(t) \/ CancelJob(t) \/ Fails(t)
        PROVE  NamesInv'
    BY <1>3, QuietNames, CancelJobName
  <1>4. ASSUME NEW t \in Tasks, Proceeds(t)
        PROVE  NamesInv'
    BY Zenon, <1>4, ListSourceName, StartItemName, ReadChunkName, VerifyName, InstallName, StampName,
       DeleteItemName, MoveName, QuietNames DEF Proceeds
  <1>5. ASSUME NEW side \in Sides, NEW n \in Names, NEW c \in Contents \cup {"absent"},
               Edit(side, n, c)
        PROVE  NamesInv'
    BY <1>5, EditName
  <1> QED BY <1>1, <1>2, <1>3, <1>4, <1>5, Zenon DEF Next

LEMMA NamesInit == Init => NamesInv
  <1> SUFFICES ASSUME Init, NEW n \in Names \ blurred PROVE NameOK(n)
    BY DEF NamesInv
  <1>1. /\ last[n] = Later(tree["local"][n].mtime, tree["remote"][n].mtime)
        /\ last[n] <= clock /\ ~Twins(n) /\ task = [t \in Tasks |-> Idle]
    BY DEF Init
  <1>2. last[n] \in Nat /\ \A side \in Sides : tree[side][n].mtime \in Nat
    <2>1. Inv
      BY InitSafe
    <2> QED BY <2>1, FileTimes
  <1>3. \A side \in Sides : tree[side][n].mtime <= last[n]
    BY <1>1, <1>2 DEF Later, Sides
  <1>4. \A t \in Tasks : /\ task[t].stage = "idle" /\ task[t].listing[n].mtime = 0
                         /\ ~Under(t, n)
    BY <1>1, AbsentTime DEF Idle, Under, InFlight
  <1>5. TimesOK(n)
    BY <1>1, <1>2, <1>3, <1>4 DEF TimesOK
  <1> QED BY <1>1, <1>4, <1>5 DEF NameOK, OneWay

\* Two files of a name that a plan takes for the same are the same, for any files,
\* tolerance, edits and transfers, finished or not, while their times tell anything
\* (build_sync_plan compares sizes and times, and each item gets the time of its plan).
THEOREM LooksSameTheorem == Spec => []LooksSameIsSame
  <1>1. NamesInv => LooksSameIsSame
    BY DEF NamesInv, NameOK, LooksSameIsSame
  <1>2. Spec => []NamesInv
    BY NamesInit, NamesNext, Invariance, PTL DEF Spec
  <1> QED BY <1>1, <1>2, PTL
=============================================================================
