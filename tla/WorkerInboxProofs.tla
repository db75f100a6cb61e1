--------------------------- MODULE WorkerInboxProofs ---------------------------
(***************************************************************************)
(* Proofs about WorkerInbox, for any instructions, workers, execution      *)
(* modes, bridges, callbacks and failures: while no write of a manifest is *)
(* lost a task is run once and states only advance; and a final state is   *)
(* never shown before its report.                                          *)
(***************************************************************************)
EXTENDS WorkerInbox, FiniteSetTheorems, WellFoundedInduction, TLAPS

-----------------------------------------------------------------------------
(* The newest of some instructions.                                        *)

LEMMA SmallestExists ==
    ASSUME NEW S \in SUBSET Nat, S # {}
    PROVE  \E x \in S : \A y \in S : x <= y
  <1> DEFINE R == OpToRel(<, Nat)
  <1>1. \A x, y \in Nat : y < x => <<y, x>> \in R
    <2> SUFFICES ASSUME NEW x \in Nat, NEW y \in Nat, y < x PROVE <<y, x>> \in R
      OBVIOUS
    <2>1. <<y, x>> \in Nat \X Nat /\ <<y, x>>[1] = y /\ <<y, x>>[2] = x
      OBVIOUS
    <2> QED BY <2>1, Zenon DEF OpToRel
  <1>2. IsWellFoundedOn(R, Nat)
    BY NatLessThanWellFounded
  <1> HIDE DEF R
  <1>3. PICK x \in S : \A y \in S : ~(<<y, x>> \in R)
    BY <1>2, WFMin
  <1>4. ASSUME NEW y \in S
        PROVE  x <= y
    <2>1. x \in Nat /\ y \in Nat /\ ~(<<y, x>> \in R)
      BY <1>3
    <2>2. ~(y < x)
      BY <1>1, <2>1, Zenon
    <2> QED BY <2>1, <2>2
  <1> QED BY <1>3, <1>4

\* Where the fewest others are above, none is.
LEMMA MaxIsMax ==
    ASSUME NEW S \in SUBSET Nat, S # {}, IsFiniteSet(S)
    PROVE  Max(S) \in S /\ \A y \in S : Max(S) >= y
  <1> DEFINE Above(x) == {y \in S : y > x}
             C == {Cardinality(Above(x)) : x \in S}
  <1>1. \A x \in S : Above(x) \in SUBSET S /\ IsFiniteSet(Above(x)) /\ Cardinality(Above(x)) \in Nat
    BY FS_Subset, FS_CardinalityType
  <1>2. C \in SUBSET Nat /\ C # {}
    BY <1>1
  <1>3. PICK x \in S : \A y \in S : Cardinality(Above(x)) <= Cardinality(Above(y))
    <2> HIDE DEF C
    <2>1. PICK c \in C : \A d \in C : c <= d
      BY <1>2, SmallestExists
    <2> HIDE DEF Above
    <2> QED BY <2>1 DEF C
  <1>4. ASSUME NEW y \in S, y > x
        PROVE  FALSE
    <2>0. x \in Nat /\ y \in Nat /\ \A z \in S : z \in Nat
      OBVIOUS
    <2>1. Above(y) \in SUBSET Above(x) /\ y \in Above(x) /\ y \notin Above(y)
      <3>1. \A z \in S : z > y => z > x
        BY <1>4, <2>0
      <3>2. Above(y) \subseteq Above(x)
        BY <3>1
      <3>3. y \in Above(x)
        BY <1>4
      <3>4. y \notin Above(y)
        BY <2>0
      <3> QED BY <3>2, <3>3, <3>4
    <2>2. Cardinality(Above(y)) <= Cardinality(Above(x))
          /\ (Cardinality(Above(x)) = Cardinality(Above(y)) => Above(x) = Above(y))
      BY <1>1, <2>1, FS_Subset
    <2> HIDE DEF Above
    <2> QED BY <1>1, <1>3, <2>1, <2>2
  <1>5. \A y \in S : x >= y
    BY <1>4
  <1> QED BY <1>5 DEF Max

LEMMA LargerSize ==
    ASSUME NEW n \in 0 .. 4
    PROVE  Max({3, n}) \in 3 .. 4
  <1>1. \E x \in {3, n} : \A y \in {3, n} : x >= y
    OBVIOUS
  <1>2. Max({3, n}) \in {3, n} /\ Max({3, n}) >= 3
    BY <1>1 DEF Max
  <1> QED BY <1>2

-----------------------------------------------------------------------------
(* The state: who holds what, and what a copy may be.                      *)

Begun == {"plan_read", "plan_open", "plan_fill", "decide", "approval", "run"}
Late == {"final_read", "final_open", "final_fill"}
Past == Begun \cup {"deliver"} \cup Late

\* What holds of a worker at any time; rep are the instructions reported.
WorkerOK(x, rep) ==
    /\ x \in WorkerState /\ x.copy.there /\ ~x.copy.torn /\ x.copy.size >= 1
    /\ x.pc \in Late => x.inst \in rep
    /\ x.pc \in {"claim_open", "claim_fill", "plan_open", "plan_fill"} => x.copy.state = "claimed"
    /\ x.pc \in {"final_open", "final_fill"} => x.copy.state = x.outcome

StateInv ==
    /\ manifest \in [Instructions -> Manifest] /\ poster \in [Instructions -> PosterState]
    /\ worker \in [Workers -> WorkerState] /\ \A w \in Workers : WorkerOK(worker[w], reported)
    /\ executed \in [Instructions -> Nat]
    /\ reported \subseteq Instructions /\ dry \subseteq Instructions /\ lost \in BOOLEAN
    /\ \A i \in Instructions : manifest[i].state \in Final => i \in reported

\* An instruction that is being created is touched by no worker.
NewInv ==
    \A i \in Instructions : poster[i].pc \in {"idle", "create"} =>
        /\ ~Readable(i) /\ manifest[i].state = "received"
        /\ \A w \in Workers : worker[w].pc \in WorkerSteps => worker[w].inst # i

\* What a worker may rely on: m is the manifest and e the runs of its instruction.
Relies(x, m, e) ==
    /\ x.pc \in Past => m.state = "claimed"
    /\ x.pc \in Begun => e = 0
    /\ (x.pc \in {"claim_open", "claim_fill"} /\ ~x.stale) => m.state = "received"
    /\ (x.pc \in {"claim_fill", "plan_fill", "final_fill"} /\ ~x.stale) => m.size = 0

Alone == \A v, w \in Workers :
            (v # w /\ worker[v].pc \in Past /\ worker[w].pc \in Past)
                => worker[v].inst # worker[w].inst
RunsOK == \A i \in Instructions :
            executed[i] <= 1 /\ (executed[i] = 1 => manifest[i].state # "received")
PostersOK == \A i \in Instructions :
            (poster[i].pc \in {"reopen", "refill"} /\ ~poster[i].stale)
                => manifest[i].state = "received"
ClaimInv ==
    ~lost => /\ \A w \in Workers :
                  Relies(worker[w], manifest[worker[w].inst], executed[worker[w].inst])
             /\ Alone /\ RunsOK /\ PostersOK

LEMMA ConstantsOK ==
    /\ Absent \in Manifest /\ Received \in Manifest /\ Received.state = "received"
    /\ Received.there /\ ~Received.torn /\ Received.size = 1
    /\ Absent.state = "received" /\ ~Absent.there
    /\ IdleWorker.pc = "idle" /\ WorkerOK(IdleWorker, {}) /\ IdleWorker.inst \in Instructions
  <1>1. (CHOOSE i \in Instructions : TRUE) \in Instructions
    BY InboxAssumption
  <1>2. Absent \in Manifest /\ Absent.state = "received" /\ ~Absent.there /\ ~Absent.torn
    BY DEF Absent, Manifest, States
  <1>3. /\ Received \in Manifest /\ Received.state = "received"
        /\ Received.there /\ ~Received.torn /\ Received.size = 1
    BY DEF Received, Manifest, States
  <1> QED BY <1>1, <1>2, <1>3 DEF IdleWorker, WorkerState, WorkerOK, Final, Late

LEMMA WorkerMono ==
    ASSUME NEW x, NEW R, NEW T, R \subseteq T, WorkerOK(x, R)
    PROVE  WorkerOK(x, T)
  BY DEF WorkerOK

Inv == StateInv /\ NewInv /\ ClaimInv

-----------------------------------------------------------------------------
(* Steps of one worker.                                                    *)

Only(w) == worker' \in [Workers -> WorkerState]
           /\ \A v \in Workers : v # w => worker'[v] = worker[v]

LEMMA GotoStep ==
    ASSUME worker \in [Workers -> WorkerState], NEW w \in Workers,
           NEW pc \in {"idle", "dead"} \cup WorkerSteps, Goto(w, pc)
    PROVE  /\ Only(w) /\ worker'[w].pc = pc
           /\ worker'[w].inst = worker[w].inst /\ worker'[w].copy = worker[w].copy
           /\ worker'[w].stale = worker[w].stale /\ worker'[w].outcome = worker[w].outcome
  BY DEF Goto, Only, WorkerState

\* A step that also settles how the task ended.
LEMMA OutcomeStep ==
    ASSUME worker \in [Workers -> WorkerState], NEW w \in Workers,
           NEW pc \in {"idle", "dead"} \cup WorkerSteps, NEW outcome \in Final,
           worker' = [worker EXCEPT ![w].pc = pc, ![w].outcome = outcome]
    PROVE  /\ Only(w) /\ worker'[w].pc = pc /\ worker'[w].outcome = outcome
           /\ worker'[w].inst = worker[w].inst /\ worker'[w].copy = worker[w].copy
  BY DEF Only, WorkerState

LEMMA SelectStep ==
    ASSUME worker \in [Workers -> WorkerState], NEW w \in Workers, NEW i \in Instructions,
           worker' = [worker EXCEPT ![w].pc = "claim_read", ![w].inst = i]
    PROVE  /\ Only(w) /\ worker'[w].pc = "claim_read" /\ worker'[w].inst = i
           /\ worker'[w].copy = worker[w].copy
  BY DEF Only, WorkerState, WorkerSteps

LEMMA HoldStep ==
    ASSUME worker \in [Workers -> WorkerState], NEW w \in Workers, NEW content \in Manifest,
           NEW pc \in Writes, Hold(w, content, pc)
    PROVE  /\ Only(w) /\ worker'[w].pc = pc /\ worker'[w].copy = content
           /\ ~worker'[w].stale /\ worker'[w].inst = worker[w].inst
           /\ worker'[w].outcome = worker[w].outcome
  BY DEF Hold, Only, WorkerState, WorkerSteps

LEMMA EndStep ==
    ASSUME worker \in [Workers -> WorkerState], NEW w \in Workers, NEW R,
           Die(w) \/ Finish(w)
    PROVE  Only(w) /\ worker'[w].pc \in {"idle", "dead"} /\ WorkerOK(worker'[w], R)
  <1>1. ASSUME NEW x, x = IdleWorker \/ x = [IdleWorker EXCEPT !.pc = "dead"],
               worker' = [worker EXCEPT ![w] = x]
        PROVE  Only(w) /\ worker'[w].pc \in {"idle", "dead"} /\ WorkerOK(worker'[w], R)
    <2>1. WorkerOK(IdleWorker, {}) /\ IdleWorker.pc = "idle"
      BY ConstantsOK
    <2>2. x \in WorkerState /\ x.pc \in {"idle", "dead"}
          /\ x.copy = IdleWorker.copy /\ x.outcome = IdleWorker.outcome
      BY <1>1, <2>1 DEF WorkerOK, WorkerState
    <2>3. WorkerOK(x, R)
      BY <2>1, <2>2 DEF WorkerOK, Late
    <2>4. worker'[w] = x
      BY <1>1
    <2> QED BY <1>1, <2>2, <2>3, <2>4 DEF Only
  <1>2. CASE Die(w)
    BY <1>1, <1>2 DEF Die
  <1>3. CASE Finish(w)
    BY <1>1, <1>3 DEF Finish
  <1> QED BY <1>2, <1>3

\* A step of one worker that leaves the manifests, the handlers and the runs
\* alone is correct where what it comes to rely on holds.
LEMMA QuietStep ==
    ASSUME Inv, NEW w \in Workers, Only(w), UNCHANGED <<manifest, poster, executed, lost>>,
           reported \subseteq reported', reported' \subseteq Instructions,
           dry' \subseteq Instructions, WorkerOK(worker'[w], reported'),
           worker'[w].pc \in WorkerSteps =>
               \/ worker[w].pc \in WorkerSteps /\ worker'[w].inst = worker[w].inst
               \/ Readable(worker'[w].inst),
           ~lost => Relies(worker'[w], manifest[worker'[w].inst], executed[worker'[w].inst]),
           worker'[w].pc \in Past => worker[w].pc \in Past /\ worker'[w].inst = worker[w].inst
    PROVE  Inv'
  <1>1. StateInv'
    <2>1. \A v \in Workers : WorkerOK(worker'[v], reported')
      BY WorkerMono DEF Inv, StateInv, Only
    <2> QED BY <2>1 DEF Inv, StateInv, Only
  <1>2. NewInv'
    <2> SUFFICES ASSUME NEW i \in Instructions, poster[i].pc \in {"idle", "create"}
                 PROVE  /\ ~Readable(i)' /\ manifest'[i].state = "received"
                        /\ \A v \in Workers : worker'[v].pc \in WorkerSteps => worker'[v].inst # i
      BY DEF NewInv
    <2>1. ~Readable(i) /\ manifest[i].state = "received"
          /\ \A v \in Workers : worker[v].pc \in WorkerSteps => worker[v].inst # i
      BY DEF Inv, NewInv
    <2> QED BY <2>1 DEF Only, Readable
  <1>3. ClaimInv'
    <2> SUFFICES ASSUME ~lost PROVE ClaimInv'
      BY DEF ClaimInv
    <2>1. \A v \in Workers : Relies(worker[v], manifest[worker[v].inst], executed[worker[v].inst])
      BY DEF Inv, ClaimInv
    <2>2. \A v \in Workers :
              Relies(worker'[v], manifest'[worker'[v].inst], executed'[worker'[v].inst])
      BY <2>1 DEF Only
    <2>3. Alone'
      BY DEF Alone, Inv, ClaimInv, Only
    <2>4. RunsOK' /\ PostersOK'
      BY DEF RunsOK, PostersOK, Inv, ClaimInv
    <2> QED BY <2>2, <2>3, <2>4 DEF ClaimInv
  <1> QED BY <1>1, <1>2, <1>3 DEF Inv

LEMMA WorkerFacts ==
    ASSUME Inv, NEW w \in Workers
    PROVE  /\ worker \in [Workers -> WorkerState] /\ WorkerOK(worker[w], reported)
           /\ worker[w] \in WorkerState /\ worker[w].inst \in Instructions
           /\ manifest[worker[w].inst] \in Manifest
           /\ ~lost => Relies(worker[w], manifest[worker[w].inst], executed[worker[w].inst])
           /\ reported \subseteq Instructions /\ dry \subseteq Instructions
  BY DEF Inv, StateInv, ClaimInv, WorkerState

LEMMA EndingIsSafe ==
    ASSUME Inv, NEW w \in Workers, Die(w) \/ Finish(w),
           UNCHANGED <<manifest, poster, executed, lost>>,
           reported \subseteq reported', reported' \subseteq Instructions, dry' \subseteq Instructions
    PROVE  Inv'
  <1>1. Only(w) /\ worker'[w].pc \in {"idle", "dead"} /\ WorkerOK(worker'[w], reported')
    BY EndStep, WorkerFacts
  <1>2. worker'[w].pc \notin WorkerSteps /\ worker'[w].pc \notin Past
    BY <1>1 DEF WorkerSteps, Writes, Past, Begun, Late
  <1>3. Relies(worker'[w], manifest[worker'[w].inst], executed[worker'[w].inst])
    BY <1>1, <1>2 DEF Relies, Past
  <1> QED BY <1>1, <1>2, <1>3, QuietStep

LEMMA SelectSafe == ASSUME Inv, NEW w \in Workers, Select(w) PROVE Inv'
  <1> DEFINE S == {i \in Instructions : Runnable(i)}
             i == Max(S)
  <1>1. S \in SUBSET Nat /\ S # {} /\ IsFiniteSet(S)
    BY InboxAssumption, FS_Subset DEF Select
  <1>2. i \in Instructions /\ Readable(i)
    <2> HIDE DEF i
    <2>1. i \in S
      BY <1>1, MaxIsMax DEF i
    <2> QED BY <2>1 DEF Runnable, Selectable
  <1> HIDE DEF i
  <1>3. worker' = [worker EXCEPT ![w].pc = "claim_read", ![w].inst = i]
        /\ UNCHANGED <<manifest, poster, executed, reported, dry, lost>>
    BY DEF Select, i
  <1>4. Only(w) /\ worker'[w].pc = "claim_read" /\ worker'[w].inst = i
        /\ worker'[w].copy = worker[w].copy
    BY <1>2, <1>3, SelectStep, WorkerFacts
  <1>5. WorkerOK(worker'[w], reported)
    BY <1>4, WorkerFacts DEF WorkerOK, Only, Late
  <1>6. worker'[w].pc \notin Past /\ Relies(worker'[w], manifest[i], executed[i])
    BY <1>4 DEF Relies, Past, Begun, Late
  <1> QED BY <1>2, <1>3, <1>4, <1>5, <1>6, QuietStep, WorkerFacts

\* A manifest as read, with another state and some keys more.
WithState(m, s, n) == [m EXCEPT !.state = s, !.size = n]
LEMMA ChangedCopy ==
    ASSUME NEW m \in Manifest, NEW s \in States, NEW n \in 0 .. 4, n >= 1, m.there, ~m.torn
    PROVE  /\ WithState(m, s, n) \in Manifest /\ WithState(m, s, n).there
           /\ ~WithState(m, s, n).torn /\ WithState(m, s, n).size >= 1
           /\ WithState(m, s, n).state = s
  <1> DEFINE c == WithState(m, s, n)
  <1>1. c \in Manifest
    BY DEF Manifest, WithState
  <1>2. c.there = m.there /\ c.torn = m.torn /\ c.state = s /\ c.size = n
    BY DEF Manifest, WithState
  <1> HIDE DEF WithState
  <1> QED BY <1>1, <1>2

LEMMA ClaimReadSafe == ASSUME Inv, NEW w \in Workers, ClaimRead(w) PROVE Inv'
  <1> DEFINE i == worker[w].inst
             content == WithState(manifest[i], "claimed", 2)
  <1>1. CASE Die(w)
    BY <1>1, EndingIsSafe, WorkerFacts DEF ClaimRead
  <1>2. CASE Readable(i) /\ manifest[i].state = "received" /\ Hold(w, content, "claim_open")
             /\ worker[w].pc = "claim_read"
             /\ UNCHANGED <<manifest, poster, executed, reported, dry, lost>>
    <2>1. content \in Manifest /\ content.there /\ ~content.torn /\ content.size >= 1
          /\ content.state = "claimed"
      <3>1. manifest[i] \in Manifest /\ manifest[i].there /\ ~manifest[i].torn
            /\ "claimed" \in States
        BY <1>2, WorkerFacts DEF Readable, States
      <3>2. \A n \in 0 .. 4 : n >= 1 =>
              LET c == WithState(manifest[i], "claimed", n)
              IN  c \in Manifest /\ c.there /\ ~c.torn /\ c.size >= 1 /\ c.state = "claimed"
        BY <3>1, ChangedCopy
      <3> QED BY <3>2
    <2> HIDE DEF content
    <2>2. /\ Only(w) /\ worker'[w].pc = "claim_open" /\ worker'[w].copy = content
          /\ ~worker'[w].stale /\ worker'[w].inst = i
      BY <1>2, <2>1, HoldStep, WorkerFacts DEF Writes
    <2>3. WorkerOK(worker'[w], reported)
      BY <2>1, <2>2, WorkerFacts DEF WorkerOK, Only, Late
    <2>4. worker'[w].pc \notin Past /\ Relies(worker'[w], manifest[i], executed[i])
      BY <1>2, <2>2 DEF Relies, Past, Begun, Late
    <2>5. worker[w].pc \in WorkerSteps
      BY <1>2 DEF WorkerSteps
    <2> QED BY <1>2, <2>2, <2>3, <2>4, <2>5, QuietStep, WorkerFacts
  <1> QED BY <1>1, <1>2 DEF ClaimRead, Claimable, WithState

LEMMA UpdateReadSafe == ASSUME Inv, NEW w \in Workers, UpdateRead(w) PROVE Inv'
  <1> DEFINE i == worker[w].inst
             plan == WithState(manifest[i], "claimed", Max({3, manifest[i].size}))
             final == WithState(manifest[i], worker[w].outcome, 4)
  <1>0. UNCHANGED <<manifest, poster, executed, reported, dry, lost>>
        /\ worker[w].pc \in {"plan_read", "final_read"}
    BY DEF UpdateRead
  <1>1. CASE Die(w)
    BY <1>0, <1>1, EndingIsSafe, WorkerFacts
  <1>2. ASSUME NEW content \in Manifest, NEW pc \in {"plan_open", "final_open"},
               content.there, ~content.torn, content.size >= 1,
               pc = "plan_open" => content.state = "claimed" /\ worker[w].pc = "plan_read",
               pc = "final_open" => content.state = worker[w].outcome /\ worker[w].pc = "final_read",
               Hold(w, content, pc)
        PROVE  Inv'
    <2>1. pc \in Writes
      BY DEF Writes
    <2>2. /\ Only(w) /\ worker'[w].pc = pc /\ worker'[w].copy = content
          /\ ~worker'[w].stale /\ worker'[w].inst = i /\ worker'[w].outcome = worker[w].outcome
      BY <1>2, <2>1, HoldStep, WorkerFacts
    <2>3. WorkerOK(worker'[w], reported)
      BY <1>2, <2>2, WorkerFacts DEF WorkerOK, Only, Late
    <2>4. worker[w].pc \in Past /\ worker[w].pc \in WorkerSteps
      BY <1>0 DEF Past, Begun, Late, WorkerSteps
    <2>5. ~lost => Relies(worker'[w], manifest[i], executed[i])
      BY <1>2, <2>2, WorkerFacts DEF Relies, Past, Begun, Late
    <2> QED BY <1>0, <2>2, <2>3, <2>4, <2>5, QuietStep, WorkerFacts
  <1>3. CASE Readable(i) /\ worker[w].pc = "plan_read" /\ Hold(w, plan, "plan_open")
    <2>1. Max({3, manifest[i].size}) \in 3 .. 4
      BY LargerSize, WorkerFacts DEF Manifest
    <2>2. plan \in Manifest /\ plan.there /\ ~plan.torn /\ plan.size >= 1
          /\ plan.state = "claimed"
      <3>1. manifest[i] \in Manifest /\ manifest[i].there /\ ~manifest[i].torn
            /\ "claimed" \in States /\ Max({3, manifest[i].size}) \in 0 .. 4
            /\ Max({3, manifest[i].size}) >= 1
        BY <1>3, <2>1, WorkerFacts DEF Readable, States
      <3> QED BY <3>1, ChangedCopy
    <2> HIDE DEF plan
    <2> QED BY <1>2, <1>3, <2>2
  <1>4. CASE Readable(i) /\ worker[w].pc = "final_read" /\ Hold(w, final, "final_open")
    <2>1. worker[w].outcome \in States
      BY WorkerFacts DEF WorkerState, States
    <2>2. final \in Manifest /\ final.there /\ ~final.torn /\ final.size >= 1
          /\ final.state = worker[w].outcome
      <3>1. manifest[i] \in Manifest /\ manifest[i].there /\ ~manifest[i].torn
        BY <1>4, WorkerFacts DEF Readable
      <3>2. \A n \in 0 .. 4 : n >= 1 =>
              LET c == WithState(manifest[i], worker[w].outcome, n)
              IN  c \in Manifest /\ c.there /\ ~c.torn /\ c.size >= 1
                  /\ c.state = worker[w].outcome
        BY <2>1, <3>1, ChangedCopy
      <3> QED BY <3>2
    <2> HIDE DEF final
    <2> QED BY <1>2, <1>4, <2>2
  <1> HIDE DEF plan, final
  <1>5. \/ Die(w)
        \/ Readable(i) /\ worker[w].pc = "plan_read" /\ Hold(w, plan, "plan_open")
        \/ Readable(i) /\ worker[w].pc = "final_read" /\ Hold(w, final, "final_open")
    BY <1>0 DEF UpdateRead, plan, final, WithState
  <1> QED BY <1>1, <1>3, <1>4, <1>5

\* Going on with the same instruction, having claimed it.
LEMMA GoingOnIsSafe ==
    ASSUME Inv, NEW w \in Workers, Only(w), UNCHANGED <<manifest, poster, executed, lost>>,
           reported \subseteq reported', reported' \subseteq Instructions,
           dry' \subseteq Instructions, worker[w].pc \in Past,
           worker'[w].inst = worker[w].inst, worker'[w].copy = worker[w].copy,
           worker'[w].pc \in {"approval", "run", "deliver", "final_read"},
           worker'[w].pc = "final_read" => worker[w].inst \in reported',
           worker'[w].pc \in {"approval", "run"} => worker[w].pc \in Begun
    PROVE  Inv'
  <1>1. WorkerOK(worker'[w], reported')
    BY WorkerFacts DEF WorkerOK, Only, Late
  <1>2. worker[w].pc \in WorkerSteps
    BY DEF Past, Begun, Late, WorkerSteps, Writes
  <1>3. ~lost => Relies(worker'[w], manifest[worker'[w].inst], executed[worker'[w].inst])
    BY WorkerFacts DEF Relies, Past, Begun, Late
  <1> QED BY <1>1, <1>2, <1>3, QuietStep

LEMMA DecideSafe == ASSUME Inv, NEW w \in Workers, Decide(w) PROVE Inv'
  <1>0. UNCHANGED <<manifest, poster, executed, reported, lost>> /\ worker[w].pc = "decide"
        /\ worker[w].pc \in Past
    BY DEF Decide, Past, Begun
  <1>1. dry' \subseteq Instructions
    BY WorkerFacts DEF Decide
  <1>2. CASE Die(w) \/ Finish(w)
    BY <1>0, <1>1, <1>2, EndingIsSafe, WorkerFacts
  <1>3. CASE FinishUnexecuted(w)
    <2>1. "deliver" \in {"idle", "dead"} \cup WorkerSteps /\ "blocked" \in Final
      BY DEF WorkerSteps, Final
    <2>2. Only(w) /\ worker'[w].pc = "deliver" /\ worker'[w].inst = worker[w].inst
          /\ worker'[w].copy = worker[w].copy
      BY <1>3, <2>1, OutcomeStep, WorkerFacts DEF FinishUnexecuted
    <2> QED BY <1>0, <1>1, <2>2, GoingOnIsSafe, WorkerFacts
  <1>4. CASE Goto(w, "approval")
    <2>1. "approval" \in {"idle", "dead"} \cup WorkerSteps
      BY DEF WorkerSteps
    <2>2. Only(w) /\ worker'[w].pc = "approval" /\ worker'[w].inst = worker[w].inst
          /\ worker'[w].copy = worker[w].copy
      BY <1>4, <2>1, GotoStep, WorkerFacts
    <2>3. worker[w].pc \in Begun
      BY <1>0 DEF Begun
    <2> QED BY <1>0, <1>1, <2>2, <2>3, GoingOnIsSafe, WorkerFacts
  <1> QED BY <1>2, <1>3, <1>4 DEF Decide

LEMMA ApprovalSafe == ASSUME Inv, NEW w \in Workers, Approval(w) PROVE Inv'
  <1>0. UNCHANGED <<manifest, poster, executed, reported, dry, lost>>
        /\ worker[w].pc \in Past /\ worker[w].pc \in Begun
    BY DEF Approval, Past, Begun
  <1>1. CASE Die(w)
    BY <1>0, <1>1, EndingIsSafe, WorkerFacts
  <1>2. CASE Goto(w, "run")
    <2>1. "run" \in {"idle", "dead"} \cup WorkerSteps
      BY DEF WorkerSteps
    <2>2. Only(w) /\ worker'[w].pc = "run" /\ worker'[w].inst = worker[w].inst
          /\ worker'[w].copy = worker[w].copy
      BY <1>2, <2>1, GotoStep, WorkerFacts
    <2> QED BY <1>0, <2>2, GoingOnIsSafe, WorkerFacts
  <1> QED BY <1>1, <1>2 DEF Approval

LEMMA DeliverSafe == ASSUME Inv, NEW w \in Workers, Deliver(w) PROVE Inv'
  <1>0. UNCHANGED <<manifest, poster, executed, dry, lost>> /\ worker[w].pc \in Past
    BY DEF Deliver, Past
  <1>1. reported \subseteq reported' /\ reported' \subseteq Instructions
    BY WorkerFacts DEF Deliver
  <1>2. CASE Die(w)
    BY <1>0, <1>1, <1>2, EndingIsSafe, WorkerFacts
  <1>3. CASE reported' = reported \cup {worker[w].inst} /\ Goto(w, "final_read")
    <2>1. "final_read" \in {"idle", "dead"} \cup WorkerSteps
      BY DEF WorkerSteps
    <2>2. Only(w) /\ worker'[w].pc = "final_read" /\ worker'[w].inst = worker[w].inst
          /\ worker'[w].copy = worker[w].copy
      BY <1>3, <2>1, GotoStep, WorkerFacts
    <2> QED BY <1>0, <1>1, <1>3, <2>2, GoingOnIsSafe, WorkerFacts
  <1> QED BY <1>2, <1>3 DEF Deliver

-----------------------------------------------------------------------------
(* Running the task, and the writes of the manifest.                       *)

LEMMA RunSafe == ASSUME Inv, NEW w \in Workers, Run(w) PROVE Inv'
  <1> DEFINE i == worker[w].inst
  <1>0. UNCHANGED <<manifest, poster, reported, dry, lost>> /\ worker[w].pc = "run"
        /\ executed' = [executed EXCEPT ![i] = @ + 1] /\ i \in Instructions
    BY WorkerFacts DEF Run
  <1>1. Only(w) /\ worker'[w].pc = "deliver" /\ worker'[w].inst = i
        /\ worker'[w].copy = worker[w].copy
    <2>1. PICK outcome \in RunOutcomes :
              worker' = [worker EXCEPT ![w].pc = "deliver", ![w].outcome = outcome]
      BY DEF Run, AfterRun
    <2>2. "deliver" \in {"idle", "dead"} \cup WorkerSteps /\ outcome \in Final
      BY DEF WorkerSteps, Final, RunOutcomes
    <2> QED BY <2>1, <2>2, OutcomeStep, WorkerFacts
  <1>2. StateInv'
    <2>1. WorkerOK(worker'[w], reported)
      BY <1>1, WorkerFacts DEF WorkerOK, Only, Late
    <2>2. executed' \in [Instructions -> Nat]
      BY <1>0 DEF Inv, StateInv
    <2> QED BY <1>0, <1>1, <2>1, <2>2 DEF Inv, StateInv, Only
  <1>3. NewInv'
    <2>1. worker[w].pc \in WorkerSteps
      BY <1>0 DEF WorkerSteps
    <2> QED BY <1>0, <1>1, <2>1 DEF Inv, NewInv, Only, Readable
  <1>4. ClaimInv'
    <2> SUFFICES ASSUME ~lost PROVE ClaimInv'
      BY <1>0 DEF ClaimInv
    <2>1. manifest[i].state = "claimed" /\ executed[i] = 0 /\ worker[w].pc \in Past
      BY <1>0, WorkerFacts DEF Relies, Past, Begun
    <2>2. executed' \in [Instructions -> Nat] /\ executed'[i] = 1
          /\ \A k \in Instructions : k # i => executed'[k] = executed[k]
      BY <1>0, <2>1 DEF Inv, StateInv
    <2>3. \A v \in Workers :
              Relies(worker'[v], manifest'[worker'[v].inst], executed'[worker'[v].inst])
      <3>1. Relies(worker'[w], manifest'[i], executed'[i])
        BY <1>0, <1>1, <2>1 DEF Relies, Begun
      <3>2. ASSUME NEW v \in Workers, v # w
            PROVE  Relies(worker[v], manifest[worker[v].inst], executed'[worker[v].inst])
        <4>1. Relies(worker[v], manifest[worker[v].inst], executed[worker[v].inst])
              /\ worker[v].inst \in Instructions
          BY WorkerFacts
        <4>2. CASE worker[v].inst # i
          BY <2>2, <4>1, <4>2
        <4>3. CASE worker[v].inst = i
          <5>1. worker[v].pc \notin Past
            BY <2>1, <3>2, <4>3 DEF Inv, ClaimInv, Alone
          <5> QED BY <4>1, <5>1 DEF Relies, Past
        <4> QED BY <4>2, <4>3
      <3> QED BY <1>0, <1>1, <3>1, <3>2 DEF Only
    <2>4. Alone'
      BY <1>1, <2>1 DEF Alone, Inv, ClaimInv, Only
    <2>5. RunsOK' /\ PostersOK'
      BY <1>0, <2>1, <2>2 DEF RunsOK, PostersOK, Inv, ClaimInv
    <2> QED BY <2>3, <2>4, <2>5 DEF ClaimInv
  <1> QED BY <1>2, <1>3, <1>4 DEF Inv

LEMMA TruncateFacts ==
    ASSUME StateInv, NEW i \in Instructions, Truncate(i)
    PROVE  /\ manifest' \in [Instructions -> Manifest]
           /\ \A k \in Instructions : manifest'[k].state = manifest[k].state
           /\ \A k \in Instructions : k # i => manifest'[k] = manifest[k]
           /\ manifest'[i].size = 0 /\ manifest'[i].torn
  <1> DEFINE open == [manifest EXCEPT ![i].there = TRUE]
             torn == [open EXCEPT ![i].torn = TRUE]
  <1>1. /\ open \in [Instructions -> Manifest] /\ open[i].state = manifest[i].state
        /\ \A k \in Instructions : k # i => open[k] = manifest[k]
    BY DEF StateInv, Manifest
  <1> HIDE DEF open
  <1>2. /\ torn \in [Instructions -> Manifest] /\ torn[i].state = manifest[i].state
        /\ torn[i].torn /\ \A k \in Instructions : k # i => torn[k] = manifest[k]
    BY <1>1 DEF Manifest
  <1>3. manifest' = [torn EXCEPT ![i].size = 0]
    BY DEF Truncate, open
  <1> HIDE DEF torn
  <1>4. /\ manifest' \in [Instructions -> Manifest] /\ manifest'[i].state = manifest[i].state
        /\ manifest'[i].torn /\ manifest'[i].size = 0
        /\ \A k \in Instructions : k # i => manifest'[k] = manifest[k]
    BY <1>2, <1>3 DEF Manifest
  <1> QED BY <1>4

LEMMA OpenManifestSafe == ASSUME Inv, NEW w \in Workers, OpenManifest(w) PROVE Inv'
  <1> DEFINE i == worker[w].inst
             next == CASE worker[w].pc = "claim_open" -> "claim_fill"
                       [] worker[w].pc = "plan_open" -> "plan_fill"
                       [] worker[w].pc = "final_open" -> "final_fill"
  <1>0. UNCHANGED <<poster, executed, reported, dry, lost>> /\ Truncate(i)
        /\ Goto(w, next) /\ i \in Instructions
    BY WorkerFacts DEF OpenManifest
  <1>1. /\ worker[w].pc \in {"claim_open", "plan_open", "final_open"}
        /\ worker[w].pc = "claim_open" => next = "claim_fill"
        /\ worker[w].pc = "plan_open" => next = "plan_fill"
        /\ worker[w].pc = "final_open" => next = "final_fill"
    BY DEF OpenManifest
  <1> HIDE DEF next
  <1>2. next \in {"idle", "dead"} \cup WorkerSteps
    BY <1>1 DEF WorkerSteps, Writes
  <1>3. /\ Only(w) /\ worker'[w].pc = next /\ worker'[w].inst = i
        /\ worker'[w].copy = worker[w].copy /\ worker'[w].stale = worker[w].stale
        /\ worker'[w].outcome = worker[w].outcome
    BY <1>0, <1>2, GotoStep, WorkerFacts
  <1>4. /\ manifest' \in [Instructions -> Manifest]
        /\ \A k \in Instructions : manifest'[k].state = manifest[k].state
        /\ \A k \in Instructions : k # i => manifest'[k] = manifest[k]
        /\ manifest'[i].size = 0 /\ manifest'[i].torn
    BY <1>0, TruncateFacts DEF Inv
  <1>5. StateInv'
    <2>1. WorkerOK(worker'[w], reported)
      BY <1>1, <1>3, WorkerFacts DEF WorkerOK, Only, Late
    <2> QED BY <1>0, <1>3, <1>4, <2>1 DEF Inv, StateInv, Only
  <1>6. NewInv'
    <2>1. worker[w].pc \in WorkerSteps
      BY <1>1 DEF WorkerSteps, Writes
    <2>2. \A k \in Instructions : ~Readable(k) => ~Readable(k)'
      BY <1>4 DEF Readable
    <2> QED BY <1>0, <1>3, <1>4, <2>1, <2>2 DEF Inv, NewInv, Only
  <1>7. ClaimInv'
    <2> SUFFICES ASSUME ~lost PROVE ClaimInv'
      BY <1>0 DEF ClaimInv
    <2>1. ASSUME NEW v \in Workers
          PROVE  Relies(worker'[v], manifest'[worker'[v].inst], executed'[worker'[v].inst])
      <3>1. Relies(worker[v], manifest[worker[v].inst], executed[worker[v].inst])
            /\ worker[v].inst \in Instructions
        BY WorkerFacts
      <3>2. CASE v = w
        BY <1>0, <1>1, <1>3, <1>4, <3>1, <3>2 DEF Relies, Past, Begun, Late
      <3>3. CASE v # w
        <4>1. worker'[v] = worker[v]
          BY <1>3, <3>3 DEF Only
        <4>2. manifest'[worker[v].inst].state = manifest[worker[v].inst].state
              /\ (manifest[worker[v].inst].size = 0 => manifest'[worker[v].inst].size = 0)
          BY <1>4, <3>1
        <4> QED BY <1>0, <3>1, <4>1, <4>2 DEF Relies
      <3> QED BY <3>2, <3>3
    <2>2. Alone'
      BY <1>1, <1>3 DEF Alone, Inv, ClaimInv, Only, Past, Begun, Late
    <2>3. RunsOK' /\ PostersOK'
      BY <1>0, <1>4 DEF RunsOK, PostersOK, Inv, ClaimInv
    <2> QED BY <2>1, <2>2, <2>3 DEF ClaimInv
  <1> QED BY <1>5, <1>6, <1>7 DEF Inv

LEMMA FillFacts ==
    ASSUME StateInv, NEW i \in Instructions, NEW content \in Manifest, Fill(i, content)
    PROVE  /\ manifest' \in [Instructions -> Manifest]
           /\ manifest'[i].state \in {manifest[i].state, content.state}
           /\ \A k \in Instructions : k # i => manifest'[k] = manifest[k]
           /\ (manifest[i].size = 0 /\ content.size >= 1) => manifest'[i] = content
  <1>1. CASE manifest' = [manifest EXCEPT ![i] = content]
    BY <1>1 DEF StateInv
  <1>2. CASE manifest[i].size >= content.size /\ manifest' = [manifest EXCEPT ![i].torn = TRUE]
    <2>1. manifest[i].size \in 0 .. 4 /\ content.size \in 0 .. 4
      BY DEF StateInv, Manifest
    <2>2. ~(manifest[i].size = 0 /\ content.size >= 1)
      BY <1>2, <2>1
    <2>3. manifest' \in [Instructions -> Manifest] /\ manifest'[i].state = manifest[i].state
          /\ \A k \in Instructions : k # i => manifest'[k] = manifest[k]
      BY <1>2 DEF StateInv, Manifest
    <2> QED BY <2>2, <2>3
  <1> QED BY <1>1, <1>2 DEF Fill

LEMMA StaleFacts ==
    ASSUME NEW i \in Instructions, NEW ws \in [Workers -> WorkerState]
    PROVE  /\ StaleWorkers(i, ws) \in [Workers -> WorkerState]
           /\ \A v \in Workers :
                 /\ (ws[v].inst = i /\ ws[v].pc \in Writes) => StaleWorkers(i, ws)[v].stale
                 /\ ~(ws[v].inst = i /\ ws[v].pc \in Writes) => StaleWorkers(i, ws)[v] = ws[v]
                 /\ StaleWorkers(i, ws)[v].pc = ws[v].pc
                 /\ StaleWorkers(i, ws)[v].inst = ws[v].inst
                 /\ StaleWorkers(i, ws)[v].copy = ws[v].copy
                 /\ StaleWorkers(i, ws)[v].outcome = ws[v].outcome
  <1>1. ASSUME NEW v \in Workers
        PROVE  LET y == IF ws[v].inst = i /\ ws[v].pc \in Writes
                        THEN [ws[v] EXCEPT !.stale = TRUE] ELSE ws[v]
               IN  /\ y \in WorkerState
                   /\ (ws[v].inst = i /\ ws[v].pc \in Writes) => y.stale
                   /\ ~(ws[v].inst = i /\ ws[v].pc \in Writes) => y = ws[v]
                   /\ y.pc = ws[v].pc /\ y.inst = ws[v].inst
                   /\ y.copy = ws[v].copy /\ y.outcome = ws[v].outcome
    <2>1. ws[v] \in WorkerState
      OBVIOUS
    <2>2. CASE ws[v].inst = i /\ ws[v].pc \in Writes
      BY <2>1, <2>2 DEF WorkerState
    <2>3. CASE ~(ws[v].inst = i /\ ws[v].pc \in Writes)
      BY <2>1, <2>3
    <2> QED BY <2>2, <2>3
  <1> QED BY <1>1 DEF StaleWorkers

LEMMA StalePosterFacts ==
    ASSUME poster \in [Instructions -> PosterState], NEW i \in Instructions, StalePoster(i)
    PROVE  /\ poster' \in [Instructions -> PosterState]
           /\ \A k \in Instructions : poster'[k].pc = poster[k].pc
           /\ \A k \in Instructions : k # i => poster'[k] = poster[k]
           /\ poster[i].pc \in {"reopen", "refill"} => poster'[i].stale
  <1>1. poster[i] \in PosterState
    OBVIOUS
  <1>2. (poster[i].stale \/ poster[i].pc \in {"reopen", "refill"}) \in BOOLEAN
    BY <1>1 DEF PosterState
  <1> QED BY <1>1, <1>2 DEF StalePoster, PosterState

LEMMA FillManifestSafe == ASSUME Inv, NEW w \in Workers, FillManifest(w) PROVE Inv'
  <1> DEFINE i == worker[w].inst
             copy == worker[w].copy
             next == CASE worker[w].pc = "claim_fill" -> "plan_read"
                       [] worker[w].pc = "plan_fill" -> "decide"
                       [] worker[w].pc = "final_fill" -> "idle"
             x == [IdleWorker EXCEPT !.pc = next, !.inst = IF next = "idle" THEN @ ELSE i]
             mid == [worker EXCEPT ![w] = x]
  <1>0. /\ Fill(i, copy) /\ StalePoster(i) /\ worker' = StaleWorkers(i, mid)
        /\ lost' = (lost \/ worker[w].stale) /\ UNCHANGED <<executed, reported, dry>>
    BY DEF FillManifest
  <1>1. /\ worker[w].pc \in {"claim_fill", "plan_fill", "final_fill"}
        /\ worker[w].pc = "claim_fill" => next = "plan_read"
        /\ worker[w].pc = "plan_fill" => next = "decide"
        /\ worker[w].pc = "final_fill" => next = "idle"
    BY DEF FillManifest
  <1> HIDE DEF next
  <1>2. /\ WorkerOK(x, {}) /\ x.pc = next /\ (next # "idle" => x.inst = i)
        /\ x.pc \notin Writes /\ x.pc \in {"idle", "dead"} \cup WorkerSteps
    <2>1. IdleWorker \in WorkerState /\ WorkerOK(IdleWorker, {}) /\ i \in Instructions
      BY ConstantsOK, WorkerFacts DEF WorkerOK
    <2>2. next \in {"idle", "dead"} \cup WorkerSteps
      BY <1>1 DEF WorkerSteps
    <2>3. /\ x \in WorkerState /\ x.pc = next /\ x.copy = IdleWorker.copy
          /\ next # "idle" => x.inst = i
      BY <2>1, <2>2 DEF WorkerState
    <2> HIDE DEF x
    <2> QED BY <1>1, <2>1, <2>2, <2>3 DEF WorkerOK, Writes, Late
  <1> HIDE DEF x
  <1>3. mid \in [Workers -> WorkerState] /\ mid[w] = x /\ \A v \in Workers : v # w => mid[v] = worker[v]
    BY <1>2, WorkerFacts DEF WorkerOK
  <1> HIDE DEF mid
  <1>4. /\ worker' \in [Workers -> WorkerState] /\ worker'[w] = x
        /\ \A v \in Workers \ {w} :
              /\ worker'[v].pc = worker[v].pc /\ worker'[v].inst = worker[v].inst
              /\ worker'[v].copy = worker[v].copy /\ worker'[v].outcome = worker[v].outcome
              /\ (worker[v].inst = i /\ worker[v].pc \in Writes) => worker'[v].stale
              /\ ~(worker[v].inst = i /\ worker[v].pc \in Writes) => worker'[v] = worker[v]
    BY <1>0, <1>2, <1>3, StaleFacts, WorkerFacts
  <1>5. /\ poster' \in [Instructions -> PosterState]
        /\ \A k \in Instructions : poster'[k].pc = poster[k].pc
        /\ \A k \in Instructions : k # i => poster'[k] = poster[k]
        /\ poster[i].pc \in {"reopen", "refill"} => poster'[i].stale
    BY <1>0, StalePosterFacts, WorkerFacts DEF Inv, StateInv
  <1>6. copy \in Manifest /\ copy.size >= 1 /\ i \in Instructions
        /\ (worker[w].pc # "final_fill" => copy.state = "claimed")
        /\ (worker[w].pc = "final_fill" => copy.state \in Final /\ i \in reported)
    BY <1>1, WorkerFacts DEF WorkerOK, WorkerState, Late
  <1>7. /\ manifest' \in [Instructions -> Manifest]
        /\ manifest'[i].state \in {manifest[i].state, copy.state}
        /\ \A k \in Instructions : k # i => manifest'[k] = manifest[k]
        /\ manifest[i].size = 0 => manifest'[i] = copy
    BY <1>0, <1>6, FillFacts DEF Inv
  <1>8. worker[w].pc \in WorkerSteps /\ worker[w].pc \in Writes
    BY <1>1 DEF WorkerSteps, Writes
  <1>9. StateInv'
    <2>1. \A v \in Workers : WorkerOK(worker'[v], reported)
      <3>1. ASSUME NEW v \in Workers, v # w
            PROVE  WorkerOK(worker'[v], reported)
        BY <1>4, <3>1, WorkerFacts DEF WorkerOK
      <3>2. WorkerOK(worker'[w], reported)
        BY <1>2, <1>4, WorkerMono
      <3> QED BY <3>1, <3>2
    <2>2. \A k \in Instructions : manifest'[k].state \in Final => k \in reported
      <3>1. "claimed" \notin Final
        BY DEF Final
      <3> QED BY <1>1, <1>6, <1>7, <3>1 DEF Inv, StateInv
    <2>3. lost' \in BOOLEAN
      BY <1>0, WorkerFacts DEF Inv, StateInv, WorkerState
    <2> QED BY <1>0, <1>4, <1>5, <1>7, <2>1, <2>2, <2>3 DEF Inv, StateInv
  <1>10. NewInv'
    <2> SUFFICES ASSUME NEW k \in Instructions, poster[k].pc \in {"idle", "create"}
                 PROVE  /\ ~Readable(k)' /\ manifest'[k].state = "received"
                        /\ \A v \in Workers : worker'[v].pc \in WorkerSteps => worker'[v].inst # k
      BY <1>5 DEF NewInv
    <2>1. /\ ~Readable(k) /\ manifest[k].state = "received" /\ k # i
          /\ \A v \in Workers : worker[v].pc \in WorkerSteps => worker[v].inst # k
      BY <1>8 DEF Inv, NewInv
    <2>2. "idle" \notin WorkerSteps
      BY DEF WorkerSteps, Writes
    <2> QED BY <1>2, <1>4, <1>7, <2>1, <2>2 DEF Readable
  <1>11. ClaimInv'
    <2> SUFFICES ASSUME ~lost, ~worker[w].stale PROVE ClaimInv'
      BY <1>0 DEF ClaimInv
    <2>1. Relies(worker[w], manifest[i], executed[i]) /\ manifest'[i] = copy
      BY <1>1, <1>7, WorkerFacts DEF Relies
    <2>2. /\ worker[w].pc = "claim_fill" => manifest[i].state = "received" /\ executed[i] = 0
          /\ worker[w].pc = "plan_fill" => manifest[i].state = "claimed" /\ executed[i] = 0
      <3>1. executed[i] \in Nat /\ executed[i] <= 1
            /\ (executed[i] = 1 => manifest[i].state # "received")
        BY <1>6 DEF Inv, StateInv, ClaimInv, RunsOK
      <3> QED BY <2>1, <3>1 DEF Relies, Past, Begun
    <2>3. ASSUME NEW v \in Workers, v # w, worker[v].pc \in Past, worker[v].inst = i
          PROVE  FALSE
      <3>1. manifest[i].state = "claimed"
        BY <2>3, WorkerFacts DEF Relies
      <3>2. worker[w].pc # "claim_fill"
        BY <2>2, <3>1
      <3>3. worker[w].pc \in Past
        BY <1>1, <3>2 DEF Past, Begun, Late
      <3> QED BY <2>3, <3>3 DEF Inv, ClaimInv, Alone
    <2>4. ASSUME NEW v \in Workers
          PROVE  Relies(worker'[v], manifest'[worker'[v].inst], executed'[worker'[v].inst])
      <3>1. CASE v = w
        BY <1>0, <1>1, <1>2, <1>4, <1>6, <2>1, <2>2, <3>1 DEF Relies, Past, Begun, Late
      <3>2. CASE v # w /\ worker[v].inst = i
        <4>1. worker[v].pc \notin Past
          BY <2>3, <3>2
        <4> QED BY <1>4, <3>2, <4>1 DEF Relies, Past, Writes
      <3>3. CASE v # w /\ worker[v].inst # i
        BY <1>0, <1>4, <1>7, <3>3, WorkerFacts
      <3> QED BY <3>1, <3>2, <3>3
    <2>5. Alone'
      <3> SUFFICES ASSUME NEW u \in Workers, NEW v \in Workers, u # v,
                          worker'[u].pc \in Past, worker'[v].pc \in Past
                   PROVE  worker'[u].inst # worker'[v].inst
        BY DEF Alone
      <3>1. CASE u # w /\ v # w
        BY <1>4, <3>1 DEF Inv, ClaimInv, Alone
      <3>2. x.pc \in Past => x.inst = i
        BY <1>2 DEF Past, Begun, Late
      <3>3. CASE u = w
        BY <1>4, <2>3, <3>2, <3>3
      <3>4. CASE v = w
        BY <1>4, <2>3, <3>2, <3>4
      <3> QED BY <3>1, <3>3, <3>4
    <2>6. RunsOK'
      <3>1. copy.state # "received"
        BY <1>6 DEF Final
      <3> QED BY <1>0, <1>7, <2>1, <3>1 DEF RunsOK, Inv, ClaimInv
    <2>7. PostersOK'
      BY <1>5, <1>7 DEF PostersOK, Inv, ClaimInv
    <2> QED BY <2>4, <2>5, <2>6, <2>7 DEF ClaimInv
  <1> QED BY <1>9, <1>10, <1>11 DEF Inv

-----------------------------------------------------------------------------
(* The handler that creates an instruction.                                *)

LEMMA MoveToFacts ==
    ASSUME StateInv, NEW i \in Instructions,
           NEW pc \in {"idle", "create", "reopen", "refill", "done", "dead"}, MoveTo(i, pc)
    PROVE  /\ poster' \in [Instructions -> PosterState] /\ poster'[i].pc = pc
           /\ poster'[i].stale = poster[i].stale
           /\ \A k \in Instructions : k # i => poster'[k] = poster[k]
  BY DEF MoveTo, StateInv, PosterState

\* The manifest is emptied, by a handler that goes on to fill it.
LEMMA PosterTruncateSafe ==
    ASSUME Inv, NEW i \in Instructions, Truncate(i), NEW pc \in {"create", "refill"}, MoveTo(i, pc),
           pc = "create" => poster[i].pc = "idle", pc = "refill" => poster[i].pc = "reopen",
           UNCHANGED <<worker, executed, reported, dry, lost>>
    PROVE  Inv'
  <1>1. /\ manifest' \in [Instructions -> Manifest]
        /\ \A k \in Instructions : manifest'[k].state = manifest[k].state
        /\ \A k \in Instructions : k # i => manifest'[k] = manifest[k]
        /\ manifest'[i].size = 0 /\ manifest'[i].torn
    BY TruncateFacts DEF Inv
  <1>2. /\ poster' \in [Instructions -> PosterState] /\ poster'[i].pc = pc
        /\ poster'[i].stale = poster[i].stale
        /\ \A k \in Instructions : k # i => poster'[k] = poster[k]
    BY MoveToFacts DEF Inv
  <1>3. StateInv'
    BY <1>1, <1>2 DEF Inv, StateInv
  <1>4. NewInv'
    <2>1. \A k \in Instructions : ~Readable(k) => ~Readable(k)'
      BY <1>1 DEF Readable
    <2> QED BY <1>1, <1>2, <2>1 DEF Inv, NewInv
  <1>5. ClaimInv'
    <2> SUFFICES ASSUME ~lost PROVE ClaimInv'
      BY DEF ClaimInv
    <2>1. ASSUME NEW v \in Workers
          PROVE  Relies(worker'[v], manifest'[worker'[v].inst], executed'[worker'[v].inst])
      <3>1. Relies(worker[v], manifest[worker[v].inst], executed[worker[v].inst])
            /\ worker[v].inst \in Instructions
        BY WorkerFacts
      <3>2. manifest'[worker[v].inst].state = manifest[worker[v].inst].state
            /\ (manifest[worker[v].inst].size = 0 => manifest'[worker[v].inst].size = 0)
        BY <1>1, <3>1
      <3> QED BY <3>1, <3>2 DEF Relies
    <2>2. Alone' /\ RunsOK' /\ PostersOK'
      BY <1>1, <1>2 DEF Inv, ClaimInv, Alone, RunsOK, PostersOK
    <2> QED BY <2>1, <2>2 DEF ClaimInv
  <1> QED BY <1>3, <1>4, <1>5 DEF Inv

LEMMA WriteReceivedSafe == ASSUME Inv, NEW i \in Instructions, WriteReceived(i) PROVE Inv'
  <1> DEFINE pc == IF i \in Callback THEN "reopen" ELSE "done"
  <1>0. poster[i].pc = "create" /\ Fill(i, Received) /\ MoveTo(i, pc)
        /\ UNCHANGED <<worker, executed, reported, dry, lost>>
    BY DEF WriteReceived
  <1>1. pc \in {"reopen", "done"}
    OBVIOUS
  <1> HIDE DEF pc
  <1>2. manifest[i].state = "received"
        /\ \A w \in Workers : worker[w].pc \in WorkerSteps => worker[w].inst # i
    BY <1>0 DEF Inv, NewInv
  <1>3. /\ manifest' \in [Instructions -> Manifest] /\ manifest'[i].state = "received"
        /\ \A k \in Instructions : k # i => manifest'[k] = manifest[k]
    BY <1>0, <1>2, FillFacts, ConstantsOK DEF Inv
  <1>4. /\ poster' \in [Instructions -> PosterState] /\ poster'[i].pc = pc
        /\ \A k \in Instructions : k # i => poster'[k] = poster[k]
    BY <1>0, <1>1, MoveToFacts DEF Inv
  <1>5. StateInv'
    BY <1>0, <1>3, <1>4 DEF Inv, StateInv, Final
  <1>6. NewInv'
    BY <1>0, <1>1, <1>3, <1>4 DEF Inv, NewInv, Readable
  <1>7. ClaimInv'
    <2> SUFFICES ASSUME ~lost PROVE ClaimInv'
      BY <1>0 DEF ClaimInv
    <2>1. ASSUME NEW v \in Workers
          PROVE  Relies(worker'[v], manifest'[worker'[v].inst], executed'[worker'[v].inst])
      <3>1. Relies(worker[v], manifest[worker[v].inst], executed[worker[v].inst])
            /\ worker[v].inst \in Instructions
        BY WorkerFacts
      <3>2. CASE worker[v].inst # i
        BY <1>0, <1>3, <3>1, <3>2
      <3>3. CASE worker[v].inst = i
        BY <1>0, <1>2, <3>1, <3>3 DEF Relies, Past, Begun, Late, WorkerSteps, Writes
      <3> QED BY <3>2, <3>3
    <2>2. Alone' /\ RunsOK'
      BY <1>0, <1>2, <1>3 DEF Inv, ClaimInv, Alone, RunsOK
    <2>3. PostersOK'
      BY <1>3, <1>4 DEF Inv, ClaimInv, PostersOK
    <2> QED BY <2>1, <2>2, <2>3 DEF ClaimInv
  <1> QED BY <1>5, <1>6, <1>7 DEF Inv

LEMMA RewriteReceivedSafe == ASSUME Inv, NEW i \in Instructions, RewriteReceived(i) PROVE Inv'
  <1>0. /\ poster[i].pc = "refill" /\ Fill(i, Received) /\ MoveTo(i, "done")
        /\ worker' = StaleWorkers(i, worker) /\ lost' = (lost \/ poster[i].stale)
        /\ UNCHANGED <<executed, reported, dry>>
    BY DEF RewriteReceived
  <1>1. /\ manifest' \in [Instructions -> Manifest]
        /\ manifest'[i].state \in {manifest[i].state, "received"}
        /\ \A k \in Instructions : k # i => manifest'[k] = manifest[k]
    BY <1>0, FillFacts, ConstantsOK DEF Inv
  <1>2. /\ poster' \in [Instructions -> PosterState] /\ poster'[i].pc = "done"
        /\ \A k \in Instructions : k # i => poster'[k] = poster[k]
    BY <1>0, MoveToFacts DEF Inv
  <1>3. /\ worker' \in [Workers -> WorkerState]
        /\ \A v \in Workers :
              /\ worker'[v].pc = worker[v].pc /\ worker'[v].inst = worker[v].inst
              /\ worker'[v].copy = worker[v].copy /\ worker'[v].outcome = worker[v].outcome
              /\ (worker[v].inst = i /\ worker[v].pc \in Writes) => worker'[v].stale
              /\ ~(worker[v].inst = i /\ worker[v].pc \in Writes) => worker'[v] = worker[v]
    BY <1>0, StaleFacts DEF Inv, StateInv
  <1>4. StateInv'
    <2>1. \A v \in Workers : WorkerOK(worker'[v], reported)
      BY <1>3, WorkerFacts DEF WorkerOK
    <2>2. lost' \in BOOLEAN
      BY <1>0 DEF Inv, StateInv, PosterState
    <2>3. \A k \in Instructions : manifest'[k].state \in Final => k \in reported
      BY <1>1 DEF Inv, StateInv, Final
    <2> QED BY <1>0, <1>1, <1>2, <1>3, <2>1, <2>2, <2>3 DEF Inv, StateInv
  <1>5. NewInv'
    BY <1>1, <1>2, <1>3 DEF Inv, NewInv, Readable
  <1>6. ClaimInv'
    <2> SUFFICES ASSUME ~lost, ~poster[i].stale PROVE ClaimInv'
      BY <1>0 DEF ClaimInv
    <2>1. manifest[i].state = "received" /\ manifest'[i].state = "received"
      BY <1>0, <1>1 DEF Inv, ClaimInv, PostersOK
    <2>2. ASSUME NEW v \in Workers
          PROVE  Relies(worker'[v], manifest'[worker'[v].inst], executed'[worker'[v].inst])
      <3>1. Relies(worker[v], manifest[worker[v].inst], executed[worker[v].inst])
            /\ worker[v].inst \in Instructions
        BY WorkerFacts
      <3>2. CASE worker[v].inst # i
        BY <1>0, <1>1, <1>3, <3>1, <3>2
      <3>3. CASE worker[v].inst = i
        <4>1. worker[v].pc \notin Past
          BY <2>1, <3>1, <3>3 DEF Relies
        <4> QED BY <1>3, <3>3, <4>1 DEF Relies, Past, Writes
      <3> QED BY <3>2, <3>3
    <2>3. Alone' /\ RunsOK'
      BY <1>0, <1>1, <1>3, <2>1 DEF Inv, ClaimInv, Alone, RunsOK
    <2>4. PostersOK'
      BY <1>1, <1>2 DEF Inv, ClaimInv, PostersOK
    <2> QED BY <2>2, <2>3, <2>4 DEF ClaimInv
  <1> QED BY <1>4, <1>5, <1>6 DEF Inv

LEMMA KillPosterSafe == ASSUME Inv, NEW i \in Instructions, KillPoster(i) PROVE Inv'
  <1>1. UNCHANGED <<manifest, worker, executed, reported, dry, lost>> /\ MoveTo(i, "dead")
    BY DEF KillPoster
  <1>2. /\ poster' \in [Instructions -> PosterState] /\ poster'[i].pc = "dead"
        /\ \A k \in Instructions : k # i => poster'[k] = poster[k]
    BY <1>1, MoveToFacts DEF Inv
  <1>3. StateInv'
    BY <1>1, <1>2 DEF Inv, StateInv
  <1>4. NewInv'
    BY <1>1, <1>2 DEF Inv, NewInv, Readable
  <1>5. ClaimInv'
    BY <1>1, <1>2 DEF Inv, ClaimInv, Alone, RunsOK, PostersOK
  <1> QED BY <1>3, <1>4, <1>5 DEF Inv

LEMMA StutterSafe == ASSUME Inv, UNCHANGED vars PROVE Inv'
  <1> USE DEF vars
  <1>1. StateInv'
    BY DEF Inv, StateInv
  <1>2. NewInv'
    BY DEF Inv, NewInv, Readable
  <1>3. ClaimInv'
    BY DEF Inv, ClaimInv, Alone, RunsOK, PostersOK
  <1> QED BY <1>1, <1>2, <1>3 DEF Inv

LEMMA InitSafe == Init => Inv
  <1> SUFFICES ASSUME Init PROVE Inv
    OBVIOUS
  <1>0. \A i \in Instructions : manifest[i] = Absent /\ poster[i] = [pc |-> "idle", stale |-> FALSE]
                                /\ executed[i] = 0
    BY DEF Init
  <1>1. \A w \in Workers : worker[w] = IdleWorker /\ worker[w].pc = "idle"
    BY ConstantsOK DEF Init
  <1>2. StateInv
    <2>1. WorkerOK(IdleWorker, {}) /\ IdleWorker \in WorkerState /\ Absent \in Manifest
          /\ Absent.state = "received" /\ "received" \notin Final
      BY ConstantsOK DEF WorkerOK, Final
    <2>2. manifest \in [Instructions -> Manifest] /\ worker \in [Workers -> WorkerState]
          /\ poster \in [Instructions -> PosterState] /\ executed \in [Instructions -> Nat]
      BY <2>1 DEF Init, PosterState
    <2> QED BY <1>0, <1>1, <2>1, <2>2 DEF StateInv, Init
  <1>3. NewInv
    BY <1>0, <1>1, ConstantsOK DEF NewInv, Readable, WorkerSteps, Writes
  <1>4. ClaimInv
    <2>1. \A w \in Workers : Relies(worker[w], manifest[worker[w].inst], executed[worker[w].inst])
      BY <1>1 DEF Relies, Past, Begun, Late
    <2>2. Alone
      BY <1>1 DEF Alone, Past, Begun, Late
    <2>3. RunsOK /\ PostersOK
      BY <1>0 DEF RunsOK, PostersOK
    <2> QED BY <2>1, <2>2, <2>3 DEF ClaimInv
  <1> QED BY <1>2, <1>3, <1>4 DEF Inv

LEMMA NextSafe == Inv /\ [Next]_vars => Inv'
  <1> SUFFICES ASSUME Inv, [Next]_vars PROVE Inv'
    OBVIOUS
  <1>1. CASE UNCHANGED vars
    BY <1>1, StutterSafe
  <1>2. ASSUME NEW i \in Instructions, Post(i)
        PROVE  Inv'
    <2>1. CASE CreateInstruction(i)
      BY <2>1, PosterTruncateSafe DEF CreateInstruction
    <2>2. CASE ReopenManifest(i)
      BY <2>2, PosterTruncateSafe DEF ReopenManifest
    <2> QED BY <1>2, <2>1, <2>2, WriteReceivedSafe, RewriteReceivedSafe DEF Post
  <1>3. ASSUME NEW w \in Workers, KillWorker(w) \/ StartWorker(w)
        PROVE  Inv'
    BY <1>3, EndingIsSafe, WorkerFacts DEF KillWorker, StartWorker
  <1>4. ASSUME NEW w \in Workers, Work(w)
        PROVE  Inv'
    BY <1>4, SelectSafe, ClaimReadSafe, UpdateReadSafe, OpenManifestSafe, FillManifestSafe,
       DecideSafe, ApprovalSafe, RunSafe, DeliverSafe DEF Work, ExecuteCommands, RunAgentBridge
  <1> QED BY <1>1, <1>2, <1>3, <1>4, KillPosterSafe DEF Next

THEOREM Invariance == Spec => []Inv
  BY InitSafe, NextSafe, PTL DEF Spec

\* Every variable of the inbox keeps its type, whatever is lost or killed.
THEOREM TypeInvariant == Spec => []TypeOK
  <1>1. Inv => TypeOK
    BY DEF Inv, StateInv, TypeOK
  <1> QED BY <1>1, Invariance, PTL

\* claim_instruction keeps any number of workers from running a task twice, as
\* long as no write of a manifest is lost.
THEOREM RunsOnce == Spec => []ExecutedOnceUnlessLost
  <1>1. Inv => ExecutedOnceUnlessLost
    BY DEF Inv, ClaimInv, RunsOK, ExecutedOnceUnlessLost
  <1> QED BY <1>1, Invariance, PTL

\* A final state of a manifest always comes after the delivery of a report,
\* also where writes are lost.
THEOREM ReportsFirst == Spec => []FinalIsReported
  <1>1. Inv => FinalIsReported
    BY DEF Inv, StateInv, FinalIsReported
  <1> QED BY <1>1, Invariance, PTL

-----------------------------------------------------------------------------
(* The states only advance.                                                *)

Advance == \A i \in Instructions :
              lost' \/ Rank(manifest'[i].state) >= Rank(manifest[i].state)

LEMMA RankFacts ==
    /\ \A s : Rank(s) \in 0 .. 2
    /\ Rank("received") = 0 /\ Rank("claimed") = 1 /\ \A s \in Final : Rank(s) = 2
  BY DEF Rank, Final

LEMMA SameStates ==
    ASSUME \A i \in Instructions : manifest'[i].state = manifest[i].state
    PROVE  Advance
  BY RankFacts DEF Advance

LEMMA FillAdvances == ASSUME Inv, NEW w \in Workers, FillManifest(w) PROVE Advance
  <1> DEFINE i == worker[w].inst
             copy == worker[w].copy
  <1>1. /\ Fill(i, copy) /\ lost' = (lost \/ worker[w].stale)
        /\ worker[w].pc \in {"claim_fill", "plan_fill", "final_fill"}
    BY DEF FillManifest
  <1> SUFFICES ASSUME ~lost, ~worker[w].stale PROVE Advance
    BY <1>1 DEF Advance
  <1>2. copy \in Manifest /\ i \in Instructions
        /\ (worker[w].pc # "final_fill" => copy.state = "claimed")
        /\ (worker[w].pc = "final_fill" => copy.state \in Final)
    BY <1>1, WorkerFacts DEF WorkerOK, WorkerState
  <1>3. /\ manifest'[i].state \in {manifest[i].state, copy.state}
        /\ \A k \in Instructions : k # i => manifest'[k] = manifest[k]
    BY <1>1, <1>2, FillFacts DEF Inv
  <1>4. manifest[i].state \in {"received", "claimed"}
    BY <1>1, WorkerFacts DEF Relies, Past, Begun, Late
  <1>5. Rank(copy.state) >= Rank(manifest[i].state)
    BY <1>1, <1>2, <1>4, RankFacts
  <1> QED BY <1>3, <1>5, RankFacts DEF Advance

LEMMA PostAdvances == ASSUME Inv, NEW i \in Instructions, Post(i) PROVE Advance
  <1>1. CASE CreateInstruction(i) \/ ReopenManifest(i)
    BY <1>1, TruncateFacts, SameStates DEF Inv, CreateInstruction, ReopenManifest
  <1>2. CASE WriteReceived(i)
    <2>1. manifest[i].state = "received"
      BY <1>2 DEF WriteReceived, Inv, NewInv
    <2>2. /\ manifest'[i].state = "received"
          /\ \A k \in Instructions : k # i => manifest'[k] = manifest[k]
      BY <1>2, <2>1, FillFacts, ConstantsOK DEF Inv, WriteReceived
    <2> QED BY <2>1, <2>2, SameStates
  <1>3. CASE RewriteReceived(i)
    <2> SUFFICES ASSUME ~lost, ~poster[i].stale PROVE Advance
      BY <1>3 DEF Advance, RewriteReceived
    <2>1. manifest[i].state = "received"
      BY <1>3 DEF RewriteReceived, Inv, ClaimInv, PostersOK
    <2>2. /\ manifest'[i].state = "received"
          /\ \A k \in Instructions : k # i => manifest'[k] = manifest[k]
      BY <1>3, <2>1, FillFacts, ConstantsOK DEF Inv, RewriteReceived
    <2> QED BY <2>1, <2>2, SameStates
  <1> QED BY <1>1, <1>2, <1>3 DEF Post

LEMMA NextAdvances == Inv /\ [Next]_vars => [Advance]_vars
  <1> SUFFICES ASSUME Inv, Next PROVE Advance
    OBVIOUS
  <1>1. ASSUME NEW w \in Workers, Work(w)
        PROVE  Advance
    <2>1. CASE OpenManifest(w)
      BY <2>1, TruncateFacts, WorkerFacts, SameStates DEF Inv, OpenManifest
    <2>2. CASE FillManifest(w)
      BY <2>2, FillAdvances
    <2>3. CASE manifest' = manifest
      BY <2>3, SameStates
    <2> QED BY <1>1, <2>1, <2>2, <2>3 DEF Work, Select, ClaimRead, UpdateRead, Decide, Approval,
               ExecuteCommands, RunAgentBridge, Run, Deliver
  <1>2. CASE manifest' = manifest
    BY <1>2, SameStates
  <1> QED BY <1>1, <1>2, PostAdvances DEF Next, KillPoster, KillWorker, StartWorker

\* "received -> claimed -> completed/failed/blocked": the states only advance,
\* whatever is killed and restarted, unless a write was lost.
THEOREM AdvanceTheorem == Spec => StatesOnlyAdvance
  BY Invariance, NextAdvances, PTL DEF Spec, StatesOnlyAdvance, Advance
=============================================================================
