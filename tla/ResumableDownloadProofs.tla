------------------------ MODULE ResumableDownloadProofs ------------------------
(***************************************************************************)
(* Proofs about ResumableDownload, for any set of jobs, any versions of    *)
(* the source and any chunk length: type correctness however downloads,    *)
(* cleanups and edits interleave, and, for a download that runs alone,     *)
(* where its units come from and where they go.                            *)
(***************************************************************************)
EXTENDS ResumableDownload, SequenceTheorems, TLAPS

Looping == {"ask", "serve", "receive", "check"}

\* What a job may do next depends on what it has reached: an attempt is left
\* before it asks, and what it was granted or given is within the plan.
JobOK(x) ==
    /\ x \in JobState /\ x.off <= x.size /\ x.left <= MaxAttempts
    /\ x.pc = "ask" => x.left >= 1
    /\ x.pc = "serve" => x.off + x.len <= x.size
    /\ x.pc = "receive" => x.off + Len(x.chunk) <= x.size
    /\ x.pc = "check" => x.off = x.size
    /\ x.pc # "receive" => x.chunk = <<>>
    /\ x.pc \notin Looping => x.file = "none"

\* What a descriptor refers to exists.
FileOK(x, t, p) == (x.file = "part" => p # NoFile) /\ (x.file = "target" => t # NoFile)

StateInv ==
    /\ remote \in Versions \cup {NoFile}
    /\ target \in Content \cup {NoFile} /\ part \in Content \cup {NoFile}
    /\ shared \in BOOLEAN /\ job = [j \in Jobs |-> job[j]]
    /\ \A j \in Jobs : JobOK(job[j]) /\ FileOK(job[j], target, part)

Under(x) == x.pc \in Steps /\ x.alone

\* A job that runs alone is at the end of the partial.
PlaceOK(x, p) ==
    Under(x) =>
        /\ x.pc = "open" => x.off = IF p = NoFile THEN 0 ELSE Len(p)
        /\ x.pc \in Looping => x.file = "part" /\ p # NoFile /\ Len(p) = x.off
        /\ x.pc \in {"exists", "replace"} => p # NoFile /\ Len(p) = x.size

Prefixed(p, r) == Len(p) <= Len(r) /\ \A k \in 1 .. Len(p) : p[k] = r[k]
Given(x, v) == \A k \in 1 .. Len(x.chunk) : x.off + k <= Len(v) /\ x.chunk[k] = v[x.off + k]

\* As long as the source does not change, what such a job has read is the source's.
SourceOK(x, p, r) ==
    Under(x) /\ x.steady =>
        /\ r # NoFile /\ Len(r) = x.size
        /\ x.pc \in Looping \cup {"exists", "replace"} /\ x.genuine => Prefixed(p, r)
        /\ x.pc = "receive" => Given(x, r)

AloneInv ==
    \A j \in Jobs :
        /\ PlaceOK(job[j], part) /\ SourceOK(job[j], part, remote)
        /\ Under(job[j]) => Alone(j)
        /\ Running(j) /\ ~shared => job[j].alone

\* Every unit was at its place in some version.
UnitsOK(f) == \A k \in 1 .. Len(f) : \E v \in Versions : k <= Len(v) /\ f[k] = v[k]
ChunkOK(x) ==
    x.pc = "receive" => \A k \in 1 .. Len(x.chunk) : \E v \in Versions :
                            x.off + k <= Len(v) /\ x.chunk[k] = v[x.off + k]
FilesOK(t, p) == (p # NoFile => UnitsOK(p)) /\ (t \notin InitialTargets \cup {NoFile} => UnitsOK(t))

\* What is left from earlier downloads is of some version.
LeftOversOK == \A p \in InitialPartials \ {NoFile} : UnitsOK(p)

UnitsInv ==
    /\ \A j \in Jobs : ChunkOK(job[j])
    /\ LeftOversOK /\ ~shared => FilesOK(target, part)

Inv == StateInv /\ AloneInv /\ UnitsInv

-----------------------------------------------------------------------------
(* Sequences of units.                                                     *)

LEMMA VersionsOK == NoFile \notin Content /\ \A v \in Versions : v \in Content /\ v # NoFile
                        /\ Len(v) \in Nat
  BY DownloadAssumption DEF Content

\* What a read of a range returns, wherever the file ends by now.
LEMMA RangeOK ==
    ASSUME NEW r \in Content, NEW off \in Nat, NEW len \in Nat
    PROVE  LET c == SubSeq(r, off + 1, Least(off + len, Len(r)))
           IN  /\ c \in Content /\ Len(c) \in Nat /\ Len(c) <= len
               /\ \A k \in 1 .. Len(c) : off + k <= Len(r) /\ c[k] = r[off + k]
  <1> DEFINE n == Least(off + len, Len(r))
             c == SubSeq(r, off + 1, n)
  <1>1. n \in Nat /\ n <= off + len /\ n <= Len(r) /\ Len(r) \in Nat
    BY DEF Least, Content
  <1> HIDE DEF n
  <1>2. CASE off + 1 <= n
    <2>1. \A i \in (off + 1) .. n : r[i] \in Unit
      BY <1>1 DEF Content
    <2>2. /\ c \in Seq(Unit) /\ Len(c) = n - off
          /\ \A k \in 1 .. Len(c) : c[k] = r[off + k]
      BY <1>1, <1>2 DEF Content
    <2> HIDE DEF c
    <2>3. Len(c) \in Nat /\ Len(c) <= len /\ c \in Content
      BY <1>1, <1>2, <2>2 DEF Content
    <2>4. \A k \in 1 .. Len(c) : off + k <= Len(r)
      BY <1>1, <1>2, <2>2
    <2>5. \A k \in 1 .. Len(c) : off + k <= Len(r) /\ c[k] = r[off + k]
      BY <2>2, <2>4
    <2> QED BY <2>3, <2>5, Zenon DEF c, n
  <1>3. CASE ~(off + 1 <= n)
    <2>1. c = <<>>
      BY <1>1, <1>3 DEF Content
    <2> HIDE DEF c
    <2>2. c \in Content /\ Len(c) = 0
      BY <2>1 DEF Content
    <2>3. Len(c) \in Nat /\ Len(c) <= len /\ c \in Content
      BY <2>2
    <2>4. \A k \in 1 .. Len(c) : off + k <= Len(r) /\ c[k] = r[off + k]
      BY <2>2
    <2> QED BY <2>3, <2>4, Zenon DEF c, n
  <1> QED BY <1>2, <1>3

LEMMA JoinOK ==
    ASSUME NEW p \in Content, NEW c \in Content
    PROVE  /\ p \o c \in Content /\ Len(p \o c) = Len(p) + Len(c) /\ p \o c # NoFile
           /\ \A k \in 1 .. Len(p) : (p \o c)[k] = p[k]
           /\ \A k \in 1 .. Len(c) : (p \o c)[Len(p) + k] = c[k]
  <1>1. p \o c \in Content /\ Len(p \o c) = Len(p) + Len(c)
    BY DEF Content
  <1>2. \A k \in 1 .. Len(p) : (p \o c)[k] = p[k]
    BY DEF Content
  <1>3. \A k \in 1 .. Len(c) : (p \o c)[Len(p) + k] = c[k]
    BY DEF Content
  <1> QED BY <1>1, <1>2, <1>3, VersionsOK

\* A position in a joined sequence is in the first or in the second part.
LEMMA Position ==
    ASSUME NEW p \in Content, NEW c \in Content, NEW k \in 1 .. Len(p \o c)
    PROVE  \/ k \in 1 .. Len(p) /\ (p \o c)[k] = p[k]
           \/ \E i \in 1 .. Len(c) : k = Len(p) + i /\ (p \o c)[k] = c[i]
  <1>1. Len(p) \in Nat /\ Len(c) \in Nat
    BY DEF Content
  <1>2. CASE k \in 1 .. Len(p)
    BY <1>2, JoinOK
  <1>3. CASE k \notin 1 .. Len(p)
    <2>1. k - Len(p) \in 1 .. Len(c) /\ k = Len(p) + (k - Len(p))
      BY <1>1, <1>3, JoinOK
    <2>2. (p \o c)[Len(p) + (k - Len(p))] = c[k - Len(p)]
      BY <2>1, JoinOK
    <2> QED BY <2>1, <2>2
  <1> QED BY <1>2, <1>3

LEMMA PrefixGrows ==
    ASSUME NEW p \in Content, NEW c \in Content, NEW r \in Content, Prefixed(p, r),
           \A k \in 1 .. Len(c) : Len(p) + k <= Len(r) /\ c[k] = r[Len(p) + k]
    PROVE  Prefixed(p \o c, r)
  <1>1. Len(p) \in Nat /\ Len(c) \in Nat /\ Len(r) \in Nat
    BY DEF Content
  <1>2. Len(p \o c) <= Len(r)
    <2>1. CASE Len(c) = 0
      BY <1>1, <2>1, JoinOK DEF Prefixed
    <2>2. CASE Len(c) # 0
      <3>1. Len(c) \in 1 .. Len(c)
        BY <1>1, <2>2
      <3>2. Len(p) + Len(c) <= Len(r)
        BY <3>1
      <3> QED BY <3>2, JoinOK
    <2> QED BY <2>1, <2>2
  <1>3. \A k \in 1 .. Len(p \o c) : (p \o c)[k] = r[k]
    BY Position DEF Prefixed
  <1> QED BY <1>2, <1>3 DEF Prefixed

LEMMA UnitsGrow ==
    ASSUME NEW p \in Content, NEW c \in Content, UnitsOK(p),
           \A k \in 1 .. Len(c) : \E v \in Versions : Len(p) + k <= Len(v) /\ c[k] = v[Len(p) + k]
    PROVE  UnitsOK(p \o c)
  <1> SUFFICES ASSUME NEW k \in 1 .. Len(p \o c)
               PROVE  \E v \in Versions : k <= Len(v) /\ (p \o c)[k] = v[k]
    BY DEF UnitsOK
  <1>1. CASE k \in 1 .. Len(p) /\ (p \o c)[k] = p[k]
    BY <1>1 DEF UnitsOK
  <1>2. CASE \E i \in 1 .. Len(c) : k = Len(p) + i /\ (p \o c)[k] = c[i]
    BY <1>2
  <1> QED BY <1>1, <1>2, Position

LEMMA PrefixOK ==
    ASSUME NEW p \in Content, NEW r \in Content, IsPrefixOf(p, r)
    PROVE  Prefixed(p, r)
  <1>1. Len(p) \in Nat /\ Len(r) \in Nat /\ Len(p) <= Len(r) /\ p = SubSeq(r, 1, Len(p))
    BY DEF IsPrefixOf, Content
  <1>2. \A k \in 1 .. Len(p) : p[k] = r[k]
    BY <1>1 DEF Content
  <1> QED BY <1>1, <1>2 DEF Prefixed

LEMMA WholeOK ==
    ASSUME NEW p \in Content, NEW r \in Content, Prefixed(p, r), Len(p) = Len(r)
    PROVE  p = r
  BY SeqEqual DEF Prefixed, Content

LEMMA CutOK ==
    ASSUME NEW c \in Content, NEW k \in 0 .. Len(c)
    PROVE  /\ SubSeq(c, 1, k) \in Content /\ Len(SubSeq(c, 1, k)) = k
           /\ \A i \in 1 .. k : SubSeq(c, 1, k)[i] = c[i]
  <1>1. Len(c) \in Nat /\ k \in Nat /\ k <= Len(c)
    BY DEF Content
  <1>2. CASE k = 0
    BY <1>1, <1>2 DEF Content
  <1>3. CASE k # 0
    BY <1>1, <1>3 DEF Content
  <1> QED BY <1>2, <1>3

-----------------------------------------------------------------------------
(* The beginning, and steps of one job.                                    *)

LEMMA EmptyOK == <<>> \in Content /\ Len(<<>>) = 0 /\ \A k \in 1 .. Len(<<>>) : FALSE
  BY DEF Content

LEMMA IdleOK == JobOK(IdleJob) /\ IdleJob.pc = "idle" /\ IdleJob.file = "none"
  <1>1. FALSE \in BOOLEAN
    OBVIOUS
  <1>2. IdleJob \in JobState
    BY <1>1, EmptyOK DEF IdleJob, JobState
  <1> QED BY <1>2, DownloadAssumption DEF IdleJob, JobOK, Looping

LEMMA InitSafe == Init => Inv
  <1> SUFFICES ASSUME Init PROVE Inv
    OBVIOUS
  <1>1. StateInv
    <2>1. FALSE \in BOOLEAN
      OBVIOUS
    <2> QED BY <2>1, IdleOK, DownloadAssumption DEF Init, StateInv, FileOK
  <1>2. AloneInv
    BY IdleOK DEF Init, AloneInv, PlaceOK, SourceOK, Under, Running, Steps
  <1>3. UnitsInv
    BY IdleOK DEF Init, UnitsInv, ChunkOK, FilesOK, LeftOversOK
  <1> QED BY <1>1, <1>2, <1>3 DEF Inv

\* Two states of a job that differ in their descriptor alone.
Alike(x, y) ==
    x.pc = y.pc /\ x.alone = y.alone /\ x.off = y.off /\ x.chunk = y.chunk

\* A job that runs goes on to x; of the others at most the descriptors change.
LEMMA JobStep ==
    ASSUME Inv, NEW j \in Jobs, Running(j), NEW x, JobOK(x), FileOK(x, target', part'),
           job' = [i \in Jobs |-> job'[i]], job'[j] = x,
           \A i \in Jobs \ {j} : /\ JobOK(job'[i]) /\ FileOK(job'[i], target', part')
                                 /\ Alike(job'[i], job[i]),
           target' \in Content \cup {NoFile}, part' \in Content \cup {NoFile},
           UNCHANGED <<remote, shared>>,
           x.pc \in Steps => x.alone = job[j].alone,
           PlaceOK(x, part'), SourceOK(x, part', remote), ChunkOK(x),
           LeftOversOK /\ ~shared => FilesOK(target', part')
    PROVE  Inv'
  <1>1. StateInv'
    <2>1. \A i \in Jobs : JobOK(job'[i]) /\ FileOK(job'[i], target', part')
      OBVIOUS
    <2>2. remote' \in Versions \cup {NoFile} /\ shared' \in BOOLEAN
      BY DEF Inv, StateInv
    <2> QED BY <2>1, <2>2 DEF StateInv
  <1>2. AloneInv'
    <2>1. ASSUME NEW i \in Jobs, i # j
          PROVE  /\ ~Under(job'[i])
                 /\ Running(i)' /\ ~shared => job'[i].alone
      <3>1. job'[i].pc = job[i].pc /\ job'[i].alone = job[i].alone
        BY <2>1 DEF Alike
      <3>2. ~Under(job[i])
        BY <2>1 DEF Inv, AloneInv, Alone
      <3> QED BY <3>1, <3>2 DEF Under, Running, Inv, AloneInv
    <2>2. Under(x) => Alone(j)'
      <3> SUFFICES ASSUME Under(x), NEW i \in Jobs \ {j} PROVE ~Running(i)'
        BY DEF Alone
      <3>1. Under(job[j])
        BY DEF Under, Running
      <3>2. ~Running(i)
        BY <3>1 DEF Inv, AloneInv, Alone
      <3> QED BY <3>2 DEF Running, Alike
    <2>3. x.pc \in Steps /\ ~shared => x.alone
      BY DEF Inv, AloneInv
    <2>4. ASSUME NEW i \in Jobs
          PROVE  /\ PlaceOK(job'[i], part') /\ SourceOK(job'[i], part', remote')
                 /\ Under(job'[i]) => Alone(i)'
                 /\ Running(i)' /\ ~shared' => job'[i].alone
      <3>1. CASE i = j
        BY <2>2, <2>3, <3>1 DEF Running
      <3>2. CASE i # j
        BY <2>1, <3>2 DEF PlaceOK, SourceOK
      <3> QED BY <3>1, <3>2
    <2> QED BY <2>4 DEF AloneInv
  <1>3. UnitsInv'
    <2>1. \A i \in Jobs : ChunkOK(job'[i])
      <3>1. ASSUME NEW i \in Jobs, i # j PROVE ChunkOK(job'[i])
        BY <3>1 DEF Inv, UnitsInv, ChunkOK, Alike
      <3> QED BY <3>1
    <2>2. LeftOversOK' = LeftOversOK
      BY DEF LeftOversOK, UnitsOK
    <2> QED BY <2>1, <2>2 DEF UnitsInv
  <1> QED BY <1>1, <1>2, <1>3 DEF Inv

\* A job that runs goes on to x, and no file changes.
LEMMA QuietStep ==
    ASSUME Inv, NEW j \in Jobs, Running(j), NEW x, JobOK(x), FileOK(x, target, part),
           job' = [job EXCEPT ![j] = x], UNCHANGED <<remote, target, part, shared>>,
           x.pc \in Steps => x.alone = job[j].alone,
           PlaceOK(x, part), SourceOK(x, part, remote), ChunkOK(x)
    PROVE  Inv'
  <1>1. job' = [i \in Jobs |-> IF i = j THEN x ELSE job[i]]
    BY DEF Inv, StateInv
  <1>2. job'[j] = x /\ job' = [i \in Jobs |-> job'[i]]
    BY <1>1
  <1>3. \A i \in Jobs \ {j} : /\ JobOK(job'[i]) /\ FileOK(job'[i], target', part')
                              /\ Alike(job'[i], job[i])
    BY <1>1 DEF Inv, StateInv, Alike
  <1>4. /\ target' \in Content \cup {NoFile} /\ part' \in Content \cup {NoFile}
        /\ LeftOversOK /\ ~shared => FilesOK(target', part')
    BY DEF Inv, StateInv, UnitsInv
  <1> QED BY <1>2, <1>3, <1>4, JobStep

LEMMA StoppedOK ==
    ASSUME NEW pc \in Ended, NEW t, NEW p, NEW r
    PROVE  LET x == [IdleJob EXCEPT !.pc = pc]
           IN  /\ JobOK(x) /\ FileOK(x, t, p) /\ x.pc = pc /\ x.pc \notin Steps
               /\ PlaceOK(x, p) /\ SourceOK(x, p, r) /\ ChunkOK(x) /\ x.file = "none"
  <1> DEFINE x == [IdleJob EXCEPT !.pc = pc]
  <1>1. IdleJob \in JobState /\ IdleJob.off <= IdleJob.size /\ IdleJob.left <= MaxAttempts
        /\ IdleJob.chunk = <<>> /\ IdleJob.file = "none"
    BY IdleOK DEF JobOK, Looping
  <1>2. pc \notin Steps /\ pc \notin Looping
    BY DEF Ended, Steps, Looping
  <1>3. /\ x \in JobState /\ x.pc = pc /\ x.off = IdleJob.off /\ x.size = IdleJob.size
        /\ x.left = IdleJob.left /\ x.chunk = IdleJob.chunk /\ x.file = IdleJob.file
    BY <1>1 DEF JobState
  <1> HIDE DEF x
  <1>4. JobOK(x)
    BY <1>1, <1>2, <1>3 DEF JobOK, Ended, Looping
  <1> QED BY <1>1, <1>2, <1>3, <1>4 DEF FileOK, PlaceOK, SourceOK, ChunkOK, Under, Steps, x

\* A job ends, and no file changes.
LEMMA EndsSafe ==
    ASSUME Inv, NEW j \in Jobs, Running(j), NEW pc \in Ended, Stop(j, pc),
           UNCHANGED <<remote, target, part, shared>>
    PROVE  Inv'
  <1> DEFINE x == [IdleJob EXCEPT !.pc = pc]
  <1>1. /\ JobOK(x) /\ FileOK(x, target, part) /\ x.pc \notin Steps
        /\ PlaceOK(x, part) /\ SourceOK(x, part, remote) /\ ChunkOK(x)
    BY StoppedOK
  <1>2. job' = [job EXCEPT ![j] = x]
    BY DEF Stop
  <1> HIDE DEF x
  <1> QED BY <1>1, <1>2, QuietStep

LEMMA FailSafe ==
    ASSUME Inv, NEW j \in Jobs, Running(j), Fail(j), UNCHANGED <<remote, target, part, shared>>
    PROVE  Inv'
  BY EndsSafe DEF Fail, Ended

-----------------------------------------------------------------------------
(* The steps of a job.                                                     *)

LEMMA JobParts ==
    ASSUME Inv, NEW j \in Jobs
    PROVE  /\ JobOK(job[j]) /\ job[j] \in JobState /\ FileOK(job[j], target, part)
           /\ PlaceOK(job[j], part) /\ SourceOK(job[j], part, remote) /\ ChunkOK(job[j])
           /\ Running(j) /\ ~shared => Under(job[j])
           /\ job[j].off \in Nat /\ job[j].size \in Nat /\ job[j].left \in Nat /\ job[j].len \in Nat
           /\ job[j].chunk \in Content
           /\ part \in Content \cup {NoFile} /\ target \in Content \cup {NoFile}
  <1>1. JobOK(job[j]) /\ job[j] \in JobState
    BY DEF Inv, StateInv, JobOK
  <1>2. Running(j) /\ ~shared => Under(job[j])
    BY DEF Inv, AloneInv, Under, Running
  <1>3. /\ job[j].off \in Nat /\ job[j].size \in Nat /\ job[j].left \in Nat
        /\ job[j].len \in Nat /\ job[j].chunk \in Content
    BY <1>1 DEF JobState
  <1> QED BY <1>1, <1>2, <1>3 DEF Inv, StateInv, AloneInv, UnitsInv

LEMMA PlanSafe ==
    ASSUME Inv, NEW j \in Jobs, Plan(j)
    PROVE  Inv'
  <1> DEFINE old == job[j]
             alone == Alone(j)
             x == [IdleJob EXCEPT !.pc = "begin", !.size = Len(remote),
                                  !.alone = alone, !.steady = TRUE]
             begins == job' = [i \in Jobs |->
                          IF i = j THEN x
                          ELSE IF Running(i) THEN [job[i] EXCEPT !.alone = FALSE] ELSE job[i]]
  <1>1. /\ UNCHANGED <<remote, target, part>> /\ old.pc = "idle" /\ ~Running(j)
        /\ shared' = (shared \/ (~Alone(j) /\ job'[j].pc = "begin"))
    BY DEF Plan, Running, Steps
  <1>2. LeftOversOK' = LeftOversOK
    BY DEF LeftOversOK, UnitsOK
  <1>3. shared' \in BOOLEAN /\ (shared => shared')
    BY <1>1, Zenon DEF Inv, StateInv
  <1>4. remote' \in Versions \cup {NoFile} /\ target' \in Content \cup {NoFile}
        /\ part' \in Content \cup {NoFile}
    BY <1>1 DEF Inv, StateInv
  <1>5. LeftOversOK /\ ~shared' => FilesOK(target', part')
    BY <1>1, <1>3 DEF Inv, UnitsInv
  <1>6. CASE Fail(j)
    <2> DEFINE y == [IdleJob EXCEPT !.pc = "error"]
    <2>1. /\ JobOK(y) /\ FileOK(y, target, part) /\ y.pc = "error" /\ y.pc \notin Steps
          /\ ChunkOK(y)
      BY StoppedOK DEF Ended
    <2>2. job' = [i \in Jobs |-> IF i = j THEN y ELSE job[i]]
      BY <1>6 DEF Inv, StateInv, Fail, Stop
    <2> HIDE DEF y
    <2>3. job'[j] = y /\ (\A i \in Jobs \ {j} : job'[i] = job[i]) /\ job' = [i \in Jobs |-> job'[i]]
      BY <2>2
    <2>4. shared' = shared
      BY <1>1, <2>1, <2>3 DEF Inv, StateInv
    <2>5. StateInv'
      BY <1>1, <1>3, <1>4, <2>1, <2>3 DEF Inv, StateInv
    <2>6. AloneInv'
      <3>1. ASSUME NEW i \in Jobs
            PROVE  /\ PlaceOK(job'[i], part') /\ SourceOK(job'[i], part', remote')
                   /\ Under(job'[i]) => Alone(i)'
                   /\ Running(i)' /\ ~shared' => job'[i].alone
        <4>1. CASE i = j
          BY <2>1, <2>3, <4>1 DEF PlaceOK, SourceOK, Under, Running
        <4>2. CASE i # j
          <5>1. job'[i] = job[i] /\ PlaceOK(job'[i], part') /\ SourceOK(job'[i], part', remote')
            BY <1>1, <2>3, <4>2 DEF Inv, AloneInv
          <5>2. Running(i)' /\ ~shared' => job'[i].alone
            BY <2>4, <5>1 DEF Inv, AloneInv, Running
          <5>3. Under(job'[i]) => Alone(i)'
            <6> SUFFICES ASSUME Under(job[i]), NEW k \in Jobs \ {i} PROVE ~Running(k)'
              BY <5>1 DEF Alone
            <6>1. ~Running(k)
              BY DEF Inv, AloneInv, Alone
            <6> QED BY <2>1, <2>3, <6>1 DEF Running
          <5> QED BY <5>1, <5>2, <5>3
        <4> QED BY <4>1, <4>2
      <3> QED BY <3>1 DEF AloneInv
    <2>7. \A i \in Jobs : ChunkOK(job'[i])
      BY <2>1, <2>3 DEF Inv, UnitsInv
    <2> QED BY <1>2, <1>5, <2>5, <2>6, <2>7 DEF Inv, UnitsInv
  <1>7. CASE remote # NoFile /\ begins
    <2>1. Len(remote) \in Nat /\ alone \in BOOLEAN /\ TRUE \in BOOLEAN
      <3>1. alone \in BOOLEAN
        BY Zenon DEF Alone
      <3> QED BY <1>7, <3>1, VersionsOK DEF Inv, StateInv
    <2> HIDE DEF alone
    <2>2. IdleJob \in JobState /\ IdleJob.off = 0 /\ IdleJob.left = 0 /\ IdleJob.chunk = <<>>
          /\ IdleJob.file = "none"
      BY IdleOK DEF JobOK, IdleJob
    <2>3. /\ x \in JobState /\ x.pc = "begin" /\ x.size = Len(remote) /\ x.alone = alone
          /\ x.off = 0 /\ x.left = 0 /\ x.chunk = <<>> /\ x.file = "none"
      BY <2>1, <2>2 DEF JobState, Steps
    <2> HIDE DEF x
    <2>4. JobOK(x) /\ FileOK(x, target, part) /\ ChunkOK(x)
      BY <2>1, <2>3, DownloadAssumption DEF JobOK, FileOK, ChunkOK, Looping
    <2>5. PlaceOK(x, part) /\ SourceOK(x, part, remote)
      BY <1>7, <2>3 DEF PlaceOK, SourceOK, Looping
    <2>6. /\ job'[j] = x /\ job' = [i \in Jobs |-> job'[i]]
          /\ \A i \in Jobs \ {j} : job'[i] = IF Running(i) THEN [job[i] EXCEPT !.alone = FALSE]
                                             ELSE job[i]
      BY <1>7
    <2>7. ASSUME NEW i \in Jobs \ {j}
          PROVE  /\ JobOK(job'[i]) /\ FileOK(job'[i], target, part) /\ ChunkOK(job'[i])
                 /\ job'[i].pc = job[i].pc /\ ~Under(job'[i])
      <3>1. CASE Running(i)
        <4>1. job'[i] = [job[i] EXCEPT !.alone = FALSE] /\ FALSE \in BOOLEAN
          BY <2>6, <3>1
        <4>2. /\ job'[i] \in JobState /\ job'[i].pc = job[i].pc /\ job'[i].off = job[i].off
              /\ job'[i].size = job[i].size /\ job'[i].left = job[i].left
              /\ job'[i].len = job[i].len /\ job'[i].chunk = job[i].chunk
              /\ job'[i].file = job[i].file /\ ~job'[i].alone
          BY <4>1, JobParts DEF JobState
        <4> QED BY <4>2, JobParts DEF JobOK, FileOK, ChunkOK, Under
      <3>2. CASE ~Running(i)
        BY <2>6, <3>2, JobParts DEF Under, Running
      <3> QED BY <3>1, <3>2
    <2>8. StateInv'
      BY <1>1, <1>3, <1>4, <2>4, <2>6, <2>7 DEF StateInv
    <2>9. AloneInv'
      <3>1. Running(j)' /\ ~shared' => job'[j].alone
        BY <1>1, <2>3, <2>6 DEF alone
      <3>2. Under(job'[j]) => Alone(j)'
        <4> SUFFICES ASSUME alone PROVE Alone(j)'
          BY <2>3, <2>6 DEF Under
        <4>1. \A k \in Jobs \ {j} : ~Running(k)'
          BY <2>7 DEF alone, Alone, Running
        <4> QED BY <4>1 DEF Alone
      <3>3. ASSUME NEW i \in Jobs \ {j}
            PROVE  Running(i)' /\ ~shared' => job'[i].alone
        <4>1. Running(i)' => ~Alone(j)
          BY <2>7 DEF Alone, Running
        <4>2. job'[j].pc = "begin"
          BY <2>3, <2>6
        <4> QED BY <1>1, <4>1, <4>2
      <3>4. ASSUME NEW i \in Jobs
            PROVE  /\ PlaceOK(job'[i], part') /\ SourceOK(job'[i], part', remote')
                   /\ Under(job'[i]) => Alone(i)'
                   /\ Running(i)' /\ ~shared' => job'[i].alone
        <4>1. CASE i = j
          BY <1>1, <2>5, <2>6, <3>1, <3>2, <4>1
        <4>2. CASE i # j
          BY <2>7, <3>3, <4>2 DEF PlaceOK, SourceOK
        <4> QED BY <4>1, <4>2
      <3> QED BY <3>4 DEF AloneInv
    <2>10. \A i \in Jobs : ChunkOK(job'[i])
      BY <2>4, <2>6, <2>7
    <2> QED BY <1>2, <1>5, <2>8, <2>9, <2>10 DEF Inv, UnitsInv
  <1> QED BY <1>6, <1>7 DEF Plan

LEMMA BeginSafe ==
    ASSUME Inv, NEW j \in Jobs, Begin(j)
    PROVE  Inv'
  <1> DEFINE old == job[j]
  <1>1. /\ old.pc = "begin" /\ Running(j) /\ UNCHANGED <<remote, target, part, shared>>
        /\ JobOK(old) /\ old \in JobState /\ SourceOK(old, part, remote) /\ old.file = "none"
    BY JobParts DEF Begin, Running, Steps, JobOK, Looping
  <1>2. CASE Fail(j)
    BY <1>1, <1>2, FailSafe
  <1>3. CASE Goto(j, "discard")
    <2> DEFINE x == [old EXCEPT !.pc = "discard"]
    <2>1. /\ x \in JobState /\ x.pc = "discard" /\ x.off = old.off /\ x.size = old.size
          /\ x.left = old.left /\ x.chunk = old.chunk /\ x.file = old.file /\ x.alone = old.alone
          /\ x.steady = old.steady
      BY <1>1 DEF JobState, Steps
    <2>2. job' = [job EXCEPT ![j] = x]
      BY <1>3 DEF Goto
    <2> HIDE DEF x
    <2>3. JobOK(x) /\ FileOK(x, target, part) /\ ChunkOK(x) /\ PlaceOK(x, part)
      BY <1>1, <2>1 DEF JobOK, FileOK, ChunkOK, PlaceOK, Looping
    <2>4. SourceOK(x, part, remote)
      BY <1>1, <2>1 DEF SourceOK, Under, Steps, Looping
    <2> QED BY <1>1, <2>1, <2>2, <2>3, <2>4, QuietStep
  <1>4. CASE ~TooLong(j) /\ job' = [job EXCEPT ![j].pc = "open", ![j].off = PartSize]
    <2> DEFINE x == [old EXCEPT !.pc = "open", !.off = PartSize]
    <2>1. PartSize \in Nat /\ PartSize <= old.size
      <3>1. PartSize \in Nat
        BY JobParts DEF PartSize, Content
      <3>2. old.size \in Nat
        BY JobParts
      <3> QED BY <1>4, <3>1, <3>2 DEF TooLong
    <2>2. PartSize = IF part = NoFile THEN 0 ELSE Len(part)
      BY DEF PartSize
    <2> HIDE DEF PartSize
    <2>3. /\ x \in JobState /\ x.pc = "open" /\ x.off = PartSize /\ x.size = old.size
          /\ x.left = old.left /\ x.chunk = old.chunk /\ x.file = old.file /\ x.alone = old.alone
          /\ x.steady = old.steady
      BY <1>1, <2>1 DEF JobState, Steps
    <2>4. job' = [job EXCEPT ![j] = x]
      BY <1>4 DEF Inv, StateInv
    <2> HIDE DEF x
    <2>5. JobOK(x) /\ FileOK(x, target, part) /\ ChunkOK(x) /\ PlaceOK(x, part)
      BY <1>1, <2>1, <2>2, <2>3 DEF JobOK, FileOK, ChunkOK, PlaceOK, Looping
    <2>6. SourceOK(x, part, remote)
      BY <1>1, <2>3 DEF SourceOK, Under, Steps, Looping
    <2> QED BY <1>1, <2>3, <2>4, <2>5, <2>6, QuietStep
  <1> QED BY <1>2, <1>3, <1>4 DEF Begin

\* Descriptors that are left by the unlinking or the renaming of the partial.
LEMMA DetachedOK ==
    ASSUME Inv, NEW i \in Jobs, NEW f \in {"none", "gone", "target"}, NEW x, NEW t,
           x = [job[i] EXCEPT !.file = f], job[i].file = "none" => f = "none",
           f = "target" => t # NoFile
    PROVE  /\ JobOK(x) /\ Alike(x, job[i]) /\ FileOK(x, t, NoFile) /\ x.pc = job[i].pc
           /\ x.size = job[i].size /\ x.steady = job[i].steady /\ x.left = job[i].left
           /\ x \in JobState /\ x.file = f /\ x.len = job[i].len
  <1>1. /\ x \in JobState /\ x.pc = job[i].pc /\ x.off = job[i].off /\ x.size = job[i].size
        /\ x.left = job[i].left /\ x.len = job[i].len /\ x.chunk = job[i].chunk
        /\ x.file = f /\ x.alone = job[i].alone /\ x.steady = job[i].steady
    BY JobParts DEF JobState
  <1> QED BY <1>1, JobParts DEF JobOK, FileOK, Alike

LEMMA DetachSafe ==
    ASSUME Inv, NEW i \in Jobs
    PROVE  LET x == Detached(job)[i]
           IN  /\ JobOK(x) /\ Alike(x, job[i]) /\ FileOK(x, target, NoFile) /\ x.pc = job[i].pc
               /\ x.size = job[i].size /\ x.steady = job[i].steady /\ x.left = job[i].left
               /\ x \in JobState /\ (job[i].file = "none" => x.file = "none")
  <1>1. Detached(job)[i] = IF job[i].file = "part" THEN [job[i] EXCEPT !.file = "gone"]
                           ELSE job[i]
    BY DEF Detached
  <1>2. CASE job[i].file = "part"
    BY <1>1, <1>2, DetachedOK
  <1>3. CASE job[i].file # "part"
    BY <1>1, <1>3, JobParts DEF Alike, FileOK
  <1> QED BY <1>2, <1>3

LEMMA DiscardPartSafe ==
    ASSUME Inv, NEW j \in Jobs, DiscardPart(j)
    PROVE  Inv'
  <1> DEFINE old == job[j]
             d == Detached(job)
             x == [d[j] EXCEPT !.pc = "open", !.off = 0]
  <1>1. /\ old.pc = "discard" /\ Running(j) /\ UNCHANGED <<remote, target, shared>>
        /\ part' = NoFile /\ JobOK(old) /\ SourceOK(old, part, remote) /\ old.file = "none"
    BY JobParts DEF DiscardPart, Running, Steps, JobOK, Looping
  <1>2. CASE part = NoFile /\ Fail(j)
    BY <1>1, <1>2, FailSafe
  <1>3. CASE job' = [d EXCEPT ![j].pc = "open", ![j].off = 0]
    <2>1. \A i \in Jobs : /\ JobOK(d[i]) /\ Alike(d[i], job[i]) /\ FileOK(d[i], target, NoFile)
                          /\ d[i].size = job[i].size /\ d[i].steady = job[i].steady
                          /\ d[i].left = job[i].left /\ d[i] \in JobState
                          /\ (job[i].file = "none" => d[i].file = "none")
      BY DetachSafe
    <2>2. d = [i \in Jobs |-> d[i]]
      BY DEF Detached
    <2> HIDE DEF d
    <2>3. /\ x \in JobState /\ x.pc = "open" /\ x.off = 0 /\ x.size = d[j].size
          /\ x.left = d[j].left /\ x.chunk = d[j].chunk /\ x.file = d[j].file
          /\ x.alone = d[j].alone /\ x.steady = d[j].steady
      BY <2>1 DEF JobState, Steps
    <2>4. job' = [i \in Jobs |-> IF i = j THEN x ELSE d[i]]
      BY <1>3, <2>2
    <2> HIDE DEF x
    <2>5. /\ job'[j] = x /\ job' = [i \in Jobs |-> job'[i]]
          /\ \A i \in Jobs \ {j} : job'[i] = d[i]
      BY <2>4
    <2>6. x.file = "none" /\ x.chunk = <<>> /\ x.alone = old.alone /\ x.size = old.size
          /\ x.left <= MaxAttempts /\ x.size \in Nat /\ x.steady = old.steady
      BY <1>1, <2>1, <2>3, JobParts DEF Alike, JobOK
    <2>7. JobOK(x) /\ FileOK(x, target, NoFile) /\ ChunkOK(x) /\ PlaceOK(x, NoFile)
      BY <2>3, <2>6 DEF JobOK, FileOK, ChunkOK, PlaceOK, Looping
    <2>8. SourceOK(x, NoFile, remote)
      BY <1>1, <2>3, <2>6 DEF SourceOK, Under, Steps, Looping
    <2>9. LeftOversOK /\ ~shared => FilesOK(target', part')
      BY <1>1 DEF Inv, UnitsInv, FilesOK
    <2>10. target' \in Content \cup {NoFile} /\ part' \in Content \cup {NoFile}
      BY <1>1, JobParts
    <2>11. \A i \in Jobs \ {j} : /\ JobOK(job'[i]) /\ FileOK(job'[i], target', part')
                                 /\ Alike(job'[i], job[i])
      BY <1>1, <2>1, <2>5
    <2> QED BY <1>1, <2>5, <2>6, <2>7, <2>8, <2>9, <2>10, <2>11, JobStep
  <1> QED BY <1>2, <1>3 DEF DiscardPart

LEMMA OpenPartSafe ==
    ASSUME Inv, NEW j \in Jobs, OpenPart(j)
    PROVE  Inv'
  <1> DEFINE old == job[j]
             g == remote # NoFile /\ IsPrefixOf(part', remote)
             s == IF old.off < old.size THEN "ask" ELSE "check"
             x == [old EXCEPT !.file = "part", !.genuine = g, !.off = old.off,
                              !.left = MaxAttempts, !.len = 0, !.chunk = <<>>, !.pc = s]
  <1>1. /\ old.pc = "open" /\ Running(j) /\ UNCHANGED <<remote, target, shared>>
        /\ part' = IF part = NoFile THEN <<>> ELSE part
        /\ JobOK(old) /\ old \in JobState /\ SourceOK(old, part, remote) /\ PlaceOK(old, part)
        /\ part \in Content \cup {NoFile} /\ target \in Content \cup {NoFile}
    BY JobParts DEF OpenPart, Running, Steps
  <1>2. part' \in Content /\ part' # NoFile /\ old.off \in Nat /\ old.size \in Nat
        /\ old.off <= old.size
    BY <1>1, EmptyOK, VersionsOK, JobParts DEF JobOK
  <1>3. g \in BOOLEAN
    BY Zenon
  <1>4. s \in Looping /\ s \in Steps /\ (s = "check" => old.off = old.size) /\ s \in {"ask", "check"}
    BY <1>2 DEF Looping, Steps
  <1>5. job' = [i \in Jobs |-> IF i = j THEN x ELSE job[i]]
    BY DEF OpenPart, Fetch, Inv, StateInv
  <1> HIDE DEF g, s
  <1>6. /\ x \in JobState /\ x.pc = s /\ x.off = old.off /\ x.size = old.size
        /\ x.left = MaxAttempts /\ x.chunk = <<>> /\ x.file = "part" /\ x.alone = old.alone
        /\ x.steady = old.steady /\ x.genuine = g
    <2>1. 0 \in Nat /\ MaxAttempts \in Nat /\ <<>> \in Content
      BY EmptyOK, DownloadAssumption
    <2> QED BY <1>1, <1>3, <1>4, <2>1 DEF JobState
  <1> HIDE DEF x
  <1>7. /\ job'[j] = x /\ job' = [i \in Jobs |-> job'[i]]
        /\ \A i \in Jobs \ {j} : job'[i] = job[i]
    BY <1>5
  <1>8. JobOK(x) /\ FileOK(x, target, part') /\ ChunkOK(x)
    BY <1>2, <1>4, <1>6, DownloadAssumption DEF JobOK, FileOK, ChunkOK, Looping
  <1>9. PlaceOK(x, part')
    <2> SUFFICES ASSUME x.alone PROVE Len(part') = x.off
      BY <1>2, <1>4, <1>6 DEF PlaceOK, Under
    <2>1. old.off = IF part = NoFile THEN 0 ELSE Len(part)
      BY <1>1, <1>6 DEF PlaceOK, Under, Steps
    <2> QED BY <1>1, <1>6, <2>1, EmptyOK
  <1>10. SourceOK(x, part', remote)
    <2> SUFFICES ASSUME Under(x), x.steady
                 PROVE  remote # NoFile /\ Len(remote) = x.size /\ (x.genuine => Prefixed(part', remote))
      BY <1>4, <1>6 DEF SourceOK, Looping
    <2>1. remote # NoFile /\ Len(remote) = x.size /\ remote \in Content
      <3>1. remote # NoFile /\ Len(remote) = x.size
        BY <1>1, <1>6 DEF SourceOK, Under, Steps
      <3> QED BY <3>1, VersionsOK DEF Inv, StateInv
    <2>2. x.genuine => IsPrefixOf(part', remote)
      BY <1>6 DEF g
    <2> QED BY <1>2, <2>1, <2>2, PrefixOK
  <1>11. LeftOversOK /\ ~shared => FilesOK(target', part')
    BY <1>1, EmptyOK DEF Inv, UnitsInv, FilesOK, UnitsOK
  <1>12. \A i \in Jobs \ {j} : /\ JobOK(job'[i]) /\ FileOK(job'[i], target', part')
                               /\ Alike(job'[i], job[i])
    BY <1>1, <1>2, <1>7, JobParts DEF FileOK, Alike
  <1> QED BY <1>1, <1>2, <1>6, <1>7, <1>8, <1>9, <1>10, <1>11, <1>12, JobStep

LEMMA ServeRangeSafe ==
    ASSUME Inv, NEW j \in Jobs, ServeRange(j)
    PROVE  Inv'
  <1> DEFINE old == job[j]
             n == Least(Least(ChunkLen, old.size - old.off), Len(remote) - old.off)
             x == [old EXCEPT !.pc = "serve", !.left = @ - 1, !.len = n]
  <1>1. /\ old.pc = "ask" /\ Running(j) /\ UNCHANGED <<remote, target, part, shared>>
        /\ JobOK(old) /\ old \in JobState /\ FileOK(old, target, part)
        /\ SourceOK(old, part, remote) /\ PlaceOK(old, part)
    BY JobParts DEF ServeRange, Running, Steps
  <1>2. CASE Fail(j)
    BY <1>1, <1>2, FailSafe
  <1>3. CASE remote # NoFile /\ ~(old.off > Len(remote))
             /\ job' = [job EXCEPT
                   ![j].pc = "serve", ![j].left = @ - 1,
                   ![j].len = Least(Least(ChunkLen, job[j].size - job[j].off),
                                    Len(remote) - job[j].off)]
    <2>1. old.off \in Nat /\ old.size \in Nat /\ old.left \in Nat /\ old.off <= old.size
          /\ old.left >= 1 /\ old.left <= MaxAttempts /\ Len(remote) \in Nat
          /\ MaxAttempts \in Nat /\ ChunkLen \in Nat
      BY <1>1, <1>3, JobParts, VersionsOK, DownloadAssumption DEF JobOK, Inv, StateInv
    <2>2. n \in Nat /\ old.off + n <= old.size
      <3>1. \A off \in Nat, size \in Nat, length \in Nat :
                off <= size /\ off <= length
                => LET m == Least(Least(ChunkLen, size - off), length - off)
                   IN  m \in Nat /\ off + m <= size
        BY <2>1 DEF Least
      <3>2. old.off <= Len(remote)
        BY <1>3, <2>1
      <3> QED BY <2>1, <3>1, <3>2, Zenon
    <2>3. job' = [job EXCEPT ![j] = x]
      BY <1>3 DEF Inv, StateInv
    <2> HIDE DEF n
    <2>4. old.left - 1 \in Nat /\ old.left - 1 <= MaxAttempts
      BY <2>1
    <2>5. /\ x \in JobState /\ x.pc = "serve" /\ x.off = old.off /\ x.size = old.size
          /\ x.left = old.left - 1 /\ x.len = n /\ x.chunk = old.chunk /\ x.file = old.file
          /\ x.alone = old.alone /\ x.steady = old.steady /\ x.genuine = old.genuine
      BY <1>1, <2>2, <2>4 DEF JobState, Steps
    <2> HIDE DEF x
    <2>6. JobOK(x) /\ FileOK(x, target, part) /\ ChunkOK(x)
      BY <1>1, <2>1, <2>2, <2>4, <2>5 DEF JobOK, FileOK, ChunkOK, Looping
    <2>7. PlaceOK(x, part) /\ SourceOK(x, part, remote)
      BY <1>1, <2>5 DEF PlaceOK, SourceOK, Under, Looping, Steps
    <2> QED BY <1>1, <2>3, <2>5, <2>6, <2>7, QuietStep
  <1> QED BY <1>2, <1>3 DEF ServeRange

LEMMA ServeReadSafe ==
    ASSUME Inv, NEW j \in Jobs, ServeRead(j)
    PROVE  Inv'
  <1> DEFINE old == job[j]
             c == ReadRange(old.off, old.len)
             x == [old EXCEPT !.pc = "receive", !.chunk = c]
  <1>1. /\ old.pc = "serve" /\ Running(j) /\ UNCHANGED <<remote, target, part, shared>>
        /\ JobOK(old) /\ old \in JobState /\ FileOK(old, target, part)
        /\ SourceOK(old, part, remote) /\ PlaceOK(old, part)
    BY JobParts DEF ServeRead, Running, Steps
  <1>2. CASE Fail(j)
    BY <1>1, <1>2, FailSafe
  <1>3. CASE remote # NoFile
             /\ job' = [job EXCEPT ![j].pc = "receive", ![j].chunk = ReadRange(job[j].off, job[j].len)]
    <2>1. old.off \in Nat /\ old.size \in Nat /\ old.len \in Nat /\ old.off + old.len <= old.size
      BY <1>1, JobParts DEF JobOK
    <2>2. remote \in Versions /\ remote \in Content
      BY <1>3, VersionsOK DEF Inv, StateInv
    <2>3. /\ c \in Content /\ Len(c) \in Nat /\ Len(c) <= old.len
          /\ \A k \in 1 .. Len(c) : old.off + k <= Len(remote) /\ c[k] = remote[old.off + k]
      BY <2>1, <2>2, RangeOK DEF ReadRange
    <2>4. job' = [job EXCEPT ![j] = x]
      BY <1>3 DEF Inv, StateInv
    <2> HIDE DEF c
    <2>5. /\ x \in JobState /\ x.pc = "receive" /\ x.off = old.off /\ x.size = old.size
          /\ x.left = old.left /\ x.chunk = c /\ x.file = old.file
          /\ x.alone = old.alone /\ x.steady = old.steady /\ x.genuine = old.genuine
      BY <1>1, <2>3 DEF JobState, Steps
    <2> HIDE DEF x
    <2>6. JobOK(x) /\ FileOK(x, target, part)
      BY <1>1, <2>1, <2>3, <2>5 DEF JobOK, FileOK, Looping
    <2>7. ChunkOK(x)
      BY <2>2, <2>3, <2>5 DEF ChunkOK
    <2>8. PlaceOK(x, part) /\ SourceOK(x, part, remote)
      BY <1>1, <2>3, <2>5 DEF PlaceOK, SourceOK, Given, Under, Looping, Steps
    <2> QED BY <1>1, <2>4, <2>5, <2>6, <2>7, <2>8, QuietStep
  <1> QED BY <1>2, <1>3 DEF ServeRead

LEMMA AttemptLostSafe ==
    ASSUME Inv, NEW j \in Jobs, AttemptLost(j)
    PROVE  Inv'
  <1> DEFINE old == job[j]
             left == IF old.pc = "ask" THEN old.left - 1 ELSE old.left
             x == [old EXCEPT !.pc = "ask", !.left = left, !.len = 0, !.chunk = <<>>]
  <1>1. /\ old.pc \in {"ask", "serve", "receive"} /\ Running(j)
        /\ UNCHANGED <<remote, target, part, shared>>
        /\ JobOK(old) /\ old \in JobState /\ FileOK(old, target, part)
        /\ SourceOK(old, part, remote) /\ PlaceOK(old, part)
    BY JobParts DEF AttemptLost, Running, Steps
  <1>2. CASE Fail(j)
    BY <1>1, <1>2, FailSafe
  <1>3. CASE left # 0
             /\ job' = [job EXCEPT ![j] = [@ EXCEPT !.pc = "ask", !.left = left,
                                                    !.len = 0, !.chunk = <<>>]]
    <2>1. left \in Nat /\ left >= 1 /\ left <= MaxAttempts
      BY <1>1, <1>3, JobParts, DownloadAssumption DEF JobOK
    <2>2. job' = [job EXCEPT ![j] = x]
      BY <1>3
    <2> HIDE DEF left
    <2>3. /\ x \in JobState /\ x.pc = "ask" /\ x.off = old.off /\ x.size = old.size
          /\ x.left = left /\ x.chunk = <<>> /\ x.file = old.file
          /\ x.alone = old.alone /\ x.steady = old.steady /\ x.genuine = old.genuine
      <3>1. 0 \in Nat /\ <<>> \in Content
        BY EmptyOK
      <3> QED BY <1>1, <2>1, <3>1 DEF JobState, Steps
    <2> HIDE DEF x
    <2>4. JobOK(x) /\ FileOK(x, target, part) /\ ChunkOK(x)
      BY <1>1, <2>1, <2>3 DEF JobOK, FileOK, ChunkOK, Looping
    <2>5. PlaceOK(x, part) /\ SourceOK(x, part, remote)
      BY <1>1, <2>3 DEF PlaceOK, SourceOK, Under, Looping, Steps
    <2> QED BY <1>1, <2>2, <2>3, <2>4, <2>5, QuietStep
  <1> QED BY <1>2, <1>3 DEF AttemptLost

LEMMA DisconnectedSafe ==
    ASSUME Inv, NEW j \in Jobs, Disconnected(j)
    PROVE  Inv'
  BY FailSafe DEF Disconnected, Running, Steps

LEMMA CheckExistsSafe ==
    ASSUME Inv, NEW j \in Jobs, CheckExists(j)
    PROVE  Inv'
  <1> DEFINE old == job[j]
             x == [old EXCEPT !.pc = "replace"]
  <1>1. /\ old.pc = "exists" /\ Running(j) /\ UNCHANGED <<remote, target, part, shared>>
        /\ JobOK(old) /\ old \in JobState /\ FileOK(old, target, part)
        /\ SourceOK(old, part, remote) /\ PlaceOK(old, part)
    BY JobParts DEF CheckExists, Running, Steps
  <1>2. CASE Fail(j)
    BY <1>1, <1>2, FailSafe
  <1>3. CASE Goto(j, "replace")
    <2>1. job' = [job EXCEPT ![j] = x]
      BY <1>3 DEF Goto
    <2>2. /\ x \in JobState /\ x.pc = "replace" /\ x.off = old.off /\ x.size = old.size
          /\ x.left = old.left /\ x.chunk = old.chunk /\ x.file = old.file
          /\ x.alone = old.alone /\ x.steady = old.steady /\ x.genuine = old.genuine
      BY <1>1 DEF JobState, Steps
    <2> HIDE DEF x
    <2>3. JobOK(x) /\ FileOK(x, target, part) /\ ChunkOK(x)
      BY <1>1, <2>2 DEF JobOK, FileOK, ChunkOK, Looping
    <2>4. PlaceOK(x, part) /\ SourceOK(x, part, remote)
      BY <1>1, <2>2 DEF PlaceOK, SourceOK, Under, Looping, Steps
    <2> QED BY <1>1, <2>1, <2>2, <2>3, <2>4, QuietStep
  <1> QED BY <1>2, <1>3 DEF CheckExists

LEMMA CheckSizeSafe ==
    ASSUME Inv, NEW j \in Jobs, CheckSize(j)
    PROVE  Inv'
  <1> DEFINE old == job[j]
             x == [old EXCEPT !.pc = "exists", !.file = "none"]
  <1>1. /\ old.pc = "check" /\ Running(j) /\ UNCHANGED <<remote, target, part, shared>>
        /\ JobOK(old) /\ old \in JobState /\ FileOK(old, target, part)
        /\ SourceOK(old, part, remote) /\ PlaceOK(old, part)
    BY JobParts DEF CheckSize, Running, Steps
  <1>2. CASE Fail(j)
    BY <1>1, <1>2, FailSafe
  <1>3. CASE part # NoFile /\ ~WrongSize(j)
             /\ job' = [job EXCEPT ![j].pc = "exists", ![j].file = "none"]
    <2>1. job' = [job EXCEPT ![j] = x]
      BY <1>3 DEF Inv, StateInv
    <2>2. /\ x \in JobState /\ x.pc = "exists" /\ x.off = old.off /\ x.size = old.size
          /\ x.left = old.left /\ x.chunk = old.chunk /\ x.file = "none"
          /\ x.alone = old.alone /\ x.steady = old.steady /\ x.genuine = old.genuine
      BY <1>1 DEF JobState, Steps
    <2> HIDE DEF x
    <2>3. JobOK(x) /\ FileOK(x, target, part) /\ ChunkOK(x)
      BY <1>1, <2>2 DEF JobOK, FileOK, ChunkOK, Looping
    <2>4. PlaceOK(x, part) /\ SourceOK(x, part, remote)
      BY <1>1, <1>3, <2>2 DEF PlaceOK, SourceOK, WrongSize, Under, Looping, Steps
    <2> QED BY <1>1, <2>1, <2>2, <2>3, <2>4, QuietStep
  <1> QED BY <1>2, <1>3 DEF CheckSize

\* What writing to the descriptor of a job leaves of the files.
LEMMA WriteOK ==
    ASSUME Inv, NEW j \in Jobs, Running(j), NEW units \in Content, Write(j, units),
           UNCHANGED shared,
           \A k \in 1 .. Len(units) : \E v \in Versions :
               job[j].off + k <= Len(v) /\ units[k] = v[job[j].off + k]
    PROVE  /\ target' \in Content \cup {NoFile} /\ part' \in Content \cup {NoFile}
           /\ \A i \in Jobs : FileOK(job[i], target', part')
           /\ LeftOversOK /\ ~shared => FilesOK(target', part')
           /\ job[j].file = "part" => part \in Content /\ part' = part \o units /\ part' # NoFile
  <1> DEFINE old == job[j]
  <1>1. FileOK(old, target, part) /\ part \in Content \cup {NoFile} /\ target \in Content \cup {NoFile}
    BY JobParts
  <1>2. CASE old.file = "part"
    <2>1. part \in Content /\ part' = part \o units /\ target' = target
      BY <1>1, <1>2 DEF FileOK, Write
    <2>2. part' \in Content /\ part' # NoFile
      BY <2>1, JoinOK
    <2>3. \A i \in Jobs : FileOK(job[i], target', part')
      BY <2>1, <2>2, JobParts DEF FileOK
    <2>4. ASSUME LeftOversOK, ~shared PROVE FilesOK(target', part')
      <3>1. Under(old) /\ PlaceOK(old, part) /\ FilesOK(target, part)
        BY <2>4, JobParts DEF Inv, UnitsInv
      <3>2. old.pc \in Looping
        BY <1>2, JobParts DEF JobOK
      <3>3. Len(part) = old.off /\ part # NoFile
        BY <3>1, <3>2 DEF PlaceOK
      <3>4. UnitsOK(part)
        BY <3>1, <3>3 DEF FilesOK
      <3>5. UnitsOK(part \o units)
        BY <2>1, <3>3, <3>4, UnitsGrow
      <3> QED BY <2>1, <3>1, <3>5 DEF FilesOK
    <2> QED BY <1>1, <2>1, <2>2, <2>3, <2>4
  <1>3. CASE old.file = "target"
    <2>1. target \in Content /\ target' = target \o units /\ part' = part
      BY <1>1, <1>3 DEF FileOK, Write
    <2>2. target' \in Content /\ target' # NoFile
      BY <2>1, JoinOK
    <2>3. \A i \in Jobs : FileOK(job[i], target', part')
      BY <2>1, <2>2, JobParts DEF FileOK
    <2>4. shared
      BY <1>3, JobParts DEF PlaceOK, JobOK
    <2> QED BY <1>1, <1>3, <2>1, <2>2, <2>3, <2>4
  <1>4. CASE old.file \notin {"part", "target"}
    BY <1>1, <1>4, JobParts DEF Write, Inv, UnitsInv
  <1> QED BY <1>2, <1>3, <1>4

LEMMA ReceiveChunkSafe ==
    ASSUME Inv, NEW j \in Jobs, ReceiveChunk(j)
    PROVE  Inv'
  <1> DEFINE old == job[j]
             off == old.off + Len(old.chunk)
             s == IF off < old.size THEN "ask" ELSE "check"
             x == [old EXCEPT !.off = off, !.left = MaxAttempts, !.len = 0, !.chunk = <<>>, !.pc = s]
  <1>1. /\ old.pc = "receive" /\ Running(j) /\ UNCHANGED <<remote, shared>>
        /\ JobOK(old) /\ old \in JobState /\ FileOK(old, target, part) /\ ChunkOK(old)
        /\ SourceOK(old, part, remote) /\ PlaceOK(old, part) /\ old.chunk \in Content
    BY JobParts DEF ReceiveChunk, Running, Steps
  <1>2. CASE Fail(j) /\ UNCHANGED <<target, part>>
    BY <1>1, <1>2, FailSafe
  <1>3. CASE Write(j, old.chunk) /\ Fetch(j, off, job)
    <2>1. off \in Nat /\ off <= old.size /\ old.size \in Nat /\ Len(old.chunk) \in Nat
      <3>1. Len(old.chunk) \in Nat
        BY <1>1 DEF Content
      <3> QED BY <1>1, <3>1, JobParts DEF JobOK
    <2>2. /\ target' \in Content \cup {NoFile} /\ part' \in Content \cup {NoFile}
          /\ \A i \in Jobs : FileOK(job[i], target', part')
          /\ LeftOversOK /\ ~shared => FilesOK(target', part')
          /\ old.file = "part" => part \in Content /\ part' = part \o old.chunk /\ part' # NoFile
      BY <1>1, <1>3, WriteOK DEF ChunkOK
    <2>3. job' = [job EXCEPT ![j] = x]
      BY <1>3 DEF Fetch
    <2>4. s \in Looping /\ s \in Steps /\ s \in {"ask", "check"} /\ (s = "check" => off = old.size)
      BY <2>1 DEF Looping, Steps
    <2> HIDE DEF off, s
    <2>5. /\ x \in JobState /\ x.pc = s /\ x.off = off /\ x.size = old.size
          /\ x.left = MaxAttempts /\ x.chunk = <<>> /\ x.file = old.file
          /\ x.alone = old.alone /\ x.steady = old.steady /\ x.genuine = old.genuine
      <3>1. 0 \in Nat /\ MaxAttempts \in Nat /\ <<>> \in Content
        BY EmptyOK, DownloadAssumption
      <3> QED BY <1>1, <2>1, <2>4, <3>1 DEF JobState
    <2> HIDE DEF x
    <2>6. job' = [i \in Jobs |-> IF i = j THEN x ELSE job[i]]
      BY <2>3 DEF Inv, StateInv
    <2>7. /\ job'[j] = x /\ job' = [i \in Jobs |-> job'[i]]
          /\ \A i \in Jobs \ {j} : job'[i] = job[i]
      BY <2>6
    <2>8. JobOK(x) /\ FileOK(x, target', part') /\ ChunkOK(x)
      BY <2>1, <2>2, <2>4, <2>5, DownloadAssumption DEF JobOK, FileOK, ChunkOK, Looping
    <2>9. ASSUME Under(x)
          PROVE  /\ old.file = "part" /\ part \in Content /\ part' = part \o old.chunk
                 /\ part' # NoFile /\ Len(part) = old.off /\ Len(part') = off
      <3>1. Under(old)
        BY <1>1, <2>5, <2>9 DEF Under, Steps
      <3>2. old.file = "part" /\ Len(part) = old.off
        BY <1>1, <3>1 DEF PlaceOK, Looping
      <3>3. part \in Content /\ part' = part \o old.chunk /\ part' # NoFile
        BY <2>2, <3>2
      <3>4. Len(part \o old.chunk) = Len(part) + Len(old.chunk)
        BY <1>1, <3>3, JoinOK
      <3>5. Len(part') = off
        BY <3>2, <3>3, <3>4, Zenon DEF off
      <3> QED BY <3>2, <3>3, <3>5
    <2>10. PlaceOK(x, part')
      BY <2>4, <2>5, <2>9 DEF PlaceOK
    <2>11. SourceOK(x, part', remote)
      <3> SUFFICES ASSUME Under(x), x.steady
                   PROVE  remote # NoFile /\ Len(remote) = x.size /\ (x.genuine => Prefixed(part', remote))
        BY <2>4, <2>5 DEF SourceOK
      <3>1. Under(old)
        BY <1>1, <2>5 DEF Under, Steps
      <3>2. /\ remote # NoFile /\ Len(remote) = old.size /\ Given(old, remote)
            /\ old.genuine => Prefixed(part, remote)
        BY <1>1, <2>5, <3>1 DEF SourceOK, Looping
      <3>3. remote \in Content
        BY <3>2, VersionsOK DEF Inv, StateInv
      <3>4. old.genuine => Prefixed(part', remote)
        BY <1>1, <2>9, <3>2, <3>3, PrefixGrows DEF Given
      <3> QED BY <2>5, <3>2, <3>4
    <2>12. \A i \in Jobs \ {j} : /\ JobOK(job'[i]) /\ FileOK(job'[i], target', part')
                                 /\ Alike(job'[i], job[i])
      BY <2>2, <2>7, JobParts DEF Alike
    <2> QED BY <1>1, <2>2, <2>5, <2>7, <2>8, <2>10, <2>11, <2>12, JobStep
  <1> QED BY <1>1, <1>2, <1>3 DEF ReceiveChunk

LEMMA ReplaceTargetSafe ==
    ASSUME Inv, NEW j \in Jobs, ReplaceTarget(j)
    PROVE  Inv'
  <1> DEFINE old == job[j]
             d == Renamed(job)
             x == [IdleJob EXCEPT !.pc = "done"]
  <1>1. /\ old.pc = "replace" /\ Running(j) /\ UNCHANGED <<remote, shared>>
    BY DEF ReplaceTarget, Running, Steps
  <1>2. CASE Fail(j) /\ UNCHANGED <<target, part>>
    BY <1>1, <1>2, FailSafe
  <1>3. CASE /\ part # NoFile /\ target' = part /\ part' = NoFile
             /\ job' = [d EXCEPT ![j] = x]
    <2>1. /\ JobOK(x) /\ FileOK(x, target', part') /\ x.pc \notin Steps
          /\ PlaceOK(x, part') /\ SourceOK(x, part', remote) /\ ChunkOK(x)
      BY StoppedOK DEF Ended
    <2> HIDE DEF x
    <2>2. ASSUME NEW i \in Jobs
          PROVE  JobOK(d[i]) /\ Alike(d[i], job[i]) /\ FileOK(d[i], target', part')
      <3> DEFINE f == CASE job[i].file = "part" -> "target"
                        [] job[i].file = "target" -> "gone"
                        [] OTHER -> job[i].file
      <3>1. d[i] = [job[i] EXCEPT !.file = f]
        BY DEF Renamed
      <3>2. job[i].file \in {"none", "part", "target", "gone"}
        BY JobParts DEF JobState
      <3>3. /\ f \in {"none", "gone", "target"} /\ (job[i].file = "none" => f = "none")
            /\ (f = "target" => target' # NoFile)
        BY <1>3, <3>2
      <3> HIDE DEF f
      <3> QED BY <1>3, <3>1, <3>3, DetachedOK
    <2>3. d = [i \in Jobs |-> d[i]]
      BY DEF Renamed
    <2> HIDE DEF d
    <2>4. /\ job'[j] = x /\ job' = [i \in Jobs |-> job'[i]]
          /\ \A i \in Jobs \ {j} : job'[i] = d[i]
      BY <1>3, <2>3
    <2>5. LeftOversOK /\ ~shared => FilesOK(target', part')
      BY <1>3 DEF Inv, UnitsInv, FilesOK
    <2>6. target' \in Content \cup {NoFile} /\ part' \in Content \cup {NoFile}
      BY <1>3, JobParts
    <2>7. \A i \in Jobs \ {j} : /\ JobOK(job'[i]) /\ FileOK(job'[i], target', part')
                                /\ Alike(job'[i], job[i])
      BY <2>2, <2>4
    <2> QED BY <1>1, <2>1, <2>4, <2>5, <2>6, <2>7, JobStep
  <1> QED BY <1>1, <1>2, <1>3 DEF ReplaceTarget

LEMMA KillSafe ==
    ASSUME Inv, NEW j \in Jobs, Kill(j)
    PROVE  Inv'
  <1> DEFINE old == job[j]
             x == [IdleJob EXCEPT !.pc = "killed"]
  <1>1. Running(j) /\ UNCHANGED <<remote, shared>> /\ old.chunk \in Content /\ ChunkOK(old) /\ JobOK(old)
    BY JobParts DEF Kill
  <1>2. PICK k \in 0 .. Len(old.chunk) : Write(j, SubSeq(old.chunk, 1, k))
    BY DEF Kill
  <1> DEFINE c == SubSeq(old.chunk, 1, k)
  <1>3. c \in Content /\ Len(c) = k /\ \A i \in 1 .. k : c[i] = old.chunk[i]
    BY <1>1, CutOK
  <1>4. Len(old.chunk) \in Nat
    BY <1>1 DEF Content
  <1> HIDE DEF c
  <1>5. \A i \in 1 .. Len(c) : \E v \in Versions : old.off + i <= Len(v) /\ c[i] = v[old.off + i]
    <2>1. CASE old.pc = "receive"
      <3>1. \A i \in 1 .. Len(c) : i \in 1 .. Len(old.chunk)
        BY <1>3, <1>4
      <3> QED BY <1>1, <1>3, <2>1, <3>1 DEF ChunkOK
    <2>2. CASE old.pc # "receive"
      <3>1. Len(old.chunk) = 0
        BY <1>1, <2>2, EmptyOK DEF JobOK
      <3>2. Len(c) = 0
        BY <1>3, <3>1
      <3> QED BY <3>2
    <2> QED BY <2>1, <2>2
  <1>6. Write(j, c)
    BY <1>2 DEF c
  <1>7. /\ target' \in Content \cup {NoFile} /\ part' \in Content \cup {NoFile}
        /\ \A i \in Jobs : FileOK(job[i], target', part')
        /\ LeftOversOK /\ ~shared => FilesOK(target', part')
    BY <1>1, <1>3, <1>5, <1>6, WriteOK
  <1>8. /\ JobOK(x) /\ FileOK(x, target', part') /\ x.pc \notin Steps
        /\ PlaceOK(x, part') /\ SourceOK(x, part', remote) /\ ChunkOK(x)
    BY StoppedOK DEF Ended
  <1>9. job' = [i \in Jobs |-> IF i = j THEN x ELSE job[i]]
    BY DEF Kill, Stop, Inv, StateInv
  <1> HIDE DEF x
  <1>10. /\ job'[j] = x /\ job' = [i \in Jobs |-> job'[i]]
         /\ \A i \in Jobs \ {j} : job'[i] = job[i]
    BY <1>9
  <1>11. \A i \in Jobs \ {j} : /\ JobOK(job'[i]) /\ FileOK(job'[i], target', part')
                               /\ Alike(job'[i], job[i])
    BY <1>7, <1>10, JobParts DEF Alike
  <1> QED BY <1>1, <1>7, <1>8, <1>10, <1>11, JobStep

-----------------------------------------------------------------------------
(* What else happens, and the theorems.                                    *)

LEMMA EditRemoteSafe ==
    ASSUME Inv, EditRemote
    PROVE  Inv'
  <1>1. /\ UNCHANGED <<target, part, shared>> /\ remote' \in Versions \cup {NoFile}
        /\ job' = [j \in Jobs |-> [job[j] EXCEPT !.steady = FALSE]]
    BY DEF EditRemote
  <1>2. FALSE \in BOOLEAN
    OBVIOUS
  <1>3. ASSUME NEW j \in Jobs
        PROVE  /\ job'[j] \in JobState /\ job'[j].pc = job[j].pc /\ job'[j].off = job[j].off
               /\ job'[j].size = job[j].size /\ job'[j].left = job[j].left
               /\ job'[j].len = job[j].len /\ job'[j].chunk = job[j].chunk
               /\ job'[j].file = job[j].file /\ job'[j].alone = job[j].alone /\ ~job'[j].steady
    <2>1. job'[j] = [job[j] EXCEPT !.steady = FALSE] /\ job[j] \in JobState
      BY <1>1, JobParts
    <2> QED BY <1>2, <2>1 DEF JobState
  <1>4. ASSUME NEW j \in Jobs
        PROVE  /\ JobOK(job'[j]) /\ FileOK(job'[j], target', part') /\ ChunkOK(job'[j])
               /\ PlaceOK(job'[j], part') /\ SourceOK(job'[j], part', remote')
    <2>1. JobOK(job'[j]) /\ FileOK(job'[j], target', part') /\ ChunkOK(job'[j])
      <3>1. JobOK(job[j]) /\ FileOK(job[j], target, part) /\ ChunkOK(job[j])
        BY JobParts
      <3> QED BY <1>1, <1>3, <3>1 DEF JobOK, FileOK, ChunkOK
    <2>2. PlaceOK(job'[j], part') /\ SourceOK(job'[j], part', remote')
      <3>1. PlaceOK(job[j], part) /\ part' = part
        BY <1>1, JobParts
      <3> QED BY <1>3, <3>1 DEF PlaceOK, SourceOK, Under
    <2> QED BY <2>1, <2>2
  <1>5. StateInv'
    BY <1>1, <1>4 DEF Inv, StateInv
  <1>6. ASSUME NEW j \in Jobs
        PROVE  /\ Under(job'[j]) => Alone(j)'
               /\ Running(j)' /\ ~shared' => job'[j].alone
    BY <1>1, <1>3 DEF Inv, AloneInv, Under, Running, Alone
  <1>7. AloneInv'
    BY <1>4, <1>6 DEF AloneInv
  <1>8. LeftOversOK' = LeftOversOK
    BY DEF LeftOversOK, UnitsOK
  <1>9. UnitsInv'
    BY <1>1, <1>4, <1>8 DEF Inv, UnitsInv
  <1> QED BY <1>5, <1>7, <1>9 DEF Inv

LEMMA CleanupPartialSafe ==
    ASSUME Inv, CleanupPartial
    PROVE  Inv'
  <1> DEFINE e == [j \in Jobs |-> IF Running(j) THEN [job[j] EXCEPT !.alone = FALSE] ELSE job[j]]
             d == Detached(e)
  <1>1. /\ UNCHANGED <<remote, target>> /\ part' = NoFile /\ job' = d
        /\ shared' = (shared \/ \E j \in Jobs : Running(j))
    BY DEF CleanupPartial
  <1>2. FALSE \in BOOLEAN /\ "gone" \in {"none", "part", "target", "gone"}
    OBVIOUS
  <1>3. ASSUME NEW j \in Jobs
        PROVE  /\ e[j] \in JobState /\ e[j].pc = job[j].pc /\ e[j].off = job[j].off
               /\ e[j].size = job[j].size /\ e[j].left = job[j].left
               /\ e[j].len = job[j].len /\ e[j].chunk = job[j].chunk
               /\ e[j].file = job[j].file /\ ~Under(e[j])
    <2>1. job[j] \in JobState
      BY JobParts
    <2>2. CASE Running(j)
      <3>1. e[j] = [job[j] EXCEPT !.alone = FALSE]
        BY <2>2
      <3> QED BY <1>2, <2>1, <3>1 DEF JobState, Under
    <2>3. CASE ~Running(j)
      <3>1. e[j] = job[j]
        BY <2>3
      <3> QED BY <2>1, <2>3, <3>1 DEF Under, Running
    <2> QED BY <2>2, <2>3
  <1> HIDE DEF e
  <1>4. d = [j \in Jobs |-> d[j]]
    BY DEF Detached
  <1>5. ASSUME NEW j \in Jobs
        PROVE  /\ d[j] \in JobState /\ d[j].pc = job[j].pc /\ d[j].off = job[j].off
               /\ d[j].size = job[j].size /\ d[j].left = job[j].left
               /\ d[j].len = job[j].len /\ d[j].chunk = job[j].chunk
               /\ d[j].file = (IF job[j].file = "part" THEN "gone" ELSE job[j].file)
               /\ ~Under(d[j])
    <2>1. d[j] = IF e[j].file = "part" THEN [e[j] EXCEPT !.file = "gone"] ELSE e[j]
      BY DEF Detached
    <2>2. CASE e[j].file = "part"
      BY <1>2, <1>3, <2>1, <2>2 DEF JobState, Under
    <2>3. CASE e[j].file # "part"
      BY <1>3, <2>1, <2>3
    <2> QED BY <2>2, <2>3
  <1> HIDE DEF d
  <1>6. ASSUME NEW j \in Jobs
        PROVE  /\ JobOK(job'[j]) /\ FileOK(job'[j], target', part') /\ ChunkOK(job'[j])
               /\ PlaceOK(job'[j], part') /\ SourceOK(job'[j], part', remote')
    <2>1. JobOK(job[j]) /\ FileOK(job[j], target, part) /\ ChunkOK(job[j])
      BY JobParts
    <2> QED BY <1>1, <1>5, <2>1 DEF JobOK, FileOK, ChunkOK, PlaceOK, SourceOK
  <1>7. shared' \in BOOLEAN /\ (shared => shared')
    <2>1. shared' \in BOOLEAN
      BY <1>1, Zenon
    <2> QED BY <1>1, <2>1
  <1>8. StateInv'
    BY <1>1, <1>4, <1>6, <1>7 DEF Inv, StateInv
  <1>9. ASSUME NEW j \in Jobs
        PROVE  Running(j)' => shared'
    BY <1>1, <1>5 DEF Running
  <1>10. AloneInv'
    BY <1>1, <1>5, <1>6, <1>9 DEF AloneInv
  <1>11. LeftOversOK' = LeftOversOK
    BY DEF LeftOversOK, UnitsOK
  <1>12. LeftOversOK /\ ~shared' => FilesOK(target', part')
    BY <1>1, <1>7 DEF Inv, UnitsInv, FilesOK
  <1>13. UnitsInv'
    BY <1>6, <1>11, <1>12 DEF UnitsInv
  <1> QED BY <1>8, <1>10, <1>13 DEF Inv

LEMMA NextSafe ==
    ASSUME Inv, [Next]_vars
    PROVE  Inv'
  <1>1. ASSUME NEW j \in Jobs, Plan(j) \/ Step(j) \/ AttemptLost(j) \/ Disconnected(j) \/ Kill(j)
        PROVE  Inv'
    <2>1. CASE Step(j)
      BY <2>1, BeginSafe, DiscardPartSafe, OpenPartSafe, ServeRangeSafe, ServeReadSafe,
         ReceiveChunkSafe, CheckSizeSafe, CheckExistsSafe, ReplaceTargetSafe, Zenon DEF Step
    <2> QED BY <1>1, <2>1, PlanSafe, AttemptLostSafe, DisconnectedSafe, KillSafe
  <1>2. CASE UNCHANGED vars
    <2>1. StateInv' /\ LeftOversOK' = LeftOversOK
      BY <1>2 DEF vars, Inv, StateInv, LeftOversOK, UnitsOK
    <2>2. AloneInv'
      BY <1>2 DEF vars, Inv, AloneInv, Alone, Running
    <2>3. UnitsInv'
      BY <1>2, <2>1 DEF vars, Inv, UnitsInv
    <2> QED BY <2>1, <2>2, <2>3 DEF Inv
  <1> QED BY <1>1, <1>2, EditRemoteSafe, CleanupPartialSafe DEF Next

\* While a download runs alone, nobody else takes a step of the loop.
LEMMA OnlyRunning ==
    ASSUME NEW i \in Jobs, ~Running(i)
    PROVE  ~Step(i) /\ ~AttemptLost(i) /\ ~Disconnected(i) /\ ~Kill(i)
  <1>1. job[i].pc \notin Steps /\ ~Kill(i)
    BY DEF Running, Kill
  <1>2. ~Step(i)
    BY <1>1 DEF Step, Begin, DiscardPart, OpenPart, ServeRange, ServeRead, ReceiveChunk,
                CheckSize, CheckExists, ReplaceTarget, Steps
  <1>3. ~AttemptLost(i) /\ ~Disconnected(i)
    BY <1>1 DEF AttemptLost, Disconnected, Steps
  <1> QED BY <1>1, <1>2, <1>3

LEMMA PlanKeeps ==
    ASSUME Inv, NEW j \in Jobs, NEW i \in Jobs, i # j, Plan(i)
    PROVE  job'[j].pc = job[j].pc
  <1>1. CASE Fail(i)
    BY <1>1 DEF Fail, Stop, Inv, StateInv
  <1>2. CASE ~Fail(i)
    <2>1. job'[j] = IF Running(j) THEN [job[j] EXCEPT !.alone = FALSE] ELSE job[j]
      BY <1>2 DEF Plan
    <2> QED BY <2>1, JobParts DEF JobState
  <1> QED BY <1>1, <1>2

LEMMA CleanupKeeps ==
    ASSUME Inv, NEW j \in Jobs, CleanupPartial
    PROVE  job'[j].pc = job[j].pc
  <1> DEFINE e == [k \in Jobs |-> IF Running(k) THEN [job[k] EXCEPT !.alone = FALSE] ELSE job[k]]
  <1>1. job' = Detached(e)
    BY DEF CleanupPartial
  <1>2. e[j] \in JobState /\ e[j].pc = job[j].pc
    <2>1. job[j] \in JobState /\ FALSE \in BOOLEAN
      BY JobParts
    <2> QED BY <2>1 DEF JobState
  <1> HIDE DEF e
  <1>3. job'[j].pc = e[j].pc
    BY <1>1, <1>2 DEF Detached, JobState
  <1> QED BY <1>2, <1>3

LEMMA Invariance == Spec => []Inv
  BY InitSafe, NextSafe, PTL DEF Spec

\* TypeOK: what is known of the files and of each download stays within its
\* bounds however downloads, cleanups, kills and edits interleave; a chunk never
\* takes a download past the size in its plan.
THEOREM TypeInvariant == Spec => []TypeOK
  <1>1. Inv => TypeOK
    BY DEF Inv, StateInv, JobOK, TypeOK
  <1> QED BY <1>1, Invariance, PTL

\* OnlyDisturbedPartialsMismatch: the final comparison of sizes can only refuse
\* a partial that another download or a cleanup has touched, whatever the job
\* resumed, how often it was killed, and whatever the source did meanwhile.
THEOREM MismatchTheorem == Spec => OnlyDisturbedPartialsMismatch
  <1>1. ASSUME Inv, Next, NEW j \in Jobs, job[j].pc = "check", job[j].alone, part # NoFile
        PROVE  job'[j].pc # "error"
    <2>1. Len(part) = job[j].size /\ ~WrongSize(j)
      BY <1>1, JobParts DEF PlaceOK, JobOK, Under, Steps, Looping, WrongSize
    <2> DEFINE quiet == job'[j].pc # "error"
    <2>2. ASSUME NEW i \in Jobs, i # j,
                 Plan(i) \/ Step(i) \/ AttemptLost(i) \/ Disconnected(i) \/ Kill(i)
          PROVE  quiet
      <3>1. ~Running(i)
        BY <1>1, <2>2 DEF Inv, AloneInv, Alone, Under, Steps
      <3>2. ~Step(i) /\ ~AttemptLost(i) /\ ~Disconnected(i) /\ ~Kill(i)
        BY <3>1, OnlyRunning
      <3>3. job'[j].pc = job[j].pc
        BY <1>1, <2>2, <3>2, PlanKeeps
      <3> QED BY <1>1, <3>3
    <2>3. ASSUME Plan(j) \/ Step(j) \/ AttemptLost(j) \/ Disconnected(j) \/ Kill(j)
          PROVE  quiet
      <3>1. CASE CheckSize(j)
        <4>1. job' = [job EXCEPT ![j].pc = "exists", ![j].file = "none"]
          BY <1>1, <2>1, <3>1 DEF CheckSize
        <4>2. job'[j].pc = "exists"
          BY <1>1, <4>1, JobParts DEF Inv, StateInv, JobState
        <4> QED BY <4>2
      <3>2. CASE Kill(j)
        <4>1. job' = [job EXCEPT ![j] = [IdleJob EXCEPT !.pc = "killed"]]
          BY <3>2 DEF Kill, Stop
        <4>2. [IdleJob EXCEPT !.pc = "killed"].pc = "killed"
          BY StoppedOK DEF Ended
        <4>3. job'[j] = [IdleJob EXCEPT !.pc = "killed"]
          BY <1>1, <4>1 DEF Inv, StateInv
        <4> QED BY <4>2, <4>3
      <3>3. ~Plan(j) /\ ~AttemptLost(j) /\ ~Disconnected(j) /\ (Step(j) => CheckSize(j))
        BY <1>1 DEF Plan, AttemptLost, Disconnected, Step, Begin, DiscardPart, OpenPart,
                    ServeRange, ServeRead, ReceiveChunk, CheckExists, ReplaceTarget
      <3> QED BY <2>3, <3>1, <3>2, <3>3
    <2>4. CASE EditRemote
      BY <1>1, <2>4, JobParts DEF EditRemote, JobState
    <2>5. CASE CleanupPartial
      BY <1>1, <2>5, CleanupKeeps
    <2> QED BY <1>1, <2>2, <2>3, <2>4, <2>5 DEF Next
  <1>2. Inv /\ [Next]_vars
        => [\A j \in Jobs : job[j].pc = "check" /\ job[j].alone /\ part # NoFile
                            => job'[j].pc # "error"]_vars
    BY <1>1
  <1> QED BY <1>2, Invariance, PTL DEF Spec, OnlyDisturbedPartialsMismatch

\* FaithfulDownloadIsSource: a download that ran alone, whose source did not
\* change and that resumed a prefix of it, replaces the target by the source.
THEOREM FaithfulTheorem == Spec => FaithfulDownloadIsSource
  <1>1. ASSUME Inv, Next, NEW j \in Jobs, job[j].pc = "replace", job'[j].pc = "done",
               job[j].alone, job[j].steady, job[j].genuine
        PROVE  target' = remote
    <2>1. Under(job[j]) /\ Running(j)
      BY <1>1 DEF Under, Running, Steps
    <2>2. part # NoFile /\ remote # NoFile /\ Len(part) = Len(remote) /\ Prefixed(part, remote)
      BY <1>1, <2>1, JobParts DEF PlaceOK, SourceOK, Steps, Looping
    <2>3. part = remote
      <3>1. part \in Content /\ remote \in Content
        BY <1>1, <2>2, VersionsOK DEF Inv, StateInv
      <3> QED BY <2>2, <3>1, WholeOK
    <2> DEFINE same == target' = part
    <2>4. ASSUME NEW i \in Jobs, i # j,
                 Plan(i) \/ Step(i) \/ AttemptLost(i) \/ Disconnected(i) \/ Kill(i)
          PROVE  same
      <3>1. ~Running(i)
        BY <1>1, <2>1, <2>4 DEF Inv, AloneInv, Alone
      <3>2. ~Step(i) /\ ~AttemptLost(i) /\ ~Disconnected(i) /\ ~Kill(i)
        BY <3>1, OnlyRunning
      <3>3. job'[j].pc # "done"
        BY <1>1, <2>1, <2>4, <3>2, PlanKeeps
      <3> QED BY <1>1, <3>3
    <2>5. ASSUME Plan(j) \/ Step(j) \/ AttemptLost(j) \/ Disconnected(j) \/ Kill(j)
          PROVE  same
      <3>1. CASE ReplaceTarget(j)
        BY <2>2, <3>1 DEF ReplaceTarget
      <3>2. CASE Kill(j)
        <4>1. job'[j] = [IdleJob EXCEPT !.pc = "killed"]
          BY <1>1, <3>2 DEF Kill, Stop, Inv, StateInv
        <4>2. [IdleJob EXCEPT !.pc = "killed"].pc = "killed"
          BY StoppedOK DEF Ended
        <4> QED BY <1>1, <4>1, <4>2
      <3>3. ~Plan(j) /\ ~AttemptLost(j) /\ ~Disconnected(j) /\ (Step(j) => ReplaceTarget(j))
        BY <1>1 DEF Plan, AttemptLost, Disconnected, Step, Begin, DiscardPart, OpenPart,
                    ServeRange, ServeRead, ReceiveChunk, CheckSize, CheckExists
      <3> QED BY <2>5, <3>1, <3>2, <3>3
    <2>6. CASE EditRemote
      <3>1. job'[j].pc = job[j].pc
        BY <1>1, <2>6, JobParts DEF EditRemote, JobState
      <3> QED BY <1>1, <3>1
    <2>7. CASE CleanupPartial
      BY <1>1, <2>7, CleanupKeeps
    <2> QED BY <1>1, <2>3, <2>4, <2>5, <2>6, <2>7 DEF Next
  <1>2. Inv /\ [Next]_vars
        => [\A j \in Jobs : /\ job[j].pc = "replace" /\ job'[j].pc = "done"
                            /\ job[j].alone /\ job[j].steady /\ job[j].genuine
                            => target' = remote]_vars
    BY <1>1
  <1> QED BY <1>2, Invariance, PTL DEF Spec, FaithfulDownloadIsSource

\* EveryUnitAtItsOffset: as long as no download has run beside another one or a
\* cleanup, unit k of the partial and of what replaced the target is unit k of
\* some version of the source, if that holds of the partials left from before.
THEOREM UnitsTheorem ==
    ASSUME LeftOversOK
    PROVE  Spec => []EveryUnitAtItsOffset
  <1>1. ASSUME Inv PROVE EveryUnitAtItsOffset
    BY <1>1 DEF Inv, UnitsInv, FilesOK, UnitsOK, EveryUnitAtItsOffset
  <1> QED BY <1>1, Invariance, PTL
=============================================================================
