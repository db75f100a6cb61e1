---------------------------- MODULE ApprovalBroker ----------------------------
(***************************************************************************)
(* approval.py: callers of require_approval create a record and poll it,   *)
(* while people decide it from the dashboard or the command line, lists    *)
(* expire it and the token of an approval is verified.                     *)
(*                                                                         *)
(* A record is one file, replaced as a whole.  Everyone reads the file,    *)
(* looks at the clock, and writes back the record it has read with some    *)
(* fields changed; the lock of approval.py covers the write alone, and     *)
(* only in one process.  Times are ticks of an abstract clock.             *)
(***************************************************************************)
EXTENDS Naturals

CONSTANTS Requests,     \* calls of require_approval, each with a record of its own
          Sensitive,    \* those whose action is sensitive
          Parties,      \* others that read and write the records
          NoToken,
          Modes,        \* approval modes that get set
          Timeout,      \* of a request, and of the wait for it
          TokenLife,
          MaxTime       \* bound on the clock

AllModes == {"auto", "ask", "strict", "deny"}

ASSUME ApprovalAssumption ==
    /\ Requests # {} /\ Sensitive \subseteq Requests
    /\ Modes \subseteq AllModes
    /\ Requests \cap Parties = {} /\ NoToken \notin Parties
    /\ {Timeout, TokenLife, MaxTime} \subseteq Nat

VARIABLES now,
          mode,       \* of the approval policy
          record,     \* the record files
          actor,      \* the callers and the other parties
          result,     \* of each call of require_approval
          told,       \* history: decisions of each request that were confirmed to a person
          uses,       \* history: how often a token of the request was found good
          lost        \* history: requests of which a write overwrote another unread

vars == <<now, mode, record, actor, result, told, uses, lost>>

-----------------------------------------------------------------------------
Actors == Requests \cup Parties
Answers == {"approved", "denied"}

\* token: the party that was given the token whose hash the record holds.
Record == [status : {"absent", "pending", "expired"} \cup Answers, expires : Nat,
           token : Parties \cup {NoToken}, tokenExpires : Nat, used : BOOLEAN]
NoRecord == [status |-> "absent", expires |-> 0, token |-> NoToken, tokenExpires |-> 0,
             used |-> FALSE]

Writes == {"expire", "decide", "use"}
Holding == Writes \cup {"check"}

\* at: the time a method took before, or the end of the wait; copy: the record
\* as read, and stale: the file was written by another since.
Actor == [pc : {"idle", "create", "wait", "read"} \cup Holding,
          task : {"wait", "list", "decide", "verify"}, req : Requests, at : Nat,
          answer : Answers, token : Parties \cup {NoToken}, copy : Record, stale : BOOLEAN]
IdleActor == [pc |-> "idle", task |-> "wait", req |-> CHOOSE r \in Requests : TRUE, at |-> 0,
              answer |-> "denied", token |-> NoToken, copy |-> NoRecord, stale |-> FALSE]

TypeOK ==
    /\ now \in Nat \ {0}
    /\ mode \in AllModes
    /\ record \in [Requests -> Record]
    /\ \A r \in Requests : record[r].status = "approved" <=> record[r].token # NoToken
    /\ actor \in [Actors -> Actor]
    /\ result \in [Requests -> {"none", "allowed", "approved", "refused"}]
    /\ told \in [Requests -> SUBSET [answer : Answers, by : Parties]]
    /\ uses \in [Requests -> Nat]
    /\ lost \subseteq Requests

Init ==
    /\ now = 1
    /\ mode \in Modes
    /\ record = [r \in Requests |-> NoRecord]
    /\ actor = [a \in Actors |-> IdleActor]
    /\ result = [r \in Requests |-> "none"]
    /\ told = [r \in Requests |-> {}]
    /\ uses = [r \in Requests |-> 0]
    /\ lost = {}

-----------------------------------------------------------------------------
Goto(a, pc) == actor' = [actor EXCEPT ![a].pc = pc]
Finish(a) == actor' = [actor EXCEPT ![a] = IdleActor]
Settle(r, outcome) == result' = [result EXCEPT ![r] = outcome] /\ Finish(r)

\* The record of r is replaced, and who holds it as it was is now behind.
Behind(r, actors) ==
    [a \in Actors |-> IF actors[a].req = r /\ actors[a].pc \in Holding
                      THEN [actors[a] EXCEPT !.stale = TRUE] ELSE actors[a]]
Replace(r, content, actors) ==
    /\ record' = [record EXCEPT ![r] = content]
    /\ actor' = Behind(r, actors)

-----------------------------------------------------------------------------
(* require_approval: the policy, the request, and the wait for its answer. *)

Allowed(r) == mode = "auto" \/ (mode = "ask" /\ r \notin Sensitive)

Ask(r) ==
    /\ actor[r].pc = "idle" /\ result[r] = "none"
    /\ \/ /\ Allowed(r)
          /\ Settle(r, "allowed")
       \/ /\ mode = "deny"
          /\ Settle(r, "refused")
       \/ /\ ~Allowed(r) /\ mode # "deny"
          /\ actor' = [actor EXCEPT ![r] = [IdleActor EXCEPT !.pc = "create", !.req = r, !.at = now]]
          /\ UNCHANGED result
    /\ UNCHANGED <<now, mode, record, told, uses, lost>>

Create(r) ==
    /\ actor[r].pc = "create"
    /\ Replace(r, [NoRecord EXCEPT !.status = "pending", !.expires = actor[r].at + Timeout],
               [actor EXCEPT ![r].pc = "wait", ![r].at = now + Timeout])
    /\ UNCHANGED <<now, mode, result, told, uses, lost>>

\* The loop of wait_for_approval looks at the clock and then at the file.
Wait(r) ==
    /\ actor[r].pc = "wait"
    /\ IF now < actor[r].at THEN Goto(r, "read") /\ UNCHANGED result
                            ELSE Settle(r, "refused")
    /\ UNCHANGED <<now, mode, record, told, uses, lost>>

-----------------------------------------------------------------------------
(* What the others begin, and what all have in common.                     *)

\* A list, a decision, or the verification of a token that was handed out.
Tasks(r) ==
    [task : {"list"}, answer : {"denied"}, token : {NoToken}]
    \cup [task : {"decide"}, answer : Answers, token : {NoToken}]
    \cup [task : {"verify"}, answer : {"denied"},
          token : {d.by : d \in {x \in told[r] : x.answer = "approved"}}]

Begin(p, r) ==
    /\ actor[p].pc = "idle"
    /\ record[r].status # "absent"
    /\ \E t \in Tasks(r) :
          actor' = [actor EXCEPT ![p] = [IdleActor EXCEPT !.pc = "read", !.task = t.task, !.req = r,
                                         !.at = now, !.answer = t.answer, !.token = t.token]]
    /\ UNCHANGED <<now, mode, record, result, told, uses, lost>>

Read(a) ==
    /\ actor[a].pc = "read"
    /\ actor' = [actor EXCEPT ![a].pc = "check", ![a].copy = record[actor[a].req],
                              ![a].stale = FALSE]
    /\ UNCHANGED <<now, mode, record, result, told, uses, lost>>

\* A list takes the time once, before it reads.
TimeOf(a) == IF actor[a].task = "list" THEN actor[a].at ELSE now
Overdue(a) == actor[a].copy.status = "pending" /\ actor[a].copy.expires < TimeOf(a)

MarkOverdue(a) ==
    /\ actor[a].pc = "check" /\ Overdue(a)
    /\ Goto(a, "expire")
    /\ UNCHANGED <<now, mode, record, result, told, uses, lost>>

MutNotDenied(status) == status # "denied"
Granted(status) == status = "approved"

\* The waiting caller goes by the record it has read.
CheckAnswer(r) ==
    /\ actor[r].pc = "check" /\ ~Overdue(r)
    /\ LET status == actor[r].copy.status IN
       \/ /\ status = "pending"
          /\ Goto(r, "wait")
          /\ UNCHANGED result
       \/ /\ status # "pending"
          /\ Settle(r, IF Granted(status) THEN "approved" ELSE "refused")
    /\ UNCHANGED <<now, mode, record, told, uses, lost>>

MutNotExpired(rec) == rec.status # "expired"
Undecided(rec) == rec.status = "pending"

Usable(rec, token) ==
    /\ rec.status = "approved" /\ ~rec.used
    /\ rec.tokenExpires >= now /\ rec.token = token

CheckTask(p) ==
    /\ actor[p].pc = "check" /\ ~Overdue(p)
    /\ LET a == actor[p] IN
       IF a.task = "decide" /\ Undecided(a.copy)
       THEN actor' = [actor EXCEPT ![p].pc = "decide", ![p].at = now]
       ELSE IF a.task = "verify" /\ Usable(a.copy, a.token) THEN Goto(p, "use")
       ELSE Finish(p)
    /\ UNCHANGED <<now, mode, record, result, told, uses, lost>>

-----------------------------------------------------------------------------
(* The writes.                                                             *)

Overwrites(a) == lost' = lost \cup (IF actor[a].stale THEN {actor[a].req} ELSE {})

\* _mark_expired_if_needed; a caller that finds its request expired is refused.
Expire(a) ==
    /\ actor[a].pc = "expire"
    /\ Replace(actor[a].req, [actor[a].copy EXCEPT !.status = "expired"],
               [actor EXCEPT ![a] = IdleActor])
    /\ result' = IF a \in Requests THEN [result EXCEPT ![a] = "refused"] ELSE result
    /\ Overwrites(a)
    /\ UNCHANGED <<now, mode, told, uses>>

MutTokenForAll(p) ==
    [actor[p].copy EXCEPT !.status = actor[p].answer, !.token = p,
                          !.tokenExpires = actor[p].at + TokenLife]
WithAnswer(p) ==
    IF actor[p].answer = "approved"
    THEN [actor[p].copy EXCEPT !.status = "approved", !.token = p,
                               !.tokenExpires = actor[p].at + TokenLife]
    ELSE [actor[p].copy EXCEPT !.status = "denied"]

Decide(p) ==
    /\ actor[p].pc = "decide"
    /\ Replace(actor[p].req, WithAnswer(p), [actor EXCEPT ![p] = IdleActor])
    /\ told' = [told EXCEPT ![actor[p].req] = @ \cup {[answer |-> actor[p].answer, by |-> p]}]
    /\ Overwrites(p)
    /\ UNCHANGED <<now, mode, result, uses>>

UseToken(p) ==
    /\ actor[p].pc = "use"
    /\ Replace(actor[p].req, [actor[p].copy EXCEPT !.used = TRUE], [actor EXCEPT ![p] = IdleActor])
    /\ uses' = [uses EXCEPT ![actor[p].req] = @ + 1]
    /\ Overwrites(p)
    /\ UNCHANGED <<now, mode, result, told>>

-----------------------------------------------------------------------------
Tick ==
    /\ now < MaxTime
    /\ now' = now + 1
    /\ UNCHANGED <<mode, record, actor, result, told, uses, lost>>

\* save_approval_policy, in any process.
SetMode ==
    /\ mode' \in Modes \ {mode}
    /\ UNCHANGED <<now, record, actor, result, told, uses, lost>>

Call(r) == Ask(r) \/ Create(r) \/ Wait(r) \/ CheckAnswer(r)
Act(p) == CheckTask(p) \/ Decide(p) \/ UseToken(p) \/ \E r \in Requests : Begin(p, r)

Next ==
    \/ \E r \in Requests : Call(r)
    \/ \E p \in Parties : Act(p)
    \/ \E a \in Actors : Read(a) \/ MarkOverdue(a) \/ Expire(a)
    \/ Tick \/ SetMode

Spec == Init /\ [][Next]_vars

-----------------------------------------------------------------------------
(* Properties                                                              *)

\* A decision that was confirmed to a person is what the record says from then
\* on: nobody decides it again, and no expiry takes it back, unless a write was
\* lost (the check for pending of decide_approval and _mark_expired_if_needed).
DecisionStands ==
    \A r \in Requests \ lost : \A d \in told[r] :
        /\ record[r].status = d.answer
        /\ d.answer = "approved" => record[r].token = d.by

\* A caller goes on only when somebody was told that the request is approved,
\* and, unless a write was lost, nobody was told that it is denied.
ActsOnApproval ==
    \A r \in Requests : result[r] = "approved" =>
        /\ \E d \in told[r] : d.answer = "approved"
        /\ r \notin lost => \A d \in told[r] : d.answer # "denied"

\* The token of an approval is found good at most once, unless a write was lost
\* (approvalTokenUsedAt in verify_approval_token).
TokenUsedOnce == \A r \in Requests \ lost : uses[r] <= 1
=============================================================================
