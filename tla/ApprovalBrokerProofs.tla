------------------------- MODULE ApprovalBrokerProofs -------------------------
(***************************************************************************)
(* Proofs about ApprovalBroker, for any requests, parties, modes and times: *)
(* while no write is lost, a confirmed decision stands, a caller goes on   *)
(* only when it was approved, and a token is good once.                    *)
(***************************************************************************)
EXTENDS ApprovalBroker, TLAPS

-----------------------------------------------------------------------------
(* The state: what each actor may be about, and what its copy may be when  *)
(* it is about to write it back.                                           *)

RecordOK(rec) ==
    rec \in Record /\ (rec.status = "approved" <=> rec.token # NoToken)

ActorOK(a, x) ==
    /\ x \in Actor /\ RecordOK(x.copy)
    /\ x.pc \in {"expire", "decide"} => x.copy.status = "pending"
    /\ x.pc = "use" => x.copy.status = "approved" /\ ~x.copy.used
    /\ a \in Requests => (x.pc # "idle" => x.req = a) /\ x.pc \notin {"decide", "use"}
    /\ a \in Parties => x.pc \notin {"create", "wait"}

StateInv ==
    /\ now \in Nat \ {0} /\ mode \in AllModes
    /\ record \in [Requests -> Record] /\ \A r \in Requests : RecordOK(record[r])
    /\ actor \in [Actors -> Actor] /\ \A a \in Actors : ActorOK(a, actor[a])
    /\ result \in [Requests -> {"none", "allowed", "approved", "refused"}]
    /\ told \in [Requests -> SUBSET [answer : Answers, by : Parties]]
    /\ uses \in [Requests -> Nat]
    /\ lost \subseteq Requests

LEMMA StateGivesType == StateInv => TypeOK
  BY DEF StateInv, TypeOK, RecordOK

LEMMA IdleOK ==
    /\ RecordOK(NoRecord) /\ NoRecord.status = "absent" /\ ~NoRecord.used
    /\ IdleActor \in Actor /\ IdleActor.pc = "idle" /\ IdleActor.copy = NoRecord
    /\ \A a \in Actors : ActorOK(a, IdleActor)
  <1>1. (CHOOSE r \in Requests : TRUE) \in Requests
    BY ApprovalAssumption
  <1>2. RecordOK(NoRecord) /\ NoRecord.status = "absent" /\ ~NoRecord.used
    BY DEF RecordOK, NoRecord, Record
  <1>3. IdleActor \in Actor /\ IdleActor.pc = "idle" /\ IdleActor.copy = NoRecord
    BY <1>1, <1>2 DEF IdleActor, Actor, Answers, RecordOK
  <1> QED
    BY <1>2, <1>3 DEF ActorOK, Actors

\* Only a has changed, to x.
Moves(a, x) ==
    /\ ActorOK(a, x)
    /\ actor' = [actor EXCEPT ![a] = x]

LEMMA MovesFacts ==
    ASSUME StateInv, NEW a \in Actors, NEW x, Moves(a, x)
    PROVE  /\ actor' \in [Actors -> Actor]
           /\ \A b \in Actors : ActorOK(b, actor'[b])
           /\ actor'[a] = x /\ \A b \in Actors \ {a} : actor'[b] = actor[b]
  BY DEF StateInv, Moves, ActorOK

\* The record of r is replaced by an actor a, which goes on as x.
WritesAs(a, x, r, content) ==
    /\ ActorOK(a, x) /\ RecordOK(content)
    /\ Replace(r, content, [actor EXCEPT ![a] = x])

\* What is left of an actor when the record it holds is replaced.
LEMMA BehindFacts ==
    ASSUME NEW r \in Requests, NEW actors \in [Actors -> Actor],
           \A b \in Actors : ActorOK(b, actors[b])
    PROVE  /\ Behind(r, actors) \in [Actors -> Actor]
           /\ \A b \in Actors : LET y == Behind(r, actors)[b] IN
                /\ ActorOK(b, y)
                /\ y.pc = actors[b].pc /\ y.req = actors[b].req /\ y.copy = actors[b].copy
                /\ actors[b].req = r /\ actors[b].pc \in Holding => y.stale
                /\ ~(actors[b].req = r /\ actors[b].pc \in Holding) => y = actors[b]
  <1> DEFINE Y(b) == IF actors[b].req = r /\ actors[b].pc \in Holding
                     THEN [actors[b] EXCEPT !.stale = TRUE] ELSE actors[b]
  <1>1. ASSUME NEW b \in Actors
        PROVE  /\ Y(b) \in Actor
               /\ ActorOK(b, Y(b))
               /\ Y(b).pc = actors[b].pc /\ Y(b).req = actors[b].req /\ Y(b).copy = actors[b].copy
               /\ actors[b].req = r /\ actors[b].pc \in Holding => Y(b).stale
               /\ ~(actors[b].req = r /\ actors[b].pc \in Holding) => Y(b) = actors[b]
    <2>1. actors[b] \in Actor /\ ActorOK(b, actors[b])
      OBVIOUS
    <2> QED
      BY <2>1 DEF Actor, ActorOK
  <1>2. Behind(r, actors) = [b \in Actors |-> Y(b)]
    BY DEF Behind
  <1> HIDE DEF Y
  <1> QED
    BY <1>1, <1>2
-----------------------------------------------------------------------------
(* The decisions: a copy that is not stale is the record, and the record   *)
(* of a request without a lost write agrees with what people were told.    *)

Told(r, answer, tds) == \E d \in tds[r] : d.answer = answer

HolderOK(x, rec, tds) ==
    x.pc \in Holding => /\ ~x.stale => x.copy = rec[x.req]
                        /\ x.copy.status = "approved" => Told(x.req, "approved", tds)

PresentOK(a, x, rec) == a \in Parties /\ x.pc # "idle" => rec[x.req].status # "absent"

NotAskedYet(r) == result[r] = "none" /\ actor[r].pc \in {"idle", "create"}

RequestOK(r) ==
    /\ actor[r].pc = "create" => result[r] = "none"
    /\ NotAskedYet(r) => record[r].status = "absent" /\ ~record[r].used
    /\ record[r].status = "approved" => Told(r, "approved", told)
    /\ result[r] = "approved" => Told(r, "approved", told)
    /\ r \notin lost =>
          /\ record[r].status \notin Answers => told[r] = {}
          /\ \A d \in told[r] : /\ record[r].status = d.answer
                                /\ d.answer = "approved" => record[r].token = d.by
          /\ uses[r] <= 1 /\ (~record[r].used => uses[r] = 0)

DecisionInv ==
    /\ \A a \in Actors : HolderOK(actor[a], record, told) /\ PresentOK(a, actor[a], record)
    /\ \A r \in Requests : RequestOK(r)

\* An actor goes on without touching any file.
LEMMA Quiet ==
    ASSUME StateInv, DecisionInv, NEW a \in Actors, NEW x, Moves(a, x),
           UNCHANGED <<now, mode, record, told, uses, lost>>,
           HolderOK(x, record, told), PresentOK(a, x, record),
           result' \in [Requests -> {"none", "allowed", "approved", "refused"}],
           \A r \in Requests \ {a} : result'[r] = result[r],
           a \in Requests => /\ x.pc = "create" => result'[a] = "none"
                             /\ result'[a] = "none" /\ x.pc \in {"idle", "create"} => NotAskedYet(a)
                             /\ result'[a] = "approved" => Told(a, "approved", told)
    PROVE  StateInv' /\ DecisionInv'
  <1>1. StateInv'
    BY MovesFacts DEF StateInv
  <1>2. \A b \in Actors : HolderOK(actor'[b], record', told') /\ PresentOK(b, actor'[b], record')
    BY MovesFacts DEF DecisionInv
  <1>3. \A r \in Requests : RequestOK(r)'
    <2> SUFFICES ASSUME NEW r \in Requests PROVE RequestOK(r)'
      OBVIOUS
    <2>1. r \in Actors /\ RequestOK(r)
      BY DEF Actors, DecisionInv
    <2>2. CASE r = a
      BY <2>1, <2>2, MovesFacts DEF RequestOK, NotAskedYet, Told
    <2>3. CASE r # a
      BY <2>1, <2>3, MovesFacts DEF RequestOK, NotAskedYet, Told
    <2> QED BY <2>2, <2>3
  <1> QED
    BY <1>1, <1>2, <1>3 DEF DecisionInv

\* An actor replaces the record of r and holds nothing any more.
LEMMA Written ==
    ASSUME StateInv, DecisionInv, NEW a \in Actors, NEW x, NEW r \in Requests, NEW content,
           WritesAs(a, x, r, content), x.pc \notin Holding, content.status # "absent",
           UNCHANGED <<now, mode>>, PresentOK(a, x, record),
           a \in Requests => r = a /\ x.pc # "create",
           told' \in [Requests -> SUBSET [answer : Answers, by : Parties]],
           uses' \in [Requests -> Nat], lost' \subseteq Requests,
           result' \in [Requests -> {"none", "allowed", "approved", "refused"}],
           told[r] \subseteq told'[r], lost \subseteq lost',
           \A q \in Requests \ {r} : /\ told'[q] = told[q] /\ uses'[q] = uses[q]
                                     /\ result'[q] = result[q],
           /\ content.status = "approved" \/ result'[r] = "approved" => Told(r, "approved", told')
           /\ ~(result'[r] = "none" /\ actor'[r].pc \in {"idle", "create"})
           /\ actor'[r].pc # "create"
           /\ r \notin lost' =>
                 /\ content.status \notin Answers => told'[r] = {}
                 /\ \A d \in told'[r] : /\ content.status = d.answer
                                        /\ d.answer = "approved" => content.token = d.by
                 /\ uses'[r] <= 1 /\ (~content.used => uses'[r] = 0)
    PROVE  StateInv' /\ DecisionInv'
  <1> DEFINE actors == [actor EXCEPT ![a] = x]
  <1>1. /\ actors \in [Actors -> Actor] /\ actors[a] = x
        /\ \A b \in Actors \ {a} : actors[b] = actor[b]
        /\ \A b \in Actors : ActorOK(b, actors[b])
    BY DEF StateInv, WritesAs, ActorOK
  <1>2. /\ actor' = Behind(r, actors)
        /\ record' = [record EXCEPT ![r] = content]
    BY DEF WritesAs, Replace
  <1> HIDE DEF actors
  <1>3. /\ actor' \in [Actors -> Actor]
        /\ \A b \in Actors :
              /\ ActorOK(b, actor'[b])
              /\ actor'[b].pc = actors[b].pc /\ actor'[b].req = actors[b].req
              /\ actor'[b].copy = actors[b].copy
              /\ actors[b].req = r /\ actors[b].pc \in Holding => actor'[b].stale
              /\ ~(actors[b].req = r /\ actors[b].pc \in Holding) => actor'[b] = actors[b]
    BY <1>1, <1>2, BehindFacts
  <1>4. /\ record' \in [Requests -> Record] /\ record'[r] = content
        /\ \A q \in Requests \ {r} : record'[q] = record[q]
        /\ \A q \in Requests : RecordOK(record'[q])
    BY <1>2 DEF StateInv, WritesAs, RecordOK
  <1>5. StateInv'
    BY <1>3, <1>4 DEF StateInv
  <1>6. ASSUME NEW b \in Actors
        PROVE  HolderOK(actor'[b], record', told') /\ PresentOK(b, actor'[b], record')
    <2>1. actors[b].req \in Requests
      BY <1>1 DEF Actor
    <2>2. HolderOK(actors[b], record, told) /\ PresentOK(b, actors[b], record)
      BY <1>1 DEF DecisionInv, HolderOK
    <2>3. PresentOK(b, actor'[b], record')
      BY <1>3, <1>4, <2>1, <2>2 DEF PresentOK
    <2>4. Told(actors[b].req, "approved", told) => Told(actors[b].req, "approved", told')
      BY <2>1 DEF Told
    <2>5. HolderOK(actor'[b], record', told')
      BY <1>3, <1>4, <2>1, <2>2, <2>4 DEF HolderOK
    <2> QED BY <2>3, <2>5
  <1>7. ASSUME NEW q \in Requests
        PROVE  RequestOK(q)'
    <2>1. q \in Actors /\ RequestOK(q)
      BY DEF Actors, DecisionInv
    <2>2. CASE q = r
      BY <1>4, <2>2 DEF RequestOK, NotAskedYet, Told
    <2>3. CASE q # r
      <3>1. actor'[q].pc = actor[q].pc
        BY <1>1, <1>3, <2>1, <2>3
      <3> QED BY <1>4, <2>1, <2>3, <3>1 DEF RequestOK, NotAskedYet, Told
    <2> QED BY <2>2, <2>3
  <1> QED
    BY <1>5, <1>6, <1>7 DEF DecisionInv

-----------------------------------------------------------------------------
(* The steps.                                                              *)

LEMMA AskKeeps ==
    ASSUME StateInv, DecisionInv, NEW r \in Requests, Ask(r)
    PROVE  StateInv' /\ DecisionInv'
  <1>1. r \in Actors /\ r \notin Parties
    BY ApprovalAssumption DEF Actors
  <1>2. NotAskedYet(r)
    BY DEF Ask, NotAskedYet
  <1>3. CASE \E outcome \in {"allowed", "refused"} : Settle(r, outcome)
    <2>1. Moves(r, IdleActor) /\ UNCHANGED <<now, mode, record, told, uses, lost>>
      BY <1>1, <1>3, IdleOK DEF Ask, Settle, Finish, Moves
    <2>2. HolderOK(IdleActor, record, told) /\ PresentOK(r, IdleActor, record)
      BY IdleOK DEF HolderOK, PresentOK, Holding, Writes
    <2> QED
      BY <1>1, <1>3, <2>1, <2>2, IdleOK, Quiet DEF Settle, StateInv
  <1>4. CASE /\ actor' = [actor EXCEPT ![r] = [IdleActor EXCEPT !.pc = "create", !.req = r, !.at = now]]
             /\ UNCHANGED result
    <2> DEFINE x == [IdleActor EXCEPT !.pc = "create", !.req = r, !.at = now]
    <2>1. ActorOK(r, x) /\ x.pc = "create"
      BY <1>1, IdleOK DEF ActorOK, Actor, StateInv
    <2>2. Moves(r, x) /\ UNCHANGED <<now, mode, record, told, uses, lost>>
      BY <1>4, <2>1 DEF Ask, Moves
    <2> HIDE DEF x
    <2>3. HolderOK(x, record, told) /\ PresentOK(r, x, record)
      BY <1>1, <2>1 DEF HolderOK, PresentOK, Holding, Writes
    <2> QED
      BY <1>1, <1>2, <1>4, <2>1, <2>2, <2>3, Quiet DEF StateInv, NotAskedYet
  <1> QED
    BY <1>3, <1>4 DEF Ask

\* Where the actors are after such a write.
LEMMA WritesFacts ==
    ASSUME StateInv, NEW a \in Actors, NEW x, NEW r \in Requests, NEW content,
           WritesAs(a, x, r, content)
    PROVE  actor'[a].pc = x.pc /\ \A b \in Actors \ {a} : actor'[b].pc = actor[b].pc
  <1> DEFINE actors == [actor EXCEPT ![a] = x]
  <1>1. /\ actors \in [Actors -> Actor] /\ actors[a] = x
        /\ \A b \in Actors \ {a} : actors[b] = actor[b]
        /\ \A b \in Actors : ActorOK(b, actors[b])
    BY DEF StateInv, WritesAs, ActorOK
  <1>2. actor' = Behind(r, actors)
    BY DEF WritesAs, Replace
  <1> HIDE DEF actors
  <1> QED
    BY <1>1, <1>2, BehindFacts

LEMMA CreateKeeps ==
    ASSUME StateInv, DecisionInv, NEW r \in Requests, Create(r)
    PROVE  StateInv' /\ DecisionInv'
  <1> DEFINE x == [actor[r] EXCEPT !.pc = "wait", !.at = now + Timeout]
             content == [NoRecord EXCEPT !.status = "pending", !.expires = actor[r].at + Timeout]
  <1>1. r \in Actors /\ r \notin Parties /\ RequestOK(r) /\ actor[r] \in Actor /\ ActorOK(r, actor[r])
    BY ApprovalAssumption DEF Actors, DecisionInv, StateInv
  <1>2. /\ actor[r].pc = "create" /\ record[r].status = "absent" /\ ~record[r].used
        /\ result[r] = "none" /\ UNCHANGED <<now, mode, result, told, uses, lost>>
    BY <1>1 DEF Create, RequestOK, NotAskedYet
  <1>3. now + Timeout \in Nat /\ actor[r].at + Timeout \in Nat
    BY <1>1, ApprovalAssumption DEF StateInv, Actor
  <1>4. x \in Actor /\ x.pc = "wait" /\ x.copy = actor[r].copy /\ x.req = actor[r].req
    BY <1>1, <1>3 DEF Actor
  <1>5. content \in Record /\ content.status = "pending" /\ content.token = NoToken
    BY <1>3 DEF NoRecord, Record
  <1>6. [actor EXCEPT ![r].pc = "wait", ![r].at = now + Timeout] = [actor EXCEPT ![r] = x]
    BY <1>1 DEF StateInv, Actor
  <1> HIDE DEF x
  <1>7. ActorOK(r, x)
    BY <1>1, <1>2, <1>4 DEF ActorOK
  <1>8. Replace(r, content, [actor EXCEPT ![r] = x])
    BY <1>6 DEF Create
  <1> HIDE DEF content
  <1>9. WritesAs(r, x, r, content)
    BY <1>5, <1>7, <1>8 DEF WritesAs, RecordOK
  <1>10. actor'[r].pc = "wait"
    BY <1>1, <1>4, <1>9, WritesFacts
  <1>11. r \notin lost => told[r] = {} /\ uses[r] = 0
    BY <1>1, <1>2 DEF RequestOK, Answers
  <1>12. /\ x.pc \notin Holding /\ content.status # "absent" /\ content.status # "approved"
         /\ PresentOK(r, x, record)
    BY <1>1, <1>4, <1>5 DEF Holding, Writes, PresentOK
  <1>13. /\ told' \in [Requests -> SUBSET [answer : Answers, by : Parties]]
         /\ uses' \in [Requests -> Nat] /\ lost' \subseteq Requests
         /\ result' \in [Requests -> {"none", "allowed", "approved", "refused"}]
         /\ UNCHANGED <<told, uses, lost, result>>
    BY <1>2 DEF StateInv
  <1> QED
    BY <1>1, <1>2, <1>4, <1>9, <1>10, <1>11, <1>12, <1>13, Written

LEMMA WaitKeeps ==
    ASSUME StateInv, DecisionInv, NEW r \in Requests, Wait(r)
    PROVE  StateInv' /\ DecisionInv'
  <1>1. r \in Actors /\ r \notin Parties /\ actor[r] \in Actor /\ ActorOK(r, actor[r])
    BY ApprovalAssumption DEF Actors, StateInv
  <1>2. CASE Goto(r, "read") /\ UNCHANGED result
    <2> DEFINE x == [actor[r] EXCEPT !.pc = "read"]
    <2>1. x \in Actor /\ x.pc = "read" /\ x.copy = actor[r].copy /\ x.req = actor[r].req
      BY <1>1 DEF Actor
    <2>2. actor' = [actor EXCEPT ![r] = x]
      BY <1>1, <1>2 DEF Goto, StateInv
    <2> HIDE DEF x
    <2>3. Moves(r, x)
      BY <1>1, <2>1, <2>2 DEF Moves, ActorOK, Wait
    <2>4. HolderOK(x, record, told) /\ PresentOK(r, x, record)
      BY <1>1, <2>1 DEF HolderOK, PresentOK, Holding, Writes
    <2>5. /\ UNCHANGED <<now, mode, record, told, uses, lost, result>>
          /\ result' \in [Requests -> {"none", "allowed", "approved", "refused"}]
      BY <1>2 DEF Wait, StateInv
    <2>6. RequestOK(r)
      BY DEF DecisionInv
    <2> QED
      BY <1>1, <2>1, <2>3, <2>4, <2>5, <2>6, Quiet DEF RequestOK
  <1>3. CASE Settle(r, "refused")
    <2>1. Moves(r, IdleActor) /\ UNCHANGED <<now, mode, record, told, uses, lost>>
      BY <1>1, <1>3, IdleOK DEF Wait, Settle, Finish, Moves
    <2>2. HolderOK(IdleActor, record, told) /\ PresentOK(r, IdleActor, record)
      BY IdleOK DEF HolderOK, PresentOK, Holding, Writes
    <2> QED
      BY <1>1, <1>3, <2>1, <2>2, IdleOK, Quiet DEF Settle, StateInv
  <1> QED
    BY <1>2, <1>3 DEF Wait

LEMMA BeginKeeps ==
    ASSUME StateInv, DecisionInv, NEW p \in Parties, NEW r \in Requests, Begin(p, r)
    PROVE  StateInv' /\ DecisionInv'
  <1>1. p \in Actors /\ p \notin Requests
    BY ApprovalAssumption DEF Actors
  <1>2. PICK t \in Tasks(r) :
          actor' = [actor EXCEPT ![p] = [IdleActor EXCEPT !.pc = "read", !.task = t.task, !.req = r,
                                         !.at = now, !.answer = t.answer, !.token = t.token]]
    BY DEF Begin
  <1> DEFINE x == [IdleActor EXCEPT !.pc = "read", !.task = t.task, !.req = r,
                                    !.at = now, !.answer = t.answer, !.token = t.token]
  <1>3. /\ t.task \in {"list", "decide", "verify"} /\ t.answer \in Answers
        /\ t.token \in Parties \cup {NoToken}
    <2>1. \A d \in told[r] : d.by \in Parties
      BY DEF StateInv
    <2> QED BY <2>1 DEF Tasks, Answers
  <1>4. x \in Actor /\ x.pc = "read" /\ x.req = r /\ x.copy = NoRecord
    BY <1>3, IdleOK DEF Actor, StateInv
  <1>5. actor' = [actor EXCEPT ![p] = x]
    BY <1>2
  <1> HIDE DEF x
  <1>6. Moves(p, x)
    BY <1>1, <1>4, <1>5, IdleOK DEF Moves, ActorOK
  <1>7. HolderOK(x, record, told) /\ PresentOK(p, x, record)
    BY <1>4 DEF HolderOK, PresentOK, Holding, Writes, Begin
  <1>8. /\ UNCHANGED <<now, mode, record, told, uses, lost, result>>
        /\ result' \in [Requests -> {"none", "allowed", "approved", "refused"}]
    BY DEF Begin, StateInv
  <1> QED
    BY <1>1, <1>6, <1>7, <1>8, Quiet

\* What is known of an actor that has begun.
LEMMA BusyFacts ==
    ASSUME StateInv, DecisionInv, NEW a \in Actors, actor[a].pc # "idle"
    PROVE  /\ actor[a] \in Actor /\ ActorOK(a, actor[a]) /\ actor[a].req \in Requests
           /\ HolderOK(actor[a], record, told) /\ PresentOK(a, actor[a], record)
           /\ RequestOK(actor[a].req) /\ RecordOK(record[actor[a].req])
           /\ a \in Requests => a \notin Parties /\ actor[a].req = a
  BY ApprovalAssumption DEF StateInv, DecisionInv, Actor, ActorOK

LEMMA ReadKeeps ==
    ASSUME StateInv, DecisionInv, NEW a \in Actors, Read(a)
    PROVE  StateInv' /\ DecisionInv'
  <1> DEFINE r == actor[a].req
             x == [actor[a] EXCEPT !.pc = "check", !.copy = record[r], !.stale = FALSE]
  <1>1. /\ actor[a].pc = "read" /\ UNCHANGED <<now, mode, record, told, uses, lost, result>>
        /\ result' \in [Requests -> {"none", "allowed", "approved", "refused"}]
    BY DEF Read, StateInv
  <1>2. /\ actor[a] \in Actor /\ ActorOK(a, actor[a]) /\ r \in Requests
        /\ PresentOK(a, actor[a], record) /\ RequestOK(r) /\ RecordOK(record[r])
    BY <1>1, BusyFacts
  <1>3. x \in Actor /\ x.pc = "check" /\ x.copy = record[r] /\ x.req = r
    BY <1>2 DEF Actor, RecordOK, Holding
  <1>4. actor' = [actor EXCEPT ![a] = x]
    BY <1>2 DEF Read, StateInv, Actor
  <1> HIDE DEF x
  <1>5. Moves(a, x)
    BY <1>1, <1>2, <1>3, <1>4 DEF Moves, ActorOK
  <1>6. HolderOK(x, record, told) /\ PresentOK(a, x, record)
    BY <1>1, <1>2, <1>3 DEF HolderOK, PresentOK, RequestOK
  <1>7. ASSUME a \in Requests
        PROVE  result'[a] = "approved" => Told(a, "approved", told)
    BY <1>1, <1>7 DEF DecisionInv, RequestOK
  <1> QED
    BY <1>1, <1>3, <1>5, <1>6, <1>7, Quiet

\* An actor that holds a record goes on to another step with it.
LEMMA GotoKeeps ==
    ASSUME StateInv, DecisionInv, NEW a \in Actors, NEW x,
           actor[a].pc = "check", x \in Actor, x.req = actor[a].req, x.copy = actor[a].copy,
           x.stale = actor[a].stale, x.pc \in Holding \cup {"wait"},
           a \in Requests => x.pc \in {"wait", "expire"},
           a \in Parties => x.pc # "wait",
           x.pc \in {"expire", "decide"} => x.copy.status = "pending",
           x.pc = "use" => x.copy.status = "approved" /\ ~x.copy.used,
           actor' = [actor EXCEPT ![a] = x],
           UNCHANGED <<now, mode, record, told, uses, lost, result>>
    PROVE  StateInv' /\ DecisionInv'
  <1>1. /\ ActorOK(a, actor[a]) /\ HolderOK(actor[a], record, told)
        /\ PresentOK(a, actor[a], record)
    BY BusyFacts
  <1>2. Moves(a, x)
    BY <1>1 DEF Moves, ActorOK, Holding, Writes
  <1>3. HolderOK(x, record, told) /\ PresentOK(a, x, record)
    BY <1>1 DEF HolderOK, PresentOK, Holding
  <1>4. result' \in [Requests -> {"none", "allowed", "approved", "refused"}]
    BY DEF StateInv
  <1>5. a \in Requests => (result'[a] = "approved" => Told(a, "approved", told))
    BY DEF DecisionInv, RequestOK
  <1>6. x.pc \notin {"idle", "create"}
    BY DEF Holding, Writes
  <1> QED
    BY <1>2, <1>3, <1>4, <1>5, <1>6, Quiet

LEMMA MarkOverdueKeeps ==
    ASSUME StateInv, DecisionInv, NEW a \in Actors, MarkOverdue(a)
    PROVE  StateInv' /\ DecisionInv'
  <1> DEFINE x == [actor[a] EXCEPT !.pc = "expire"]
  <1>1. /\ actor[a].pc = "check" /\ actor[a].copy.status = "pending"
        /\ UNCHANGED <<now, mode, record, told, uses, lost, result>>
    BY DEF MarkOverdue, Overdue
  <1>2. actor[a] \in Actor
    BY DEF StateInv
  <1>3. /\ x \in Actor /\ x.pc = "expire" /\ x.copy = actor[a].copy /\ x.req = actor[a].req
        /\ x.stale = actor[a].stale
    BY <1>2 DEF Actor, Holding, Writes
  <1>4. actor' = [actor EXCEPT ![a] = x]
    BY <1>2 DEF MarkOverdue, Goto, StateInv
  <1> HIDE DEF x
  <1> QED
    BY <1>1, <1>3, <1>4, GotoKeeps DEF Holding, Writes

LEMMA CheckAnswerKeeps ==
    ASSUME StateInv, DecisionInv, NEW r \in Requests, CheckAnswer(r)
    PROVE  StateInv' /\ DecisionInv'
  <1>1. r \in Actors /\ r \notin Parties /\ actor[r].pc = "check"
    BY ApprovalAssumption DEF Actors, CheckAnswer
  <1>2. /\ actor[r] \in Actor /\ actor[r].req = r
        /\ actor[r].copy.status = "approved" => Told(r, "approved", told)
    BY <1>1, BusyFacts DEF HolderOK, Holding
  <1>3. CASE Goto(r, "wait") /\ UNCHANGED result
    <2> DEFINE x == [actor[r] EXCEPT !.pc = "wait"]
    <2>1. /\ x \in Actor /\ x.pc = "wait" /\ x.copy = actor[r].copy /\ x.req = actor[r].req
          /\ x.stale = actor[r].stale
      BY <1>2 DEF Actor
    <2>2. actor' = [actor EXCEPT ![r] = x] /\ UNCHANGED <<now, mode, record, told, uses, lost, result>>
      BY <1>1, <1>2, <1>3 DEF CheckAnswer, Goto, StateInv
    <2> HIDE DEF x
    <2> QED
      BY <1>1, <2>1, <2>2, GotoKeeps
  <1>4. CASE Settle(r, IF Granted(actor[r].copy.status) THEN "approved" ELSE "refused")
    <2>1. Moves(r, IdleActor) /\ UNCHANGED <<now, mode, record, told, uses, lost>>
      BY <1>1, <1>4, IdleOK DEF CheckAnswer, Settle, Finish, Moves
    <2>2. HolderOK(IdleActor, record, told) /\ PresentOK(r, IdleActor, record)
      BY IdleOK DEF HolderOK, PresentOK, Holding, Writes
    <2>3. PICK outcome \in {"approved", "refused"} :
             /\ result' = [result EXCEPT ![r] = outcome]
             /\ outcome = "approved" => Told(r, "approved", told)
      BY <1>2, <1>4 DEF Settle, Granted
    <2> QED
      BY <1>1, <2>1, <2>2, <2>3, IdleOK, Quiet DEF StateInv
  <1> QED
    BY <1>3, <1>4 DEF CheckAnswer

LEMMA CheckTaskKeeps ==
    ASSUME StateInv, DecisionInv, NEW p \in Parties, CheckTask(p)
    PROVE  StateInv' /\ DecisionInv'
  <1>1. /\ p \in Actors /\ p \notin Requests /\ actor[p].pc = "check" /\ actor[p] \in Actor
        /\ UNCHANGED <<now, mode, record, told, uses, lost, result>>
        /\ result' \in [Requests -> {"none", "allowed", "approved", "refused"}]
    BY ApprovalAssumption DEF Actors, CheckTask, StateInv
  <1>2. CASE /\ Undecided(actor[p].copy)
             /\ actor' = [actor EXCEPT ![p].pc = "decide", ![p].at = now]
    <2> DEFINE x == [actor[p] EXCEPT !.pc = "decide", !.at = now]
    <2>1. /\ x \in Actor /\ x.pc = "decide" /\ x.copy = actor[p].copy /\ x.req = actor[p].req
          /\ x.stale = actor[p].stale
      BY <1>1 DEF Actor, Holding, Writes, StateInv
    <2>2. actor' = [actor EXCEPT ![p] = x]
      BY <1>1, <1>2 DEF StateInv, Actor
    <2> HIDE DEF x
    <2>3. x.pc \in Holding /\ x.copy.status = "pending"
      BY <1>2, <2>1 DEF Holding, Writes, Undecided
    <2> QED
      BY <1>1, <2>1, <2>2, <2>3, GotoKeeps
  <1>3. CASE Usable(actor[p].copy, actor[p].token) /\ Goto(p, "use")
    <2> DEFINE x == [actor[p] EXCEPT !.pc = "use"]
    <2>1. /\ x \in Actor /\ x.pc = "use" /\ x.copy = actor[p].copy /\ x.req = actor[p].req
          /\ x.stale = actor[p].stale
      BY <1>1 DEF Actor, Holding, Writes
    <2>2. actor' = [actor EXCEPT ![p] = x]
      BY <1>1, <1>3 DEF StateInv, Goto
    <2> HIDE DEF x
    <2> QED
      BY <1>1, <1>3, <2>1, <2>2, GotoKeeps DEF Holding, Writes, Usable
  <1>4. CASE Finish(p)
    <2>1. Moves(p, IdleActor)
      BY <1>1, <1>4, IdleOK DEF Finish, Moves
    <2>2. HolderOK(IdleActor, record, told) /\ PresentOK(p, IdleActor, record)
      BY IdleOK DEF HolderOK, PresentOK, Holding, Writes
    <2> QED
      BY <1>1, <2>1, <2>2, Quiet
  <1> QED
    BY <1>2, <1>3, <1>4 DEF CheckTask

\* An actor writes back the record that it holds, and is done.
LEMMA HandsBack ==
    ASSUME StateInv, DecisionInv, NEW a \in Actors, NEW content,
           actor[a].pc \in Writes, RecordOK(content), content.status # "absent",
           Replace(actor[a].req, content, [actor EXCEPT ![a] = IdleActor]), Overwrites(a),
           UNCHANGED <<now, mode>>,
           told' \in [Requests -> SUBSET [answer : Answers, by : Parties]],
           uses' \in [Requests -> Nat],
           result' = IF a \in Requests THEN [result EXCEPT ![a] = "refused"] ELSE result,
           told[actor[a].req] \subseteq told'[actor[a].req],
           \A q \in Requests \ {actor[a].req} : told'[q] = told[q] /\ uses'[q] = uses[q],
           content.status = "approved" => Told(actor[a].req, "approved", told'),
           actor[a].req \notin lost /\ actor[a].copy = record[actor[a].req] =>
              /\ content.status \notin Answers => told'[actor[a].req] = {}
              /\ \A d \in told'[actor[a].req] :
                    /\ content.status = d.answer
                    /\ d.answer = "approved" => content.token = d.by
              /\ uses'[actor[a].req] <= 1 /\ (~content.used => uses'[actor[a].req] = 0)
    PROVE  StateInv' /\ DecisionInv'
  <1> DEFINE r == actor[a].req
  <1>1. actor[a].pc # "idle" /\ actor[a].pc \in Holding
    BY DEF Writes, Holding
  <1>2. /\ r \in Requests /\ RequestOK(r) /\ ActorOK(a, actor[a])
        /\ HolderOK(actor[a], record, told) /\ PresentOK(a, actor[a], record)
        /\ a \in Requests => a \notin Parties /\ r = a
    BY <1>1, BusyFacts
  <1>3. WritesAs(a, IdleActor, r, content)
    BY IdleOK DEF WritesAs
  <1>4. actor'[a].pc = "idle" /\ \A b \in Actors \ {a} : actor'[b].pc = actor[b].pc
    BY <1>2, <1>3, IdleOK, WritesFacts
  <1>5. ~(result'[r] = "none" /\ actor'[r].pc \in {"idle", "create"}) /\ actor'[r].pc # "create"
    <2>1. CASE a \in Requests
      BY <1>2, <1>4, <2>1 DEF StateInv
    <2>2. CASE a \notin Requests
      <3>1. record[r].status # "absent" /\ r \in Actors \ {a}
        BY <1>1, <1>2, <2>2 DEF PresentOK, Actors
      <3> QED BY <1>2, <1>4, <2>2, <3>1 DEF RequestOK, NotAskedYet
    <2> QED BY <2>1, <2>2
  <1>6. /\ r \notin lost' => r \notin lost /\ actor[a].copy = record[r]
        /\ lost \subseteq lost' /\ lost' \subseteq Requests
    BY <1>1, <1>2 DEF Overwrites, HolderOK, StateInv
  <1>7. result'[r] = "approved" => Told(r, "approved", told')
    <2>1. result'[r] = "approved" => result[r] = "approved"
      BY <1>2 DEF StateInv
    <2> QED BY <1>2, <2>1 DEF RequestOK, Told
  <1>8. /\ result' \in [Requests -> {"none", "allowed", "approved", "refused"}]
        /\ \A q \in Requests \ {r} : result'[q] = result[q]
    BY <1>2 DEF StateInv
  <1>9. IdleActor.pc \notin Holding /\ IdleActor.pc # "create" /\ PresentOK(a, IdleActor, record)
    BY IdleOK DEF Holding, Writes, PresentOK
  <1> HIDE DEF r
  <1>10. r = actor[a].req
    BY DEF r
  <1> QED
    BY <1>2, <1>3, <1>5, <1>6, <1>7, <1>8, <1>9, <1>10, Written

LEMMA ExpireKeeps ==
    ASSUME StateInv, DecisionInv, NEW a \in Actors, Expire(a)
    PROVE  StateInv' /\ DecisionInv'
  <1> DEFINE r == actor[a].req
             content == [actor[a].copy EXCEPT !.status = "expired"]
  <1>1. actor[a].pc = "expire" /\ actor[a].pc \in Writes /\ actor[a].pc # "idle"
    BY DEF Expire, Writes
  <1>2. /\ actor[a] \in Actor /\ ActorOK(a, actor[a]) /\ r \in Requests /\ RequestOK(r)
    BY <1>1, BusyFacts
  <1>3. RecordOK(actor[a].copy) /\ actor[a].copy.status = "pending"
    BY <1>1, <1>2 DEF ActorOK
  <1>4. /\ RecordOK(content) /\ content.status = "expired" /\ content.used = actor[a].copy.used
        /\ content.status \notin Answers
    BY <1>3 DEF RecordOK, Record, Answers
  <1>5. /\ Replace(r, content, [actor EXCEPT ![a] = IdleActor]) /\ Overwrites(a)
        /\ UNCHANGED <<now, mode, told, uses>>
        /\ result' = IF a \in Requests THEN [result EXCEPT ![a] = "refused"] ELSE result
    BY DEF Expire
  <1> HIDE DEF content
  <1>6. r \notin lost /\ actor[a].copy = record[r] =>
           told[r] = {} /\ uses[r] <= 1 /\ (~content.used => uses[r] = 0)
    BY <1>2, <1>3, <1>4 DEF RequestOK, Answers
  <1>7. /\ told' \in [Requests -> SUBSET [answer : Answers, by : Parties]]
        /\ uses' \in [Requests -> Nat]
    BY <1>5 DEF StateInv
  <1> QED
    BY <1>1, <1>4, <1>5, <1>6, <1>7, HandsBack

LEMMA DecideKeeps ==
    ASSUME StateInv, DecisionInv, NEW p \in Parties, Decide(p)
    PROVE  StateInv' /\ DecisionInv'
  <1> DEFINE r == actor[p].req
             d == [answer |-> actor[p].answer, by |-> p]
             content == WithAnswer(p)
  <1>1. /\ p \in Actors /\ p \notin Requests /\ actor[p].pc = "decide"
        /\ actor[p].pc \in Writes /\ actor[p].pc # "idle"
    BY ApprovalAssumption DEF Decide, Writes, Actors
  <1>2. /\ actor[p] \in Actor /\ ActorOK(p, actor[p]) /\ r \in Requests /\ RequestOK(r)
    BY <1>1, BusyFacts
  <1>3. /\ RecordOK(actor[p].copy) /\ actor[p].copy.status = "pending"
        /\ actor[p].answer \in Answers /\ actor[p].at + TokenLife \in Nat
    BY <1>1, <1>2, ApprovalAssumption DEF ActorOK, Actor
  <1>4. /\ content.status = actor[p].answer /\ content.used = actor[p].copy.used
        /\ content.status = "approved" => content.token = p
        /\ content.status \in Answers /\ content.status # "absent"
        /\ RecordOK(content)
    <2>1. CASE actor[p].answer = "approved"
      <3>1. /\ content = [actor[p].copy EXCEPT !.status = "approved", !.token = p,
                                               !.tokenExpires = actor[p].at + TokenLife]
            /\ p # NoToken
        BY <2>1, ApprovalAssumption DEF WithAnswer
      <3> HIDE DEF content
      <3> QED BY <1>3, <2>1, <3>1 DEF RecordOK, Record, Answers
    <2>2. CASE actor[p].answer = "denied"
      <3>1. content = [actor[p].copy EXCEPT !.status = "denied"]
        BY <2>2 DEF WithAnswer
      <3> HIDE DEF content
      <3> QED BY <1>3, <2>2, <3>1 DEF RecordOK, Record, Answers
    <2> QED BY <1>3, <2>1, <2>2 DEF Answers
  <1>5. /\ Replace(r, content, [actor EXCEPT ![p] = IdleActor]) /\ Overwrites(p)
        /\ UNCHANGED <<now, mode, result, uses>>
        /\ told' = [told EXCEPT ![r] = @ \cup {d}]
    BY DEF Decide
  <1>6. d \in [answer : Answers, by : Parties] /\ d.answer = actor[p].answer /\ d.by = p
    BY <1>3
  <1> HIDE DEF content, d
  <1>7. /\ told' \in [Requests -> SUBSET [answer : Answers, by : Parties]]
        /\ uses' \in [Requests -> Nat]
        /\ told'[r] = told[r] \cup {d}
        /\ \A q \in Requests \ {r} : told'[q] = told[q] /\ uses'[q] = uses[q]
    BY <1>2, <1>5, <1>6 DEF StateInv
  <1>8. r \notin lost /\ actor[p].copy = record[r] =>
           told'[r] = {d} /\ uses[r] <= 1 /\ (~content.used => uses[r] = 0)
    BY <1>2, <1>3, <1>4, <1>7 DEF RequestOK, Answers
  <1>9. content.status = "approved" => Told(r, "approved", told')
    BY <1>4, <1>6, <1>7 DEF Told
  <1>10. r \notin lost /\ actor[p].copy = record[r] =>
              /\ \A e \in told'[r] : /\ content.status = e.answer
                                     /\ e.answer = "approved" => content.token = e.by
              /\ uses'[r] <= 1 /\ (~content.used => uses'[r] = 0)
    BY <1>4, <1>5, <1>6, <1>8
  <1>11. told[r] \subseteq told'[r]
         /\ result' = IF p \in Requests THEN [result EXCEPT ![p] = "refused"] ELSE result
    BY <1>1, <1>5, <1>7
  <1> QED
    BY <1>1, <1>4, <1>5, <1>7, <1>9, <1>10, <1>11, HandsBack

LEMMA UseTokenKeeps ==
    ASSUME StateInv, DecisionInv, NEW p \in Parties, UseToken(p)
    PROVE  StateInv' /\ DecisionInv'
  <1> DEFINE r == actor[p].req
             content == [actor[p].copy EXCEPT !.used = TRUE]
  <1>1. /\ p \in Actors /\ p \notin Requests /\ actor[p].pc = "use"
        /\ actor[p].pc \in Writes /\ actor[p].pc # "idle" /\ actor[p].pc \in Holding
    BY ApprovalAssumption DEF UseToken, Writes, Actors, Holding
  <1>2. /\ actor[p] \in Actor /\ ActorOK(p, actor[p]) /\ r \in Requests /\ RequestOK(r)
        /\ HolderOK(actor[p], record, told)
    BY <1>1, BusyFacts
  <1>3. RecordOK(actor[p].copy) /\ actor[p].copy.status = "approved" /\ ~actor[p].copy.used
    BY <1>1, <1>2 DEF ActorOK
  <1>4. /\ RecordOK(content) /\ content.status = "approved" /\ content.used
        /\ content.token = actor[p].copy.token
    BY <1>3 DEF RecordOK, Record
  <1>5. /\ Replace(r, content, [actor EXCEPT ![p] = IdleActor]) /\ Overwrites(p)
        /\ UNCHANGED <<now, mode, result, told>>
        /\ uses' = [uses EXCEPT ![r] = @ + 1]
    BY DEF UseToken
  <1> HIDE DEF content
  <1>6. /\ told' \in [Requests -> SUBSET [answer : Answers, by : Parties]]
        /\ uses' \in [Requests -> Nat] /\ uses'[r] = uses[r] + 1
        /\ \A q \in Requests \ {r} : told'[q] = told[q] /\ uses'[q] = uses[q]
    BY <1>2, <1>5 DEF StateInv
  <1>7. Told(r, "approved", told')
    BY <1>1, <1>2, <1>3, <1>5 DEF HolderOK
  <1>8. r \notin lost /\ actor[p].copy = record[r] =>
              /\ \A e \in told'[r] : /\ content.status = e.answer
                                     /\ e.answer = "approved" => content.token = e.by
              /\ uses'[r] <= 1
    BY <1>2, <1>3, <1>4, <1>5, <1>6 DEF RequestOK
  <1>9. /\ told[r] \subseteq told'[r] /\ content.status # "absent" /\ content.status \in Answers
        /\ result' = IF p \in Requests THEN [result EXCEPT ![p] = "refused"] ELSE result
    BY <1>1, <1>4, <1>5 DEF Answers
  <1> QED
    BY <1>1, <1>4, <1>5, <1>6, <1>7, <1>8, <1>9, HandsBack

LEMMA OthersKeep ==
    ASSUME StateInv, DecisionInv, Tick \/ SetMode \/ UNCHANGED vars
    PROVE  StateInv' /\ DecisionInv'
  <1>1. UNCHANGED <<record, actor, result, told, uses, lost>>
    BY DEF Tick, SetMode, vars
  <1>2. now' \in Nat \ {0} /\ mode' \in AllModes
    BY ApprovalAssumption DEF Tick, SetMode, vars, StateInv
  <1>3. StateInv'
    BY <1>1, <1>2 DEF StateInv
  <1>4. DecisionInv'
    BY <1>1 DEF DecisionInv, RequestOK, NotAskedYet
  <1> QED BY <1>3, <1>4

-----------------------------------------------------------------------------
(* The theorems.                                                           *)

LEMMA InitHolds == Init => StateInv /\ DecisionInv
  <1> SUFFICES ASSUME Init PROVE StateInv /\ DecisionInv
    OBVIOUS
  <1>1. StateInv
    BY IdleOK, ApprovalAssumption DEF Init, StateInv, RecordOK, Actors
  <1>2. ASSUME NEW a \in Actors
        PROVE  HolderOK(actor[a], record, told) /\ PresentOK(a, actor[a], record)
    BY IdleOK DEF Init, HolderOK, PresentOK, Holding, Writes
  <1>3. ASSUME NEW r \in Requests
        PROVE  RequestOK(r)
    BY IdleOK DEF Init, RequestOK, NotAskedYet, Actors, Answers
  <1> QED BY <1>1, <1>2, <1>3 DEF DecisionInv

LEMMA StepKeeps == StateInv /\ DecisionInv /\ [Next]_vars => StateInv' /\ DecisionInv'
  <1> SUFFICES ASSUME StateInv, DecisionInv, [Next]_vars
               PROVE  StateInv' /\ DecisionInv'
    OBVIOUS
  <1>1. CASE \E r \in Requests : Call(r)
    BY <1>1, AskKeeps, CreateKeeps, WaitKeeps, CheckAnswerKeeps DEF Call
  <1>2. CASE \E p \in Parties : Act(p)
    BY <1>2, CheckTaskKeeps, DecideKeeps, UseTokenKeeps, BeginKeeps DEF Act
  <1>3. CASE \E a \in Actors : Read(a) \/ MarkOverdue(a) \/ Expire(a)
    BY <1>3, ReadKeeps, MarkOverdueKeeps, ExpireKeeps
  <1>4. CASE Tick \/ SetMode \/ UNCHANGED vars
    BY <1>4, OthersKeep
  <1> QED BY <1>1, <1>2, <1>3, <1>4 DEF Next

LEMMA Always == Spec => [](StateInv /\ DecisionInv)
  BY InitHolds, StepKeeps, PTL DEF Spec

\* Every record, actor and result keeps its type, and a record holds the hash of
\* a token exactly when it is approved (create_approval_request to
\* verify_approval_token of approval.py).
THEOREM TypeInvariant == Spec => []TypeOK
  BY Always, StateGivesType, PTL

\* Whatever callers, people and lists do at the same time: as long as no write to
\* a record was lost, a decision confirmed to a person is what the record says,
\* for approvals with the token that this person was given (decide_approval).
THEOREM DecisionTheorem == Spec => []DecisionStands
  <1>1. StateInv /\ DecisionInv => DecisionStands
    BY DEF StateInv, DecisionInv, RequestOK, DecisionStands
  <1> QED BY <1>1, Always, PTL

\* A caller of require_approval goes on as approved only when somebody was told
\* that the request is approved; with no write lost, nobody was told the opposite.
THEOREM ApprovalTheorem == Spec => []ActsOnApproval
  <1>1. StateInv /\ DecisionInv => ActsOnApproval
    BY DEF StateInv, DecisionInv, RequestOK, ActsOnApproval, Told
  <1> QED BY <1>1, Always, PTL

\* verify_approval_token accepts the token of an approval at most once, as long
\* as no write to its record was lost.
THEOREM TokenTheorem == Spec => []TokenUsedOnce
  <1>1. StateInv /\ DecisionInv => TokenUsedOnce
    BY DEF StateInv, DecisionInv, RequestOK, TokenUsedOnce
  <1> QED BY <1>1, Always, PTL

=============================================================================
